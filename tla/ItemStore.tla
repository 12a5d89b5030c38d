----------------------------- MODULE ItemStore -----------------------------
(***************************************************************************)
(* What the writing half of repository.Repository promises to clients that *)
(* call it concurrently (pkg/repository/repository.go): each request takes *)
(* effect while it is pending, whole or in parts; it is answered with nil  *)
(* only when all of it has, and with ErrNotFound or ErrConflict only when, *)
(* at that moment, what it needs is not there and none of it has; a        *)
(* request answered with any other error may have taken effect in part,    *)
(* and the rest may still do so later.                                     *)
(*                                                                         *)
(* Items live in a space; collections of one space share their items, as   *)
(* opensearch collections do whose ids map to one index name.  The other   *)
(* backends give every collection a space of its own.                      *)
(***************************************************************************)

CONSTANTS Cols, Ids, Vals,  \* collection ids, item ids, contents of an item
          Absent,           \* the content of an item that is not there
          Clients, Idle

VARIABLES
  space,  \* the space of each collection; never changes
  cols,   \* the collections
  item,   \* the items, by space and id
  asked,  \* the request a client waits for
  done,   \* which parts of it have taken effect
  told,   \* the answer the last step gave to a client
  stray   \* parts of failed requests that may still take effect

storeVars == <<space, cols, item, asked, done, told, stray>>

Requests ==
  [op : {"UpsertCollection", "DeleteCollection"}, col : Cols]
  \union [op : {"UpsertItem"}, col : Cols, id : Ids, val : Vals]
  \union [op : {"DeleteItem"}, col : Cols, id : Ids]

(* A request concerns the collection itself, items of its space, or both.  *)
Parts == {"col", "items"}
PartsOf(r) == CASE r.op = "UpsertCollection" -> {"col"}
                [] r.op = "DeleteCollection" -> {"col", "items"}
                [] OTHER -> {"items"}

Init ==
  /\ space \in [Cols -> Cols]
  /\ cols = {} /\ item = [s \in Cols |-> [i \in Ids |-> Absent]]
  /\ asked = [k \in Clients |-> Idle] /\ done = [k \in Clients |-> {}]
  /\ told = "nothing" /\ stray = {}

Ask(k) ==
  /\ asked[k] = Idle
  /\ \E r \in Requests : asked' = [asked EXCEPT ![k] = r]
  /\ told' = "nothing"
  /\ UNCHANGED <<space, cols, item, done, stray>>

(* The parts S of the request r take effect.                               *)
TakeEffect(r, S) ==
  /\ cols' = IF "col" \notin S THEN cols
             ELSE IF r.op = "UpsertCollection" THEN cols \union {r.col}
             ELSE cols \ {r.col}
  /\ item' = IF "items" \notin S THEN item
             ELSE [item EXCEPT ![space[r.col]] =
                     CASE r.op = "UpsertItem" -> [@ EXCEPT ![r.id] = r.val]
                       [] r.op = "DeleteItem" -> [@ EXCEPT ![r.id] = Absent]
                       [] OTHER -> [i \in Ids |-> Absent]]

(* The request ends, and the client learns how.                            *)
Tell(k, answer) ==
  /\ asked' = [asked EXCEPT ![k] = Idle] /\ done' = [done EXCEPT ![k] = {}]
  /\ told' = answer

Rest(k) == PartsOf(asked[k]) \ done[k]

(* Parts take effect, none on a step that only concludes.                  *)
Progress(k) ==
  /\ asked[k] # Idle
  /\ \E S \in SUBSET Rest(k) :
       /\ TakeEffect(asked[k], S)
       /\ \/ /\ done' = [done EXCEPT ![k] = @ \union S]
             /\ told' = "nothing" /\ UNCHANGED asked
          \/ S = Rest(k) /\ Tell(k, "ok")
  /\ UNCHANGED <<space, stray>>

Missing(r) == IF r.op = "DeleteItem" THEN item[space[r.col]][r.id] = Absent
              ELSE r.col \notin cols

Refuse(k) ==
  /\ asked[k] # Idle /\ done[k] = {}
  /\ asked[k].op # "UpsertCollection" /\ Missing(asked[k])
  /\ Tell(k, "refused")
  /\ UNCHANGED <<space, cols, item, stray>>

Fail(k) ==
  /\ asked[k] # Idle
  /\ \E S \in SUBSET Rest(k) : \E T \in SUBSET (Rest(k) \ S) :
       /\ TakeEffect(asked[k], S)
       /\ stray' = stray \union ({asked[k]} \X T)
  /\ Tell(k, "error")
  /\ UNCHANGED space

Stray ==
  /\ \E x \in stray :
       TakeEffect(x[1], {x[2]}) /\ stray' = stray \ {x}
  /\ told' = "nothing"
  /\ UNCHANGED <<space, asked, done>>

(* A step that shows nothing.                                              *)
Quiet ==
  /\ told' = "nothing"
  /\ UNCHANGED <<space, cols, item, asked, done, stray>>

Next == Stray \/ Quiet \/ \E k \in Clients : Ask(k) \/ Progress(k) \/ Refuse(k) \/ Fail(k)

Spec == Init /\ [][Next]_storeVars
=============================================================================
