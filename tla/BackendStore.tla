---------------------------- MODULE BackendStore ----------------------------
(***************************************************************************)
(* Clients write to one repository at the same time: UpsertCollection,     *)
(* DeleteCollection, UpsertItem and DeleteItem of                          *)
(*   inmem       one critical section under the write lock                 *)
(*   spatialite  one SQL statement; the items table references collections *)
(*               ON DELETE CASCADE                                         *)
(*   opensearch  one or more HTTP calls to a cluster, each of which may    *)
(*               fail, have its answer lost, or be carried out late        *)
(* A step is one call.  The request is answered when its last call         *)
(* returns.  The content of a collection is left out, and equal calls that *)
(* are late at the same time count as one.                                 *)
(***************************************************************************)
EXTENDS Naturals, FiniteSets

CONSTANTS
  Cols, Ids, Vals,  \* collection ids, item ids, contents of an item
  Absent,           \* no such item
  Clients, Idle,
  Backends,         \* which backends to consider
  IndexNames,       \* opensearch: which maps from collection ids to indices
  MaxLate           \* bound: calls that are late at the same time

ASSUME StoreAssumption ==
  /\ Absent \notin Vals /\ "col" \notin Ids   \* "col" is a tag, see Places
  /\ Backends \subseteq {"inmem", "spatialite", "opensearch"}
  /\ IndexNames \subseteq [Cols -> Cols]
  /\ MaxLate \in Nat

Requests ==
  [op : {"UpsertCollection", "DeleteCollection"}, col : Cols]
  \union [op : {"UpsertItem"}, col : Cols, id : Ids, val : Vals]
  \union [op : {"DeleteItem"}, col : Cols, id : Ids]
ASSUME IdleAssumption == Idle \notin Requests

VARIABLES
  backend,
  indexName,    \* where a collection keeps its items (see itemsIndex)
  cols,         \* collections: the map, table or index of that name
  item,         \* items by index and id
  placeholder,  \* opensearch: the indices that hold the item __init__
  req,          \* the request a client waits for
  call,         \* the call it is at
  answer,       \* how the last step answered a client
  late,         \* opensearch: calls given up that the cluster may still do
  settled,      \* history: what each place holds, as far as answers tell
  alone,        \* history: no write of the same place overlapped the request
  dirty         \* history: indices where a call on the placeholder went wrong

engineVars == <<cols, item, placeholder>>
confVars == <<backend, indexName>>
histVars == <<settled, alone, dirty>>
vars == <<confVars, engineVars, req, call, answer, late, histVars>>

(* The index of a collection's items, named by a collection id.  opensearch *)
(* sanitizes the id, so that two collections may have one index.            *)
itemsIndex(c) == indexName[c]

(* Places that can be read: collections (GetCollection) and items (GetItem) *)
Places == {<<c, "col">> : c \in Cols} \union (Cols \X Ids)
Reads(p) == IF p[2] # "col" THEN item[p[1]][p[2]]
            ELSE IF p[1] \in cols THEN "present" ELSE Absent

Calls == {"write", "init", "uninit", "drop"}
Busy(k) == req[k] # Idle

Init ==
  /\ backend \in Backends
  /\ IF backend = "opensearch" THEN indexName \in IndexNames
                             ELSE indexName = [c \in Cols |-> c]
  /\ cols = {} /\ item = [c \in Cols |-> [i \in Ids |-> Absent]]
  /\ placeholder = {}
  /\ req = [k \in Clients |-> Idle] /\ call = [k \in Clients |-> "write"]
  /\ answer = "nothing" /\ late = {}
  /\ settled = [p \in Places |-> Absent]
  /\ alone = [k \in Clients |-> TRUE] /\ dirty = {}

----------------------------------------------------------------------------
(* What one call does to the store                                         *)

Cascades == backend # "opensearch"   \* the statement takes the items along

(* Whether "write", the first call of every request, finds what it needs:  *)
(* deletes need their target, and items need their collection, except in   *)
(* opensearch, where writing an item creates its index.                    *)
Found(r) ==
  CASE r.op = "UpsertCollection" -> TRUE
    [] r.op = "DeleteCollection" -> r.col \in cols
    [] r.op = "UpsertItem" -> backend = "opensearch" \/ r.col \in cols
    [] r.op = "DeleteItem" -> item[itemsIndex(r.col)][r.id] # Absent

(* Mutant: the map of the collection's items is gone with them.            *)
EmptiedAway(c) == [item EXCEPT ![itemsIndex(c)] = <<>>]

Emptied(c) == [item EXCEPT ![itemsIndex(c)] = [i \in Ids |-> Absent]]

Write(r) ==
  /\ cols' = CASE r.op = "UpsertCollection" -> cols \union {r.col}
               [] r.op = "DeleteCollection" -> cols \ {r.col}
               [] OTHER -> cols
  /\ item' = CASE r.op = "UpsertItem" ->
                    [item EXCEPT ![itemsIndex(r.col)][r.id] = r.val]
               [] r.op = "DeleteItem" ->
                    [item EXCEPT ![itemsIndex(r.col)][r.id] = Absent]
               [] r.op = "DeleteCollection" /\ Cascades -> Emptied(r.col)
               [] OTHER -> item
  /\ UNCHANGED placeholder

(* The call c of the request r is carried out.                             *)
Carry(c, r) ==
  \/ c = "write" /\ IF Found(r) THEN Write(r) ELSE UNCHANGED engineVars
  \/ /\ c = "init" /\ placeholder' = placeholder \union {itemsIndex(r.col)}
     /\ UNCHANGED <<cols, item>>
  \/ /\ c = "uninit" /\ placeholder' = placeholder \ {itemsIndex(r.col)}
     /\ UNCHANGED <<cols, item>>
  \/ /\ c = "drop"
     /\ item' = Emptied(r.col)
     /\ placeholder' = placeholder \ {itemsIndex(r.col)}
     /\ UNCHANGED cols

----------------------------------------------------------------------------
(* What the answers tell (history only)                                    *)

(* The places a request writes.                                            *)
Touches(r) ==
  LET n == itemsIndex(r.col) IN
  CASE r.op = "UpsertCollection" -> {<<r.col, "col">>}
    [] r.op = "DeleteCollection" -> {<<r.col, "col">>} \union ({n} \X Ids)
    [] OTHER -> {<<n, r.id>>}

Clash(r, s) == Touches(r) \intersect Touches(s) # {}

(* What an answer tells of a place the request touches: nil, what was      *)
(* written; ErrNotFound and ErrConflict, that nothing is there, except for *)
(* the items of a collection that opensearch does not know.                *)
Tells(r, a, p) ==
  CASE a = "error" -> "unknown"
    [] a = "ok" /\ r.op = "UpsertCollection" -> "present"
    [] a = "ok" /\ r.op = "UpsertItem" -> r.val
    [] a # "ok" /\ r.op = "DeleteCollection" /\ ~Cascades /\ p[2] # "col" -> "unknown"
    [] OTHER -> Absent

Learn(k, a) ==
  settled' = [p \in Places |->
    IF p \notin Touches(req[k]) THEN settled[p]
    ELSE IF /\ alone[k]
            /\ \A x \in late' : x[1] \in {"write", "drop"} => p \notin Touches(x[2])
         THEN Tells(req[k], a, p) ELSE "unknown"]

----------------------------------------------------------------------------
(* Requests                                                                *)

Request(k, r) ==
  /\ ~Busy(k)
  /\ req' = [req EXCEPT ![k] = r] /\ answer' = "nothing"
  /\ settled' = [p \in Places |-> IF p \in Touches(r) THEN "unknown" ELSE settled[p]]
  /\ alone' = [j \in Clients |->
       IF j = k THEN \A o \in Clients : Busy(o) => ~Clash(req[o], r)
       ELSE alone[j] /\ (Busy(j) => ~Clash(req[j], r))]
  /\ UNCHANGED <<confVars, engineVars, call, late, dirty>>

Answer(k, a) ==
  /\ req' = [req EXCEPT ![k] = Idle] /\ call' = [call EXCEPT ![k] = "write"]
  /\ answer' = a
  /\ Learn(k, a) /\ alone' = [alone EXCEPT ![k] = TRUE]

Continue(k, c) ==
  /\ call' = [call EXCEPT ![k] = c] /\ answer' = "nothing"
  /\ UNCHANGED <<req, settled, alone>>

(* The first call finds nothing: 404 or a violated foreign key.            *)
WriteRefused(k) ==
  /\ Busy(k) /\ call[k] = "write" /\ ~Found(req[k])
  /\ UNCHANGED <<confVars, engineVars, late, dirty>>
  /\ Answer(k, IF backend = "spatialite" /\ req[k].op = "UpsertItem"
               THEN "conflict" ELSE "notfound")

(* Mutant: opensearch deletes the collection and not its index.            *)
WriteSucceedsAtOnce(k) ==
  /\ Busy(k) /\ call[k] = "write" /\ Found(req[k])
  /\ Carry("write", req[k])
  /\ UNCHANGED <<confVars, late, dirty>>
  /\ IF backend = "opensearch" /\ req[k].op = "UpsertCollection"
     THEN Continue(k, "init")
     ELSE Answer(k, "ok")

(* UpsertCollection of opensearch goes on to create the index by writing   *)
(* an item and deleting it; DeleteCollection, to delete the index.         *)
WriteSucceeds(k) ==
  /\ Busy(k) /\ call[k] = "write" /\ Found(req[k])
  /\ Carry("write", req[k])
  /\ UNCHANGED <<confVars, late, dirty>>
  /\ IF backend = "opensearch" /\ req[k].op = "UpsertCollection"
     THEN Continue(k, "init")
     ELSE IF backend = "opensearch" /\ req[k].op = "DeleteCollection"
     THEN Continue(k, "drop")
     ELSE Answer(k, "ok")

(* Mutant: the placeholder is left for the next upsert to remove.          *)
InitSucceedsOnly(k) ==
  /\ Busy(k) /\ call[k] = "init"
  /\ Carry("init", req[k])
  /\ UNCHANGED <<confVars, late, dirty>>
  /\ Answer(k, "ok")

InitSucceeds(k) ==
  /\ Busy(k) /\ call[k] = "init"
  /\ Carry("init", req[k])
  /\ UNCHANGED <<confVars, late, dirty>>
  /\ Continue(k, "uninit")

InitPending(n) == \E x \in late : x[1] = "init" /\ itemsIndex(x[2].col) = n

(* The placeholder is deleted, or the index with all it holds (404 counts  *)
(* as success).                                                            *)
LastSucceeds(k) ==
  /\ Busy(k) /\ call[k] \in {"uninit", "drop"}
  /\ Carry(call[k], req[k])
  /\ LET n == itemsIndex(req[k].col) IN
     dirty' = IF InitPending(n) THEN dirty ELSE dirty \ {n}
  /\ UNCHANGED <<confVars, late>>
  /\ Answer(k, "ok")

(* A call does not return: not carried out, carried out although its       *)
(* answer is lost, or still on its way.                                    *)
CallLost(k) ==
  /\ Busy(k) /\ backend # "inmem"
  /\ \/ UNCHANGED <<engineVars, late>>
     \/ Carry(call[k], req[k]) /\ UNCHANGED late
     \/ /\ backend = "opensearch" /\ Cardinality(late) < MaxLate
        /\ late' = late \union {<<call[k], req[k]>>}
        /\ UNCHANGED engineVars
  /\ dirty' = IF call[k] \in {"init", "uninit"}
              THEN dirty \union {itemsIndex(req[k].col)} ELSE dirty
  /\ UNCHANGED confVars

(* Mutant: an error of DeleteIndex is dropped as well.                     *)
CallFailsQuietly(k) ==
  CallLost(k) /\ Answer(k, IF call[k] = "write" THEN "error" ELSE "ok")

(* The request goes on with an error; one from "init" or "uninit" is       *)
(* dropped.                                                                *)
CallFails(k) ==
  CallLost(k) /\ Answer(k, IF call[k] \in {"init", "uninit"} THEN "ok" ELSE "error")

(* The process dies during a call: the client gets no answer.              *)
Killed(k) == CallLost(k) /\ Answer(k, "error")

(* A late call is carried out.                                             *)
Arrives(x) ==
  /\ x \in late /\ late' = late \ {x}
  /\ Carry(x[1], x[2])
  /\ alone' = [k \in Clients |-> alone[k] /\ (Busy(k) => ~Clash(req[k], x[2]))]
  /\ answer' = "nothing"
  /\ UNCHANGED <<confVars, req, call, settled, dirty>>

Next ==
  \/ \E k \in Clients :
       \/ \E r \in Requests : Request(k, r)
       \/ WriteRefused(k) \/ WriteSucceeds(k) \/ InitSucceeds(k) \/ LastSucceeds(k)
       \/ CallFails(k) \/ Killed(k)
  \/ \E x \in late : Arrives(x)

Spec == Init /\ [][Next]_vars

----------------------------------------------------------------------------
(* Properties                                                              *)

TypeOK ==
  /\ backend \in Backends /\ indexName \in [Cols -> Cols]
  /\ cols \subseteq Cols /\ item \in [Cols -> [Ids -> Vals \union {Absent}]]
  /\ placeholder \subseteq Cols
  /\ req \in [Clients -> Requests \union {Idle}] /\ call \in [Clients -> Calls]
  /\ answer \in {"nothing", "ok", "notfound", "conflict", "error"}
  /\ late \in SUBSET (Calls \X Requests)
  /\ alone \in [Clients -> BOOLEAN] /\ dirty \subseteq Cols

(* Whoever reads a place that no request in progress or call under way     *)
(* writes gets what the last answered write of it, unless another          *)
(* overlapped it, says is there.  In particular an item written with       *)
(* success is neither lost nor changed, one deleted does not come back,    *)
(* and of a deleted collection nothing remains.                            *)
SettledReads == \A p \in Places : settled[p] # "unknown" => Reads(p) = settled[p]

(* The placeholder item of an index is visible only while an               *)
(* UpsertCollection is about to delete it, or after a call on it went      *)
(* wrong; another upsert or the deletion of the collection repairs that.   *)
PlaceholderGone ==
  \A n \in placeholder \ dirty :
    \E k \in Clients : Busy(k) /\ call[k] = "uninit" /\ itemsIndex(req[k].col) = n

(* All three backends keep the contract of ItemStore: a request ended by   *)
(* an error leaves behind only parts of itself.                            *)
PartOf(c, r) ==
  IF c = "drop" \/ r.op \in {"UpsertItem", "DeleteItem"} THEN "items" ELSE "col"

Contract == INSTANCE ItemStore WITH
  space <- [c \in Cols |-> itemsIndex(c)],
  asked <- req,
  done  <- [k \in Clients |-> IF call[k] = "write" THEN {} ELSE {"col"}],
  told  <- IF answer \in {"notfound", "conflict"} THEN "refused" ELSE answer,
  stray <- {<<x[2], PartOf(x[1], x[2])>> : x \in {y \in late : y[1] \in {"write", "drop"}}}

KeepsContract == Contract!Spec
=============================================================================
