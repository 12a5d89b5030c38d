------------------------- MODULE BackendStoreProofs -------------------------
(***************************************************************************)
(* Theorems about BackendStore, for any sets of collections, items,        *)
(* contents and clients, for any of the three backends, and for any number *)
(* of calls that are late.                                                 *)
(*                                                                         *)
(* SettledInv says when the answers can be relied on: as long as a place   *)
(* is settled, no request in progress and no late call writes it.  The     *)
(* other parts say what a request in progress that nobody overlapped knows *)
(* of the store between two of its calls, and that where deleting a        *)
(* collection takes its items along nothing is left of a collection that   *)
(* is not there.                                                           *)
(***************************************************************************)
EXTENDS BackendStore, TLAPS

(* What a call may belong to.                                              *)
StageOf(c, r) ==
  /\ c \in {"init", "uninit"} => r.op = "UpsertCollection"
  /\ c = "drop" => r.op = "DeleteCollection"

StageInv ==
  /\ \A k \in Clients : IF Busy(k) THEN StageOf(call[k], req[k]) ELSE call[k] = "write"
  /\ \A x \in late : StageOf(x[1], x[2])
  /\ backend # "opensearch" =>
       /\ late = {} /\ indexName = [c \in Cols |-> c]
       /\ \A k \in Clients : call[k] = "write"

CascadeInv ==
  Cascades => \A c \in Cols \ cols : \A i \in Ids : item[c][i] = Absent

(* What a request that nobody overlapped so far knows.                     *)
AloneInv ==
  \A k \in Clients : Busy(k) /\ alone[k] =>
    /\ \A j \in Clients \ {k} : Busy(j) => ~Clash(req[k], req[j])
    /\ call[k] \in {"init", "uninit"} => req[k].col \in cols
    /\ call[k] = "drop" => req[k].col \notin cols

Writing(x) == x[1] \in {"write", "drop"}

SettledInv ==
  /\ DOMAIN settled = Places
  /\ \A p \in Places : settled[p] # "unknown" =>
       /\ Reads(p) = settled[p]
       /\ \A k \in Clients : Busy(k) => p \notin Touches(req[k])
       /\ \A x \in late : Writing(x) => p \notin Touches(x[2])

PlaceInv ==
  /\ PlaceholderGone
  /\ \A x \in late : x[1] = "init" => itemsIndex(x[2].col) \in dirty

-----------------------------------------------------------------------------
(* What a request may ask.                                                 *)
LEMMA RequestShape ==
  ASSUME NEW r \in Requests
  PROVE  /\ r.op \in {"UpsertCollection", "DeleteCollection", "UpsertItem", "DeleteItem"}
         /\ r.col \in Cols
         /\ r.op \in {"UpsertItem", "DeleteItem"} => r.id \in Ids
         /\ r.op = "UpsertItem" => r.val \in Vals
  BY DEF Requests

(* What each call does to the store.                                       *)
LEMMA WriteEffect ==
  ASSUME NEW r \in Requests, Write(r)
  PROVE  /\ placeholder' = placeholder
         /\ r.op = "UpsertCollection" => cols' = cols \union {r.col} /\ item' = item
         /\ r.op = "DeleteCollection" =>
              /\ cols' = cols \ {r.col}
              /\ item' = IF Cascades THEN Emptied(r.col) ELSE item
         /\ r.op = "UpsertItem" =>
              /\ cols' = cols
              /\ item' = [item EXCEPT ![itemsIndex(r.col)][r.id] = r.val]
         /\ r.op = "DeleteItem" =>
              /\ cols' = cols
              /\ item' = [item EXCEPT ![itemsIndex(r.col)][r.id] = Absent]
  BY RequestShape DEF Write

(* A call of the engine keeps the types of what is stored.                 *)
LEMMA EngineType ==
  ASSUME TypeOK, NEW r \in Requests, NEW c \in Calls, Carry(c, r)
  PROVE  /\ cols' \subseteq Cols /\ item' \in [Cols -> [Ids -> Vals \union {Absent}]]
         /\ placeholder' \subseteq Cols
<1>1. r.col \in Cols /\ itemsIndex(r.col) \in Cols
  BY RequestShape DEF TypeOK, itemsIndex
<1>2. Emptied(r.col) \in [Cols -> [Ids -> Vals \union {Absent}]]
  BY <1>1 DEF TypeOK, Emptied
<1>3. CASE Write(r)
  <2> DEFINE Items == [Cols -> [Ids -> Vals \union {Absent}]]
  <2>1. ASSUME NEW i \in Ids, NEW v \in Vals \union {Absent}
        PROVE  [item EXCEPT ![itemsIndex(r.col)][i] = v] \in Items
    BY <1>1 DEF TypeOK
  <2>2. item \in Items /\ Emptied(r.col) \in Items
    BY <1>2 DEF TypeOK
  <2>4. item' \in Items
    <3> HIDE DEF Items
    <3>1. CASE r.op \in {"UpsertCollection", "DeleteCollection"}
      BY <1>3, <2>2, <3>1, WriteEffect
    <3>2. CASE r.op = "UpsertItem"
      <4>1. r.id \in Ids /\ r.val \in Vals \union {Absent}
        BY <3>2, RequestShape
      <4>2. item' = [item EXCEPT ![itemsIndex(r.col)][r.id] = r.val]
        BY <1>3, <3>2, WriteEffect
      <4>3. [item EXCEPT ![itemsIndex(r.col)][r.id] = r.val] \in Items
        BY <2>1, <4>1, Zenon
      <4> QED
        BY <4>2, <4>3
    <3>3. CASE r.op = "DeleteItem"
      <4>1. r.id \in Ids /\ Absent \in Vals \union {Absent}
        BY <3>3, RequestShape
      <4>2. item' = [item EXCEPT ![itemsIndex(r.col)][r.id] = Absent]
        BY <1>3, <3>3, WriteEffect
      <4>3. [item EXCEPT ![itemsIndex(r.col)][r.id] = Absent] \in Items
        BY <2>1, <4>1, Zenon
      <4> QED
        BY <4>2, <4>3
    <3> QED
      BY <3>1, <3>2, <3>3, RequestShape
  <2>3. cols' \subseteq Cols /\ placeholder' \subseteq Cols
    BY <1>1, <1>3, RequestShape, WriteEffect DEF TypeOK
  <2> QED
    BY <2>3, <2>4
<1>4. CASE UNCHANGED engineVars
  BY <1>4 DEF engineVars, TypeOK
<1>5. CASE c # "write"
  BY <1>1, <1>2, <1>5 DEF Carry, TypeOK
<1> QED
  BY <1>3, <1>4, <1>5 DEF Carry

(* A call changes no collection and no item but those its request writes.  *)
LEMMA CarryCols ==
  ASSUME TypeOK, NEW r \in Requests, NEW c \in Calls, Carry(c, r), StageOf(c, r),
         NEW d \in Cols, <<d, "col">> \notin Touches(r)
  PROVE  d \in cols' <=> d \in cols
<1>1. CASE Write(r)
  BY <1>1, RequestShape, WriteEffect DEF Touches
<1>2. CASE ~Write(r)
  BY <1>2 DEF Carry, engineVars
<1> QED
  BY <1>1, <1>2

(* A call leaves the items alone that its request does not touch,          *)
LEMMA CarryItems ==
  ASSUME TypeOK, NEW r \in Requests, NEW c \in Calls, Carry(c, r), StageOf(c, r),
         NEW n \in Cols, NEW i \in Ids, <<n, i>> \notin Touches(r)
  PROVE  item'[n][i] = item[n][i]
<1>1. /\ itemsIndex(r.col) \in Cols
      /\ item \in [Cols -> [Ids -> Vals \union {Absent}]]
  BY RequestShape DEF TypeOK, itemsIndex
<1>2. CASE r.op = "UpsertCollection"
  BY <1>2, WriteEffect DEF Carry, StageOf, engineVars
<1>3. CASE r.op = "DeleteCollection"
  <2>1. n # itemsIndex(r.col)
    BY <1>3 DEF Touches
  <2>2. item' = item \/ item' = Emptied(r.col)
    BY <1>3, WriteEffect DEF Carry, engineVars
  <2> QED
    BY <1>1, <2>1, <2>2 DEF Emptied
<1>4. CASE r.op \in {"UpsertItem", "DeleteItem"}
  <2>1. ~(n = itemsIndex(r.col) /\ i = r.id) /\ r.id \in Ids
    BY <1>4, RequestShape DEF Touches
  <2>2. item' = item \/ \E v : item' = [item EXCEPT ![itemsIndex(r.col)][r.id] = v]
    BY <1>4, WriteEffect DEF Carry, engineVars, StageOf
  <2>3. ASSUME NEW v, item' = [item EXCEPT ![itemsIndex(r.col)][r.id] = v]
        PROVE  item'[n][i] = item[n][i]
    BY <2>3, <2>1, <1>1
  <2> QED
    BY <2>2, <2>3
<1> QED
  BY <1>2, <1>3, <1>4, RequestShape

(* ... and every place its request does not touch.                         *)
LEMMA CarryTouches ==
  ASSUME TypeOK, NEW r \in Requests, NEW c \in Calls, Carry(c, r), StageOf(c, r),
         NEW p \in Places, p \notin Touches(r)
  PROVE  Reads(p)' = Reads(p)
<1>1. CASE p \in {<<d, "col">> : d \in Cols}
  BY <1>1, CarryCols DEF Reads
<1>2. CASE p \in Cols \X Ids
  BY <1>2, CarryItems, StoreAssumption DEF Reads
<1> QED
  BY <1>1, <1>2 DEF Places

-----------------------------------------------------------------------------
Answers == {"nothing", "ok", "notfound", "conflict", "error"}

(* A request that is answered, or goes on to its next call.                *)
LEMMA AnswerEffect ==
  ASSUME TypeOK, NEW k \in Clients, NEW a, Answer(k, a)
  PROVE  /\ req' \in [Clients -> Requests \union {Idle}]
         /\ call' \in [Clients -> Calls] /\ alone' \in [Clients -> BOOLEAN]
         /\ answer' = a
         /\ req'[k] = Idle /\ ~Busy(k)' /\ call'[k] = "write"
         /\ \A j \in Clients \ {k} :
              req'[j] = req[j] /\ call'[j] = call[j] /\ alone'[j] = alone[j]
  BY DEF TypeOK, Answer, Calls, Busy

(* What going on to the next call changes.                                 *)
LEMMA ContinueEffect ==
  ASSUME TypeOK, NEW k \in Clients, NEW c \in Calls, Continue(k, c)
  PROVE  /\ call' \in [Clients -> Calls]
         /\ answer' = "nothing" /\ UNCHANGED <<req, settled, alone>>
         /\ call'[k] = c /\ \A j \in Clients \ {k} : call'[j] = call[j]
  BY DEF TypeOK, Continue

(* Every step of a client but the request itself.                          *)
Proceeds(k) ==
  WriteRefused(k) \/ WriteSucceeds(k) \/ InitSucceeds(k) \/ LastSucceeds(k)
  \/ CallFails(k) \/ Killed(k)

(* A step of a request: the call is carried out, now or late, or not; then *)
(* the client has its answer or goes on.                                   *)
LEMMA ProceedsShape ==
  ASSUME TypeOK, NEW k \in Clients, Proceeds(k)
  PROVE  /\ Busy(k) /\ req[k] \in Requests /\ call[k] \in Calls
         /\ UNCHANGED confVars
         /\ UNCHANGED engineVars \/ Carry(call[k], req[k])
         /\ \/ late' = late
            \/ backend = "opensearch" /\ late' = late \union {<<call[k], req[k]>>}
         /\ \/ \E a \in Answers : Answer(k, a)
            \/ \E c \in Calls : Continue(k, c)
         /\ dirty' \subseteq Cols
<1>1. itemsIndex(req[k].col) \in Cols \/ ~Busy(k)
  BY RequestShape DEF TypeOK, Busy, itemsIndex
<1>2. CASE WriteRefused(k) \/ WriteSucceeds(k) \/ InitSucceeds(k) \/ LastSucceeds(k)
  BY <1>2 DEF WriteRefused, WriteSucceeds, InitSucceeds, LastSucceeds, TypeOK, Busy,
     Answers, Calls
<1>3. CASE CallFails(k) \/ Killed(k)
  BY <1>1, <1>3 DEF CallFails, Killed, CallLost, TypeOK, Busy, Answers, engineVars
<1> QED
  BY <1>2, <1>3 DEF Proceeds

(* Every step keeps the types.                                             *)
LEMMA NextKeepsType ==
  ASSUME TypeOK, [Next]_vars
  PROVE  TypeOK'
<1>1. ASSUME NEW k \in Clients, NEW r \in Requests, Request(k, r) PROVE TypeOK'
  BY <1>1 DEF Request, TypeOK, confVars, engineVars
<1>2. ASSUME NEW k \in Clients, Proceeds(k) PROVE TypeOK'
  <2>1. /\ Busy(k) /\ req[k] \in Requests /\ call[k] \in Calls
        /\ UNCHANGED confVars
        /\ UNCHANGED engineVars \/ Carry(call[k], req[k])
        /\ late' = late \/ late' = late \union {<<call[k], req[k]>>}
        /\ (\E a \in Answers : Answer(k, a)) \/ (\E c \in Calls : Continue(k, c))
        /\ dirty' \subseteq Cols
    BY <1>2, ProceedsShape
  <2>2. /\ cols' \subseteq Cols /\ item' \in [Cols -> [Ids -> Vals \union {Absent}]]
        /\ placeholder' \subseteq Cols
    BY <2>1, EngineType DEF TypeOK, engineVars
  <2>3. /\ req' \in [Clients -> Requests \union {Idle}]
        /\ call' \in [Clients -> Calls] /\ alone' \in [Clients -> BOOLEAN]
        /\ answer' \in Answers
    BY <2>1, AnswerEffect, ContinueEffect DEF TypeOK, Answers
  <2>4. backend' \in Backends /\ indexName' \in [Cols -> Cols]
    BY <2>1 DEF TypeOK, confVars
  <2>5. late' \in SUBSET (Calls \X Requests)
    BY <2>1 DEF TypeOK
  <2> QED
    BY <2>1, <2>2, <2>3, <2>4, <2>5 DEF TypeOK, Answers
<1>3. ASSUME NEW x \in late, Arrives(x) PROVE TypeOK'
  <2>1. x[1] \in Calls /\ x[2] \in Requests
    BY DEF TypeOK
  <2>2. /\ cols' \subseteq Cols /\ item' \in [Cols -> [Ids -> Vals \union {Absent}]]
        /\ placeholder' \subseteq Cols
    BY <1>3, <2>1, EngineType DEF Arrives
  <2> QED
    BY <1>3, <2>2 DEF Arrives, TypeOK, confVars, Answers
<1>4. CASE UNCHANGED vars
  BY <1>4 DEF vars, confVars, engineVars, histVars, TypeOK
<1> QED
  BY <1>1, <1>2, <1>3, <1>4 DEF Next, Proceeds

-----------------------------------------------------------------------------
(* A call is one that its request makes, and only opensearch makes others  *)
(* than "write".                                                           *)
LEMMA NextKeepsStage ==
  ASSUME TypeOK, StageInv, [Next]_vars
  PROVE  StageInv'
<1>1. ASSUME NEW k \in Clients, NEW r \in Requests, Request(k, r) PROVE StageInv'
  <2>1. /\ call' = call /\ late' = late /\ UNCHANGED confVars /\ call[k] = "write"
        /\ req' = [req EXCEPT ![k] = r]
    BY <1>1 DEF Request, StageInv
  <2> QED
    BY <2>1 DEF StageInv, StageOf, Busy, TypeOK, confVars
<1>2. ASSUME NEW k \in Clients, Proceeds(k) PROVE StageInv'
  <2>1. /\ Busy(k) /\ req[k] \in Requests /\ call[k] \in Calls
        /\ UNCHANGED confVars /\ StageOf(call[k], req[k])
        /\ \/ late' = late
           \/ backend = "opensearch" /\ late' = late \union {<<call[k], req[k]>>}
    BY <1>2, ProceedsShape DEF StageInv
  <2>2. /\ \A x \in late' : StageOf(x[1], x[2])
        /\ backend' # "opensearch" =>
             late' = {} /\ indexName' = [c \in Cols |-> c]
    BY <2>1 DEF StageInv, confVars
  <2>3. CASE \E a \in Answers : Answer(k, a)
    BY <2>1, <2>2, <2>3, AnswerEffect DEF StageInv, Busy, confVars
  <2>4. CASE \E c \in Calls : Continue(k, c)
    <3>1. PICK c \in Calls : Continue(k, c)
      BY <2>4
    <3>2. StageOf(c, req[k]) /\ (c = "write" \/ backend = "opensearch")
      BY <1>2, <2>1, <3>1, AnswerEffect, ContinueEffect
         DEF Proceeds, WriteRefused, WriteSucceeds, InitSucceeds, LastSucceeds,
         CallFails, Killed, StageOf, Answer, Continue, Busy, StageInv
    <3> QED
      BY <2>1, <2>2, <3>1, <3>2, ContinueEffect DEF StageInv, Busy, confVars
  <2> QED
    BY <1>2, <2>3, <2>4, ProceedsShape
<1>3. ASSUME NEW x \in late, Arrives(x) PROVE StageInv'
  BY <1>3 DEF Arrives, StageInv, Busy, confVars
<1>4. CASE UNCHANGED vars
  BY <1>4 DEF vars, confVars, engineVars, histVars, StageInv, Busy
<1> QED
  BY <1>1, <1>2, <1>3, <1>4 DEF Next, Proceeds

(* What the request of any call that is carried out, now or late, may be.  *)
LEMMA NextEngine ==
  ASSUME TypeOK, StageInv, [Next]_vars
  PROVE  \/ UNCHANGED engineVars
         \/ \E c \in Calls, r \in Requests :
              Carry(c, r) /\ StageOf(c, r) /\ (backend # "opensearch" => c = "write")
<1>1. ASSUME NEW k \in Clients, Proceeds(k)
      PROVE  /\ call[k] \in Calls /\ req[k] \in Requests
             /\ UNCHANGED engineVars \/ Carry(call[k], req[k])
             /\ StageOf(call[k], req[k])
             /\ backend # "opensearch" => call[k] = "write"
  BY <1>1, ProceedsShape DEF StageInv
<1>2. ASSUME NEW x \in late, Arrives(x)
      PROVE  /\ x[1] \in Calls /\ x[2] \in Requests /\ Carry(x[1], x[2])
             /\ StageOf(x[1], x[2]) /\ backend = "opensearch"
  BY <1>2 DEF Arrives, StageInv, TypeOK
<1>3. ASSUME NEW k \in Clients, NEW r \in Requests, Request(k, r)
      PROVE  UNCHANGED engineVars
  BY <1>3 DEF Request
<1> QED
  BY <1>1, <1>2, <1>3 DEF Next, Proceeds, vars

(* Deleting a collection takes its items along, and none is added to a     *)
(* collection that is not there.                                           *)
LEMMA NextKeepsCascade ==
  ASSUME TypeOK, StageInv, CascadeInv, [Next]_vars
  PROVE  CascadeInv'
<1>1. backend' = backend
  BY DEF Next, Request, WriteRefused, WriteSucceeds, InitSucceeds, LastSucceeds,
     CallFails, Killed, CallLost, Arrives, vars, confVars
<1> SUFFICES ASSUME Cascades PROVE CascadeInv'
  BY <1>1 DEF CascadeInv, Cascades
<1>2. indexName = [c \in Cols |-> c] /\ backend # "opensearch"
  BY DEF StageInv, Cascades
<1>3. CASE UNCHANGED engineVars
  BY <1>1, <1>3 DEF engineVars, CascadeInv, Cascades
<1>4. ASSUME NEW r \in Requests, Found(r), Write(r) PROVE CascadeInv'
  <2>1. r.col \in Cols /\ itemsIndex(r.col) = r.col
    BY <1>2, RequestShape DEF itemsIndex
  <2>0. item \in [Cols -> [Ids -> Vals \union {Absent}]]
    BY DEF TypeOK
  <2> SUFFICES ASSUME NEW c \in Cols \ cols', NEW i \in Ids PROVE item'[c][i] = Absent
    BY DEF CascadeInv
  <2>6. c \in Cols \ cols => item[c][i] = Absent
    BY DEF CascadeInv
  <2>2. CASE r.op = "UpsertCollection"
    <3>1. cols' = cols \union {r.col} /\ item' = item
      BY <1>4, <2>2, WriteEffect
    <3> QED
      BY <2>6, <3>1
  <2>3. CASE r.op = "DeleteCollection"
    <3>1. cols' = cols \ {r.col}
          /\ item' = [item EXCEPT ![r.col] = [n \in Ids |-> Absent]]
      BY <1>4, <2>1, <2>3, WriteEffect DEF Emptied
    <3> QED
      BY <2>0, <2>1, <2>6, <3>1
  <2>4. CASE r.op = "UpsertItem"
    <3>1. r.col \in cols /\ cols' = cols
      BY <1>2, <1>4, <2>4, WriteEffect DEF Found
    <3>2. item' = [item EXCEPT ![r.col][r.id] = r.val]
      BY <1>4, <2>1, <2>4, WriteEffect
    <3>3. c # r.col
      BY <3>1
    <3> QED
      BY <2>0, <2>1, <2>6, <3>1, <3>2, <3>3
  <2>5. CASE r.op = "DeleteItem"
    <3>1. cols' = cols /\ item' = [item EXCEPT ![r.col][r.id] = Absent]
      BY <1>4, <2>1, <2>5, WriteEffect
    <3> QED
      BY <2>0, <2>1, <2>6, <3>1
  <2> QED
    BY <2>2, <2>3, <2>4, <2>5, RequestShape
<1> QED
  BY <1>2, <1>3, <1>4, NextEngine DEF Carry

-----------------------------------------------------------------------------
(* The placeholder: whoever is about to delete it is there, or a call on   *)
(* it has gone wrong; a late call may still put it back.                   *)
LEMMA NextKeepsPlace ==
  ASSUME TypeOK, StageInv, PlaceInv, [Next]_vars
  PROVE  PlaceInv'
<1>0. indexName' = indexName
  BY DEF Next, Request, WriteRefused, WriteSucceeds, InitSucceeds, LastSucceeds,
     CallFails, Killed, CallLost, Arrives, vars, confVars
<1> DEFINE Deleting(n) ==
      \E k \in Clients : Busy(k) /\ call[k] = "uninit" /\ itemsIndex(req[k].col) = n
<1> USE <1>0 DEF itemsIndex
(* What is enough: a placeholder that was there before and whose client    *)
(* goes on, or one that a client or a late call puts there.                *)
<1>1. ASSUME NEW k \in Clients, NEW r \in Requests, Request(k, r) PROVE PlaceInv'
  <2>1. /\ ~Busy(k) /\ req' = [req EXCEPT ![k] = r]
        /\ UNCHANGED <<placeholder, call, late, dirty>>
    BY <1>1 DEF Request, engineVars
  <2> QED
    BY <2>1 DEF PlaceInv, PlaceholderGone, Busy, TypeOK
<1>2. ASSUME NEW k \in Clients, WriteRefused(k) \/ WriteSucceeds(k) PROVE PlaceInv'
  <2>1. /\ call[k] = "write" /\ UNCHANGED <<placeholder, late, dirty>>
        /\ (\E a : Answer(k, a)) \/ (\E c \in Calls : Continue(k, c))
    BY <1>2 DEF WriteRefused, WriteSucceeds, engineVars, Carry, Write, Calls
  <2>2. \A j \in Clients \ {k} : req'[j] = req[j] /\ call'[j] = call[j]
    BY <2>1, AnswerEffect, ContinueEffect
  <2> QED
    BY <2>1, <2>2 DEF PlaceInv, PlaceholderGone, Busy
<1>3. ASSUME NEW k \in Clients, InitSucceeds(k) PROVE PlaceInv'
  <2>1. /\ placeholder' = placeholder \union {itemsIndex(req[k].col)}
        /\ UNCHANGED <<late, dirty, req>> /\ Busy(k)
        /\ call'[k] = "uninit" /\ \A j \in Clients \ {k} : call'[j] = call[j]
    BY <1>3, ContinueEffect DEF InitSucceeds, Carry, Calls
  <2> QED
    BY <2>1 DEF PlaceInv, PlaceholderGone, Busy
<1>4. ASSUME NEW k \in Clients, LastSucceeds(k) PROVE PlaceInv'
  <2> DEFINE n == itemsIndex(req[k].col)
  <2>1. /\ placeholder' = placeholder \ {n} /\ late' = late
        /\ dirty' = IF InitPending(n) THEN dirty ELSE dirty \ {n}
        /\ \A j \in Clients \ {k} : req'[j] = req[j] /\ call'[j] = call[j]
    BY <1>4, AnswerEffect DEF LastSucceeds, Carry
  <2>2. \A x \in late' : x[1] = "init" => itemsIndex(x[2].col)' \in dirty'
    BY <2>1 DEF PlaceInv, InitPending
  <2>3. PlaceholderGone'
    <3> SUFFICES ASSUME NEW m \in placeholder', m \notin dirty' PROVE Deleting(m)'
      BY DEF PlaceholderGone
    <3>1. m \in placeholder /\ m # n /\ m \notin dirty
      BY <2>1
    <3>2. PICK j \in Clients : Busy(j) /\ call[j] = "uninit" /\ itemsIndex(req[j].col) = m
      BY <3>1 DEF PlaceInv, PlaceholderGone
    <3> QED
      BY <2>1, <3>1, <3>2 DEF Busy
  <2> QED
    BY <2>2, <2>3 DEF PlaceInv
<1>5. ASSUME NEW k \in Clients, CallFails(k) \/ Killed(k) PROVE PlaceInv'
  <2> DEFINE n == itemsIndex(req[k].col)
  <2>1. /\ CallLost(k) /\ Busy(k) /\ req[k] \in Requests /\ call[k] \in Calls
        /\ \A j \in Clients \ {k} : req'[j] = req[j] /\ call'[j] = call[j]
    BY <1>5, AnswerEffect, ProceedsShape DEF CallFails, Killed, Proceeds
  <2>2. /\ dirty' = IF call[k] \in {"init", "uninit"} THEN dirty \union {n} ELSE dirty
        /\ late' = late \/ late' = late \union {<<call[k], req[k]>>}
        /\ UNCHANGED engineVars \/ Carry(call[k], req[k])
    BY <2>1 DEF CallLost
  <2>3. placeholder' \subseteq IF call[k] = "init" THEN placeholder \union {n} ELSE placeholder
    BY <2>2, WriteEffect, <2>1 DEF Carry, engineVars
  <2>4. \A x \in late' : x[1] = "init" => itemsIndex(x[2].col)' \in dirty'
    BY <2>2 DEF PlaceInv
  <2>5. PlaceholderGone'
    <3> SUFFICES ASSUME NEW m \in placeholder', m \notin dirty' PROVE Deleting(m)'
      BY DEF PlaceholderGone
    <3>1. m \in placeholder /\ m \notin dirty
      BY <2>2, <2>3
    <3>2. PICK j \in Clients : Busy(j) /\ call[j] = "uninit" /\ itemsIndex(req[j].col) = m
      BY <3>1 DEF PlaceInv, PlaceholderGone
    <3>3. j # k
      BY <2>2, <3>1, <3>2
    <3> QED
      BY <2>1, <3>2, <3>3 DEF Busy
  <2> QED
    BY <2>4, <2>5 DEF PlaceInv
<1>6. ASSUME NEW x \in late, Arrives(x) PROVE PlaceInv'
  <2>1. /\ late' = late \ {x} /\ UNCHANGED <<dirty, req, call>>
        /\ x[1] \in Calls /\ x[2] \in Requests /\ Carry(x[1], x[2])
    BY <1>6 DEF Arrives, TypeOK
  <2>2. placeholder' \subseteq
          IF x[1] = "init" THEN placeholder \union {itemsIndex(x[2].col)} ELSE placeholder
    BY <2>1, WriteEffect DEF Carry, engineVars
  <2> QED
    BY <2>1, <2>2 DEF PlaceInv, PlaceholderGone, Busy
<1>7. CASE UNCHANGED vars
  BY <1>7 DEF vars, confVars, engineVars, histVars, PlaceInv, PlaceholderGone, Busy
<1> QED
  BY <1>1, <1>2, <1>3, <1>4, <1>5, <1>6, <1>7 DEF Next

-----------------------------------------------------------------------------
(* What a request that nobody overlapped has learned stays so: whoever     *)
(* changes the collection meanwhile clashes with it.                       *)
LEMMA KnownStays ==
  ASSUME TypeOK, NEW s \in Requests, s.op \in {"UpsertCollection", "DeleteCollection"},
         \/ UNCHANGED engineVars
         \/ \E c \in Calls, r \in Requests :
              Carry(c, r) /\ StageOf(c, r) /\ ~Clash(s, r)
  PROVE  s.col \in cols' <=> s.col \in cols
<1>1. s.col \in Cols /\ <<s.col, "col">> \in Touches(s)
  BY RequestShape DEF Touches
<1>2. CASE UNCHANGED engineVars
  BY <1>2 DEF engineVars
<1>3. ASSUME NEW c \in Calls, NEW r \in Requests,
             Carry(c, r), StageOf(c, r), ~Clash(s, r)
      PROVE  s.col \in cols' <=> s.col \in cols
  BY <1>1, <1>3, CarryCols DEF Clash
<1> QED
  BY <1>2, <1>3

(* Overlapping is mutual.                                                  *)
LEMMA ClashIsSymmetric ==
  ASSUME NEW r, NEW s, Clash(r, s)
  PROVE  Clash(s, r)
  BY DEF Clash

(* Every step keeps what `alone` says.                                     *)
LEMMA NextKeepsAlone ==
  ASSUME TypeOK, StageInv, AloneInv, [Next]_vars
  PROVE  AloneInv'
<1>0. indexName' = indexName /\ backend' = backend
  BY DEF Next, Request, WriteRefused, WriteSucceeds, InitSucceeds, LastSucceeds,
     CallFails, Killed, CallLost, Arrives, vars, confVars
<1>1. \A r, s : Clash(r, s)' <=> Clash(r, s)
  BY <1>0 DEF Clash, Touches, itemsIndex, Cascades
<1> DEFINE Knows(k) == /\ call[k] \in {"init", "uninit"} => req[k].col \in cols
                       /\ call[k] = "drop" => req[k].col \notin cols
<1>2. ASSUME NEW k \in Clients, NEW r \in Requests, Request(k, r) PROVE AloneInv'
  <2>1. /\ ~Busy(k) /\ req' = [req EXCEPT ![k] = r] /\ UNCHANGED <<cols, call>>
        /\ alone' = [j \in Clients |->
              IF j = k THEN \A o \in Clients : Busy(o) => ~Clash(req[o], r)
              ELSE alone[j] /\ (Busy(j) => ~Clash(req[j], r))]
    BY <1>2 DEF Request, engineVars
  <2>2. /\ call'[k] = "write" /\ req'[k] = r
        /\ \A j \in Clients \ {k} : req'[j] = req[j]
    BY <2>1 DEF StageInv, TypeOK
  <2>5. /\ alone'[k] => \A o \in Clients : Busy(o) => ~Clash(req[o], r)
        /\ \A j \in Clients \ {k} : alone'[j] => alone[j] /\ (Busy(j) => ~Clash(req[j], r))
    BY <2>1
  <2>6. \A j \in Clients \ {k} : Busy(j)' <=> Busy(j)
    BY <2>2 DEF Busy
  <2>3. ASSUME NEW j \in Clients, Busy(j)', alone'[j], NEW o \in Clients \ {j}, Busy(o)'
        PROVE  ~Clash(req'[j], req'[o])
    <3>1. CASE j = k
      BY <2>2, <2>3, <2>5, <2>6, <3>1, ClashIsSymmetric
    <3>2. CASE o = k
      BY <2>2, <2>3, <2>5, <2>6, <3>2
    <3>3. CASE j # k /\ o # k
      BY <2>2, <2>3, <2>5, <2>6, <3>3 DEF AloneInv
    <3> QED
      BY <3>1, <3>2, <3>3
  <2>4. ASSUME NEW j \in Clients, Busy(j)', alone'[j] PROVE Knows(j)'
    <3>1. CASE j = k
      BY <2>2, <3>1
    <3>2. CASE j # k
      BY <2>1, <2>2, <2>4, <2>5, <2>6, <3>2 DEF AloneInv
    <3> QED
      BY <3>1, <3>2
  <2> QED
    BY <1>1, <2>3, <2>4 DEF AloneInv
<1>3. ASSUME NEW k \in Clients, Proceeds(k) PROVE AloneInv'
  <2>1. /\ Busy(k) /\ req[k] \in Requests /\ call[k] \in Calls /\ StageOf(call[k], req[k])
        /\ UNCHANGED engineVars \/ Carry(call[k], req[k])
        /\ (\E a \in Answers : Answer(k, a)) \/ (\E c \in Calls : Continue(k, c))
    BY <1>3, ProceedsShape DEF StageInv
  <2>2. \A j \in Clients \ {k} :
           req'[j] = req[j] /\ call'[j] = call[j] /\ alone'[j] = alone[j]
    BY <2>1, AnswerEffect, ContinueEffect
  <2>3. Busy(k)' => req'[k] = req[k] /\ alone'[k] = alone[k]
    BY <2>1, AnswerEffect, ContinueEffect DEF Busy
  <2>4. ASSUME NEW j \in Clients \ {k}, Busy(j)', alone'[j] PROVE Knows(j)'
    <3>1. /\ Busy(j) /\ alone[j] /\ req[j] \in Requests /\ ~Clash(req[j], req[k])
          /\ Knows(j) /\ StageOf(call[j], req[j])
      BY <2>1, <2>2, <2>4 DEF AloneInv, StageInv, Busy, TypeOK
    <3>2. req[j].op \in {"UpsertCollection", "DeleteCollection"}
            => (req[j].col \in cols' <=> req[j].col \in cols)
      BY <2>1, <3>1, KnownStays
    <3> QED
      BY <2>2, <3>1, <3>2 DEF StageOf
  <2>5. ASSUME Busy(k)', alone'[k] PROVE Knows(k)'
    <3>1. alone[k] /\ req'[k] = req[k]
      BY <2>3, <2>5
    <3>2. CASE WriteSucceeds(k)
      <4>1. /\ Write(req[k]) /\ call[k] = "write"
            /\ \/ req[k].op = "UpsertCollection" /\ call'[k] = "init"
               \/ req[k].op = "DeleteCollection" /\ call'[k] = "drop"
        BY <2>5, <3>2, AnswerEffect, ContinueEffect DEF WriteSucceeds, Carry, Calls
      <4> QED
        BY <2>1, <3>1, <4>1, WriteEffect
    <3>3. CASE InitSucceeds(k)
      <4>1. cols' = cols /\ call[k] = "init" /\ call'[k] = "uninit"
        BY <3>3, ContinueEffect DEF InitSucceeds, Carry, Calls
      <4> QED
        BY <2>1, <3>1, <4>1 DEF AloneInv
    <3>4. CASE WriteRefused(k) \/ LastSucceeds(k) \/ CallFails(k) \/ Killed(k)
      BY <2>5, <3>4, AnswerEffect DEF WriteRefused, LastSucceeds, CallFails, Killed
    <3> QED
      BY <1>3, <3>2, <3>3, <3>4 DEF Proceeds
  <2>6. ASSUME NEW j \in Clients, Busy(j)', alone'[j], NEW o \in Clients \ {j}, Busy(o)'
        PROVE  ~Clash(req'[j], req'[o])
    BY <2>2, <2>3, <2>6 DEF AloneInv, Busy
  <2> QED
    BY <1>1, <2>4, <2>5, <2>6 DEF AloneInv
<1>4. ASSUME NEW x \in late, Arrives(x) PROVE AloneInv'
  <2>1. /\ Carry(x[1], x[2]) /\ UNCHANGED <<req, call>>
        /\ x[1] \in Calls /\ x[2] \in Requests /\ StageOf(x[1], x[2])
        /\ alone' = [k \in Clients |-> alone[k] /\ (Busy(k) => ~Clash(req[k], x[2]))]
    BY <1>4 DEF Arrives, TypeOK, StageInv
  <2>2. ASSUME NEW j \in Clients, Busy(j)', alone'[j] PROVE Knows(j)'
    <3>1. /\ Busy(j) /\ alone[j] /\ req[j] \in Requests /\ ~Clash(req[j], x[2])
          /\ Knows(j) /\ StageOf(call[j], req[j])
      BY <2>1, <2>2 DEF AloneInv, StageInv, Busy, TypeOK
    <3>2. req[j].op \in {"UpsertCollection", "DeleteCollection"}
            => (req[j].col \in cols' <=> req[j].col \in cols)
      BY <2>1, <3>1, KnownStays
    <3> QED
      BY <2>1, <3>1, <3>2 DEF StageOf
  <2>3. ASSUME NEW j \in Clients, Busy(j)', alone'[j], NEW o \in Clients \ {j}, Busy(o)'
        PROVE  ~Clash(req'[j], req'[o])
    BY <2>1, <2>3 DEF AloneInv, Busy
  <2> QED
    BY <1>1, <2>2, <2>3 DEF AloneInv
<1>5. CASE UNCHANGED vars
  BY <1>1, <1>5 DEF vars, engineVars, histVars, AloneInv, Busy
<1> QED
  BY <1>2, <1>3, <1>4, <1>5 DEF Next, Proceeds

-----------------------------------------------------------------------------
(* What an answer tells a client about a place.                            *)
LEMMA TellsEffect ==
  ASSUME NEW r \in Requests, NEW p
  PROVE  /\ Tells(r, "error", p) = "unknown"
         /\ r.op = "UpsertCollection" => Tells(r, "ok", p) = "present"
         /\ r.op = "UpsertItem" => Tells(r, "ok", p) = r.val
         /\ r.op \in {"DeleteCollection", "DeleteItem"} => Tells(r, "ok", p) = Absent
         /\ \A a \in {"notfound", "conflict"} :
              Tells(r, a, p) = IF r.op = "DeleteCollection" /\ ~Cascades /\ p[2] # "col"
                               THEN "unknown" ELSE Absent
  BY RequestShape DEF Tells

(* An answer tells the truth to whoever was not overlapped: of everything  *)
(* its request writes, at the moment it is given.                          *)
LEMMA AnswerIsTrue ==
  ASSUME TypeOK, StageInv, CascadeInv, AloneInv, UNCHANGED confVars,
         NEW k \in Clients, Proceeds(k), NEW a \in Answers, Answer(k, a), alone[k],
         NEW p \in Touches(req[k]), Tells(req[k], a, p) # "unknown"
  PROVE  Reads(p)' = Tells(req[k], a, p)
<1> DEFINE r == req[k]
           n == itemsIndex(r.col)
<1>1. /\ Busy(k) /\ r \in Requests /\ StageOf(call[k], r)
      /\ r.col \in Cols /\ n \in Cols
  BY ProceedsShape, RequestShape DEF StageInv, TypeOK, itemsIndex
<1>2. /\ call[k] \in {"init", "uninit"} => r.col \in cols
      /\ call[k] = "drop" => r.col \notin cols
  BY <1>1 DEF AloneInv
<1>3. answer' = a
  BY DEF Answer
<1>4. item \in [Cols -> [Ids -> Vals \union {Absent}]]
  BY DEF TypeOK
(* Where p is, for each kind of request, and what is read there.           *)
<1>5. r.op = "UpsertCollection" => p = <<r.col, "col">>
  BY DEF Touches
<1>6. r.op = "DeleteCollection" => p = <<r.col, "col">> \/ \E i \in Ids : p = <<n, i>>
  BY DEF Touches
<1>7. r.op \in {"UpsertItem", "DeleteItem"} => p = <<n, r.id>> /\ r.id \in Ids
  BY <1>1, RequestShape DEF Touches
<1>8. p = <<r.col, "col">> =>
        Reads(p)' = IF r.col \in cols' THEN "present" ELSE Absent
  BY DEF Reads
<1>9. ASSUME NEW i \in Ids, p = <<n, i>> PROVE Reads(p)' = item'[n][i] /\ p[2] # "col"
  BY <1>9, StoreAssumption DEF Reads
<1> HIDE DEF r, n
<1>10. CASE WriteRefused(k)
  <2>1. /\ a \in {"notfound", "conflict"} /\ UNCHANGED engineVars /\ ~Found(r)
    BY <1>10, <1>3 DEF WriteRefused, Answer, r
  <2>2. Tells(r, a, p) = Absent
    BY <1>1, <2>1, TellsEffect DEF r
  <2>3. CASE r.op = "DeleteCollection"
    <3>1. r.col \notin cols' /\ r.col \notin cols
      BY <2>1, <2>3 DEF Found, engineVars
    <3>2. ASSUME NEW i \in Ids, p = <<n, i>> PROVE item'[n][i] = Absent
      <4>1. Cascades
        BY <1>1, <1>9, <2>1, <2>3, <3>2, TellsEffect DEF r
      <4>2. n = r.col
        BY <1>1, <4>1 DEF Cascades, StageInv, itemsIndex, n
      <4> QED
        BY <1>1, <2>1, <3>1, <4>1, <4>2 DEF CascadeInv, engineVars
    <3> QED
      BY <1>6, <1>8, <1>9, <2>2, <2>3, <3>1, <3>2 DEF r
  <2>4. CASE r.op = "UpsertItem"
    <3>1. Cascades /\ r.col \notin cols
      BY <2>1, <2>4 DEF Found, Cascades
    <3>2. n = r.col
      BY <1>1, <3>1 DEF Cascades, StageInv, itemsIndex, n
    <3>3. item'[n][r.id] = Absent
      BY <1>1, <1>7, <2>1, <2>4, <3>1, <3>2 DEF CascadeInv, engineVars
    <3> QED
      BY <1>7, <1>9, <2>2, <2>4, <3>3 DEF r
  <2>5. CASE r.op = "DeleteItem"
    <3>1. item'[n][r.id] = Absent
      BY <2>1, <2>5 DEF Found, engineVars, n
    <3> QED
      BY <1>7, <1>9, <2>2, <2>5, <3>1 DEF r
  <2>6. r.op # "UpsertCollection"
    BY <2>1 DEF Found
  <2> QED
    BY <1>1, <2>3, <2>4, <2>5, <2>6, RequestShape
<1>11. CASE WriteSucceeds(k)
  <2>1. /\ a = "ok" /\ Write(r)
        /\ r.op = "DeleteCollection" => Cascades
    BY <1>3, <1>10, <1>11, <1>1, AnswerEffect, ContinueEffect
       DEF WriteSucceeds, Carry, Answer, Continue, Cascades, r, Busy, Calls
  <2>2. CASE r.op = "UpsertCollection"
    <3>1. r.col \in cols'
      BY <1>1, <2>1, <2>2, WriteEffect
    <3> QED
      BY <1>1, <1>5, <1>8, <2>1, <2>2, <3>1, TellsEffect DEF r
  <2>3. CASE r.op = "DeleteCollection"
    <3>1. cols' = cols \ {r.col} /\ item' = Emptied(r.col)
      BY <1>1, <2>1, <2>3, WriteEffect
    <3>2. \A i \in Ids : item'[n][i] = Absent
      BY <1>1, <1>4, <3>1 DEF Emptied, n
    <3> QED
      BY <1>1, <1>6, <1>8, <1>9, <2>1, <2>3, <3>1, <3>2, TellsEffect DEF r
  <2>4. CASE r.op = "UpsertItem"
    <3>1. item' = [item EXCEPT ![n][r.id] = r.val]
      BY <1>1, <2>1, <2>4, WriteEffect DEF n
    <3>2. item'[n][r.id] = r.val
      BY <1>1, <1>4, <1>7, <2>4, <3>1
    <3> QED
      BY <1>1, <1>7, <1>9, <2>1, <2>4, <3>2, TellsEffect DEF r
  <2>5. CASE r.op = "DeleteItem"
    <3>1. item' = [item EXCEPT ![n][r.id] = Absent]
      BY <1>1, <2>1, <2>5, WriteEffect DEF n
    <3>2. item'[n][r.id] = Absent
      BY <1>1, <1>4, <1>7, <2>5, <3>1
    <3> QED
      BY <1>1, <1>7, <1>9, <2>1, <2>5, <3>2, TellsEffect DEF r
  <2> QED
    BY <1>1, <2>2, <2>3, <2>4, <2>5, RequestShape
<1>12. CASE LastSucceeds(k)
  <2>1. a = "ok" /\ call[k] \in {"uninit", "drop"} /\ Carry(call[k], r)
    BY <1>3, <1>12 DEF LastSucceeds, Answer, r
  <2>2. CASE call[k] = "uninit"
    <3>1. cols' = cols /\ r.op = "UpsertCollection"
      BY <1>1, <2>1, <2>2 DEF Carry, StageOf
    <3> QED
      BY <1>1, <1>2, <1>5, <1>8, <2>1, <2>2, <3>1, TellsEffect DEF r
  <2>3. CASE call[k] = "drop"
    <3>1. cols' = cols /\ item' = Emptied(r.col) /\ r.op = "DeleteCollection"
      BY <1>1, <2>1, <2>3 DEF Carry, StageOf
    <3>2. \A i \in Ids : item'[n][i] = Absent
      BY <1>1, <1>4, <3>1 DEF Emptied, n
    <3> QED
      BY <1>1, <1>2, <1>6, <1>8, <1>9, <2>1, <2>3, <3>1, <3>2, TellsEffect DEF r
  <2> QED
    BY <2>1, <2>2, <2>3
<1>13. CASE CallFails(k) \/ Killed(k)
  <2>1. a # "error"
    BY <1>1, TellsEffect DEF r
  <2>2. CallLost(k) /\ a = "ok" /\ call[k] \in {"init", "uninit"}
    BY <1>3, <1>13, <2>1 DEF CallFails, Killed, Answer
  <2>3. cols' = cols /\ r.op = "UpsertCollection"
    BY <1>1, <2>2 DEF CallLost, Carry, engineVars, StageOf
  <2> QED
    BY <1>1, <1>2, <1>5, <1>8, <2>2, <2>3, TellsEffect DEF r
<1>14. CASE InitSucceeds(k)
  BY <1>1, <1>14, AnswerEffect, ContinueEffect DEF InitSucceeds, Busy, Calls
<1> QED
  BY <1>10, <1>11, <1>12, <1>13, <1>14 DEF Proceeds

(* A place that is settled stays what it is: nobody writes it.             *)
LEMMA SettledStays ==
  ASSUME TypeOK, SettledInv, UNCHANGED confVars,
         NEW p \in Places, settled[p] # "unknown",
         \/ UNCHANGED engineVars
         \/ \E c \in Calls, r \in Requests :
              Carry(c, r) /\ StageOf(c, r) /\ p \notin Touches(r)
  PROVE  Reads(p)' = settled[p]
<1>1. Reads(p) = settled[p]
  BY DEF SettledInv
<1>2. CASE UNCHANGED engineVars
  BY <1>1, <1>2 DEF engineVars, Reads
<1>3. ASSUME NEW c \in Calls, NEW r \in Requests,
             Carry(c, r), StageOf(c, r), p \notin Touches(r)
      PROVE  Reads(p)' = settled[p]
  BY <1>1, <1>3, CarryTouches
<1> QED
  BY <1>2, <1>3

(* Every step keeps what was settled true.                                 *)
LEMMA NextKeepsSettled ==
  ASSUME TypeOK, StageInv, CascadeInv, AloneInv, SettledInv, [Next]_vars
  PROVE  SettledInv'
<1>1. UNCHANGED confVars
  BY DEF Next, Request, WriteRefused, WriteSucceeds, InitSucceeds, LastSucceeds,
     CallFails, Killed, CallLost, Arrives, vars
<1>2. \A r : Touches(r)' = Touches(r)
  BY <1>1 DEF Touches, itemsIndex, Cascades, confVars
<1>3. DOMAIN settled = Places
  BY DEF SettledInv
<1>4. ASSUME NEW k \in Clients, NEW r \in Requests, Request(k, r) PROVE SettledInv'
  <2>1. /\ ~Busy(k) /\ req' = [req EXCEPT ![k] = r] /\ UNCHANGED <<engineVars, late>>
        /\ settled' = [p \in Places |-> IF p \in Touches(r) THEN "unknown" ELSE settled[p]]
    BY <1>4 DEF Request
  <2>2. req'[k] = r /\ \A j \in Clients \ {k} : req'[j] = req[j]
    BY <2>1 DEF TypeOK
  <2>3. ASSUME NEW p \in Places, settled'[p] # "unknown"
        PROVE  /\ Reads(p)' = settled'[p]
               /\ \A j \in Clients : Busy(j)' => p \notin Touches(req'[j])
               /\ \A x \in late' : Writing(x) => p \notin Touches(x[2])
    <3>1. settled'[p] = settled[p] /\ p \notin Touches(r)
      BY <2>1, <2>3
    <3>2. Reads(p)' = settled[p]
      BY <1>1, <2>1, <2>3, <3>1, SettledStays
    <3> QED
      BY <2>1, <2>2, <2>3, <3>1, <3>2 DEF SettledInv, Busy
  <2> QED
    BY <1>2, <2>1, <2>3 DEF SettledInv, Writing
<1>5. ASSUME NEW k \in Clients, Proceeds(k) PROVE SettledInv'
  <2>1. /\ Busy(k) /\ req[k] \in Requests /\ call[k] \in Calls /\ StageOf(call[k], req[k])
        /\ UNCHANGED engineVars \/ Carry(call[k], req[k])
        /\ late' = late \/ late' = late \union {<<call[k], req[k]>>}
        /\ (\E a \in Answers : Answer(k, a)) \/ (\E c \in Calls : Continue(k, c))
    BY <1>5, ProceedsShape DEF StageInv
  (* Places that the request does not write.                               *)
  <2>2. ASSUME NEW p \in Places, settled[p] # "unknown", p \notin Touches(req[k])
        PROVE  /\ Reads(p)' = settled[p]
               /\ \A x \in late' : Writing(x) => p \notin Touches(x[2])
    <3>1. Reads(p)' = settled[p]
      BY <1>1, <2>1, <2>2, SettledStays
    <3> QED
      BY <2>1, <2>2, <3>1 DEF SettledInv
  <2>3. CASE \E c \in Calls : Continue(k, c)
    <3>1. UNCHANGED <<req, settled>>
      BY <2>3, ContinueEffect
    <3>2. \A p \in Places : settled[p] # "unknown" => p \notin Touches(req[k])
      BY <2>1 DEF SettledInv
    <3> QED
      BY <1>2, <2>2, <3>1, <3>2 DEF SettledInv, Busy, Writing
  <2>4. ASSUME NEW a \in Answers, Answer(k, a) PROVE SettledInv'
    <3>1. ~Busy(k)' /\ \A j \in Clients \ {k} : req'[j] = req[j]
      BY <2>4, AnswerEffect
    <3>2. settled' = [p \in Places |->
            IF p \notin Touches(req[k]) THEN settled[p]
            ELSE IF /\ alone[k]
                    /\ \A x \in late' : x[1] \in {"write", "drop"} => p \notin Touches(x[2])
                 THEN Tells(req[k], a, p) ELSE "unknown"]
      BY <2>4 DEF Answer, Learn
    <3>3. ASSUME NEW p \in Places, settled'[p] # "unknown"
          PROVE  /\ Reads(p)' = settled'[p]
                 /\ \A j \in Clients : Busy(j)' => p \notin Touches(req'[j])
                 /\ \A x \in late' : Writing(x) => p \notin Touches(x[2])
      <4>1. CASE p \notin Touches(req[k])
        <5>1. settled'[p] = settled[p]
          BY <3>2, <4>1
        <5> QED
          BY <2>2, <3>1, <3>3, <4>1, <5>1 DEF SettledInv, Busy
      <4>2. CASE p \in Touches(req[k])
        <5>1. /\ alone[k] /\ settled'[p] = Tells(req[k], a, p)
              /\ \A x \in late' : Writing(x) => p \notin Touches(x[2])
          BY <3>2, <3>3, <4>2 DEF Writing
        <5>2. Reads(p)' = settled'[p]
          BY <1>1, <1>5, <2>4, <3>3, <4>2, <5>1, AnswerIsTrue
        <5>3. \A j \in Clients : Busy(j)' => p \notin Touches(req'[j])
          BY <2>1, <3>1, <4>2, <5>1 DEF AloneInv, Clash, Busy
        <5> QED
          BY <5>1, <5>2, <5>3
      <4> QED
        BY <4>1, <4>2
    <3> QED
      BY <1>2, <3>2, <3>3 DEF SettledInv, Writing
  <2> QED
    BY <2>1, <2>3, <2>4
<1>6. ASSUME NEW x \in late, Arrives(x) PROVE SettledInv'
  <2>1. /\ Carry(x[1], x[2]) /\ UNCHANGED <<req, settled>> /\ late' \subseteq late
        /\ x[1] \in Calls /\ x[2] \in Requests /\ StageOf(x[1], x[2])
    BY <1>6 DEF Arrives, TypeOK, StageInv
  <2>2. ASSUME NEW p \in Places, settled[p] # "unknown" PROVE Reads(p)' = settled[p]
    <3>1. CASE Writing(x)
      BY <1>1, <2>1, <2>2, <3>1, SettledStays DEF SettledInv
    <3>2. CASE ~Writing(x)
      BY <2>1, <2>2, <3>2 DEF SettledInv, Writing, Carry, Reads
    <3> QED
      BY <3>1, <3>2
  <2> QED
    BY <1>2, <2>1, <2>2 DEF SettledInv, Busy, Writing
<1>7. CASE UNCHANGED vars
  BY <1>2, <1>7 DEF vars, engineVars, histVars, SettledInv, Busy, Writing, Reads
<1> QED
  BY <1>4, <1>5, <1>6, <1>7 DEF Next, Proceeds

-----------------------------------------------------------------------------
IInv == /\ TypeOK /\ StageInv /\ CascadeInv /\ AloneInv
        /\ SettledInv /\ PlaceInv

(* The invariant holds throughout.                                         *)
LEMMA Invariance == Spec => []IInv
<1>1. Init => IInv
  <2> SUFFICES ASSUME Init PROVE IInv
    OBVIOUS
  <2>1. TypeOK
    BY StoreAssumption DEF Init, TypeOK, Calls
  <2>2. StageInv
    BY DEF Init, StageInv, Busy
  <2>3. CascadeInv
    BY DEF Init, CascadeInv
  <2>4. AloneInv
    BY DEF Init, AloneInv, Busy
  <2>5. SettledInv
    <3>1. \A p \in Places : settled[p] = Absent /\ Reads(p) = Absent
      BY StoreAssumption DEF Init, Places, Reads
    <3> QED
      BY <3>1 DEF Init, SettledInv, Busy
  <2>6. PlaceInv
    BY DEF Init, PlaceInv, PlaceholderGone
  <2> QED
    BY <2>1, <2>2, <2>3, <2>4, <2>5, <2>6 DEF IInv
<1>2. IInv /\ [Next]_vars => IInv'
  BY NextKeepsType, NextKeepsStage, NextKeepsCascade, NextKeepsAlone,
     NextKeepsSettled, NextKeepsPlace DEF IInv
<1> QED
  BY <1>1, <1>2, PTL DEF Spec

(* The variables have their types, in every backend.                       *)
THEOREM TypeCorrect == Spec => []TypeOK
<1>1. IInv => TypeOK
  BY DEF IInv
<1> QED
  BY <1>1, Invariance, PTL

(* What the answers say is there is there, whatever calls were lost, late  *)
(* or overlapped elsewhere.                                                *)
THEOREM SettledIsRead == Spec => []SettledReads
<1>1. IInv => SettledReads
  BY DEF IInv, SettledInv, SettledReads
<1> QED
  BY <1>1, Invariance, PTL

(* No placeholder stays behind but where a call on it went wrong.          *)
THEOREM PlaceholderGoes == Spec => []PlaceholderGone
<1>1. IInv => PlaceholderGone
  BY DEF IInv, PlaceInv
<1> QED
  BY <1>1, Invariance, PTL

-----------------------------------------------------------------------------
(* The contract.  What the variables of ItemStore are here.                *)
Space == [c \in Cols |-> itemsIndex(c)]
Done  == [k \in Clients |-> IF call[k] = "write" THEN {} ELSE {"col"}]
Told  == IF answer \in {"notfound", "conflict"} THEN "refused" ELSE answer
Stray == {<<x[2], PartOf(x[1], x[2])>> : x \in {y \in late : y[1] \in {"write", "drop"}}}

(* The contract knows the same requests,                                   *)
LEMMA ContractRequests == Contract!Requests = Requests
  BY DEF Contract!Requests, Requests

(* ... in these parts.                                                     *)
LEMMA ContractParts ==
  ASSUME NEW r \in Requests
  PROVE  /\ r.op = "UpsertCollection" => Contract!PartsOf(r) = {"col"}
         /\ r.op = "DeleteCollection" => Contract!PartsOf(r) = {"col", "items"}
         /\ r.op \in {"UpsertItem", "DeleteItem"} => Contract!PartsOf(r) = {"items"}
  BY RequestShape DEF Contract!PartsOf

(* The parts of its request that a call carries out.                       *)
Carried(c, r) ==
  IF c \in {"init", "uninit"} THEN {}
  ELSE IF c = "drop" THEN {"items"}
  ELSE IF r.op = "UpsertCollection" THEN {"col"}
  ELSE IF r.op \in {"UpsertItem", "DeleteItem"} THEN {"items"}
  ELSE IF Cascades THEN {"col", "items"} ELSE {"col"}

(* A call takes effect as the contract allows.                             *)
LEMMA CarryTakesEffect ==
  ASSUME TypeOK, NEW r \in Requests, NEW c \in Calls, Carry(c, r), StageOf(c, r),
         c = "write" => Found(r)
  PROVE  Contract!TakeEffect(r, Carried(c, r))
<1>1. /\ r.col \in Cols /\ itemsIndex(r.col) \in Cols
      /\ [d \in Cols |-> itemsIndex(d)][r.col] = itemsIndex(r.col)
  BY RequestShape DEF TypeOK, itemsIndex
<1>2. CASE c \in {"init", "uninit"}
  BY <1>2 DEF Contract!TakeEffect, Carried, Carry
<1>3. CASE c = "drop"
  BY <1>1, <1>3 DEF Contract!TakeEffect, Carried, Carry, StageOf, Emptied
<1>4. CASE c = "write"
  <2>1. Write(r)
    BY <1>4 DEF Carry
  <2>2. CASE r.op = "UpsertCollection"
    BY <1>4, <2>1, <2>2, WriteEffect DEF Contract!TakeEffect, Carried
  <2>3. CASE r.op = "DeleteCollection"
    BY <1>1, <1>4, <2>1, <2>3, WriteEffect DEF Contract!TakeEffect, Carried, Emptied
  <2>4. CASE r.op = "UpsertItem"
    BY <1>1, <1>4, <2>1, <2>4, WriteEffect DEF Contract!TakeEffect, Carried
  <2>5. CASE r.op = "DeleteItem"
    BY <1>1, <1>4, <2>1, <2>5, WriteEffect DEF Contract!TakeEffect, Carried
  <2> QED
    BY <2>2, <2>3, <2>4, <2>5, RequestShape
<1> QED
  BY <1>2, <1>3, <1>4 DEF Calls

(* A call that is not carried out is the empty effect.                     *)
LEMMA NothingTakesEffect ==
  ASSUME UNCHANGED <<cols, item>>, NEW r
  PROVE  Contract!TakeEffect(r, {})
  BY DEF Contract!TakeEffect

(* An answer is one the contract allows.                                   *)
LEMMA AnswerTells ==
  ASSUME TypeOK, NEW k \in Clients, NEW a, Answer(k, a)
  PROVE  Contract!Tell(k, IF a \in {"notfound", "conflict"} THEN "refused" ELSE a)
<1>1. /\ req' = [req EXCEPT ![k] = Idle] /\ call' = [call EXCEPT ![k] = "write"]
      /\ answer' = a /\ call \in [Clients -> Calls]
  BY DEF Answer, TypeOK
<1>2. Done' = [Done EXCEPT ![k] = {}]
  BY <1>1 DEF Done
<1> QED
  BY <1>1, <1>2 DEF Contract!Tell, Done

(* What is left of a request, by the call it is at.                        *)
LEMMA RestOf ==
  ASSUME TypeOK, StageInv, NEW k \in Clients, Busy(k)
  PROVE  /\ call[k] = "write" => Contract!Rest(k) = Contract!PartsOf(req[k])
         /\ call[k] \in {"init", "uninit"} => Contract!Rest(k) = {}
         /\ call[k] = "drop" => Contract!Rest(k) = {"items"}
<1>1. req[k] \in Requests /\ StageOf(call[k], req[k])
  BY DEF TypeOK, Busy, StageInv
<1> QED
  BY <1>1, ContractParts DEF Contract!Rest, StageOf

(* A call carries out what is left; only the first of two calls of a       *)
(* deletion leaves something.                                              *)
LEMMA CarriedIsRest ==
  ASSUME TypeOK, StageInv, NEW k \in Clients, Busy(k)
  PROVE  /\ Carried(call[k], req[k]) \subseteq Contract!Rest(k)
         /\ call[k] \in {"init", "uninit", "drop"} =>
              Carried(call[k], req[k]) = Contract!Rest(k)
         /\ (call[k] = "write" /\ (req[k].op = "DeleteCollection" => Cascades)) =>
              Carried(call[k], req[k]) = Contract!Rest(k)
         /\ PartOf(call[k], req[k]) \in Contract!Rest(k) \/ call[k] \in {"init", "uninit"}
<1>1. req[k] \in Requests /\ StageOf(call[k], req[k]) /\ call[k] \in Calls
  BY DEF TypeOK, Busy, StageInv
<1>2. CASE call[k] = "write"
  BY <1>1, <1>2, RestOf, ContractParts, RequestShape DEF Carried, PartOf
<1>3. CASE call[k] # "write"
  BY <1>1, <1>3, RestOf DEF Carried, PartOf, Calls
<1> QED
  BY <1>2, <1>3

(* What carrying out a call, or not, is in the contract.                   *)
LEMMA CallTakesEffect ==
  ASSUME TypeOK, StageInv, NEW k \in Clients, Busy(k),
         UNCHANGED engineVars \/ Carry(call[k], req[k])
  PROVE  \E S \in {{}, Carried(call[k], req[k])} : Contract!TakeEffect(req[k], S)
<1>1. req[k] \in Requests /\ StageOf(call[k], req[k]) /\ call[k] \in Calls
  BY DEF TypeOK, Busy, StageInv
<1>2. CASE UNCHANGED engineVars
  BY <1>2, NothingTakesEffect DEF engineVars
<1>3. CASE Carry(call[k], req[k]) /\ (call[k] = "write" => Found(req[k]))
  BY <1>1, <1>3, CarryTakesEffect
<1> QED
  BY <1>2, <1>3 DEF Carry

(* Success: the parts that were left have taken effect.                    *)
LEMMA SuccessIsProgress ==
  ASSUME TypeOK, StageInv, NEW k \in Clients, Busy(k), Answer(k, "ok"),
         UNCHANGED confVars, Stray' = Stray,
         Contract!TakeEffect(req[k], Contract!Rest(k))
  PROVE  Contract!Progress(k)
<1>1. Contract!Tell(k, "ok")
  BY AnswerTells
<1>2. Space' = Space
  BY DEF Space, itemsIndex, confVars
<1> QED
  BY <1>1, <1>2 DEF Contract!Progress, Space, Stray, Busy

(* Calls on the placeholder are none of the contract's business.           *)
LEMMA StrayGrows ==
  ASSUME TypeOK, NEW c \in Calls, NEW r, late' = late \union {<<c, r>>}
  PROVE  Stray' = IF c \in {"write", "drop"} THEN Stray \union {<<r, PartOf(c, r)>>}
                  ELSE Stray
<1>1. \A e : e \in Stray <=> \E y \in late : Writing(y) /\ e = <<y[2], PartOf(y[1], y[2])>>
  BY DEF Stray, Writing
<1>2. \A e : e \in Stray' <=>
        \E y \in late \union {<<c, r>>} : Writing(y) /\ e = <<y[2], PartOf(y[1], y[2])>>
  BY DEF Stray, Writing
<1>3. CASE c \in {"write", "drop"}
  <2>1. Writing(<<c, r>>) /\ <<c, r>>[1] = c /\ <<c, r>>[2] = r
    BY <1>3 DEF Writing
  <2>2. \A e : e \in Stray' <=> e \in Stray \/ e = <<r, PartOf(c, r)>>
    BY <1>1, <1>2, <2>1
  <2> QED
    BY <1>3, <2>2
<1>4. CASE c \notin {"write", "drop"}
  <2>1. ~Writing(<<c, r>>)
    BY <1>4 DEF Writing
  <2>2. \A e : e \in Stray' <=> e \in Stray
    BY <1>1, <1>2, <2>1
  <2> QED
    BY <1>4, <2>2
<1> QED
  BY <1>3, <1>4

(* A late call that is carried out is no longer outstanding.               *)
LEMMA StrayShrinks ==
  ASSUME TypeOK, StageInv, NEW x \in late, Writing(x), late' = late \ {x}
  PROVE  Stray' = Stray \ {<<x[2], PartOf(x[1], x[2])>>}
<1>1. \A y \in late : y = <<y[1], y[2]>> /\ StageOf(y[1], y[2])
  BY DEF TypeOK, StageInv
<1>2. ASSUME NEW y \in late, Writing(y), y # x, y[2] = x[2]
      PROVE  PartOf(y[1], y[2]) # PartOf(x[1], x[2])
  <2>1. y[1] # x[1] /\ StageOf(y[1], x[2]) /\ StageOf(x[1], x[2])
    BY <1>1, <1>2
  <2> QED
    BY <1>2, <2>1 DEF Writing, StageOf, PartOf
<1>3. Stray' = {<<y[2], PartOf(y[1], y[2])>> :
                  y \in {z \in late \ {x} : z[1] \in {"write", "drop"}}}
  BY DEF Stray
<1>4. ASSUME NEW e
      PROVE  e \in Stray' <=> e \in Stray /\ e # <<x[2], PartOf(x[1], x[2])>>
  BY <1>2, <1>3 DEF Stray, Writing
<1> QED
  BY <1>4

(* A call that is lost: the request fails, in part, or it was about the    *)
(* placeholder and does not.                                               *)
LEMMA LostKeepsContract ==
  ASSUME TypeOK, StageInv, NEW k \in Clients, CallFails(k) \/ Killed(k)
  PROVE  Contract!Progress(k) \/ Contract!Fail(k)
<1>1. /\ Busy(k) /\ req[k] \in Requests /\ call[k] \in Calls
      /\ UNCHANGED confVars /\ StageOf(call[k], req[k])
  BY ProceedsShape DEF Proceeds, StageInv
<1>2. Space' = Space
  BY <1>1 DEF Space, itemsIndex, confVars
<1>3. PICK a \in {"ok", "error"} :
        Answer(k, a) /\ (a = "ok" => call[k] \in {"init", "uninit"})
  BY DEF CallFails, Killed
<1>4. \/ UNCHANGED <<engineVars, late>>
      \/ Carry(call[k], req[k]) /\ UNCHANGED late
      \/ late' = late \union {<<call[k], req[k]>>} /\ UNCHANGED engineVars
  BY DEF CallFails, Killed, CallLost
<1>5. PICK S \in {{}, Carried(call[k], req[k])} : Contract!TakeEffect(req[k], S)
  BY <1>1, <1>4, CallTakesEffect
<1>6. CASE a = "ok"
  <2>1. Contract!Rest(k) = {} /\ S = {}
    BY <1>1, <1>3, <1>6, RestOf DEF Carried
  <2>2. Stray' = Stray
    BY <1>1, <1>3, <1>4, <1>6, StrayGrows DEF Stray
  <2> QED
    BY <1>1, <1>3, <1>5, <1>6, <2>1, <2>2, SuccessIsProgress
<1>7. CASE a = "error"
  <2>1. Contract!Tell(k, "error")
    BY <1>3, <1>7, AnswerTells
  <2>2. S \subseteq Contract!Rest(k)
    BY <1>1, CarriedIsRest
  <2>3. CASE late' = late
    <3>1. Stray' = Stray \union ({req[k]} \X {})
      BY <2>3 DEF Stray
    <3> QED
      BY <1>1, <1>2, <1>5, <2>1, <2>2, <3>1 DEF Contract!Fail, Space, Stray, Busy
  <2>4. CASE late' = late \union {<<call[k], req[k]>>} /\ UNCHANGED engineVars
    <3>1. Contract!TakeEffect(req[k], {})
      BY <2>4, NothingTakesEffect DEF engineVars
    <3>2. CASE call[k] \in {"write", "drop"}
      <4> DEFINE T == {PartOf(call[k], req[k])}
      <4>1. T \in SUBSET (Contract!Rest(k) \ {})
        BY <1>1, <3>2, CarriedIsRest
      <4>2. Stray' = Stray \union ({req[k]} \X T)
        BY <1>1, <2>4, <3>2, StrayGrows
      <4> HIDE DEF T
      <4> QED
        BY <1>1, <1>2, <2>1, <3>1, <4>1, <4>2 DEF Contract!Fail, Space, Stray, Busy
    <3>3. CASE call[k] \notin {"write", "drop"}
      <4>1. Stray' = Stray \union ({req[k]} \X {})
        BY <1>1, <2>4, <3>3, StrayGrows
      <4> QED
        BY <1>1, <1>2, <2>1, <3>1, <4>1 DEF Contract!Fail, Space, Stray, Busy
    <3> QED
      BY <3>2, <3>3
  <2> QED
    BY <1>4, <2>3, <2>4
<1> QED
  BY <1>6, <1>7

(* A late call that arrives: a part of a failed request takes effect, or   *)
(* there is nothing left for it to do.                                     *)
LEMMA ArrivalKeepsContract ==
  ASSUME TypeOK, StageInv, NEW x \in late, Arrives(x)
  PROVE  Contract!Stray \/ Contract!Quiet
<1>1. /\ x[1] \in Calls /\ x[2] \in Requests /\ StageOf(x[1], x[2]) /\ ~Cascades
      /\ late' = late \ {x} /\ Carry(x[1], x[2]) /\ answer' = "nothing"
      /\ UNCHANGED <<confVars, req, call>>
  BY DEF Arrives, TypeOK, StageInv, Cascades
<1>2. Space' = Space /\ Done' = Done
  BY <1>1 DEF Space, Done, itemsIndex, confVars
<1>3. CASE Writing(x)
  <2> DEFINE e == <<x[2], PartOf(x[1], x[2])>>
  <2>1. Stray' = Stray \ {e} /\ e \in Stray
    BY <1>1, <1>3, StrayShrinks DEF Stray, Writing
  <2>2. Carried(x[1], x[2]) = {PartOf(x[1], x[2])}
    BY <1>1, <1>3, RequestShape DEF Carried, PartOf, Writing
  <2>3. CASE x[1] = "write" => Found(x[2])
    <3>1. Contract!TakeEffect(x[2], {PartOf(x[1], x[2])})
      BY <1>1, <2>2, <2>3, CarryTakesEffect
    <3>2. e[1] = x[2] /\ e[2] = PartOf(x[1], x[2])
      OBVIOUS
    <3> HIDE DEF e
    <3>3. Contract!TakeEffect(e[1], {e[2]})
      BY <3>1, <3>2
    <3> QED
      BY <1>1, <1>2, <2>1, <3>3 DEF Contract!Stray, Space, Done, Stray
  <2>4. CASE x[1] = "write" /\ ~Found(x[2])
    <3>1. UNCHANGED <<cols, item>>
      BY <1>1, <2>4 DEF Carry, engineVars, Write
    <3>2. Contract!TakeEffect(x[2], {PartOf(x[1], x[2])})
      <4>1. itemsIndex(x[2].col) \in Cols
        BY <1>1, RequestShape DEF TypeOK, itemsIndex
      <4>2. CASE x[2].op = "DeleteCollection"
        BY <1>1, <2>4, <3>1, <4>2 DEF Found, PartOf, Contract!TakeEffect
      <4>3. CASE x[2].op = "DeleteItem"
        <5>1. /\ x[2].col \in Cols /\ x[2].id \in Ids
              /\ item[itemsIndex(x[2].col)][x[2].id] = Absent
          BY <1>1, <2>4, <4>3, RequestShape DEF Found
        <5>2. [item EXCEPT ![itemsIndex(x[2].col)][x[2].id] = Absent] = item
          BY <4>1, <5>1 DEF TypeOK
        <5> QED
          BY <3>1, <4>3, <5>1, <5>2 DEF PartOf, Contract!TakeEffect
      <4> QED
        BY <1>1, <2>4, <4>2, <4>3, RequestShape DEF Found, Cascades
    <3>3. e[1] = x[2] /\ e[2] = PartOf(x[1], x[2])
      OBVIOUS
    <3> HIDE DEF e
    <3>4. Contract!TakeEffect(e[1], {e[2]})
      BY <3>2, <3>3
    <3> QED
      BY <1>1, <1>2, <2>1, <3>4 DEF Contract!Stray, Space, Done, Stray
  <2> QED
    BY <2>3, <2>4
<1>4. CASE ~Writing(x)
  <2>1. UNCHANGED <<cols, item>>
    BY <1>1, <1>4 DEF Carry, Writing
  <2>2. Stray' = Stray
    BY <1>1, <1>4 DEF Stray, Writing
  <2> QED
    BY <1>1, <1>2, <2>1, <2>2 DEF Contract!Quiet, Space, Done, Stray
<1> QED
  BY <1>3, <1>4

(* A refusal is one the contract allows: something was missing.            *)
LEMMA RefusalKeepsContract ==
  ASSUME TypeOK, StageInv, NEW k \in Clients, WriteRefused(k)
  PROVE  Contract!Refuse(k)
<1>1. /\ Busy(k) /\ req[k] \in Requests /\ call[k] = "write" /\ ~Found(req[k])
      /\ UNCHANGED <<confVars, engineVars, late>>
      /\ \E a \in {"notfound", "conflict"} : Answer(k, a)
  BY DEF WriteRefused, TypeOK, Busy
<1>2. Contract!Tell(k, "refused")
  BY <1>1, AnswerTells
<1>3. Space' = Space /\ Stray' = Stray
  BY <1>1 DEF Space, Stray, itemsIndex, confVars
<1>4. /\ req[k].op # "UpsertCollection" /\ req[k].col \in Cols
      /\ req[k].op = "DeleteItem" => item[itemsIndex(req[k].col)][req[k].id] = Absent
      /\ req[k].op # "DeleteItem" => req[k].col \notin cols
  BY <1>1, RequestShape DEF Found
<1> QED
  BY <1>1, <1>2, <1>3, <1>4
     DEF Contract!Refuse, Contract!Missing, Space, Stray, Busy, engineVars

(* Success of one call: of a part of the request, or of the rest of it.    *)
LEMMA CallKeepsContract ==
  ASSUME TypeOK, StageInv, NEW k \in Clients,
         WriteSucceeds(k) \/ InitSucceeds(k) \/ LastSucceeds(k)
  PROVE  Contract!Progress(k)
<1>1. /\ Busy(k) /\ req[k] \in Requests /\ call[k] \in Calls
      /\ UNCHANGED <<confVars, late>> /\ StageOf(call[k], req[k])
      /\ Carry(call[k], req[k]) /\ (call[k] = "write" => Found(req[k]))
  BY ProceedsShape
     DEF Proceeds, StageInv, WriteSucceeds, InitSucceeds, LastSucceeds
<1>2. Space' = Space /\ Stray' = Stray
  BY <1>1 DEF Space, Stray, itemsIndex, confVars
<1>3. Contract!TakeEffect(req[k], Carried(call[k], req[k]))
  BY <1>1, CarryTakesEffect
<1>4. CASE Answer(k, "ok") /\ Carried(call[k], req[k]) = Contract!Rest(k)
  BY <1>1, <1>2, <1>3, <1>4, SuccessIsProgress
<1>5. ASSUME NEW c \in Calls \ {"write"}, Continue(k, c),
             Done[k] \union Carried(call[k], req[k]) = {"col"}
      PROVE  Contract!Progress(k)
  <2>1. answer' = "nothing" /\ req' = req
    BY <1>5, ContinueEffect
  <2>2. Done' = [Done EXCEPT ![k] = Done[k] \union Carried(call[k], req[k])]
    BY <1>5 DEF Done, TypeOK, Continue
  <2>3. Carried(call[k], req[k]) \subseteq Contract!Rest(k)
    BY <1>1, CarriedIsRest
  <2> QED
    BY <1>1, <1>2, <1>3, <2>1, <2>2, <2>3
       DEF Contract!Progress, Space, Stray, Done, Busy
<1>6. CASE WriteSucceeds(k)
  <2>1. call[k] = "write" /\ Done[k] = {}
    BY <1>6 DEF WriteSucceeds, Done
  <2>2. CASE backend = "opensearch" /\ req[k].op \in {"UpsertCollection", "DeleteCollection"}
    <3>1. Carried(call[k], req[k]) = {"col"}
      BY <2>1, <2>2 DEF Carried, Cascades
    <3>2. Continue(k, "init") \/ Continue(k, "drop")
      BY <1>6, <2>2 DEF WriteSucceeds
    <3> QED
      BY <1>5, <2>1, <3>1, <3>2 DEF Calls
  <2>3. CASE ~(backend = "opensearch" /\ req[k].op \in {"UpsertCollection", "DeleteCollection"})
    <3>1. Answer(k, "ok")
      BY <1>6, <2>3 DEF WriteSucceeds
    <3>2. req[k].op = "DeleteCollection" => Cascades
      BY <2>3 DEF Cascades
    <3> QED
      BY <1>1, <1>4, <2>1, <3>1, <3>2, CarriedIsRest
  <2> QED
    BY <2>2, <2>3
<1>7. CASE InitSucceeds(k)
  <2>1. Done[k] = {"col"} /\ Carried(call[k], req[k]) = {} /\ Continue(k, "uninit")
    BY <1>7 DEF InitSucceeds, Done, Carried
  <2> QED
    BY <1>5, <2>1 DEF Calls
<1>8. CASE LastSucceeds(k)
  <2>1. Answer(k, "ok") /\ call[k] \in {"uninit", "drop"}
    BY <1>8 DEF LastSucceeds
  <2> QED
    BY <1>1, <1>4, <2>1, CarriedIsRest
<1> QED
  BY <1>6, <1>7, <1>8

(* A new request is new to the contract.                                   *)
LEMMA RequestKeepsContract ==
  ASSUME TypeOK, NEW k \in Clients, NEW r \in Requests, Request(k, r)
  PROVE  Contract!Ask(k)
<1>1. /\ req[k] = Idle /\ req' = [req EXCEPT ![k] = r] /\ answer' = "nothing"
      /\ UNCHANGED <<confVars, cols, item, call, late>>
  BY DEF Request, Busy, engineVars
<1>2. Space' = Space /\ Done' = Done /\ Stray' = Stray
  BY <1>1 DEF Space, Done, Stray, itemsIndex, confVars
<1> QED
  BY <1>1, <1>2, ContractRequests DEF Contract!Ask, Space, Done, Stray

(* The writing half of all three backends keeps the contract of ItemStore: *)
(* every step is one of the contract's, or shows nothing.                  *)
THEOREM ContractIsKept == Spec => KeepsContract
<1>1. Init => Contract!Init
  <2> SUFFICES ASSUME Init PROVE Contract!Init
    OBVIOUS
  <2>1. Space \in [Cols -> Cols]
    BY StoreAssumption DEF Init, Space, itemsIndex
  <2>2. Done = [k \in Clients |-> {}] /\ Stray = {} /\ Told = "nothing"
    BY DEF Init, Done, Stray, Told
  <2> QED
    BY <2>1, <2>2 DEF Init, Contract!Init, Space, Done, Stray, Told
<1>2. IInv /\ [Next]_vars => [Contract!Next]_(Contract!storeVars)
  <2> SUFFICES ASSUME IInv, [Next]_vars PROVE [Contract!Next]_(Contract!storeVars)
    OBVIOUS
  <2>1. TypeOK /\ StageInv
    BY DEF IInv
  <2>2. ASSUME NEW k \in Clients, NEW r \in Requests, Request(k, r) PROVE Contract!Next
    BY <2>1, <2>2, RequestKeepsContract DEF Contract!Next
  <2>3. ASSUME NEW k \in Clients, WriteRefused(k) PROVE Contract!Next
    BY <2>1, <2>3, RefusalKeepsContract DEF Contract!Next
  <2>4. ASSUME NEW k \in Clients, WriteSucceeds(k) \/ InitSucceeds(k) \/ LastSucceeds(k)
        PROVE  Contract!Next
    BY <2>1, <2>4, CallKeepsContract DEF Contract!Next
  <2>5. ASSUME NEW k \in Clients, CallFails(k) \/ Killed(k) PROVE Contract!Next
    BY <2>1, <2>5, LostKeepsContract DEF Contract!Next
  <2>6. ASSUME NEW x \in late, Arrives(x) PROVE Contract!Next
    BY <2>1, <2>6, ArrivalKeepsContract DEF Contract!Next
  <2>7. CASE UNCHANGED vars
    BY <2>7 DEF vars, confVars, engineVars, Contract!storeVars, itemsIndex
  <2> QED
    BY <2>2, <2>3, <2>4, <2>5, <2>6, <2>7 DEF Next
<1> QED
  BY <1>1, <1>2, Invariance, PTL DEF Spec, KeepsContract, Contract!Spec
=============================================================================
