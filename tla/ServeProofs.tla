----------------------------- MODULE ServeProofs -----------------------------
(***************************************************************************)
(* Theorems about Serve, for any number of processes and requests, any     *)
(* schema versions, chains of layers, starts and kills.                    *)
(*                                                                         *)
(* SchemaInv is about the variables of SpatialiteSchema alone: what p read *)
(* of the version, when it read it, stays true of the file, since nothing  *)
(* is ever taken out of it, and each migration it carries out or finds     *)
(* recorded extends that by one.  LifeInv is about the order in which      *)
(* runServe stops: who can still be given a request, and what is known of  *)
(* the requests at each place of runServe.  FileInv is about openers that  *)
(* share a file: who holds the write lock, what one that is alone finds,   *)
(* and who is still to finish what others found half done.  WorkInv says   *)
(* who can write at all.                                                   *)
(*                                                                         *)
(* The requests come first: ChainOK is what holds of a request wherever it *)
(* is on any chain of layers, and every step of RequestChain keeps it.  On *)
(* the way down nothing has been written to any writer; on the way up, in  *)
(* front of a post-hook, one answer is held in that hook's buffer and      *)
(* nothing has reached the connection; at the end the answer is the        *)
(* client's.                                                               *)
(***************************************************************************)
EXTENDS Serve, SequenceLemmas

Authors == {"hook", "handler"}

(* The types, with a place in inner for each layer while there is one.     *)
Typed(s) ==
  /\ s \in Requests
  /\ s.depth <= Len(s.chain) + 1
  /\ s.at \in Active => Len(s.inner) = Len(s.chain)

Untouched(s) ==
  /\ s.wire = 0 /\ s.body = {} /\ s.held = {} /\ s.logged = OK
  /\ s.counted = {} /\ s.verdict = 0 /\ s.handled = 0
  /\ ~s.early /\ ~s.panicked

(* Whose the one answer is: the handler's own, or the status that a hook   *)
(* refused the request with.                                               *)
Answer(s, code, from) ==
  \/ s.verdict = 0 /\ s.handled = 1 /\ from = {"handler"} /\ code \in {OK, Failed}
  \/ s.verdict = code /\ s.verdict # 0 /\ s.handled = 0 /\ from = {"hook"}

(* Nothing reached the connection, and no outermost metrics were passed.   *)
Unsent(s) ==
  /\ s.wire = 0 /\ s.body = {}
  /\ ~s.early /\ ~s.panicked
  /\ MetricsOutermost(s.chain) => s.counted = {}

Buffered(s) ==
  /\ s.depth \in DOMAIN s.chain
  /\ Unsent(s)
  /\ Answer(s, s.inner[s.depth], s.held)

(* The three properties, of one request.                                   *)
Refusal(s) ==
  s.verdict # 0 =>
    /\ s.handled = 0
    /\ s.verdict \in Final /\ ~s.panicked =>
         s.wire = s.verdict /\ s.body = {"hook"}

One(s) ==
  ~s.early =>
    /\ s.body \in {{"hook"}, {"handler"}, {"error"}}
    /\ s.panicked <=> s.body = {"error"}
    /\ s.panicked => s.wire = Failed
    /\ s.verdict # 0 => "handler" \notin s.body

Told(s) ==
  ~s.early /\ s.verdict # Info =>
    /\ s.logged = s.wire
    /\ s.chain # <<>> /\ MetricsOutermost(s.chain) =>
         s.counted = IF s.panicked THEN {} ELSE {s.wire}

ChainOK(s) ==
  /\ Typed(s)
  /\ s.at \in {"down", "asking"} => Untouched(s)
  /\ s.at = "up" => Buffered(s)
  /\ s.at = "done" => Refusal(s) /\ One(s) /\ Told(s)

ChainInv ==
  /\ req \in [Request -> Requests]
  /\ \A r \in Request : ChainOK(req[r])

-----------------------------------------------------------------------------
(* The status codes.                                                       *)
LEMMA CodesTypes ==
  /\ OK = 200 /\ Refused = 401 /\ Failed = 500 /\ BadGateway = 502
  /\ Info = 102 /\ Impossible = 20
  /\ 0 \notin Codes /\ Impossible \notin Final /\ Info \notin Final
  /\ Codes = Final \cup {Info, Impossible} /\ OK \in Final /\ Failed \in Final
  BY DEF OK, Refused, Failed, BadGateway, Info, Impossible, Codes, Final

(* A chain is a sequence of layers, also that of no request.               *)
LEMMA ChainType ==
  ASSUME NEW s \in Requests
  PROVE  /\ s.chain \in Seq(Layers) /\ Len(s.chain) \in Nat
         /\ DOMAIN s.chain = 1..Len(s.chain)
         /\ s.inner \in Seq(Codes) /\ DOMAIN s.inner = 1..Len(s.inner)
         /\ Len(s.inner) \in Nat
<1>1. s.chain \in Chains \cup {<<>>} /\ s.inner \in Seq(Codes)
  BY DEF Requests
<1>2. s.chain \in Seq(Layers)
  BY <1>1, ChainAssumption, RangeEmpty
<1> QED
  BY <1>1, <1>2, LenProperties

(* The buffer a writer belongs to is the nearest post-hook's above it.     *)
LEMMA BufferType ==
  ASSUME NEW s, NEW i \in Nat
  PROVE  /\ BufferOf(s, i) \in 0..i
         /\ BufferOf(s, i) > 0 => s.chain[BufferOf(s, i)] = "post"
<1>1. CASE Buffers(s, i) = {}
  BY <1>1 DEF BufferOf
<1>2. CASE Buffers(s, i) # {}
  <2>1. Buffers(s, i) \subseteq 0..i
    BY DEF Buffers
  <2>2. \E j \in Buffers(s, i) : \A k \in Buffers(s, i) : k <= j
    BY <1>2, <2>1, GreatestNatural
  <2>3. BufferOf(s, i) \in Buffers(s, i)
    BY <1>2, <2>2 DEF BufferOf
  <2> QED
    BY <2>3 DEF Buffers
<1> QED
  BY <1>1, <1>2

(* The next one to act is a layer further down, or the handler.            *)
LEMMA PassedDepth ==
  ASSUME NEW s, NEW n \in Nat, Len(s.chain) = n, NEW i \in 0..n
  PROVE  \E j \in (i + 1)..(n + 1) :
           /\ Deciding(s, j)
           /\ \A k \in (i + 1)..(j - 1) : ~Deciding(s, k)
<1> DEFINE D == {j \in (i + 1)..(n + 1) : Deciding(s, j)}
<1>1. n + 1 \in D
  BY DEF Deciding
<1>2. D \subseteq Nat /\ D # {}
  BY <1>1
<1>3. PICK j \in D : \A k \in D : j <= k
  BY <1>2, LeastNatural
<1>4. ASSUME NEW k \in (i + 1)..(j - 1) PROVE ~Deciding(s, k)
  BY <1>3, <1>4
<1> QED
  BY <1>3, <1>4

(* A request on its way inwards is in order at every layer.                *)
LEMMA PassedOK ==
  ASSUME NEW s \in Requests, Len(s.inner) = Len(s.chain), Untouched(s),
         NEW i \in 0..Len(s.chain)
  PROVE  ChainOK(Passed(s, i))
<1> DEFINE n == Len(s.chain)
           d == Passed(s, i).depth
<1>1. n \in Nat
  BY ChainType
<1>2. d \in (i + 1)..(n + 1)
  BY <1>1, PassedDepth DEF Passed, Requests
<1>3. Passed(s, i) = [s EXCEPT !.at = "down", !.depth = d]
  BY DEF Passed, Requests
<1>4. d \in Nat /\ d <= n + 1
  BY <1>1, <1>2
<1> HIDE DEF d
<1>5. Typed(Passed(s, i))
  BY <1>3, <1>4 DEF Typed, Requests
<1>6. Untouched(Passed(s, i)) /\ Passed(s, i).at = "down"
  BY <1>3 DEF Untouched, Requests
<1> QED
  BY <1>5, <1>6 DEF ChainOK

(* What a WriteHeader changes: recorders, and without a buffer the status. *)
Unwritten(s, t) ==
  /\ t.chain = s.chain /\ t.at = s.at /\ t.depth = s.depth /\ t.body = s.body
  /\ t.held = s.held /\ t.counted = s.counted /\ t.verdict = s.verdict
  /\ t.handled = s.handled /\ t.early = s.early /\ t.panicked = s.panicked

(* What WriteHeader changes: the recorders and the buffer it reaches.      *)
LEMMA HeaderEffect ==
  ASSUME NEW s \in Requests, NEW i \in Nat, NEW code \in Codes
  PROVE  LET t == WriteHeader(s, i, code) IN
         /\ t \in Requests
         /\ Unwritten(s, t)
         /\ Len(t.inner) = Len(s.inner)
         /\ \A j \in 1..Len(s.inner) :
              \/ j = BufferOf(s, i)
              \/ BufferOf(s, i) < j /\ j <= i /\ s.chain[j] = "metrics"
              => t.inner[j] = code
         /\ IF BufferOf(s, i) > 0
            THEN t.logged = s.logged /\ t.wire = s.wire
            ELSE /\ t.logged = code
                 /\ t.wire = IF s.wire = 0 /\ code \in Final THEN code ELSE s.wire
<1> DEFINE b == BufferOf(s, i)
           new == [j \in DOMAIN s.inner |->
                     IF j = b \/ (b < j /\ j <= i /\ s.chain[j] = "metrics")
                     THEN code ELSE s.inner[j]]
           t == WriteHeader(s, i, code)
<1>1. /\ s.inner \in Seq(Codes) /\ DOMAIN s.inner = 1..Len(s.inner)
      /\ Len(s.inner) \in Nat
  BY ChainType
<1>2. new \in Seq(Codes) /\ Len(new) = Len(s.inner)
  <2>1. new \in [1..Len(s.inner) -> Codes]
    BY <1>1, ElementOfSeq
  <2> QED
    BY <2>1, <1>1, IsASeq, LenProperties
<1>3. b \in Nat
  BY BufferType
<1>4. CASE b > 0
  <2>1. t = [s EXCEPT !.inner = new]
    BY <1>4 DEF WriteHeader
  <2> HIDE DEF new
  <2>2. /\ t \in Requests /\ t.inner = new /\ t.logged = s.logged /\ t.wire = s.wire
        /\ Unwritten(s, t)
    BY <2>1, <1>2 DEF Requests, Unwritten
  <2> QED
    BY <2>2, <1>1, <1>2, <1>4 DEF new
<1>5. CASE b = 0
  <2> DEFINE w == IF s.wire = 0 /\ code \in Final THEN code ELSE s.wire
  <2>1. t = [s EXCEPT !.inner = new, !.logged = code, !.wire = w]
    BY <1>5 DEF WriteHeader, Requests
  <2>2. w \in {0} \cup Final
    BY DEF Requests
  <2> HIDE DEF new, w
  <2>3. /\ t \in Requests /\ t.inner = new /\ t.logged = code /\ t.wire = w
        /\ Unwritten(s, t)
    BY <2>1, <2>2, <1>2, ZenonT(60) DEF Requests, Unwritten
  <2> QED
    BY <2>3, <1>1, <1>2, <1>5 DEF new, w
<1> QED
  BY <1>3, <1>4, <1>5

(* Recover's answer, whatever panicked and where.                          *)
LEMMA RecoveredOK ==
  ASSUME NEW s \in Requests,
         s.verdict # 0 => s.handled = 0,
         s.wire = 0 => s.body = {} /\ (MetricsOutermost(s.chain) => s.counted = {})
  PROVE  ChainOK(Recovered(s))
<1> DEFINE h == WriteHeader(s, 0, Failed)
<1>1. BufferOf(s, 0) = 0 /\ BufferOf(h, 0) = 0
  BY BufferType
<1>2. /\ h \in Requests /\ Unwritten(s, h)
      /\ h.logged = Failed
      /\ h.wire = IF s.wire = 0 THEN Failed ELSE s.wire
  <2>1. Failed \in Codes /\ Failed \in Final
    BY CodesTypes
  <2> HIDE DEF h
  <2>2. h = WriteHeader(s, 0, Failed)
    BY DEF h
  <2> QED
    BY <2>1, <2>2, <1>1, HeaderEffect
<1> HIDE DEF h
<1>3. h.wire # 0
  BY <1>2, CodesTypes
<1> DEFINE w == Write(h, 0, {"error"})
<1>4. w = [h EXCEPT !.body = h.body \cup {"error"}]
  <2>1. w = [h EXCEPT !.wire = h.wire, !.body = h.body \cup {"error"}]
    BY <1>1, <1>3 DEF Write
  <2> QED
    BY <2>1, <1>2, ZenonT(60) DEF Requests
<1> HIDE DEF w
<1>5. w \in Requests
  BY <1>2, <1>4 DEF Requests
<1> DEFINE z == Logged(w)
<1>6. z = [w EXCEPT !.at = "done", !.depth = 0, !.inner = <<>>, !.held = {},
                    !.wire = w.wire]
  BY <1>2, <1>3, <1>4 DEF Logged, Requests
<1> HIDE DEF z
<1> DEFINE r == Recovered(s)
<1>0a. r = [z EXCEPT !.panicked = TRUE, !.early = (s.wire # 0)]
  BY DEF Recovered, h, w, z
<1> HIDE DEF r
<1>0b. z \in Requests
  BY <1>5, <1>6, RangeEmpty DEF Requests
<1>7. /\ r.chain = s.chain /\ r.at = "done" /\ r.depth = 0 /\ r.inner = <<>>
      /\ r.body = s.body \cup {"error"} /\ r.wire = h.wire /\ r.logged = Failed
      /\ r.counted = s.counted /\ r.verdict = s.verdict /\ r.handled = s.handled
      /\ r.panicked = TRUE /\ r.early = (s.wire # 0)
  <2>1. /\ w.chain = s.chain /\ w.body = s.body \cup {"error"} /\ w.wire = h.wire
        /\ w.logged = Failed /\ w.counted = s.counted /\ w.verdict = s.verdict
        /\ w.handled = s.handled
    BY <1>2, <1>4 DEF Requests, Unwritten
  <2>2. /\ z.chain = w.chain /\ z.at = "done" /\ z.depth = 0 /\ z.inner = <<>>
        /\ z.body = w.body /\ z.wire = w.wire /\ z.logged = w.logged
        /\ z.counted = w.counted /\ z.verdict = w.verdict /\ z.handled = w.handled
    BY <1>5, <1>6 DEF Requests
  <2> QED
    BY <2>1, <2>2, <1>0a, <1>0b DEF Requests
<1>8. r \in Requests
  <2> DEFINE e == s.wire # 0
  <2>1. e \in BOOLEAN
    OBVIOUS
  <2>2. r = [z EXCEPT !.panicked = TRUE, !.early = e]
    BY <1>0a
  <2> HIDE DEF e
  <2> QED
    BY <2>1, <2>2, <1>0b DEF Requests
<1>9. Typed(r)
  BY <1>7, <1>8, ChainType DEF Typed, Active
<1>10. Refusal(r)
  BY <1>7 DEF Refusal
<1>11. One(r)
  BY <1>2, <1>7 DEF One
<1>12. Told(r)
  BY <1>2, <1>7 DEF Told
<1> QED
  BY <1>7, <1>9, <1>10, <1>11, <1>12 DEF ChainOK, r

(* One answer on writer i: held by the nearest buffer, or the client's.    *)
LEMMA AnsweredOK ==
  ASSUME NEW s \in Requests, Len(s.inner) = Len(s.chain), Unsent(s), s.held = {},
         NEW i \in 0..Len(s.chain), MetricsOutermost(s.chain) /\ s.chain # <<>> => i > 0,
         NEW code \in Codes, NEW from, Answer(s, code, from)
  PROVE  ChainOK(Answered(s, i, code, from))
<1> DEFINE n == Len(s.chain)
           b == BufferOf(s, i)
           h == WriteHeader(s, i, code)
<1>1. /\ n \in Nat /\ DOMAIN s.chain = 1..n /\ i \in Nat
      /\ DOMAIN s.inner = 1..n /\ from \in SUBSET Authors
      /\ s.wire = 0 /\ (s.verdict # 0 => s.handled = 0)
  BY ChainType DEF Answer, Authors, Unsent
<1>2. b \in 0..i /\ (b > 0 => s.chain[b] = "post")
  BY <1>1, BufferType
<1>3. /\ h \in Requests /\ Unwritten(s, h) /\ Len(h.inner) = n
      /\ \A j \in 1..n : j = b \/ (b < j /\ j <= i /\ s.chain[j] = "metrics")
                       => h.inner[j] = code
      /\ IF b > 0 THEN h.logged = s.logged /\ h.wire = 0
         ELSE h.logged = code /\ h.wire = IF code \in Final THEN code ELSE 0
  BY <1>1, HeaderEffect, SMTT(30)
<1>4. BufferOf(h, i) = b
  BY <1>3 DEF BufferOf, Buffers, Unwritten
<1> HIDE DEF h, b, n
<1>5. CASE Panics(s, i, code)
  <2>1. b = 0 /\ code = Impossible
    BY <1>5 DEF Panics, b
  <2>2. h.wire = 0
    BY <2>1, <1>3, CodesTypes
  <2>3. ChainOK(Recovered(h))
    BY <1>1, <1>3, <2>2, RecoveredOK DEF Unwritten, Unsent
  <2> QED
    BY <2>3, <1>5 DEF Answered, h
<1>6. CASE ~Panics(s, i, code) /\ b > 0
  <2> DEFINE w == Write(h, i, from)
  <2>1. w \in Requests /\ w = [h EXCEPT !.held = from]
    <3>1. h.held \cup from = from
      BY <1>3 DEF Unwritten
    <3>2. w = [h EXCEPT !.held = h.held \cup from]
      BY <1>4, <1>6 DEF Write
    <3> HIDE DEF w
    <3> QED
      BY <3>1, <3>2, <1>1, <1>3 DEF Requests, Authors
  <2>2. BufferOf(w, i) = b
    BY <2>1, <1>3, <1>4, SMTT(30) DEF BufferOf, Buffers, Requests
  <2> HIDE DEF w
  <2> DEFINE m == {k \in (b + 1)..i : w.chain[k] = "metrics"}
             c == w.counted \cup {w.inner[k] : k \in m}
             t == Returned(w, i)
  <2>3. t = [w EXCEPT !.at = "up", !.depth = b, !.counted = c]
    BY <2>2, <1>6 DEF Returned
  <2>4. c \in SUBSET Codes
    <3>1. \A k \in m : w.inner[k] \in Codes
      BY <2>1, <1>1, <1>2, <1>3, ElementOfSeq DEF Requests, n
    <3>2. w.counted \in SUBSET Codes
      BY <2>1 DEF Requests
    <3> HIDE DEF m
    <3> QED
      BY <3>1, <3>2
  <2>5. MetricsOutermost(s.chain) => c = {}
    <3>1. ASSUME MetricsOutermost(s.chain) PROVE m = {}
      <4>1. w.chain = s.chain
        BY <2>1, <1>3 DEF Unwritten, Requests
      <4>2. \A k \in 1..n : s.chain[k] = "metrics" <=> k = 1
        BY <3>1, <1>1 DEF MetricsOutermost
      <4> QED
        BY <4>1, <4>2, <1>1, <1>2, <1>6 DEF n
    <3> QED
      BY <3>1, <2>1, <1>3 DEF Unsent, Unwritten, Requests
  <2> HIDE DEF c, t
  <2>6. b \in Nat /\ b <= n + 1 /\ b \in 1..n
    BY <1>1, <1>2, <1>6 DEF n
  <2>7. /\ t \in Requests /\ t.at = "up" /\ t.depth = b /\ t.chain = s.chain
        /\ t.inner = h.inner /\ t.held = from /\ t.counted = c /\ t.wire = 0
        /\ t.body = s.body /\ t.verdict = s.verdict /\ t.handled = s.handled
        /\ t.early = s.early /\ t.panicked = s.panicked
    BY <2>1, <2>3, <2>4, <2>6, <1>3, <1>6, ZenonT(60) DEF Requests, Unwritten
  <2>8. Typed(t)
    BY <2>6, <2>7, <1>3 DEF Typed, n
  <2>9. Buffered(t)
    BY <2>5, <2>6, <2>7, <1>1, <1>3 DEF Buffered, Unsent, Answer
  <2>10. ChainOK(t)
    BY <2>7, <2>8, <2>9 DEF ChainOK
  <2> QED
    BY <2>10, <1>6 DEF Answered, h, w, t
<1>7. CASE ~Panics(s, i, code) /\ b = 0
  <2> DEFINE w == Write(h, i, from)
             v == IF code \in Final THEN code ELSE OK
  <2>1. w \in Requests /\ w = [h EXCEPT !.wire = v, !.body = from]
    <3>1. h.body \cup from = from /\ v = IF h.wire = 0 THEN OK ELSE h.wire
      BY <1>3, <1>7, CodesTypes DEF Unwritten, Unsent
    <3>2. w = [h EXCEPT !.wire = IF h.wire = 0 THEN OK ELSE h.wire,
                        !.body = h.body \cup from]
      BY <1>3, <1>4, <1>7 DEF Write, Requests
    <3>3. v \in {0} \cup Final /\ from \in SUBSET {"hook", "handler", "error"}
      BY <1>1, CodesTypes DEF Authors
    <3>4. w = [h EXCEPT !.wire = v, !.body = from]
      BY <3>1, <3>2
    <3> HIDE DEF w, v
    <3> QED
      BY <3>3, <3>4, <1>3 DEF Requests
  <2>2. BufferOf(w, i) = b
    <3>1. w.chain = h.chain
      BY <2>1, <1>3 DEF Requests
    <3> QED
      BY <3>1, <1>4 DEF BufferOf, Buffers
  <2>3. v # 0
    BY CodesTypes
  <2> HIDE DEF w, v
  <2> DEFINE m == {k \in (b + 1)..i : w.chain[k] = "metrics"}
             c == w.counted \cup {w.inner[k] : k \in m}
             t == Returned(w, i)
  <2>4. t = Logged([w EXCEPT !.at = "up", !.depth = b, !.counted = c])
    BY <2>1, <2>2, <1>7 DEF Returned, Requests
  <2>5. c \in SUBSET Codes
    <3>1. \A k \in m : w.inner[k] \in Codes
      BY <2>1, <1>1, <1>2, <1>3, ElementOfSeq DEF Requests, n
    <3>2. w.counted \in SUBSET Codes
      BY <2>1 DEF Requests
    <3> HIDE DEF m
    <3> QED
      BY <3>1, <3>2
  <2>6. MetricsOutermost(s.chain) /\ s.chain # <<>> => c = {code}
    <3>1. ASSUME MetricsOutermost(s.chain), s.chain # <<>> PROVE m = {1} /\ w.inner[1] = code
      <4>1. w.chain = s.chain /\ w.inner = h.inner /\ i >= 1 /\ 1 \in 1..n
        BY <3>1, <2>1, <1>1, <1>3 DEF Unwritten, Requests, n
      <4>2. \A k \in 1..n : s.chain[k] = "metrics" <=> k = 1
        BY <3>1, <1>1 DEF MetricsOutermost
      <4> QED
        BY <4>1, <4>2, <1>1, <1>3, <1>7 DEF n
    <3>2. MetricsOutermost(s.chain) => w.counted = {}
      BY <2>1, <1>3 DEF Unsent, Unwritten, Requests
    <3> QED
      BY <3>1, <3>2
  <2> HIDE DEF c, t
  <2> DEFINE u == [w EXCEPT !.at = "up", !.depth = b, !.counted = c]
  <2>7. u \in Requests /\ u.wire = v
    BY <2>1, <2>5, <1>7, <1>3, ZenonT(60) DEF Requests
  <2>8. t = [u EXCEPT !.at = "done", !.depth = 0, !.inner = <<>>, !.held = {}, !.wire = v]
    BY <2>3, <2>4, <2>7 DEF Logged
  <2>9. /\ t \in Requests /\ t.at = "done" /\ t.depth = 0 /\ t.chain = s.chain
        /\ t.inner = <<>> /\ t.counted = c /\ t.wire = v /\ t.logged = code
        /\ t.body = from /\ t.verdict = s.verdict /\ t.handled = s.handled
        /\ t.early = s.early /\ t.panicked = s.panicked
    <3>1. v \in {0} \cup Final
      BY <2>1, <1>3 DEF Requests
    <3>2. /\ w.chain = s.chain /\ w.logged = code /\ w.wire = v /\ w.body = from
          /\ w.verdict = s.verdict /\ w.handled = s.handled
          /\ w.early = s.early /\ w.panicked = s.panicked
      BY <2>1, <1>3, <1>7 DEF Requests, Unwritten
    <3>3. /\ u.chain = w.chain /\ u.logged = w.logged /\ u.body = w.body
          /\ u.counted = c
          /\ u.verdict = w.verdict /\ u.handled = w.handled
          /\ u.early = w.early /\ u.panicked = w.panicked
      BY <2>1 DEF Requests
    <3> HIDE DEF u
    <3> QED
      BY <2>7, <2>8, <3>1, <3>2, <3>3, RangeEmpty DEF Requests
  <2>10. Typed(t)
    BY <2>9, ChainType DEF Typed, Active
  <2>11. Refusal(t)
    BY <2>9 DEF Refusal, Answer, v
  <2>12. One(t)
    <3>1. /\ {"handler"} # {"error"} /\ {"hook"} # {"error"}
          /\ "handler" \notin {"hook"}
      OBVIOUS
    <3> QED
      BY <3>1, <2>9 DEF One, Answer, Unsent
  <2>13. Told(t)
    <3>1. s.verdict # Info => code = v
      <4>1. code # Impossible
        BY <1>1, <1>7 DEF Panics, b
      <4> QED
        BY <4>1, CodesTypes DEF Answer, v
    <3> QED
      BY <2>9, <2>6, <3>1 DEF Told, Unsent
  <2>14. ChainOK(t)
    BY <2>9, <2>10, <2>11, <2>12, <2>13 DEF ChainOK
  <2> QED
    BY <2>14, <1>7 DEF Answered, h, w, t
<1> QED
  BY <1>2, <1>5, <1>6, <1>7

-----------------------------------------------------------------------------
(* The steps.                                                              *)

(* No request is in order,                                                 *)
LEMMA NoRequestOK == ChainOK(NoRequest)
<1>1. NoRequest \in Requests
  BY RangeEmpty, CodesTypes DEF NoRequest, Requests
<1> QED
  BY <1>1, RangeEmpty DEF NoRequest, ChainOK, Typed, Active

(* ... and one that just arrived is.                                       *)
LEMMA ArrivedOK ==
  ASSUME NEW chain \in Chains
  PROVE  ChainOK(Arrived(chain))
<1> DEFINE n == Len(chain)
           inner == [i \in 1..n |-> OK]
           s == [NoRequest EXCEPT !.chain = chain, !.inner = inner]
<1>1. chain \in Seq(Layers) /\ n \in Nat
  BY ChainAssumption, LenProperties
<1>2. inner \in Seq(Codes) /\ Len(inner) = n
  <2>1. inner \in [1..n -> Codes]
    BY CodesTypes
  <2> QED
    BY <2>1, <1>1, IsASeq, LenProperties
<1> HIDE DEF inner
<1>3. s \in Requests /\ s.chain = chain /\ s.inner = inner /\ Untouched(s)
  <2>1. NoRequest \in Requests /\ Untouched(NoRequest)
    BY NoRequestOK DEF ChainOK, Typed, NoRequest, Untouched
  <2> HIDE DEF NoRequest
  <2>2. s \in Requests /\ s.chain = chain /\ s.inner = inner
    BY <2>1, <1>2 DEF Requests
  <2> QED
    BY <2>1, <2>2 DEF Untouched, Requests
<1> HIDE DEF s
<1>4. ChainOK(Passed(s, 0))
  BY <1>1, <1>2, <1>3, PassedOK
<1> QED
  BY <1>4 DEF Arrived, s, inner

(* Where a layer acts, on the way down, nothing is written yet.            *)
LEMMA AtLayer ==
  ASSUME ChainInv, NEW r \in Request, NEW where, NEW kind, At(r, where, kind)
  PROVE  LET s == req[r] IN
         /\ ChainOK(s) /\ s \in Requests /\ s.at = where
         /\ s.depth \in 1..Len(s.chain) /\ Len(s.chain) \in Nat
         /\ s.depth - 1 \in 0..Len(s.chain)
         /\ s.chain[s.depth] = kind
         /\ MetricsOutermost(s.chain) /\ kind # "metrics" => s.depth - 1 > 0
<1> DEFINE s == req[r]
<1>1. ChainOK(s) /\ s \in Requests
  BY DEF ChainInv
<1>2. /\ s.at = where /\ s.depth \in DOMAIN s.chain /\ s.chain[s.depth] = kind
  BY DEF At
<1>3. DOMAIN s.chain = 1..Len(s.chain) /\ Len(s.chain) \in Nat
  BY <1>1, ChainType
<1>4. MetricsOutermost(s.chain) /\ kind # "metrics" => s.depth # 1
  BY <1>2 DEF MetricsOutermost
<1> QED
  BY <1>1, <1>2, <1>3, <1>4

(* A hook refuses with code.                                               *)
LEMMA RefusedOK ==
  ASSUME NEW s \in Requests, Len(s.inner) = Len(s.chain), Untouched(s),
         NEW i \in 0..Len(s.chain), MetricsOutermost(s.chain) => i > 0,
         NEW code \in Codes
  PROVE  ChainOK(Answered([s EXCEPT !.verdict = code], i, code, {"hook"}))
<1> DEFINE t == [s EXCEPT !.verdict = code]
<1>1. /\ t \in Requests /\ t.inner = s.inner /\ t.chain = s.chain /\ t.verdict = code
      /\ t.wire = 0 /\ t.body = {} /\ t.held = {} /\ t.counted = {} /\ t.handled = 0
      /\ ~t.early /\ ~t.panicked
  BY DEF Requests, Untouched
<1> HIDE DEF t
<1>2. Unsent(t)
  BY <1>1 DEF Unsent
<1>3. Answer(t, code, {"hook"})
  BY <1>1, CodesTypes DEF Answer
<1>4. ChainOK(Answered(t, i, code, {"hook"}))
  BY <1>1, <1>2, <1>3, AnsweredOK
<1> QED
  BY <1>4 DEF t


(* ... and panics after that.                                              *)
LEMMA RefusedThenPanicsOK ==
  ASSUME NEW s \in Requests, Untouched(s), NEW i \in Nat
  PROVE  ChainOK(Recovered(Write(WriteHeader([s EXCEPT !.verdict = Refused], i, Refused),
                                 i, {"hook"})))
<1> DEFINE t == [s EXCEPT !.verdict = Refused]
           h == WriteHeader(t, i, Refused)
           w == Write(h, i, {"hook"})
<1>1. Refused \in Codes /\ Refused \in Final /\ Refused # 0
  BY CodesTypes DEF Final
<1>2. /\ t \in Requests /\ t.wire = 0 /\ t.body = {} /\ t.counted = {} /\ t.handled = 0
  BY <1>1 DEF Requests, Untouched
<1> HIDE DEF t
<1>3. /\ h \in Requests /\ Unwritten(t, h)
      /\ BufferOf(t, i) > 0 => h.wire = 0
      /\ ~(BufferOf(t, i) > 0) => h.wire = Refused
  BY <1>1, <1>2, HeaderEffect
<1>4. BufferOf(h, i) = BufferOf(t, i)
  BY <1>3 DEF BufferOf, Buffers, Unwritten
<1> HIDE DEF h
<1>5. CASE BufferOf(h, i) > 0
  <2>1. w = [h EXCEPT !.held = h.held \cup {"hook"}]
    BY <1>5 DEF Write
  <2> HIDE DEF w
  <2>2. /\ w \in Requests /\ w.handled = 0 /\ w.body = {} /\ w.counted = {}
    BY <2>1, <1>2, <1>3 DEF Requests, Unwritten
  <2>3. ChainOK(Recovered(w))
    BY <2>2, RecoveredOK
  <2> QED
    BY <2>3 DEF w, h, t
<1>6. CASE ~(BufferOf(h, i) > 0)
  <2>1. w = [h EXCEPT !.wire = h.wire, !.body = h.body \cup {"hook"}]
    BY <1>1, <1>3, <1>4, <1>6 DEF Write
  <2> HIDE DEF w
  <2>2. /\ w \in Requests /\ w.handled = 0 /\ w.wire # 0
    BY <2>1, <1>1, <1>2, <1>3, <1>4, <1>6 DEF Requests, Unwritten
  <2>3. ChainOK(Recovered(w))
    BY <2>2, RecoveredOK
  <2> QED
    BY <2>3 DEF w, h, t
<1> QED
  BY <1>5, <1>6

(* To keep the invariant it is enough that the request that moves is in    *)
(* order.                                                                  *)
LEMMA BecomeOK ==
  ASSUME ChainInv, NEW r \in Request, NEW s, ChainOK(s), Become(r, s)
  PROVE  ChainInv'
<1>1. req' = [req EXCEPT ![r] = s] /\ s \in Requests /\ req \in [Request -> Requests]
  BY DEF Become, ChainOK, Typed, ChainInv
<1>2. req' \in [Request -> Requests] /\ \A q \in Request : q # r => req'[q] = req[q]
  BY <1>1
<1>3. req'[r] = s
  BY <1>1
<1>4. \A q \in Request : ChainOK(req'[q])
  BY <1>2, <1>3 DEF ChainInv
<1> QED
  BY <1>2, <1>4 DEF ChainInv

(* A pre-hook,                                                             *)
LEMMA PreFuncOK ==
  ASSUME ChainInv, NEW r \in Request, PreFunc(r)
  PROVE  ChainInv'
<1> DEFINE s == req[r]
<1>1. /\ ChainOK(s) /\ s \in Requests /\ s.at = "down"
      /\ s.depth \in 1..Len(s.chain) /\ Len(s.chain) \in Nat
      /\ s.depth - 1 \in 0..Len(s.chain)
      /\ MetricsOutermost(s.chain) => s.depth - 1 > 0
  BY AtLayer DEF PreFunc
<1> HIDE DEF s
<1>2. Untouched(s) /\ Len(s.inner) = Len(s.chain)
  BY <1>1 DEF ChainOK, Typed, Active
<1>3. ChainOK(Passed(s, s.depth))
  BY <1>1, <1>2, PassedOK
<1>4. ChainOK(Answered([s EXCEPT !.verdict = Refused], s.depth - 1, Refused, {"hook"}))
  <2>1. Refused \in Codes
    BY CodesTypes DEF Final
  <2> QED
    BY <1>1, <1>2, <2>1, RefusedOK
<1>5. ChainOK(Recovered(s))
  BY <1>1, <1>2, RecoveredOK DEF Untouched
<1>6. ChainOK(Recovered(Write(WriteHeader([s EXCEPT !.verdict = Refused],
                                          s.depth - 1, Refused), s.depth - 1, {"hook"})))
  BY <1>1, <1>2, RefusedThenPanicsOK
<1>7. \/ Become(r, Passed(s, s.depth))
      \/ Become(r, Answered([s EXCEPT !.verdict = Refused], s.depth - 1, Refused, {"hook"}))
      \/ Become(r, Recovered(s))
      \/ Become(r, Recovered(Write(WriteHeader([s EXCEPT !.verdict = Refused],
                                               s.depth - 1, Refused),
                                   s.depth - 1, {"hook"})))
  BY DEF PreFunc, s
<1> QED
  BY <1>3, <1>4, <1>5, <1>6, <1>7, BecomeOK

(* ... a webhook,                                                          *)
LEMMA WebhookOK ==
  ASSUME ChainInv, NEW r \in Request,
         AskWebhook(r) \/ WebhookProceeds(r) \/ WebhookRefuses(r) \/ WebhookFails(r)
  PROVE  ChainInv'
<1> DEFINE s == req[r]
<1>1. /\ ChainOK(s) /\ s \in Requests /\ s.at \in {"down", "asking"}
      /\ s.depth \in 1..Len(s.chain) /\ Len(s.chain) \in Nat
      /\ s.depth - 1 \in 0..Len(s.chain)
      /\ MetricsOutermost(s.chain) => s.depth - 1 > 0
  <2>1. \E where \in {"down", "asking"} : At(r, where, "webhook")
    BY DEF AskWebhook, WebhookProceeds, WebhookRefuses, WebhookFails
  <2> QED
    BY <2>1, AtLayer
<1> HIDE DEF s
<1>2. Untouched(s) /\ Len(s.inner) = Len(s.chain)
  BY <1>1 DEF ChainOK, Typed, Active
<1>3. CASE AskWebhook(r)
  <2> DEFINE t == [s EXCEPT !.at = "asking"]
  <2>1. t \in Requests /\ t.at = "asking" /\ Untouched(t)
        /\ t.depth = s.depth /\ t.chain = s.chain /\ t.inner = s.inner
    BY <1>1, <1>2 DEF Requests, Untouched
  <2>2. ChainOK(t)
    BY <2>1, <1>1, <1>2 DEF ChainOK, Typed
  <2>3. Become(r, t)
    BY <1>3 DEF AskWebhook, s
  <2> QED
    BY <2>2, <2>3, BecomeOK
<1>4. CASE WebhookProceeds(r)
  <2>1. ChainOK(Passed(s, s.depth)) /\ Become(r, Passed(s, s.depth))
    BY <1>1, <1>2, <1>4, PassedOK DEF WebhookProceeds, s
  <2> QED
    BY <2>1, BecomeOK
<1>5. CASE WebhookRefuses(r) \/ WebhookFails(r)
  <2>1. PICK code \in Codes :
          Become(r, Answered([s EXCEPT !.verdict = code], s.depth - 1, code, {"hook"}))
    BY <1>5 DEF WebhookRefuses, WebhookFails, s, Codes, Final
  <2>2. ChainOK(Answered([s EXCEPT !.verdict = code], s.depth - 1, code, {"hook"}))
    BY <1>1, <1>2, RefusedOK
  <2> QED
    BY <2>1, <2>2, BecomeOK
<1> QED
  BY <1>3, <1>4, <1>5

(* ... and a post-hook keep their request in order.                        *)
LEMMA RunPostFuncOK ==
  ASSUME ChainInv, NEW r \in Request, RunPostFunc(r)
  PROVE  ChainInv'
<1> DEFINE s == req[r]
           t == [s EXCEPT !.held = {}]
<1>1. /\ ChainOK(s) /\ s \in Requests /\ s.at = "up"
      /\ s.depth \in 1..Len(s.chain) /\ Len(s.chain) \in Nat
      /\ s.depth - 1 \in 0..Len(s.chain)
      /\ MetricsOutermost(s.chain) => s.depth - 1 > 0
  BY AtLayer DEF RunPostFunc
<1>2. \/ Become(r, Recovered(s))
      \/ Become(r, Answered(t, s.depth - 1, s.inner[s.depth], s.held))
  BY DEF RunPostFunc
<1> HIDE DEF s
<1>3. Buffered(s) /\ Len(s.inner) = Len(s.chain)
  BY <1>1 DEF ChainOK, Typed, Active
<1>4. ChainOK(Recovered(s))
  BY <1>1, <1>3, RecoveredOK DEF Buffered, Unsent, Answer
<1>5. /\ t \in Requests /\ t.held = {} /\ t.chain = s.chain /\ t.inner = s.inner
      /\ t.wire = s.wire /\ t.body = s.body /\ t.counted = s.counted
      /\ t.early = s.early /\ t.panicked = s.panicked
      /\ t.verdict = s.verdict /\ t.handled = s.handled
  BY <1>1 DEF Requests
<1>6. s.inner[s.depth] \in Codes
  BY <1>1, <1>3, ChainType, ElementOfSeq
<1> HIDE DEF t
<1>7. Unsent(t) /\ Answer(t, s.inner[s.depth], s.held)
  BY <1>3, <1>5 DEF Buffered, Unsent, Answer
<1>8. ChainOK(Answered(t, s.depth - 1, s.inner[s.depth], s.held))
  BY <1>1, <1>3, <1>5, <1>6, <1>7, AnsweredOK
<1> QED
  BY <1>2, <1>4, <1>8, BecomeOK

(* A hook's step of a request.                                             *)
LEMMA ChainStepOK ==
  ASSUME ChainInv, NEW r \in Request, ChainStep(r)
  PROVE  ChainInv'
  BY PreFuncOK, WebhookOK, RunPostFuncOK DEF ChainStep

(* The handler answers, or panics.                                         *)
LEMMA HandlerOK ==
  ASSUME ChainInv, NEW r \in Request,
         Handle(r, OK) \/ Handle(r, Failed) \/ HandlerPanics(r)
  PROVE  ChainInv'
<1> DEFINE s == req[r]
           t == [s EXCEPT !.handled = @ + 1]
           n == Len(s.chain)
<1>1. /\ ChainOK(s) /\ s \in Requests /\ s.at = "down" /\ s.depth = n + 1
  BY DEF Handle, HandlerPanics, InHandler, ChainInv
<1>2. \/ \E code \in {OK, Failed} : Become(r, Answered(t, n, code, {"handler"}))
      \/ Become(r, Recovered(t))
  BY DEF Handle, HandlerPanics
<1> HIDE DEF s
<1>3. Untouched(s) /\ Len(s.inner) = n /\ n \in Nat
  BY <1>1, ChainType DEF ChainOK, Typed, Active
<1>4. t = [s EXCEPT !.handled = 1]
  BY <1>3 DEF Untouched
<1> HIDE DEF t
<1>5. /\ t \in Requests /\ t.held = {} /\ t.chain = s.chain /\ t.inner = s.inner
      /\ t.wire = 0 /\ t.body = {} /\ t.counted = {} /\ ~t.early /\ ~t.panicked
      /\ t.verdict = 0 /\ t.handled = 1
  BY <1>1, <1>3, <1>4 DEF Requests, Untouched
<1>6. ChainOK(Recovered(t))
  BY <1>5, RecoveredOK
<1>7. ASSUME NEW code \in {OK, Failed}
      PROVE  ChainOK(Answered(t, n, code, {"handler"}))
  <2>1. code \in Codes
    BY CodesTypes
  <2>2. Unsent(t) /\ Answer(t, code, {"handler"})
    BY <1>5 DEF Unsent, Answer
  <2>3. t.chain # <<>> => n > 0
    BY <1>1, <1>5, ChainType, EmptySeq
  <2> QED
    BY <1>3, <1>5, <2>1, <2>2, <2>3, AnsweredOK
<1> QED
  BY <1>2, <1>6, <1>7, BecomeOK

(* What ChainInv says of the runs' invariants.                             *)
LEMMA ChainInvImplies ==
  ASSUME ChainInv
  PROVE  ChainTypeOK /\ RefusalReachesClient /\ OneAnswer /\ LogMatchesClient
  BY DEF ChainInv, ChainOK, Typed, ChainTypeOK, Refusal, One, Told,
     RefusalReachesClient, OneAnswer, LogMatchesClient

----------------------------------------------------------------------------
(* The processes: the database file, and the order in which they stop.     *)

Migrating == {"next", "upgrade", "commit"}
Migrated  == {"metadata", "probeGeom", "addColumn", "register", "probeIndex",
              "enableIndex", "buildIndex", "open"}

SchemaTypes ==
  /\ file \in [wal: BOOLEAN, boot: BOOLEAN, made: SUBSET Nat, recorded: SUBSET Nat,
               meta: BOOLEAN, column: BOOLEAN, registered: BOOLEAN,
               enabled: BOOLEAN, index: BOOLEAN]
  /\ \E v \in {0} \cup file.recorded : \A w \in file.recorded : w <= v
  /\ step \in [Proc -> Steps]
  /\ seen \in [Proc -> [at: Nat, current: BOOLEAN]]

(* What p has passed, and what it is about to carry out.                   *)
Progress(p) ==
  /\ step[p] \in Migrating =>
       seen[p].at \in Nat \ {0} /\ \A v \in 1..(seen[p].at - 1) : v \in file.made
  /\ step[p] \in Migrated => 1..SchemaVersion[p] \subseteq file.made

SchemaInv ==
  /\ SchemaTypes
  /\ RecordedIsApplied
  /\ \A p \in Proc : Progress(p)

(* What is known of p at each place of runServe: only a listener that is   *)
(* up gives it requests, only in select is it up, and each way out of      *)
(* there that leaves requests behind is noted in late or in the listener.  *)
LifeOf(p) ==
  /\ life[p] \in {"down", "build", "work"} => listener[p] = "none"
  /\ listener[p] = "up" => life[p] = "select"
  /\ listener[p] = "none" => Of(p) = {}
  /\ step[p] = "closed" => life[p] \in {"down", "return"}
  /\ errCh[p] => listener[p] = "ended"
  /\ p \in late => exit[p] = "error"
  /\ exit[p] = "none" <=> life[p] \notin {"cleanup", "return"}
  /\ exit[p] = "ok" => Of(p) = {}
  /\ exit[p] = "error" /\ Of(p) # {} => p \in late \/ listener[p] = "ended"

LifeInv ==
  /\ life \in [Proc -> Lives]
  /\ listener \in [Proc -> {"none", "starting", "up", "ended"}]
  /\ errCh \in [Proc -> BOOLEAN]
  /\ exit \in [Proc -> {"none", "ok", "error"}]
  /\ step \in [Proc -> Steps]
  /\ DOMAIN req = Request /\ DOMAIN by = Request
  /\ \A p \in Proc : LifeOf(p)

-----------------------------------------------------------------------------
(* What currentSchemaVersion returns is 0 or recorded, and nothing         *)
(* recorded exceeds it.                                                    *)
LEMMA VersionIsGreatest ==
  ASSUME SchemaTypes
  PROVE  /\ currentSchemaVersion \in {0} \cup file.recorded
         /\ currentSchemaVersion \in Nat
         /\ \A w \in file.recorded : w <= currentSchemaVersion
  BY DEF SchemaTypes, currentSchemaVersion

(* The initial states.                                                     *)
LEMMA SchemaInitially == SchemaInit => SchemaInv
<1> SUFFICES ASSUME SchemaInit PROVE SchemaInv
  OBVIOUS
<1>1. SchemaTypes
  BY DEF SchemaInit, SchemaTypes, NothingSeen, Steps, Opening
<1>2. RecordedIsApplied /\ \A p \in Proc : Progress(p)
  BY DEF SchemaInit, RecordedIsApplied, Progress, Migrating, Migrated
<1>. QED
  BY <1>1, <1>2 DEF SchemaInv

(* A step of p that carries out and records no migration keeps SchemaInv,  *)
(* if p keeps its own promise.                                             *)
LEMMA Moves ==
  ASSUME SchemaInv, NEW p \in Proc,
         file' \in [wal: BOOLEAN, boot: BOOLEAN, made: SUBSET Nat, recorded: SUBSET Nat,
                    meta: BOOLEAN, column: BOOLEAN, registered: BOOLEAN,
                    enabled: BOOLEAN, index: BOOLEAN],
         file'.made = file.made, file'.recorded = file.recorded,
         NEW s \in Steps, step' = [step EXCEPT ![p] = s],
         seen' \in [Proc -> [at: Nat, current: BOOLEAN]],
         \A q \in Proc \ {p} : seen'[q].at = seen[q].at,
         Progress(p)'
  PROVE  SchemaInv'
<1>1. SchemaTypes'
  BY DEF SchemaInv, SchemaTypes
<1>2. RecordedIsApplied'
  BY DEF SchemaInv, RecordedIsApplied
<1>3. \A q \in Proc \ {p} : Progress(q)'
  BY DEF SchemaInv, SchemaTypes, Progress
<1>. QED
  BY <1>1, <1>2, <1>3 DEF SchemaInv

(* The same where p keeps what it has seen and the file stays.             *)
LEMMA GoesOn ==
  ASSUME SchemaInv, NEW p \in Proc, NEW s \in Steps,
         Goto(p, s), UNCHANGED <<file, seen>>,
         s \in Migrating => step[p] \in Migrating,
         s \in Migrated =>
           step[p] \in Migrated \/ 1..SchemaVersion[p] \subseteq file.made
  PROVE  SchemaInv'
<1>1. Progress(p)'
  BY DEF SchemaInv, SchemaTypes, Progress, Goto
<1>. QED
  BY <1>1, Moves DEF SchemaInv, SchemaTypes, Goto

(* A commit leaves alone where the other processes are in their loops.     *)
LEMMA CommitSeen ==
  ASSUME SchemaTypes, NEW p \in Proc, NEW f,
         NEW x \in [at: Nat, current: BOOLEAN], Commit(p, f, x)
  PROVE  /\ file' = f
         /\ seen' \in [Proc -> [at: Nat, current: BOOLEAN]]
         /\ seen'[p] = x
         /\ \A q \in Proc \ {p} : seen'[q].at = seen[q].at
<1> DEFINE b(q) == seen[q].current /\ f = file
<1>1. /\ file' = f
      /\ seen' = [q \in Proc |-> IF q = p THEN x
                                 ELSE [seen[q] EXCEPT !.current = b(q)]]
  BY DEF Commit
<1>2. \A q \in Proc : b(q) \in BOOLEAN
  OBVIOUS
<1> HIDE DEF b
<1>. QED
  BY <1>1, <1>2 DEF SchemaTypes

(* The same where p, past its migrations, commits something else.          *)
LEMMA Commits ==
  ASSUME SchemaInv, NEW p \in Proc, NEW s \in Steps, NEW f,
         f \in [wal: BOOLEAN, boot: BOOLEAN, made: SUBSET Nat, recorded: SUBSET Nat,
                meta: BOOLEAN, column: BOOLEAN, registered: BOOLEAN,
                enabled: BOOLEAN, index: BOOLEAN],
         f.made = file.made, f.recorded = file.recorded,
         Goto(p, s), Commit(p, f, seen[p]),
         s \notin Migrating, s \in Migrated => step[p] \in Migrated
  PROVE  SchemaInv'
<1>1. Progress(p)'
  BY DEF SchemaInv, SchemaTypes, Progress, Goto, Commit
<1>2. /\ seen' \in [Proc -> [at: Nat, current: BOOLEAN]]
      /\ \A q \in Proc : seen'[q].at = seen[q].at
  BY CommitSeen DEF SchemaInv, SchemaTypes
<1>. QED
  BY <1>1, <1>2, Moves DEF SchemaInv, Goto, Commit

-----------------------------------------------------------------------------
(* The version is read: 0, or one whose migration and all before it are    *)
(* made, and not below any that is recorded.                               *)
LEMMA ReadVersionKeeps ==
  ASSUME SchemaInv, NEW p \in Proc, ReadVersion(p)
  PROVE  SchemaInv'
<1>1. CASE currentSchemaVersion > SchemaVersion[p]
  <2>1. Goto(p, "failed") /\ UNCHANGED <<file, seen>>
    BY <1>1 DEF ReadVersion
  <2>. QED
    BY <2>1, GoesOn DEF Steps, Migrating, Migrated
<1>2. CASE ~(currentSchemaVersion > SchemaVersion[p])
  <2> DEFINE v == currentSchemaVersion
  <2>1. /\ Goto(p, "next")
        /\ seen' = [seen EXCEPT ![p] = [seen[p] EXCEPT !.at = v + 1]]
        /\ file' = file
    BY <1>2 DEF ReadVersion, Keep
  <2>2. v \in Nat /\ 1..v \subseteq file.made
    BY VersionIsGreatest DEF SchemaInv, RecordedIsApplied
  <2> HIDE DEF v
  <2>3. /\ seen' \in [Proc -> [at: Nat, current: BOOLEAN]]
        /\ seen'[p].at = v + 1
        /\ \A q \in Proc \ {p} : seen'[q].at = seen[q].at
    BY <2>1, <2>2 DEF SchemaInv, SchemaTypes
  <2>4. Progress(p)'
    BY <2>1, <2>2, <2>3 DEF SchemaInv, SchemaTypes, Progress, Migrated, Goto
  <2>. QED
    BY <2>1, <2>3, <2>4, Moves DEF SchemaInv, SchemaTypes, Goto, Steps, Opening
<1>. QED
  BY <1>1, <1>2

(* applyMigration takes a snapshot.                                        *)
LEMMA BeginReadingKeeps ==
  ASSUME SchemaInv, NEW p \in Proc, BeginReading(p)
  PROVE  SchemaInv'
<1>1. /\ Goto(p, "upgrade") /\ step[p] = "next" /\ file' = file
      /\ seen' = [seen EXCEPT ![p] = [seen[p] EXCEPT !.current = TRUE]]
  BY DEF BeginReading, Keep
<1>2. /\ seen' \in [Proc -> [at: Nat, current: BOOLEAN]]
      /\ \A q \in Proc : seen'[q].at = seen[q].at
  BY <1>1 DEF SchemaInv, SchemaTypes
<1>3. Progress(p)'
  BY <1>1, <1>2 DEF SchemaInv, SchemaTypes, Progress, Migrating, Migrated, Goto
<1>. QED
  BY <1>1, <1>2, <1>3, Moves DEF SchemaInv, SchemaTypes, Goto, Steps, Opening

(* The one step that makes and records: everything below the migration it  *)
(* carries out is made.                                                    *)
LEMMA CommitMigrationKeeps ==
  ASSUME SchemaInv, NEW p \in Proc, CommitMigration(p)
  PROVE  SchemaInv'
<1> DEFINE n == seen[p].at
           f == [file EXCEPT !.made = @ \cup {n}, !.recorded = @ \cup {n}]
           x == [at |-> seen[p].at + 1, current |-> FALSE]
<1>1. /\ step[p] = "commit" /\ Goto(p, "next") /\ Commit(p, f, x)
  BY DEF CommitMigration
<1>2. n \in Nat \ {0} /\ \A v \in 1..(n - 1) : v \in file.made
  BY <1>1 DEF SchemaInv, Progress, Migrating
<1> HIDE DEF n
<1>3. x \in [at: Nat, current: BOOLEAN] /\ x.at = n + 1
  BY <1>2 DEF n
<1>4. /\ f \in [wal: BOOLEAN, boot: BOOLEAN, made: SUBSET Nat, recorded: SUBSET Nat,
                meta: BOOLEAN, column: BOOLEAN, registered: BOOLEAN,
                enabled: BOOLEAN, index: BOOLEAN]
      /\ f.made = file.made \cup {n}
      /\ f.recorded = file.recorded \cup {n}
  BY <1>2 DEF SchemaInv, SchemaTypes
<1> HIDE DEF f, x
<1>5. /\ file' = f
      /\ seen' \in [Proc -> [at: Nat, current: BOOLEAN]]
      /\ seen'[p] = x
      /\ \A q \in Proc \ {p} : seen'[q].at = seen[q].at
  BY <1>1, <1>3, CommitSeen DEF SchemaInv
<1>6. step' = [step EXCEPT ![p] = "next"]
  BY <1>1 DEF Goto
<1>7. \E v \in {0} \cup file'.recorded : \A w \in file'.recorded : w <= v
  <2>1. PICK v \in {0} \cup file.recorded : \A w \in file.recorded : w <= v
    BY DEF SchemaInv, SchemaTypes
  <2>2. v \in Nat /\ file.recorded \subseteq Nat
    BY <2>1 DEF SchemaInv, SchemaTypes
  <2>3. CASE n <= v
    BY <1>4, <1>5, <2>1, <2>2, <2>3
  <2>4. CASE v < n
    BY <1>2, <1>4, <1>5, <2>1, <2>2, <2>4
  <2>. QED
    BY <1>2, <2>2, <2>3, <2>4
<1>8. SchemaTypes'
  BY <1>4, <1>5, <1>6, <1>7 DEF SchemaInv, SchemaTypes, Steps, Opening
<1>9. 1..n \subseteq file'.made
  BY <1>2, <1>4, <1>5
<1>10. RecordedIsApplied'
  BY <1>4, <1>5, <1>9 DEF SchemaInv, RecordedIsApplied
<1>11. ASSUME NEW q \in Proc PROVE Progress(q)'
  <2>1. CASE q = p
    BY <2>1, <1>2, <1>3, <1>5, <1>6, <1>9 DEF SchemaInv, SchemaTypes, Progress, Migrated
  <2>2. CASE q # p
    BY <2>2, <1>4, <1>5, <1>6 DEF SchemaInv, SchemaTypes, Progress
  <2>. QED
    BY <2>1, <2>2
<1>. QED
  BY <1>8, <1>10, <1>11 DEF SchemaInv

(* The loop ends: the last migration made is the binary's own version, or  *)
(* the version that was read is not below it.                              *)
LEMMA MigrationsDoneKeeps ==
  ASSUME SchemaInv, NEW p \in Proc, MigrationsDone(p)
  PROVE  SchemaInv'
<1>1. SchemaVersion[p] \in Nat
  BY VersionAssumption
<1>2. 1..SchemaVersion[p] \subseteq file.made
  BY <1>1 DEF MigrationsDone, SchemaInv, Progress, Migrating
<1>. QED
  BY <1>2, GoesOn DEF MigrationsDone, Steps, Opening, Migrating, Migrated

(* Every step of Open keeps SchemaInv.                                     *)
LEMMA OpenKeepsSchema ==
  ASSUME SchemaInv, NEW p \in Proc, OpenStep(p)
  PROVE  SchemaInv'
<1> USE DEF Steps, Opening, Migrating, Migrated
<1>1. file \in [wal: BOOLEAN, boot: BOOLEAN, made: SUBSET Nat, recorded: SUBSET Nat,
                meta: BOOLEAN, column: BOOLEAN, registered: BOOLEAN,
                enabled: BOOLEAN, index: BOOLEAN]
  BY DEF SchemaInv, SchemaTypes
<1>2. CASE Bootstrap(p)
  BY <1>1, <1>2, Commits DEF Bootstrap
<1>20. CASE Connect(p)
  BY <1>1, <1>20, Commits DEF Connect
<1>21. CASE ConnectRefused(p)
  BY <1>21, GoesOn DEF ConnectRefused
<1>3. CASE ReadVersion(p)
  BY <1>3, ReadVersionKeeps
<1>4. CASE BeginReading(p)
  BY <1>4, BeginReadingKeeps
<1>5. CASE BeginWriting(p)
  BY <1>5, GoesOn DEF BeginWriting
<1>6. CASE Upgrade(p)
  BY <1>6, GoesOn DEF Upgrade
<1>7. CASE UpgradeRefused(p)
  BY <1>7, GoesOn DEF UpgradeRefused
<1>8. CASE CommitMigration(p)
  BY <1>8, CommitMigrationKeeps
<1>9. CASE MigrationsDone(p)
  BY <1>9, MigrationsDoneKeeps
<1>10. CASE InitSpatialMetadata(p)
  BY <1>1, <1>10, Commits DEF InitSpatialMetadata
<1>11. CASE ProbeGeometry(p)
  <2>1. CASE ~file.meta
    BY <1>11, <2>1, GoesOn DEF ProbeGeometry
  <2>2. CASE file.meta /\ file.registered
    BY <1>11, <2>2, GoesOn DEF ProbeGeometry
  <2>3. CASE file.meta /\ ~file.registered
    BY <1>11, <2>3, GoesOn DEF ProbeGeometry
  <2>. QED
    BY <2>1, <2>2, <2>3
<1>12. CASE AddColumn(p)
  <2>1. CASE file.column
    BY <1>1, <1>12, <2>1, Commits DEF AddColumn
  <2>2. CASE ~file.column
    BY <1>1, <1>12, <2>2, Commits DEF AddColumn
  <2>. QED
    BY <2>1, <2>2
<1>13. CASE RegisterColumn(p)
  BY <1>1, <1>13, Commits DEF RegisterColumn
<1>14. CASE ProbeIndex(p)
  <2>1. CASE file.index
    BY <1>14, <2>1, GoesOn DEF ProbeIndex
  <2>2. CASE ~file.index
    BY <1>14, <2>2, GoesOn DEF ProbeIndex
  <2>. QED
    BY <2>1, <2>2
<1>15. CASE EnableIndex(p)
  <2>1. CASE file.registered /\ ~file.enabled
    BY <1>1, <1>15, <2>1, Commits DEF EnableIndex
  <2>2. CASE ~(file.registered /\ ~file.enabled)
    BY <1>15, <2>2, GoesOn DEF EnableIndex
  <2>. QED
    BY <2>1, <2>2
<1>16. CASE BuildIndex(p)
  BY <1>1, <1>16, Commits DEF BuildIndex
<1>17. CASE BusyFails(p)
  BY <1>17, GoesOn DEF BusyFails
<1>18. CASE BusyIgnored(p)
  BY <1>18, GoesOn DEF BusyIgnored
<1>19. CASE OpenCancelled(p)
  BY <1>19, GoesOn DEF OpenCancelled
<1>. QED
  BY <1>2, <1>3, <1>4, <1>5, <1>6, <1>7, <1>8, <1>9, <1>10, <1>11, <1>12,
     <1>13, <1>14, <1>15, <1>16, <1>17, <1>18, <1>19, <1>20, <1>21 DEF OpenStep

(* So do leaving the file, beginning to open it, and writing to it.        *)
LEMMA CloseKeepsSchema ==
  ASSUME SchemaInv, NEW p \in Proc, NEW killed, CloseFile(p, killed)
  PROVE  SchemaInv'
<1>1. /\ file' = file /\ step' = [step EXCEPT ![p] = "closed"]
      /\ seen' = [seen EXCEPT ![p] = NothingSeen]
  BY DEF CloseFile, Goto, Keep
<1>2. /\ seen' \in [Proc -> [at: Nat, current: BOOLEAN]]
      /\ \A q \in Proc \ {p} : seen'[q].at = seen[q].at
  BY <1>1 DEF SchemaInv, SchemaTypes, NothingSeen
<1>3. Progress(p)'
  BY <1>1 DEF SchemaInv, SchemaTypes, Progress, Migrating, Migrated
<1>. QED
  BY <1>1, <1>2, <1>3, Moves DEF SchemaInv, SchemaTypes, Steps, Opening

(* A process that starts has read nothing,                                 *)
LEMMA StartKeepsSchema ==
  ASSUME SchemaInv, NEW p \in Proc, StartOpen(p)
  PROVE  SchemaInv'
  BY GoesOn DEF StartOpen, Steps, Opening, Migrating, Migrated

(* ... and a write to an item leaves the schema alone.                     *)
LEMMA WriteKeepsSchema ==
  ASSUME SchemaInv, NEW p, WriteItem(p)
  PROVE  SchemaInv'
<1>1. UNCHANGED <<file, step>>
  BY DEF WriteItem
<1>2. /\ seen' \in [Proc -> [at: Nat, current: BOOLEAN]]
      /\ \A q \in Proc : seen'[q].at = seen[q].at
  BY DEF SchemaInv, SchemaTypes, WriteItem
<1>3. SchemaTypes' /\ RecordedIsApplied' /\ \A q \in Proc : Progress(q)'
  BY <1>1, <1>2 DEF SchemaInv, SchemaTypes, RecordedIsApplied, Progress
<1>. QED
  BY <1>3 DEF SchemaInv

-----------------------------------------------------------------------------
(* Every step keeps SchemaInv,                                             *)
LEMMA NextKeepsSchema ==
  ASSUME SchemaInv, [Next]_vars
  PROVE  SchemaInv'
<1>1. CASE UNCHANGED schemaVars
  BY <1>1 DEF schemaVars, SchemaInv, SchemaTypes, RecordedIsApplied, Progress
<1>2. ASSUME NEW p \in Proc, Main(p) PROVE SchemaInv'
  <2>1. CASE Open(p)
    BY <2>1, OpenKeepsSchema DEF Open
  <2>2. CASE BuildFails(p)
    BY <2>2, CloseKeepsSchema DEF BuildFails
  <2>3. CASE Cleanup(p)
    BY <2>3, CloseKeepsSchema DEF Cleanup
  <2>4. CASE \/ BuildSucceeds(p) \/ CommandOpens(p) \/ CommandEnds(p)
             \/ SelectError(p) \/ SelectDone(p)
             \/ ShutdownDrained(p) \/ ShutdownDeadline(p) \/ Exit(p)
    <3>1. UNCHANGED schemaVars
      BY <2>4 DEF BuildSucceeds, CommandOpens, CommandEnds, SelectError,
         SelectDone, ShutdownDrained, ShutdownDeadline, Exit
    <3>. QED
      BY <3>1, <1>1
  <2>. QED
    BY <1>2, <2>1, <2>2, <2>3, <2>4 DEF Main
<1>3. ASSUME NEW p \in Proc, Start(p) PROVE SchemaInv'
  BY <1>3, StartKeepsSchema DEF Start
<1>4. ASSUME NEW p \in Proc, CommandWrites(p) PROVE SchemaInv'
  BY <1>4, WriteKeepsSchema DEF CommandWrites
<1>5. ASSUME NEW p \in Proc, Kill(p) PROVE SchemaInv'
  BY <1>5, CloseKeepsSchema DEF Kill
<1>6. ASSUME NEW p \in Proc, Signal(p) PROVE SchemaInv'
  BY <1>6 DEF Signal, SchemaInv, SchemaTypes, RecordedIsApplied, Progress
<1>7. ASSUME NEW r \in Request, HandlerWrites(r) PROVE SchemaInv'
  BY <1>7, WriteKeepsSchema DEF HandlerWrites
<1>8. ASSUME NEW p \in Proc, Listen(p) \/ ListenFails(p)
                             \/ \E r \in Request : Arrive(p, r)
      PROVE SchemaInv'
  BY <1>1, <1>8 DEF Listen, ListenFails, Arrive
<1>9. ASSUME NEW r \in Request,
             Hooks(r) \/ HandlerFails(r) \/ HandlerReads(r) \/ Leave(r)
      PROVE SchemaInv'
  BY <1>1, <1>9 DEF Hooks, HandlerFails, HandlerReads, Leave
<1>10. CASE UNCHANGED vars
  BY <1>1, <1>10 DEF vars
<1>. QED
  BY <1>2, <1>3, <1>4, <1>5, <1>6, <1>7, <1>8, <1>9, <1>10 DEF Next

(* ... which holds throughout.                                             *)
LEMMA SchemaAlways == Spec => []SchemaInv
<1>1. Init => SchemaInv
  BY SchemaInitially DEF Init
<1>2. SchemaInv /\ [Next]_vars => SchemaInv'
  BY NextKeepsSchema
<1>. QED
  BY <1>1, <1>2, PTL DEF Spec

(* A recorded version tells the truth: its migration and all before it     *)
(* were carried out, whichever binaries opened the file, in whatever       *)
(* order, and wherever they were killed or refused.                        *)
THEOREM RecordedVersionsAreApplied == Spec => []RecordedIsApplied
<1>1. SchemaInv => RecordedIsApplied
  BY DEF SchemaInv
<1>. QED
  BY <1>1, SchemaAlways, PTL

(* Whoever has opened the file finds the tables of its binary's schema.    *)
THEOREM OpenedHasSchema == Spec => []OpenHasSchema
<1>1. SchemaInv => OpenHasSchema
  BY DEF SchemaInv, Progress, Migrated, OpenHasSchema
<1>. QED
  BY <1>1, SchemaAlways, PTL

-----------------------------------------------------------------------------
(* The initial states.                                                     *)
LEMMA LifeInitially == Init => LifeInv
<1> SUFFICES ASSUME Init PROVE LifeInv
  OBVIOUS
<1>1. \A p \in Proc : Of(p) = {}
  BY ProcAssumption DEF Init, Of
<1>2. step \in [Proc -> Steps] /\ DOMAIN req = Request /\ DOMAIN by = Request
  BY DEF Init, SchemaInit, ChainInit, Steps
<1>. QED
  BY <1>1, <1>2 DEF Init, LifeInv, LifeOf, Lives

(* Open goes on without closing.                                           *)
LEMMA OpenStepMoves ==
  ASSUME NEW p \in Proc, OpenStep(p)
  PROVE  \E s \in Opening \cup {"failed", "open"} : Goto(p, s)
<1> USE DEF Opening
<1>1. CASE Connect(p) \/ ConnectRefused(p) \/ Bootstrap(p)
  BY <1>1 DEF Connect, ConnectRefused, Bootstrap
<1>2. CASE ReadVersion(p) \/ BeginReading(p) \/ BeginWriting(p)
  BY <1>2 DEF ReadVersion, BeginReading, BeginWriting
<1>3. CASE Upgrade(p) \/ UpgradeRefused(p) \/ CommitMigration(p) \/ MigrationsDone(p)
  BY <1>3 DEF Upgrade, UpgradeRefused, CommitMigration, MigrationsDone
<1>4. CASE InitSpatialMetadata(p) \/ RegisterColumn(p) \/ BuildIndex(p)
  BY <1>4 DEF InitSpatialMetadata, RegisterColumn, BuildIndex
<1>5. CASE ProbeGeometry(p) \/ AddColumn(p)
  BY <1>5 DEF ProbeGeometry, AddColumn
<1>6. CASE ProbeIndex(p) \/ EnableIndex(p)
  BY <1>6 DEF ProbeIndex, EnableIndex
<1>7. CASE BusyFails(p) \/ BusyIgnored(p) \/ OpenCancelled(p)
  BY <1>7 DEF BusyFails, BusyIgnored, OpenCancelled
<1>. QED
  BY <1>1, <1>2, <1>3, <1>4, <1>5, <1>6, <1>7 DEF OpenStep

(* A layer or handler acts on a request that is active already.            *)
LEMMA ChainStepShape ==
  ASSUME NEW r \in Request, ChainStep(r) \/ HandlerPanics(r)
                            \/ \E code \in Codes : Handle(r, code)
  PROVE  req[r].at \in Active /\ \E s : req' = [req EXCEPT ![r] = s]
  BY DEF ChainStep, HandlerPanics, Handle, InHandler, PreFunc, AskWebhook,
     WebhookProceeds, WebhookRefuses, WebhookFails, RunPostFunc, At, Become, Active

(* A step that begins no request and leaves runServe where it is.          *)
LEMMA LifeGoesOn ==
  ASSUME LifeInv, UNCHANGED <<life, listener, errCh, exit, late>>,
         step' \in [Proc -> Steps],
         \A p \in Proc : step'[p] = "closed" => step[p] = "closed",
         DOMAIN req' = Request, DOMAIN by' = Request,
         \A p \in Proc : Of(p)' \subseteq Of(p)
  PROVE  LifeInv'
<1>1. ASSUME NEW p \in Proc PROVE LifeOf(p)'
  BY DEF LifeInv, LifeOf
<1>. QED
  BY <1>1 DEF LifeInv

(* A request on its way ends or goes on, but opens nothing.                *)
LEMMA RequestKeepsLife ==
  ASSUME LifeInv, NEW r \in Request,
         Hooks(r) \/ HandlerFails(r) \/ HandlerReads(r) \/ HandlerWrites(r)
         \/ Leave(r)
  PROVE  LifeInv'
<1>1. CASE Leave(r)
  <2>1. \A p \in Proc : Of(p)' \subseteq Of(p)
    BY <1>1, ProcAssumption DEF Leave, LifeInv, Of
  <2>. QED
    BY <1>1, <2>1, LifeGoesOn DEF Leave, schemaVars, LifeInv
<1>2. CASE Hooks(r) \/ HandlerFails(r) \/ HandlerReads(r) \/ HandlerWrites(r)
  <2>1. req[r].at \in Active /\ \E s : req' = [req EXCEPT ![r] = s]
    BY <1>2, ChainStepShape
       DEF Hooks, HandlerFails, HandlerReads, HandlerWrites, Codes, Final
  <2>2. UNCHANGED <<step, lifeVars>>
    BY <1>2 DEF Hooks, HandlerFails, HandlerReads, HandlerWrites, WriteItem,
       schemaVars
  <2>3. \A p \in Proc : Of(p)' \subseteq Of(p)
    BY <2>1, <2>2 DEF LifeInv, Of, lifeVars
  <2>. QED
    BY <2>1, <2>2, <2>3, LifeGoesOn DEF lifeVars, LifeInv
<1>. QED
  BY <1>1, <1>2

(* A step of p's own that touches no request.                              *)
LEMMA LifeMoves ==
  ASSUME LifeInv, NEW p \in Proc, UNCHANGED <<req, by>>,
         life' \in [Proc -> Lives],
         listener' \in [Proc -> {"none", "starting", "up", "ended"}],
         errCh' \in [Proc -> BOOLEAN],
         exit' \in [Proc -> {"none", "ok", "error"}],
         step' \in [Proc -> Steps],
         \A q \in Proc \ {p} :
           /\ life'[q] = life[q] /\ listener'[q] = listener[q]
           /\ errCh'[q] = errCh[q] /\ exit'[q] = exit[q]
           /\ step'[q] = step[q] /\ (q \in late' <=> q \in late),
         LifeOf(p)'
  PROVE  LifeInv'
<1>1. \A q \in Proc : Of(q)' = Of(q)
  BY DEF Of
<1>2. ASSUME NEW q \in Proc, q # p PROVE LifeOf(q)'
  BY <1>1, <1>2 DEF LifeInv, LifeOf
<1>. QED
  BY <1>2 DEF LifeInv

(* The process is gone: its requests are, and nobody else's.               *)
LEMMA GoneKeepsLife ==
  ASSUME LifeInv, NEW p \in Proc, Gone(p),
         UNCHANGED step \/ Goto(p, "closed")
  PROVE  LifeInv'
<1>1. /\ life' = [life EXCEPT ![p] = "down"]
      /\ listener' = [listener EXCEPT ![p] = "none"]
      /\ errCh' = [errCh EXCEPT ![p] = FALSE]
      /\ exit' = [exit EXCEPT ![p] = "none"]
      /\ late' = late \ {p}
      /\ req' = [r \in Request |-> IF by[r] = p THEN NoRequest ELSE req[r]]
      /\ by' = [r \in Request |-> IF by[r] = p THEN NoProc ELSE by[r]]
  BY DEF Gone, Live
<1>2. /\ step' \in [Proc -> Steps]
      /\ \A q \in Proc \ {p} : step'[q] = step[q]
  BY DEF LifeInv, Goto, Steps
<1>3. Of(p)' = {} /\ \A q \in Proc \ {p} : Of(q)' \subseteq Of(q)
  BY <1>1, ProcAssumption DEF Of
<1>4. LifeOf(p)'
  BY <1>1, <1>3 DEF LifeInv, LifeOf
<1>5. ASSUME NEW q \in Proc, q # p PROVE LifeOf(q)'
  BY <1>1, <1>2, <1>3, <1>5 DEF LifeInv, LifeOf
<1>. QED
  BY <1>1, <1>2, <1>4, <1>5 DEF LifeInv, Lives

(* Every step of runServe keeps LifeInv.                                   *)
LEMMA MainKeepsLife ==
  ASSUME LifeInv, NEW p \in Proc, Main(p)
  PROVE  LifeInv'
<1> USE DEF Lives, Steps, Opening, Live
<1>1. LifeOf(p) /\ step \in [Proc -> Steps]
  BY DEF LifeInv
<1>2. UNCHANGED <<req, by>> => Of(p)' = Of(p)
  BY DEF Of
<1>3. CASE Open(p)
  <2>1. PICK s \in Opening \cup {"failed", "open"} : Goto(p, s)
    BY <1>3, OpenStepMoves DEF Open
  <2>2. UNCHANGED <<lifeVars, req>>
    BY <1>3 DEF Open
  <2>3. LifeOf(p)'
    BY <1>1, <1>2, <2>1, <2>2 DEF LifeOf, lifeVars, Goto
  <2>. QED
    BY <2>1, <2>2, <2>3, LifeMoves DEF LifeInv, lifeVars, Goto
<1>4. CASE BuildFails(p) \/ Cleanup(p)
  <2>1. LifeOf(p)'
    BY <1>1, <1>2, <1>4 DEF BuildFails, Cleanup, CloseFile, Goto, LifeInv, LifeOf
  <2>. QED
    BY <1>4, <2>1, LifeMoves DEF BuildFails, Cleanup, CloseFile, Goto, LifeInv
<1>5. CASE BuildSucceeds(p) \/ CommandOpens(p)
  <2>1. LifeOf(p)'
    BY <1>1, <1>2, <1>5 DEF BuildSucceeds, CommandOpens, schemaVars, LifeInv, LifeOf
  <2>. QED
    BY <1>5, <2>1, LifeMoves DEF BuildSucceeds, CommandOpens, schemaVars, LifeInv
<1>6. CASE CommandEnds(p)
  <2>1. LifeOf(p)'
    BY <1>1, <1>2, <1>6 DEF CommandEnds, schemaVars, LifeInv, LifeOf
  <2>. QED
    BY <1>6, <2>1, LifeMoves DEF CommandEnds, schemaVars, LifeInv
<1>7. CASE SelectError(p)
  <2>1. LifeOf(p)'
    BY <1>1, <1>2, <1>7 DEF SelectError, schemaVars, LifeInv, LifeOf
  <2>. QED
    BY <1>7, <2>1, LifeMoves DEF SelectError, schemaVars, LifeInv
<1>10. CASE SelectDone(p)
  <2>1. /\ listener' \in [Proc -> {"none", "starting", "up", "ended"}]
        /\ listener'[p] \in {"none", "starting", "ended"}
        /\ listener'[p] = "none" => listener[p] = "none"
        /\ listener[p] = "ended" => listener'[p] = "ended"
        /\ \A q \in Proc \ {p} : listener'[q] = listener[q]
    BY <1>10 DEF SelectDone, LifeInv
  <2>2. LifeOf(p)'
    BY <1>1, <1>2, <1>10, <2>1 DEF SelectDone, schemaVars, LifeInv, LifeOf
  <2>. QED
    BY <1>10, <2>1, <2>2, LifeMoves DEF SelectDone, schemaVars, LifeInv
<1>8. CASE ShutdownDrained(p) \/ ShutdownDeadline(p)
  <2>1. LifeOf(p)'
    BY <1>1, <1>2, <1>8
       DEF ShutdownDrained, ShutdownDeadline, schemaVars, LifeInv, LifeOf
  <2>. QED
    BY <1>8, <2>1, LifeMoves
       DEF ShutdownDrained, ShutdownDeadline, schemaVars, LifeInv
<1>9. CASE Exit(p)
  BY <1>9, GoneKeepsLife DEF Exit, Gone, schemaVars, LifeInv
<1>. QED
  BY <1>3, <1>4, <1>5, <1>6, <1>7, <1>8, <1>9, <1>10 DEF Main

(* Every step keeps LifeInv.                                               *)
LEMMA NextKeepsLife ==
  ASSUME LifeInv, [Next]_vars
  PROVE  LifeInv'
<1> USE DEF Lives
<1>1. ASSUME NEW p \in Proc, Start(p) PROVE LifeInv'
  <2>1. /\ step' = [step EXCEPT ![p] = "connect"]
        /\ life[p] = "down" /\ life' = [life EXCEPT ![p] = "build"]
        /\ UNCHANGED <<listener, errCh, exit, late, by, req>>
    BY <1>1 DEF Start, StartOpen, Goto, Live
  <2>2. Of(p)' = Of(p)
    BY <2>1 DEF Of
  <2>3. LifeOf(p)'
    BY <2>1, <2>2 DEF LifeInv, LifeOf
  <2>. QED
    BY <2>1, <2>3, LifeMoves DEF LifeInv, Steps, Opening
<1>2. ASSUME NEW p \in Proc, Main(p) PROVE LifeInv'
  BY <1>2, MainKeepsLife
<1>3. ASSUME NEW p \in Proc, CommandWrites(p) \/ Signal(p) PROVE LifeInv'
  BY <1>3, LifeGoesOn DEF CommandWrites, WriteItem, Signal, lifeVars, LifeInv, Of
<1>4. ASSUME NEW p \in Proc, Listen(p) \/ ListenFails(p) PROVE LifeInv'
  <2>1. LifeOf(p)'
    BY <1>4 DEF Listen, ListenFails, schemaVars, LifeInv, LifeOf, Of
  <2>. QED
    BY <1>4, <2>1, LifeMoves DEF Listen, ListenFails, schemaVars, LifeInv
<1>5. ASSUME NEW p \in Proc, Kill(p) PROVE LifeInv'
  BY <1>5, GoneKeepsLife DEF Kill, CloseFile
<1>6. ASSUME NEW p \in Proc, NEW r \in Request, Arrive(p, r) PROVE LifeInv'
  <2>1. /\ listener[p] = "up" /\ by' = [by EXCEPT ![r] = p]
        /\ \E s : req' = [req EXCEPT ![r] = s]
        /\ UNCHANGED <<life, listener, errCh, exit, late, step>>
    BY <1>6 DEF Arrive, schemaVars
  <2>2. \A q \in Proc \ {p} : Of(q)' \subseteq Of(q)
    BY <2>1 DEF LifeInv, Of
  <2>3. life[p] = "select" /\ exit[p] = "none"
    BY <2>1 DEF LifeInv, LifeOf
  <2>4. LifeOf(p)'
    BY <2>1, <2>3 DEF LifeInv, LifeOf
  <2>5. ASSUME NEW q \in Proc, q # p PROVE LifeOf(q)'
    BY <2>1, <2>2, <2>5 DEF LifeInv, LifeOf
  <2>. QED
    BY <2>1, <2>4, <2>5 DEF LifeInv
<1>7. ASSUME NEW r \in Request,
             Hooks(r) \/ HandlerFails(r) \/ HandlerReads(r)
             \/ HandlerWrites(r) \/ Leave(r)
      PROVE LifeInv'
  BY <1>7, RequestKeepsLife
<1>8. CASE UNCHANGED vars
  BY <1>8 DEF vars, schemaVars, lifeVars, LifeInv, LifeOf, Of
<1>. QED
  BY <1>1, <1>2, <1>3, <1>4, <1>5, <1>6, <1>7, <1>8 DEF Next

(* No request loses the repository under it unless the exit status reports *)
(* it, for any number of servers, requests and chains of hooks.            *)
THEOREM RepositoryIsClosedLast == Spec => []RepositoryOutlivesRequests
<1>1. Init => LifeInv
  BY LifeInitially
<1>2. LifeInv /\ [Next]_vars => LifeInv'
  BY NextKeepsLife
<1>3. LifeInv => RepositoryOutlivesRequests
  <2> SUFFICES ASSUME LifeInv, NEW p \in Proc
               PROVE  /\ Of(p) # {} /\ step[p] = "closed" => exit[p] = "error"
                      /\ exit[p] = "ok" => Of(p) = {} /\ p \notin late
                      /\ life[p] \in {"cleanup", "return"} /\ exit[p] = "error"
                           /\ Of(p) # {} => p \in late \/ listener[p] = "ended"
    BY DEF RepositoryOutlivesRequests
  <2>. QED
    BY DEF LifeInv, LifeOf
<1>. QED
  BY <1>1, <1>2, <1>3, PTL DEF Spec
-----------------------------------------------------------------------------
(* Requests: what holds of each of them wherever it is.                    *)

(* Every step keeps the requests in order,                                 *)
LEMMA NextKeepsChains ==
  ASSUME ChainInv, [Next]_vars
  PROVE  ChainInv'
<1>1. CASE UNCHANGED req
  BY <1>1 DEF ChainInv
<1>2. ASSUME NEW p \in Proc,
             \/ Start(p) \/ CommandWrites(p) \/ Listen(p) \/ ListenFails(p) \/ Signal(p)
             \/ Open(p) \/ BuildFails(p) \/ BuildSucceeds(p) \/ CommandOpens(p)
             \/ CommandEnds(p) \/ SelectError(p) \/ SelectDone(p)
             \/ ShutdownDrained(p) \/ ShutdownDeadline(p) \/ Cleanup(p)
      PROVE ChainInv'
  BY <1>1, <1>2 DEF Start, CommandWrites, Listen, ListenFails, Signal, Open,
     BuildFails, BuildSucceeds, CommandOpens, CommandEnds, SelectError, SelectDone,
     ShutdownDrained, ShutdownDeadline, Cleanup, lifeVars
<1>3. ASSUME NEW p \in Proc, Gone(p) PROVE ChainInv'
  <2>1. req' = [r \in Request |-> IF by[r] = p THEN NoRequest ELSE req[r]]
    BY <1>3 DEF Gone
  <2>2. NoRequest \in Requests
    BY NoRequestOK DEF ChainOK, Typed
  <2> QED
    BY <2>1, <2>2, NoRequestOK DEF ChainInv
<1>4. ASSUME NEW p \in Proc, NEW r \in Request, Arrive(p, r) PROVE ChainInv'
  <2>1. PICK chain \in Chains : Become(r, Arrived(chain))
    BY <1>4 DEF Arrive, Become
  <2> QED
    BY <2>1, ArrivedOK, BecomeOK
<1>5. ASSUME NEW r \in Request, Leave(r) PROVE ChainInv'
  <2>1. Become(r, NoRequest)
    BY <1>5 DEF Leave, Become
  <2> QED
    BY <2>1, NoRequestOK, BecomeOK
<1>6. ASSUME NEW r \in Request,
             Hooks(r) \/ HandlerFails(r) \/ HandlerReads(r) \/ HandlerWrites(r)
      PROVE ChainInv'
  <2>1. \/ ChainStep(r)
        \/ Handle(r, OK) \/ Handle(r, Failed) \/ HandlerPanics(r)
    BY <1>6 DEF Hooks, HandlerFails, HandlerReads, HandlerWrites
  <2> QED
    BY <2>1, ChainStepOK, HandlerOK
<1>7. CASE UNCHANGED vars
  BY <1>1, <1>7 DEF vars
<1> QED
  BY <1>2, <1>3, <1>4, <1>5, <1>6, <1>7 DEF Next, Main, Exit, Kill

(* ... which they are throughout.                                          *)
LEMMA ChainAlways == Spec => []ChainInv
<1>1. Init => ChainInv
  <2>1. NoRequest \in Requests
    BY NoRequestOK DEF ChainOK, Typed
  <2> QED
    BY <2>1, NoRequestOK DEF Init, ChainInit, ChainInv
<1>2. ChainInv /\ [Next]_vars => ChainInv'
  BY NextKeepsChains
<1> QED
  BY <1>1, <1>2, PTL DEF Spec

(* A refused request never reaches the handler, and its client gets the    *)
(* hook's answer, through any chain of metrics, webhooks and hooks.        *)
THEOREM RefusalsArrive == Spec => []RefusalReachesClient
<1>1. ChainInv => RefusalReachesClient
  BY ChainInvImplies
<1> QED
  BY <1>1, ChainAlways, PTL

(* One status and one body for each request, whoever panics.               *)
THEOREM AnsweredOnce == Spec => []OneAnswer
<1>1. ChainInv => OneAnswer
  BY ChainInvImplies
<1> QED
  BY <1>1, ChainAlways, PTL

(* The log and the outermost metrics name the status the client got.       *)
THEOREM LogTellsTheStatus == Spec => []LogMatchesClient
<1>1. ChainInv => LogMatchesClient
  BY ChainInvImplies
<1> QED
  BY <1>1, ChainAlways, PTL
-----------------------------------------------------------------------------
(* Openers together, and alone.  The spatial statements commit in the      *)
(* order column, registered, enabled, index, and whoever is about to       *)
(* commit the second of a pair knows that the first is there.              *)
OrderInv ==
  /\ file.registered => file.column
  /\ file.enabled => file.registered
  /\ file.index => file.enabled
  /\ \A q \in Proc : /\ step[q] = "register" => file.column
                     /\ step[q] = "buildIndex" => file.enabled

(* The write lock is held from the first write of a migration to its end.  *)
WriterInv ==
  /\ writer \in Proc \cup {NoProc}
  /\ done \subseteq Proc /\ alone \subseteq Proc /\ calm \in BOOLEAN
  /\ \A p \in Proc : step[p] = "commit" <=> writer = p

(* What holds of an opener that has the file to itself.                    *)
AloneOf(p) ==
  /\ step[p] = "upgrade" => seen[p].current
  /\ step[p] = "probeGeom" => file.meta
  /\ step[p] = "failed" => p \in done \/ currentSchemaVersion > SchemaVersion[p]
  /\ step[p] \in {"probeIndex", "enableIndex", "open"} => file.column
  /\ step[p] = "enableIndex" => ~file.index
  /\ step[p] = "open" => Complete \/ Torn

AloneInv ==
  \A p \in alone : /\ step[p] # "closed"
                   /\ \A q \in Proc \ {p} : step[q] = "closed"
                   /\ AloneOf(p)

(* As long as nothing was killed, cancelled or timed out, whoever finds    *)
(* half a pair committed knows that another process is at the other half;  *)
(* and nobody opens the file without an index but past someone who is      *)
(* going to build it.                                                      *)
InCharge == \E q \in Proc :
              \/ step[q] = "register"
              \/ file.registered /\ (step[q] = "probeIndex" \/ step[q] = "enableIndex")
Registers == file.column /\ ~file.registered => \E q \in Proc : step[q] = "register"
Builds == file.enabled /\ ~file.index => \E q \in Proc : step[q] = "buildIndex"
HasColumn == \A q \in Proc :
               step[q] \in {"probeIndex", "enableIndex", "open"} => file.column
HasIndex == (\E q \in Proc : step[q] = "open") => file.enabled \/ InCharge
CalmInv == calm => Registers /\ Builds /\ HasColumn /\ HasIndex

(* p makes one step of Open.                                               *)
LEMMA StepIsOpening ==
  ASSUME SchemaInv, NEW p \in Proc, OpenStep(p)
  PROVE  /\ step[p] \in Opening
         /\ \A q \in Proc \ {p} : step'[q] = step[q]
         /\ step'[p] # "closed"
         /\ done' = done /\ alone' = alone
         /\ calm' = calm \/ calm' = FALSE
<1>1. PICK s \in Opening \cup {"failed", "open"} : Goto(p, s)
  BY OpenStepMoves
<1>2. step \in [Proc -> Steps]
  BY DEF SchemaInv, SchemaTypes
<1>3. step'[p] = s /\ \A q \in Proc \ {p} : step'[q] = step[q]
  BY <1>1, <1>2 DEF Goto
<1>4. step[p] \in Opening
  BY DEF OpenStep, Opening, Bootstrap, ReadVersion, BeginReading, BeginWriting,
     Upgrade, UpgradeRefused, CommitMigration, MigrationsDone, InitSpatialMetadata,
     ProbeGeometry, AddColumn, RegisterColumn, ProbeIndex, EnableIndex, BuildIndex,
     BusyFails, BusyIgnored, OpenCancelled, Connect, ConnectRefused
<1>5. done' = done /\ alone' = alone
  BY DEF OpenStep, Quiet, Bootstrap, ReadVersion, BeginReading, BeginWriting,
     Upgrade, UpgradeRefused, CommitMigration, MigrationsDone, InitSpatialMetadata,
     ProbeGeometry, AddColumn, RegisterColumn, ProbeIndex, EnableIndex, BuildIndex,
     BusyFails, BusyIgnored, OpenCancelled, Connect, ConnectRefused
<1>6. calm' = calm \/ calm' = FALSE
  BY DEF OpenStep, Quiet, Bootstrap, ReadVersion, BeginReading, BeginWriting,
     Upgrade, UpgradeRefused, CommitMigration, MigrationsDone, InitSpatialMetadata,
     ProbeGeometry, AddColumn, RegisterColumn, ProbeIndex, EnableIndex, BuildIndex,
     BusyFails, BusyIgnored, OpenCancelled, Connect, ConnectRefused
<1> QED
  BY <1>1, <1>3, <1>4, <1>5, <1>6 DEF Opening

(* The statements commit in order.                                         *)
LEMMA OpenKeepsOrder ==
  ASSUME SchemaInv, OrderInv, NEW p \in Proc, OpenStep(p)
  PROVE  OrderInv'
<1> USE DEF OrderInv, Goto
<1>1. /\ step \in [Proc -> Steps]
      /\ file \in [wal: BOOLEAN, boot: BOOLEAN, made: SUBSET Nat, recorded: SUBSET Nat,
                   meta: BOOLEAN, column: BOOLEAN, registered: BOOLEAN,
                   enabled: BOOLEAN, index: BOOLEAN]
  BY DEF SchemaInv, SchemaTypes
<1>2. CASE \/ Connect(p) \/ Bootstrap(p) \/ InitSpatialMetadata(p)
           \/ CommitMigration(p)
  BY <1>1, <1>2 DEF Connect, Bootstrap, InitSpatialMetadata, CommitMigration, Commit
<1>3. CASE \/ ReadVersion(p) \/ BeginReading(p) \/ BeginWriting(p) \/ Upgrade(p)
           \/ UpgradeRefused(p) \/ MigrationsDone(p) \/ ConnectRefused(p)
  BY <1>1, <1>3 DEF ReadVersion, BeginReading, BeginWriting, Upgrade,
     UpgradeRefused, MigrationsDone, ConnectRefused
<1>4. CASE ProbeGeometry(p) \/ ProbeIndex(p)
  BY <1>1, <1>4 DEF ProbeGeometry, ProbeIndex
<1>5. CASE AddColumn(p) \/ RegisterColumn(p)
  BY <1>1, <1>5 DEF AddColumn, RegisterColumn, Commit
<1>6. CASE EnableIndex(p) \/ BuildIndex(p)
  BY <1>1, <1>6 DEF EnableIndex, BuildIndex, Commit
<1>7. CASE BusyFails(p) \/ BusyIgnored(p) \/ OpenCancelled(p)
  BY <1>1, <1>7 DEF BusyFails, BusyIgnored, OpenCancelled
<1> QED
  BY <1>2, <1>3, <1>4, <1>5, <1>6, <1>7 DEF OpenStep

(* One writer at a time: the lock is taken only when it is free, and given *)
(* up with the transaction.                                                *)
LEMMA OpenKeepsWriter ==
  ASSUME SchemaInv, WriterInv, NEW p \in Proc, OpenStep(p)
  PROVE  WriterInv'
<1>1. step \in [Proc -> Steps]
  BY DEF SchemaInv, SchemaTypes
<1>2. done' = done /\ alone' = alone /\ calm' \in BOOLEAN
  BY StepIsOpening DEF WriterInv
<1>3. writer' \in Proc \cup {NoProc} /\ \A q \in Proc : step'[q] = "commit" <=> writer' = q
  <2> USE ProcAssumption DEF WriterInv, Goto
  <2>1. CASE BeginWriting(p) \/ Upgrade(p) \/ CommitMigration(p)
    BY <1>1, <2>1 DEF BeginWriting, Upgrade, CommitMigration
  <2>2. CASE OpenCancelled(p)
    BY <1>1, <2>2 DEF OpenCancelled, Unlock
  <2>3. CASE \/ Bootstrap(p) \/ ReadVersion(p) \/ BeginReading(p)
             \/ UpgradeRefused(p) \/ MigrationsDone(p) \/ InitSpatialMetadata(p)
             \/ Connect(p) \/ ConnectRefused(p)
    BY <1>1, <2>3 DEF Connect, ConnectRefused, Bootstrap, ReadVersion, BeginReading, UpgradeRefused,
       MigrationsDone, InitSpatialMetadata
  <2>4. CASE \/ ProbeGeometry(p) \/ AddColumn(p) \/ RegisterColumn(p)
             \/ ProbeIndex(p) \/ EnableIndex(p) \/ BuildIndex(p)
    BY <1>1, <2>4 DEF ProbeGeometry, AddColumn, RegisterColumn, ProbeIndex,
       EnableIndex, BuildIndex
  <2>5. CASE BusyFails(p) \/ BusyIgnored(p)
    BY <1>1, <2>5 DEF BusyFails, BusyIgnored
  <2> QED
    BY <2>1, <2>2, <2>3, <2>4, <2>5 DEF OpenStep
<1> QED
  BY <1>2, <1>3 DEF WriterInv

(* Nobody else moves while p has the file to itself: its snapshot stays    *)
(* current, the lock is free or its own, and half a pair that it finds is  *)
(* one that somebody else left behind.                                     *)
LEMMA OpenKeepsAlone ==
  ASSUME SchemaInv, OrderInv, WriterInv, AloneInv, NEW p \in Proc, OpenStep(p)
  PROVE  AloneInv'
<1>1. /\ step[p] \in Opening
      /\ \A q \in Proc \ {p} : step'[q] = step[q]
      /\ step'[p] # "closed" /\ done' = done /\ alone' = alone
  BY StepIsOpening
<1>2. step[p] # "closed" /\ \A q \in alone : q \in Proc
  BY <1>1 DEF Opening, WriterInv
<1>3. ASSUME p \in alone PROVE AloneOf(p)'
  <2>1. \A q \in Proc \ {p} : step[q] = "closed"
    BY <1>3 DEF AloneInv
  <2>2. AloneOf(p)
    BY <1>3 DEF AloneInv
  <2>3. ~Locked(p)
    BY <2>1 DEF WriterInv, Locked
  <2>4. /\ step \in [Proc -> Steps]
        /\ file \in [wal: BOOLEAN, boot: BOOLEAN, made: SUBSET Nat, recorded: SUBSET Nat,
                     meta: BOOLEAN, column: BOOLEAN, registered: BOOLEAN,
                     enabled: BOOLEAN, index: BOOLEAN]
        /\ seen \in [Proc -> [at: Nat, current: BOOLEAN]]
    BY DEF SchemaInv, SchemaTypes
  <2> USE DEF AloneOf, Goto
  <2>5. CASE \/ Connect(p) \/ Bootstrap(p) \/ BeginWriting(p) \/ Upgrade(p)
             \/ CommitMigration(p) \/ MigrationsDone(p) \/ RegisterColumn(p)
    <3>1. step'[p] \in {"bootstrap", "version", "commit", "next", "metadata"}
          \/ (step'[p] = "probeIndex" /\ file'.column)
      BY <2>4, <2>5 DEF Connect, Bootstrap, BeginWriting, Upgrade, CommitMigration,
         MigrationsDone, RegisterColumn, Commit, OrderInv
    <3> QED
      BY <3>1
  <2>6. CASE ReadVersion(p)
    BY <2>4, <2>6 DEF ReadVersion, currentSchemaVersion
  <2>7. CASE BeginReading(p)
    BY <2>4, <2>7 DEF BeginReading, Keep
  <2>8. CASE UpgradeRefused(p) \/ BusyFails(p) \/ BusyIgnored(p)
    BY <2>2, <2>3, <2>8 DEF UpgradeRefused, BusyFails, BusyIgnored
  <2>16. CASE ConnectRefused(p)
    BY <2>1, <2>4, <2>16 DEF ConnectRefused
  <2>9. CASE InitSpatialMetadata(p)
    BY <2>4, <2>9 DEF InitSpatialMetadata, Commit
  <2>10. CASE ProbeGeometry(p)
    BY <2>2, <2>4, <2>10 DEF ProbeGeometry, OrderInv
  <2>11. CASE AddColumn(p)
    BY <2>4, <2>11 DEF AddColumn, Commit
  <2>12. CASE ProbeIndex(p)
    BY <2>2, <2>4, <2>12 DEF ProbeIndex, OrderInv, Complete
  <2>13. CASE EnableIndex(p)
    BY <2>2, <2>4, <2>13 DEF EnableIndex, Commit, Torn
  <2>14. CASE BuildIndex(p)
    BY <2>4, <2>14 DEF BuildIndex, Commit, OrderInv, Complete
  <2>15. CASE OpenCancelled(p)
    BY <2>4, <2>15 DEF OpenCancelled
  <2> QED
    BY <2>5, <2>6, <2>7, <2>8, <2>9, <2>10, <2>11, <2>12, <2>13, <2>14, <2>15,
       <2>16 DEF OpenStep
<1> QED
  BY <1>1, <1>2, <1>3 DEF AloneInv

(* Whoever leaves half a pair behind is at the other half, and whoever     *)
(* takes half a pair for the whole leaves another process at it.           *)
LEMMA OpenKeepsCalm ==
  ASSUME SchemaInv, OrderInv, WriterInv, CalmInv, NEW p \in Proc, OpenStep(p)
  PROVE  CalmInv'
<1> SUFFICES ASSUME calm' PROVE Registers' /\ Builds' /\ HasColumn' /\ HasIndex'
  BY DEF CalmInv
<1>1. /\ step \in [Proc -> Steps]
      /\ file \in [wal: BOOLEAN, boot: BOOLEAN, made: SUBSET Nat, recorded: SUBSET Nat,
                   meta: BOOLEAN, column: BOOLEAN, registered: BOOLEAN,
                   enabled: BOOLEAN, index: BOOLEAN]
  BY DEF SchemaInv, SchemaTypes
<1>2. /\ \A q \in Proc \ {p} : step'[q] = step[q]
      /\ calm
  BY StepIsOpening
<1>3. Registers /\ Builds /\ HasColumn /\ HasIndex
  BY <1>2 DEF CalmInv
<1>4. ~(BusyFails(p) \/ BusyIgnored(p) \/ OpenCancelled(p))
  BY DEF BusyFails, BusyIgnored, OpenCancelled
<1> USE DEF Registers, Builds, HasColumn, HasIndex, InCharge
(* Nothing is said of where p was and of where it is now.                  *)
<1>5. ASSUME step[p] \notin {"register", "buildIndex", "probeIndex", "enableIndex"},
             step'[p] \notin {"probeIndex", "enableIndex", "open"},
             file'.column = file.column, file'.registered = file.registered,
             file'.enabled = file.enabled, file'.index = file.index
      PROVE  Registers' /\ Builds' /\ HasColumn' /\ HasIndex'
  BY <1>2, <1>3, <1>5
<1>6. CASE \/ Connect(p) \/ Bootstrap(p) \/ InitSpatialMetadata(p)
           \/ CommitMigration(p)
  BY <1>1, <1>5, <1>6 DEF Connect, Bootstrap, InitSpatialMetadata, CommitMigration, Commit, Goto
<1>7. CASE \/ ReadVersion(p) \/ BeginReading(p) \/ BeginWriting(p) \/ Upgrade(p)
           \/ UpgradeRefused(p) \/ MigrationsDone(p) \/ ConnectRefused(p)
  BY <1>1, <1>5, <1>7 DEF ConnectRefused, ReadVersion, BeginReading, BeginWriting, Upgrade,
     UpgradeRefused, MigrationsDone, Goto
<1>8. CASE ProbeGeometry(p)
  BY <1>1, <1>2, <1>3, <1>8 DEF ProbeGeometry, OrderInv, Goto
<1>9. CASE AddColumn(p)
  <2>1. /\ file' = [file EXCEPT !.column = TRUE] /\ step[p] = "addColumn"
        /\ step'[p] = IF file.column THEN "probeIndex" ELSE "register"
    BY <1>1, <1>9 DEF AddColumn, Commit, Goto
  <2>2. /\ file'.column /\ file'.registered = file.registered
        /\ file'.enabled = file.enabled /\ file'.index = file.index
    BY <1>1, <2>1
  <2> QED
    BY <1>1, <1>2, <1>3, <2>1, <2>2
<1>10. CASE RegisterColumn(p)
  <2>1. /\ file' = [file EXCEPT !.registered = TRUE] /\ step[p] = "register"
        /\ step'[p] = "probeIndex"
    BY <1>1, <1>10 DEF RegisterColumn, Commit, Goto
  <2>2. /\ file'.column = file.column /\ file.column /\ file'.registered
        /\ file'.enabled = file.enabled /\ file'.index = file.index
    BY <1>1, <2>1 DEF OrderInv
  <2> QED
    BY <1>1, <1>2, <1>3, <2>1, <2>2
<1>11. CASE ProbeIndex(p)
  <2>1. /\ file' = file /\ step[p] = "probeIndex"
        /\ step'[p] = IF file.index THEN "open" ELSE "enableIndex"
    BY <1>1, <1>11 DEF ProbeIndex, Goto
  <2> QED
    BY <1>1, <1>2, <1>3, <2>1 DEF OrderInv
<1>12. CASE EnableIndex(p)
  <2>1. CASE file.registered /\ ~file.enabled
    <3>1. /\ file' = [file EXCEPT !.enabled = TRUE] /\ step[p] = "enableIndex"
          /\ step'[p] = "buildIndex"
      BY <1>1, <1>12, <2>1 DEF EnableIndex, Commit, Goto
    <3>2. /\ file'.column = file.column /\ file'.registered = file.registered
          /\ file'.enabled /\ file'.index = file.index
      BY <1>1, <3>1
    <3> QED
      BY <1>1, <1>2, <1>3, <2>1, <3>1, <3>2 DEF OrderInv
  <2>2. CASE ~(file.registered /\ ~file.enabled)
    <3>1. /\ file' = file /\ step[p] = "enableIndex" /\ step'[p] = "open"
      BY <1>1, <1>12, <2>2 DEF EnableIndex, Goto
    <3> QED
      BY <1>1, <1>2, <1>3, <2>2, <3>1 DEF OrderInv
  <2> QED
    BY <2>1, <2>2
<1>13. CASE BuildIndex(p)
  <2>1. /\ file' = [file EXCEPT !.index = TRUE] /\ step[p] = "buildIndex"
        /\ step'[p] = "open"
    BY <1>1, <1>13 DEF BuildIndex, Commit, Goto
  <2>2. /\ file'.column = file.column /\ file'.registered = file.registered
        /\ file'.enabled = file.enabled /\ file'.index
    BY <1>1, <2>1
  <2> QED
    BY <1>1, <1>2, <1>3, <2>1, <2>2 DEF OrderInv
<1> QED
  BY <1>4, <1>6, <1>7, <1>8, <1>9, <1>10, <1>11, <1>12, <1>13 DEF OpenStep

(* Who has a request is at work, and who is at work has the file open.     *)
WorkInv ==
  /\ DOMAIN req = Request
  /\ by \in [Request -> Proc \cup {NoProc}]
  /\ \A r \in Request : req[r].at \in Active => by[r] # NoProc
  /\ \A p \in Proc : life[p] \in {"select", "shutdown", "work", "cleanup"} =>
                       step[p] = "open"

FileInv == OrderInv /\ WriterInv /\ AloneInv /\ CalmInv

(* A step of Open keeps FileInv,                                           *)
LEMMA OpenKeepsFile ==
  ASSUME SchemaInv, FileInv, NEW p \in Proc, OpenStep(p)
  PROVE  FileInv'
  BY OpenKeepsOrder, OpenKeepsWriter, OpenKeepsAlone, OpenKeepsCalm DEF FileInv

(* A process that begins is in nobody's way.                               *)
LEMMA StartKeepsFile ==
  ASSUME SchemaInv, FileInv, NEW p \in Proc, StartOpen(p)
  PROVE  FileInv'
<1> USE DEF FileInv, Goto
<1>1. /\ step[p] = "closed" /\ step' = [step EXCEPT ![p] = "connect"]
      /\ UNCHANGED <<file, writer, seen, done, calm>>
      /\ alone' = IF \A q \in Proc : step[q] = "closed" THEN {p} ELSE {}
  BY DEF StartOpen
<1>2. step'[p] = "connect" /\ \A q \in Proc \ {p} : step'[q] = step[q]
  BY <1>1 DEF SchemaInv, SchemaTypes
<1>3. OrderInv'
  BY <1>1, <1>2 DEF OrderInv
<1>4. WriterInv'
  BY <1>1, <1>2 DEF WriterInv
<1>5. AloneInv'
  BY <1>1, <1>2 DEF AloneInv, AloneOf
<1>6. CalmInv'
  BY <1>1, <1>2 DEF CalmInv, Registers, Builds, HasColumn, HasIndex, InCharge
<1> QED
  BY <1>3, <1>4, <1>5, <1>6

(* A process that is killed may leave half a pair behind; one that goes    *)
(* when it has failed, or after it was open, leaves none.                  *)
LEMMA CloseKeepsFile ==
  ASSUME SchemaInv, FileInv, NEW p \in Proc, NEW killed \in BOOLEAN,
         CloseFile(p, killed), killed \/ step[p] \in {"open", "failed"}
  PROVE  FileInv'
<1> USE DEF FileInv, Goto
<1>1. /\ step' = [step EXCEPT ![p] = "closed"]
      /\ writer' = IF writer = p THEN NoProc ELSE writer
      /\ seen' = [seen EXCEPT ![p] = NothingSeen]
      /\ done' = done \ {p} /\ alone' = alone \ {p}
      /\ calm' = (calm /\ ~killed) /\ file' = file
  BY DEF CloseFile, Unlock, Keep
<1>2. step'[p] = "closed" /\ \A q \in Proc \ {p} : step'[q] = step[q]
  BY <1>1 DEF SchemaInv, SchemaTypes
<1>3. \A q \in Proc \ {p} : seen'[q] = seen[q]
  BY <1>1 DEF SchemaInv, SchemaTypes
<1>4. OrderInv'
  BY <1>1, <1>2 DEF OrderInv
<1>5. WriterInv'
  <2>1. calm' \in BOOLEAN
    BY <1>1
  <2>2. writer' \in Proc \cup {NoProc} /\ done' \subseteq Proc /\ alone' \subseteq Proc
    BY <1>1 DEF WriterInv
  <2>3. \A q \in Proc : step'[q] = "commit" <=> writer' = q
    BY <1>1, <1>2, ProcAssumption DEF WriterInv
  <2> QED
    BY <2>1, <2>2, <2>3 DEF WriterInv
<1>6. AloneInv'
  <2>1. ASSUME NEW q \in alone'
        PROVE  step'[q] # "closed" /\ AloneOf(q)'
               /\ \A o \in Proc \ {q} : step'[o] = "closed"
    <3>1. q \in alone /\ q # p /\ q \in Proc
      BY <1>1 DEF WriterInv
    <3>2. AloneOf(q)'
      BY <1>1, <1>2, <1>3, <3>1
         DEF AloneInv, AloneOf, currentSchemaVersion, Complete, Torn
    <3> QED
      BY <1>2, <3>1, <3>2 DEF AloneInv
  <2> QED
    BY <2>1 DEF AloneInv
<1>7. CalmInv'
  <2> SUFFICES ASSUME calm' PROVE Registers' /\ Builds' /\ HasColumn' /\ HasIndex'
    BY DEF CalmInv
  <2>1. calm /\ step[p] \in {"open", "failed"}
    BY <1>1
  <2> QED
    BY <1>1, <1>2, <2>1
       DEF CalmInv, Registers, Builds, HasColumn, HasIndex, InCharge
<1> QED
  BY <1>4, <1>5, <1>6, <1>7

(* A write outdates the snapshots of others, so of nobody who is alone.    *)
LEMMA WriteKeepsFile ==
  ASSUME SchemaInv, FileInv, NEW p \in Proc, WriteItem(p)
  PROVE  FileInv'
<1> USE DEF FileInv
<1>1. /\ step[p] = "open" /\ UNCHANGED <<file, writer, step, done, alone, calm>>
      /\ seen'[p] = seen[p]
  BY DEF WriteItem
<1>2. OrderInv' /\ WriterInv'
  BY <1>1 DEF OrderInv, WriterInv
<1>3. CalmInv'
  BY <1>1 DEF CalmInv, Registers, Builds, HasColumn, HasIndex, InCharge
<1>4. \A q \in alone : q = p
  BY <1>1 DEF AloneInv, WriterInv
<1>5. AloneInv'
  BY <1>1, <1>4 DEF AloneInv, AloneOf, currentSchemaVersion, Complete, Torn
<1> QED
  BY <1>2, <1>3, <1>5

(* ... so does every step of runServe,                                     *)
LEMMA MainKeepsFile ==
  ASSUME SchemaInv, FileInv, WorkInv, NEW p \in Proc, Main(p)
  PROVE  FileInv'
<1>1. CASE UNCHANGED schemaVars
  BY <1>1 DEF schemaVars, FileInv, OrderInv, WriterInv, AloneInv, AloneOf, CalmInv,
     Registers, Builds, HasColumn, HasIndex, InCharge, Complete, Torn,
     currentSchemaVersion
<1>2. CASE Open(p)
  BY <1>2, OpenKeepsFile DEF Open
<1>3. CASE BuildFails(p)
  BY <1>3, CloseKeepsFile DEF BuildFails
<1>4. CASE Cleanup(p)
  BY <1>4, CloseKeepsFile DEF Cleanup, WorkInv
<1>5. CASE \/ BuildSucceeds(p) \/ CommandOpens(p) \/ CommandEnds(p)
           \/ SelectError(p) \/ SelectDone(p)
           \/ ShutdownDrained(p) \/ ShutdownDeadline(p) \/ Exit(p)
  <2>1. UNCHANGED schemaVars
    BY <1>5 DEF BuildSucceeds, CommandOpens, CommandEnds, SelectError,
       SelectDone, ShutdownDrained, ShutdownDeadline, Exit
  <2> QED
    BY <2>1, <1>1
<1> QED
  BY <1>2, <1>3, <1>4, <1>5 DEF Main

(* ... and every other.                                                    *)
LEMMA NextKeepsFile ==
  ASSUME SchemaInv, FileInv, WorkInv, [Next]_vars
  PROVE  FileInv'
<1>1. CASE UNCHANGED schemaVars
  BY <1>1 DEF schemaVars, FileInv, OrderInv, WriterInv, AloneInv, AloneOf, CalmInv,
     Registers, Builds, HasColumn, HasIndex, InCharge, Complete, Torn,
     currentSchemaVersion
<1>2. ASSUME NEW p \in Proc, Main(p) PROVE FileInv'
  BY <1>2, MainKeepsFile
<1>3. ASSUME NEW p \in Proc, Start(p) PROVE FileInv'
  BY <1>3, StartKeepsFile DEF Start
<1>4. ASSUME NEW p \in Proc, CommandWrites(p) PROVE FileInv'
  BY <1>4, WriteKeepsFile DEF CommandWrites
<1>5. ASSUME NEW p \in Proc, Kill(p) PROVE FileInv'
  BY <1>5, CloseKeepsFile DEF Kill
<1>6. ASSUME NEW p \in Proc, Signal(p) PROVE FileInv'
  <2>1. done' = done \cup {p} /\ UNCHANGED <<file, writer, step, seen, alone, calm>>
    BY <1>6 DEF Signal
  <2>2. OrderInv' /\ WriterInv' /\ CalmInv'
    BY <2>1 DEF FileInv, OrderInv, WriterInv, CalmInv, Registers, Builds, HasColumn,
       HasIndex, InCharge
  <2>3. AloneInv'
    BY <2>1 DEF FileInv, AloneInv, AloneOf, currentSchemaVersion, Complete, Torn
  <2> QED
    BY <2>2, <2>3 DEF FileInv
<1>7. ASSUME NEW r \in Request, HandlerWrites(r) PROVE FileInv'
  <2>1. req[r].at \in Active
    BY <1>7, ChainStepShape DEF HandlerWrites, Codes, Final
  <2>2. by[r] \in Proc
    BY <2>1 DEF WorkInv
  <2> QED
    BY <1>7, <2>2, WriteKeepsFile DEF HandlerWrites
<1>8. ASSUME NEW p \in Proc, Listen(p) \/ ListenFails(p)
                             \/ \E r \in Request : Arrive(p, r)
      PROVE FileInv'
  BY <1>1, <1>8 DEF Listen, ListenFails, Arrive
<1>9. ASSUME NEW r \in Request,
             Hooks(r) \/ HandlerFails(r) \/ HandlerReads(r) \/ Leave(r)
      PROVE FileInv'
  BY <1>1, <1>9 DEF Hooks, HandlerFails, HandlerReads, Leave
<1>10. CASE UNCHANGED vars
  BY <1>1, <1>10 DEF vars
<1> QED
  BY <1>2, <1>3, <1>4, <1>5, <1>6, <1>7, <1>8, <1>9, <1>10 DEF Next

(* Every step keeps WorkInv.                                               *)
LEMMA NextKeepsWork ==
  ASSUME LifeInv, WorkInv, [Next]_vars
  PROVE  WorkInv'
<1> DEFINE AtWork == {"select", "shutdown", "work", "cleanup"}
<1>1. step \in [Proc -> Steps] /\ life \in [Proc -> Lives]
  BY DEF LifeInv
(* Steps that leave the requests alone, and those of one process.          *)
<1>2. ASSUME UNCHANGED <<req, by>>,
             \A p \in Proc : life'[p] \in AtWork => step'[p] = "open"
      PROVE  WorkInv'
  BY <1>2 DEF WorkInv
<1>3. ASSUME NEW p \in Proc, UNCHANGED <<req, by>>,
             \A q \in Proc \ {p} : life'[q] = life[q] /\ step'[q] = step[q],
             life'[p] \in AtWork => step'[p] = "open"
      PROVE  WorkInv'
  BY <1>2, <1>3 DEF WorkInv
<1>4. ASSUME NEW p \in Proc, Gone(p), step' = step \/ Goto(p, "closed")
      PROVE  WorkInv'
  <2>1. /\ life' = [life EXCEPT ![p] = "down"]
        /\ req' = [r \in Request |-> IF by[r] = p THEN NoRequest ELSE req[r]]
        /\ by' = [r \in Request |-> IF by[r] = p THEN NoProc ELSE by[r]]
    BY <1>4 DEF Gone, Live
  <2>2. NoRequest.at \notin Active
    BY DEF NoRequest, Active
  <2>3. \A q \in Proc : life'[q] \in AtWork => step'[q] = "open"
    BY <1>1, <1>4, <2>1 DEF WorkInv, Goto
  <2>4. /\ DOMAIN req' = Request /\ by' \in [Request -> Proc \cup {NoProc}]
        /\ \A r \in Request : req'[r].at \in Active => by'[r] # NoProc
    BY <2>1, <2>2 DEF WorkInv
  <2> QED
    BY <2>3, <2>4 DEF WorkInv
(* Steps of a request that leave the processes alone.                      *)
<1>5. ASSUME NEW r \in Request, NEW s, req' = [req EXCEPT ![r] = s],
             UNCHANGED <<life, step>>, by' \in [Request -> Proc \cup {NoProc}],
             \A q \in Request \ {r} : by'[q] = by[q],
             s.at \in Active => by'[r] # NoProc
      PROVE  WorkInv'
  BY <1>5 DEF WorkInv
<1>6. ASSUME NEW p \in Proc, Start(p) PROVE WorkInv'
  BY <1>1, <1>3, <1>6 DEF Start, StartOpen, Goto, Live
<1>7. ASSUME NEW p \in Proc, Open(p) PROVE WorkInv'
  <2>1. PICK s \in Opening \cup {"failed", "open"} : Goto(p, s)
    BY <1>7, OpenStepMoves DEF Open
  <2> QED
    BY <1>1, <1>3, <1>7, <2>1 DEF Open, lifeVars, Goto
<1>8. ASSUME NEW p \in Proc,
             \/ BuildFails(p) \/ BuildSucceeds(p) \/ CommandOpens(p) \/ CommandEnds(p)
             \/ SelectError(p) \/ SelectDone(p)
             \/ ShutdownDrained(p) \/ ShutdownDeadline(p) \/ Cleanup(p)
      PROVE  WorkInv'
  <2>1. /\ UNCHANGED <<req, by>>
        /\ \A q \in Proc \ {p} : life'[q] = life[q] /\ step'[q] = step[q]
    BY <1>1, <1>8 DEF BuildFails, BuildSucceeds, CommandOpens, CommandEnds, SelectError,
       SelectDone, ShutdownDrained, ShutdownDeadline, Cleanup, Live, CloseFile, Goto,
       schemaVars
  <2>2. life'[p] \in AtWork => step'[p] = "open"
    <3>1. CASE BuildFails(p) \/ Cleanup(p)
      BY <1>1, <3>1 DEF BuildFails, Cleanup, Live
    <3>2. CASE BuildSucceeds(p) \/ CommandOpens(p) \/ CommandEnds(p)
               \/ SelectError(p) \/ SelectDone(p)
               \/ ShutdownDrained(p) \/ ShutdownDeadline(p)
      BY <3>2 DEF BuildSucceeds, CommandOpens, CommandEnds, SelectError,
         SelectDone, ShutdownDrained, ShutdownDeadline, schemaVars, WorkInv
    <3> QED
      BY <1>8, <3>1, <3>2
  <2> QED
    BY <1>3, <2>1, <2>2
<1>9. ASSUME NEW p \in Proc, Exit(p) \/ Kill(p) PROVE WorkInv'
  BY <1>4, <1>9 DEF Exit, Kill, CloseFile, schemaVars
<1>10. ASSUME NEW p \in Proc,
              CommandWrites(p) \/ Listen(p) \/ ListenFails(p) \/ Signal(p)
       PROVE  WorkInv'
  BY <1>2, <1>10 DEF CommandWrites, WriteItem, Listen, ListenFails, Signal, lifeVars,
     schemaVars, WorkInv
<1>11. ASSUME NEW p \in Proc, NEW r \in Request, Arrive(p, r) PROVE WorkInv'
  <2>1. /\ by' = [by EXCEPT ![r] = p] /\ UNCHANGED <<life, step>>
        /\ \E s : req' = [req EXCEPT ![r] = s]
    BY <1>11 DEF Arrive, schemaVars
  <2> QED
    BY <1>5, <2>1, ProcAssumption DEF WorkInv
<1>12. ASSUME NEW r \in Request, Leave(r) PROVE WorkInv'
  <2>1. /\ by' = [by EXCEPT ![r] = NoProc] /\ UNCHANGED <<life, step>>
        /\ req' = [req EXCEPT ![r] = NoRequest] /\ NoRequest.at \notin Active
    BY <1>12 DEF Leave, schemaVars, NoRequest, Active
  <2> QED
    BY <1>5, <2>1 DEF WorkInv
<1>13. ASSUME NEW r \in Request,
              Hooks(r) \/ HandlerFails(r) \/ HandlerReads(r) \/ HandlerWrites(r)
       PROVE  WorkInv'
  <2>1. req[r].at \in Active /\ \E s : req' = [req EXCEPT ![r] = s]
    BY <1>13, ChainStepShape
       DEF Hooks, HandlerFails, HandlerReads, HandlerWrites, Codes, Final
  <2>2. UNCHANGED <<step, life, by>>
    BY <1>13 DEF Hooks, HandlerFails, HandlerReads, HandlerWrites, WriteItem,
       schemaVars, lifeVars
  <2> QED
    BY <1>5, <2>1, <2>2 DEF WorkInv
<1>14. CASE UNCHANGED vars
  BY <1>2, <1>14 DEF vars, schemaVars, lifeVars, WorkInv
<1> QED
  BY <1>6, <1>7, <1>8, <1>9, <1>10, <1>11, <1>12, <1>13, <1>14 DEF Next, Main

(* The bounds on starts and kills, and whose Shutdown was late.            *)
Bounded == /\ starts \in 0..MaxStarts /\ kills \in 0..MaxKills
           /\ late \subseteq Proc

(* Every step keeps the bounds.                                            *)
LEMMA NextKeepsBounds ==
  ASSUME Bounded, [Next]_vars
  PROVE  Bounded'
<1> USE BoundsAssumption DEF Bounded
<1>1. ASSUME NEW p \in Proc, Start(p) PROVE Bounded'
  BY <1>1 DEF Start
<1>2. ASSUME NEW p \in Proc, Main(p) PROVE Bounded'
  BY <1>2 DEF Main, Open, BuildFails, BuildSucceeds, CommandOpens, CommandEnds,
     SelectError, SelectDone, ShutdownDrained, ShutdownDeadline, Cleanup, Exit, Gone,
     lifeVars
<1>3. ASSUME NEW p \in Proc, Kill(p) PROVE Bounded'
  BY <1>3 DEF Kill, Gone
<1>4. ASSUME NEW p \in Proc,
             \/ CommandWrites(p) \/ Listen(p) \/ ListenFails(p) \/ Signal(p)
             \/ \E r \in Request : Arrive(p, r)
      PROVE  Bounded'
  BY <1>4 DEF CommandWrites, Listen, ListenFails, Signal, Arrive, lifeVars
<1>5. ASSUME NEW r \in Request,
             Hooks(r) \/ HandlerFails(r) \/ HandlerReads(r) \/ HandlerWrites(r) \/ Leave(r)
      PROVE  Bounded'
  BY <1>5 DEF Hooks, HandlerFails, HandlerReads, HandlerWrites, Leave, lifeVars
<1>6. CASE UNCHANGED vars
  BY <1>6 DEF vars, lifeVars
<1> QED
  BY <1>1, <1>2, <1>3, <1>4, <1>5, <1>6 DEF Next

IInv == SchemaInv /\ LifeInv /\ ChainInv /\ WorkInv /\ FileInv /\ Bounded

(* The invariant of all of Serve holds throughout.                         *)
LEMMA Invariance == Spec => []IInv
<1>1. Init => IInv
  <2> SUFFICES ASSUME Init PROVE IInv
    OBVIOUS
  <2>1. SchemaInv /\ LifeInv
    BY SchemaInitially, LifeInitially DEF Init
  <2>2. NoRequest \in Requests /\ NoRequest.at \notin Active
    BY NoRequestOK DEF ChainOK, Typed, NoRequest, Active
  <2>3. ChainInv
    BY <2>2, NoRequestOK DEF Init, ChainInit, ChainInv
  <2>4. WorkInv
    BY <2>2 DEF Init, ChainInit, WorkInv
  <2>5. OrderInv /\ WriterInv /\ AloneInv
    BY ProcAssumption DEF Init, SchemaInit, OrderInv, WriterInv, AloneInv
  <2>6. CalmInv
    BY DEF Init, SchemaInit, CalmInv, Registers, Builds, HasColumn, HasIndex
  <2>7. Bounded
    BY BoundsAssumption DEF Init, Bounded
  <2> QED
    BY <2>1, <2>3, <2>4, <2>5, <2>6, <2>7 DEF IInv, FileInv
<1>2. IInv /\ [Next]_vars => IInv'
  BY NextKeepsSchema, NextKeepsLife, NextKeepsChains, NextKeepsWork, NextKeepsFile,
     NextKeepsBounds DEF IInv
<1> QED
  BY <1>1, <1>2, PTL DEF Spec

(* Every variable of the serving processes has its type; the write lock is *)
(* held exactly by the one process that is about to commit a migration.    *)
THEOREM TypeCorrect == Spec => []TypeOK
<1>1. ASSUME IInv PROVE TypeOK
  <2>1. SchemaTypeOK
    BY <1>1 DEF IInv, SchemaInv, SchemaTypes, FileInv, WriterInv, SchemaTypeOK
  <2>2. ChainTypeOK
    BY <1>1, ChainInvImplies DEF IInv
  <2> QED
    BY <1>1, <2>1, <2>2 DEF IInv, LifeInv, WorkInv, Bounded, TypeOK
<1> QED
  BY <1>1, Invariance, PTL

(* Whoever has the file to itself opens it, with a complete schema unless  *)
(* somebody stopped in the middle of a pair of spatial statements.         *)
THEOREM LoneStarter == Spec => []LoneStart
<1>1. ASSUME IInv PROVE LoneStart
  BY <1>1 DEF IInv, FileInv, AloneInv, AloneOf, LoneStart
<1> QED
  BY <1>1, Invariance, PTL

(* However many open one new file together: with nobody killed, cancelled  *)
(* or timed out, what they leave when the last is through is complete.     *)
THEOREM RaceIsWon == Spec => []RaceEndsComplete
<1>1. ASSUME IInv, calm, \A p \in Proc : step[p] \notin Opening,
             \E p \in Proc : step[p] = "open"
      PROVE  Complete
  <2>1. Registers /\ Builds /\ HasColumn /\ HasIndex
    BY <1>1 DEF IInv, FileInv, CalmInv
  <2>2. \A p \in Proc : step[p] \notin {"register", "probeIndex", "enableIndex", "buildIndex"}
    BY <1>1 DEF Opening
  <2>3. file.column
    BY <1>1, <2>1 DEF HasColumn
  <2>4. file.registered
    BY <2>1, <2>2, <2>3 DEF Registers
  <2>5. file.enabled
    BY <1>1, <2>1, <2>2 DEF HasIndex, InCharge
  <2>6. file.index
    BY <2>1, <2>2, <2>5 DEF Builds
  <2> QED
    BY <2>3, <2>4, <2>6 DEF Complete
<1>2. IInv => RaceEndsComplete
  BY <1>1 DEF RaceEndsComplete
<1> QED
  BY <1>2, Invariance, PTL
==============================================================================
