--------------------------- MODULE MigrateProofs ---------------------------
(***************************************************************************)
(* Theorems about Migrate, for any workers, collections, page counts and   *)
(* options.                                                                *)
(***************************************************************************)
EXTENDS Migrate, SequenceLemmas

(* The channels have room for at least one element.                        *)
LEMMA CapacityType == Capacity \in Nat /\ Capacity > 0
<1>1. Cardinality(Workers) \in Nat
  BY WorkersAssumption, FS_CardinalityType
<1>2. Cardinality(Workers) # 0
  BY WorkersAssumption, FS_EmptySet
<1> QED
  BY <1>1, <1>2 DEF Capacity

----------------------------------------------------------------------------
(* Type correctness.                                                       *)

(* The collections resolved are collections of the source.                 *)
LEMMA ResolveType == resolveCollections \subseteq Cols
  BY ColsAssumption DEF resolveCollections

(* What the sidecar gives back is a map of cursors.                        *)
LEMMA LoadType == TypeOK => loadCursors \in [Cols -> Nat]
  BY DEF TypeOK, loadCursors, Zero

LEMMA ReturnType ==
  ASSUME TypeOK, NEW r \in Results, Return(r)
  PROVE  phase' \in Phases /\ result' \in Results /\ sidecar' \in [Cols -> Nat]
  BY DEF Return, saveCursors, TypeOK, Phases

LEMMA InitTypeOK == Init => TypeOK
<1> SUFFICES ASSUME Init PROVE TypeOK
  OBVIOUS
<1>1. Len(jobs) = 0 /\ jobs \in Seq(Nat)
  BY RangeEmpty DEF Init
<1>2. Len(jobs) <= Capacity /\ workerErrs \in 0..Capacity
  BY <1>1, CapacityType DEF Init
<1>3. cr \in [Cols -> [Counts -> Nat]]
  BY DEF Init
<1>4. phase \in Phases /\ result \in Results /\ runs \in 0..MaxRuns
  BY OptionsAssumption DEF Init, Phases, Results
<1>5. hand \in [Workers -> Nat] /\ cursors \in [Cols -> Nat]
      /\ sidecar \in [Cols -> Nat] /\ start \in [Cols -> Nat]
  BY DEF Init, Zero
<1>6. /\ tried \in [Cols -> SUBSET Nat]
      /\ acked \in [Cols -> SUBSET Nat] /\ everAcked \in [Cols -> SUBSET Nat]
  BY DEF Init
<1> QED
  BY <1>1, <1>2, <1>3, <1>4, <1>5, <1>6 DEF Init, TypeOK

LEMMA StartTypeOK == TypeOK /\ Start => TypeOK'
<1> SUFFICES ASSUME TypeOK, Start PROVE TypeOK'
  OBVIOUS
<1>1. Len(jobs') = 0 /\ jobs' \in Seq(Nat)
  BY RangeEmpty DEF Start
<1>2. runs' \in 0..MaxRuns
  BY OptionsAssumption DEF TypeOK, Start
<1>3. Len(jobs') <= Capacity /\ workerErrs' \in 0..Capacity
  BY <1>1, CapacityType DEF Start
<1>4. cr' \in [Cols -> [Counts -> Nat]]
  BY DEF Start
<1> QED
  BY <1>1, <1>2, <1>3, <1>4, CapacityType
     DEF Start, TypeOK, Phases, Results, Zero

(* Run's own steps outside the producer loop.                              *)
LEMMA RunTypeOK ==
  ASSUME TypeOK,
         \/ ResolveFails \/ Resolve
         \/ CollectionFails \/ CollectionDone \/ AllCollectionsDone
         \/ Verify \/ VerifyFails \/ Interrupt
  PROVE  TypeOK'
<1> USE DEF runVars, prodVars, poolVars, curVars, resVars, histVars
<1>1. CASE ResolveFails
  BY <1>1 DEF ResolveFails, TypeOK, Phases, Results
<1>2. CASE Resolve
  BY <1>2, ResolveType, LoadType DEF Resolve, TypeOK, Phases
<1>3. CASE CollectionFails
  <2>1. Return("error") /\ "error" \in Results
    BY <1>3 DEF CollectionFails, Results
  <2> QED
    BY <1>3, <2>1, ReturnType DEF CollectionFails, TypeOK
<1>4. CASE CollectionDone
  <2>1. cursors' \in [Cols -> Nat]
    BY <1>4 DEF CollectionDone, TypeOK
  <2>2. sidecar' \in [Cols -> Nat]
    BY <1>4, <2>1 DEF CollectionDone, TypeOK, saveCursors
  <2> QED
    BY <1>4, <2>1, <2>2 DEF CollectionDone, TypeOK, Phases
<1>5. CASE AllCollectionsDone
  <2>1. phase' \in Phases /\ result' \in Results /\ sidecar' \in [Cols -> Nat]
    BY <1>5, ReturnType DEF AllCollectionsDone, TypeOK, Phases, Results
  <2> QED
    BY <1>5, <2>1 DEF AllCollectionsDone, TypeOK
<1>6. CASE Verify
  <2>1. \E r \in {"nil", "mismatch"} : Return(r)
    BY <1>6 DEF Verify
  <2>2. phase' \in Phases /\ result' \in Results /\ sidecar' \in [Cols -> Nat]
    BY <2>1, ReturnType DEF Results
  <2> QED
    BY <1>6, <2>2 DEF Verify, TypeOK
<1>7. CASE VerifyFails
  <2>1. Return("error") /\ "error" \in Results
    BY <1>7 DEF VerifyFails, Results
  <2> QED
    BY <1>7, <2>1, ReturnType DEF VerifyFails, TypeOK
<1>8. CASE Interrupt
  BY <1>8 DEF Interrupt, TypeOK
<1> QED
  BY <1>1, <1>2, <1>3, <1>4, <1>5, <1>6, <1>7, <1>8

LEMMA LoopTypeOK ==
  ASSUME TypeOK, NEW c \in Cols, SkipCollection(c) \/ BeginCollection(c)
  PROVE  TypeOK'
<1> USE DEF runVars, prodVars, poolVars, curVars, resVars, histVars
<1>1. CASE SkipCollection(c)
  BY <1>1 DEF SkipCollection, TypeOK
<1>2. CASE BeginCollection(c)
  <2>1. Len(jobs') = 0 /\ jobs' \in Seq(Nat)
    BY <1>2, RangeEmpty DEF BeginCollection
  <2>2. Len(jobs') <= Capacity /\ workerErrs' \in 0..Capacity
    BY <1>2, <2>1, CapacityType DEF BeginCollection
  <2>3. cursors[c] \in Nat /\ start' \in [Cols -> Nat]
    BY <1>2 DEF BeginCollection, TypeOK
  <2> QED
    BY <1>2, <2>1, <2>2, <2>3, CapacityType DEF BeginCollection, TypeOK, Phases
<1> QED
  BY <1>1, <1>2

(* A page sent on the channel keeps the channel's type and capacity.       *)
LEMMA SendType ==
  ASSUME TypeOK, Len(jobs) < Capacity
  PROVE  /\ Append(jobs, page) \in Seq(Nat)
         /\ Len(Append(jobs, page)) <= Capacity
<1>1. jobs \in Seq(Nat) /\ page \in Nat /\ Len(jobs) \in Nat
  BY LenProperties DEF TypeOK
<1>2. /\ Append(jobs, page) \in Seq(Nat)
      /\ Len(Append(jobs, page)) = Len(jobs) + 1
  BY <1>1, AppendProperties
<1> QED
  BY <1>1, <1>2, CapacityType

(* Counting a page keeps the summary's type, whichever field it counts.    *)
LEMMA CountedType ==
  ASSUME TypeOK, NEW f \in Counts
  PROVE  Counted(col, f) \in [Cols -> [Counts -> Nat]]
<1> DEFINE row == [cr[col] EXCEPT ![f] = cr[col][f] + 1]
<1>1. cr \in [Cols -> [Counts -> Nat]]
  BY DEF TypeOK
<1>2. Counted(col, f) = [cr EXCEPT ![col] = row]
  BY DEF Counted
<1>3. CASE col \in Cols
  <2>1. row \in [Counts -> Nat]
    BY <1>1, <1>3
  <2> QED
    BY <1>1, <1>2, <2>1
<1>4. CASE col \notin Cols
  <2>1. [cr EXCEPT ![col] = row] = cr
    BY <1>1, <1>4
  <2> QED
    BY <1>1, <1>2, <2>1
<1> QED
  BY <1>3, <1>4

LEMMA ProducerTypeOK ==
  ASSUME TypeOK,
         \/ ProducerFails \/ ProducerExhausted \/ ProducerReads
         \/ ProducerSendsLast \/ ProducerSends \/ ProducerAborts
  PROVE  TypeOK'
<1> USE DEF runVars, prodVars, poolVars, curVars, resVars, histVars
<1>1. CASE ProducerFails
  BY <1>1 DEF ProducerFails, CloseJobs, TypeOK, Phases
<1>2. CASE ProducerExhausted
  BY <1>2 DEF ProducerExhausted, CloseJobs, TypeOK, Phases
<1>3. CASE ProducerReads
  <2>1. cr' \in [Cols -> [Counts -> Nat]]
    BY <1>3, CountedType DEF ProducerReads, Counts
  <2> QED
    BY <1>3, <2>1 DEF ProducerReads, TypeOK, Phases
<1>4. CASE ProducerSendsLast
  BY <1>4, SendType DEF ProducerSendsLast, CloseJobs, TypeOK, Phases
<1>5. CASE ProducerSends
  <2>1. NextToken(col, page) \in Nat
    BY DEF NextToken, TypeOK
  <2>2. cursors' \in [Cols -> Nat]
    BY <1>5, <2>1 DEF ProducerSends, TypeOK
  <2>3. sidecar' \in [Cols -> Nat]
    BY <1>5, <2>2 DEF ProducerSends, TypeOK, saveCursors
  <2>4. pages' \in Nat /\ token' \in Nat /\ page' \in Nat /\ phase' \in Phases
    BY <1>5, <2>1 DEF ProducerSends, TypeOK, Phases
  <2>5. jobs' \in Seq(Nat) /\ Len(jobs') <= Capacity
    BY <1>5, SendType DEF ProducerSends
  <2> QED
    BY <1>5, <2>2, <2>3, <2>4, <2>5 DEF ProducerSends, TypeOK
<1>6. CASE ProducerAborts
  BY <1>6 DEF ProducerAborts, CloseJobs, TypeOK, Phases
<1> QED
  BY <1>1, <1>2, <1>3, <1>4, <1>5, <1>6

LEMMA WorkerTypeOK ==
  ASSUME TypeOK, NEW w \in Workers, Worker(w)
  PROVE  TypeOK'
<1> USE DEF runVars, prodVars, poolVars, curVars, resVars, histVars
<1>1. CASE WorkerTakes(w)
  <2>1. Head(jobs) \in Nat /\ Tail(jobs) \in Seq(Nat) /\ Len(Tail(jobs)) <= Capacity
    <3>1. jobs \in Seq(Nat) /\ jobs # <<>> /\ Len(jobs) \in Nat
      BY <1>1, LenProperties DEF WorkerTakes, TypeOK
    <3>2. Head(jobs) \in Nat /\ Tail(jobs) \in Seq(Nat) /\ Len(Tail(jobs)) = Len(jobs) - 1
      BY <3>1, RangeTail
    <3> QED
      BY <3>1, <3>2, CapacityType DEF TypeOK
  <2> QED
    BY <1>1, <2>1 DEF WorkerTakes, TypeOK
<1>2. CASE WorkerEnds(w)
  BY <1>2 DEF WorkerEnds, TypeOK
<1>3. ASSUME NEW f \in {"written", "failed"}, WorkerWrites(w, f)
      PROVE  TypeOK'
  <2>1. hand[w] \in Nat /\ hand' \in [Workers -> Nat]
    BY <1>3 DEF WorkerWrites, TypeOK
  <2>2. cr' \in [Cols -> [Counts -> Nat]]
    BY <1>3, CountedType DEF WorkerWrites, Counts
  <2>3. /\ tried' \in [Cols -> SUBSET Nat]
        /\ acked' \in [Cols -> SUBSET Nat] /\ everAcked' \in [Cols -> SUBSET Nat]
    BY <1>3, <2>1 DEF WorkerWrites, TypeOK
  <2> QED
    BY <1>3, <2>1, <2>2, <2>3 DEF WorkerWrites, TypeOK
<1>4. CASE WorkerFails(w)
  <2>1. hand[w] \in Nat /\ hand' \in [Workers -> Nat]
    BY <1>4 DEF WorkerFails, TypeOK
  <2>2. cr' \in [Cols -> [Counts -> Nat]]
    BY <1>4, CountedType DEF WorkerFails, TypeOK, Counts
  <2>3. tried' \in [Cols -> SUBSET Nat]
    BY <1>4, <2>1 DEF WorkerFails, TypeOK
  <2>4. workerErrs' \in 0..Capacity
    BY <1>4, CapacityType DEF WorkerFails, TypeOK
  <2> QED
    BY <1>4, <2>1, <2>2, <2>3, <2>4 DEF WorkerFails, TypeOK
<1> QED
  BY <1>1, <1>2, <1>3, <1>4 DEF Worker

LEMMA KillTypeOK == TypeOK /\ Kill => TypeOK'
<1> SUFFICES ASSUME TypeOK, Kill PROVE TypeOK'
  OBVIOUS
<1>1. InHand \subseteq Nat
  BY DEF InHand, Range, TypeOK
<1>2. Len(jobs') = 0 /\ jobs' \in Seq(Nat)
  BY RangeEmpty DEF Kill
<1>3. tried' \in [Cols -> SUBSET Nat]
  BY <1>1 DEF Kill, TypeOK
<1> QED
  BY <1>2, <1>3, CapacityType
     DEF Kill, TypeOK, Phases, Results, prodVars, curVars, resVars, histVars

LEMMA NextTypeOK == TypeOK /\ [Next]_vars => TypeOK'
<1> SUFFICES ASSUME TypeOK, [Next]_vars PROVE TypeOK'
  OBVIOUS
<1>1. CASE Start
  BY <1>1, StartTypeOK
<1>2. CASE Producer
  BY <1>2, RunTypeOK, LoopTypeOK, ProducerTypeOK DEF Producer
<1>3. CASE \E w \in Workers : Worker(w)
  BY <1>3, WorkerTypeOK
<1>4. CASE Interrupt
  BY <1>4, RunTypeOK
<1>5. CASE Kill
  BY <1>5, KillTypeOK
<1>6. CASE UNCHANGED vars
  BY <1>6 DEF TypeOK, vars, runVars, prodVars, poolVars, curVars, resVars, histVars
<1> QED
  BY <1>1, <1>2, <1>3, <1>4, <1>5, <1>6 DEF Next

(* Every reachable state has the declared types, whatever the number of    *)
(* workers, collections and pages.                                         *)
THEOREM TypeCorrect == Spec => []TypeOK
  BY InitTypeOK, NextTypeOK, PTL DEF Spec

----------------------------------------------------------------------------
(* The inductive invariant.  Every lemma below takes one group of steps.   *)

Splits == CollectionSplit /\ PoolSplit /\ PageSplit /\ NilMeansHandled

LEMMA InitSplits == Init => Splits
<1> SUFFICES ASSUME Init PROVE Splits
  OBVIOUS
<1>1. CollectionSplit
  BY DEF Init, CollectionSplit, Copying
<1>2. PoolSplit
  BY DEF Init, PoolSplit, Copying
<1>3. PageSplit
  BY DEF Init, PageSplit, Copying
<1>4. NilMeansHandled
  BY DEF Init, NilMeansHandled, Ended
<1> QED
  BY <1>1, <1>2, <1>3, <1>4 DEF Splits

LEMMA StartSplits == Start => Splits'
<1> SUFFICES ASSUME Start PROVE Splits'
  OBVIOUS
<1>1. CollectionSplit'
  BY DEF Start, CollectionSplit, Copying
<1>2. PoolSplit'
  BY DEF Start, PoolSplit, Copying
<1>3. PageSplit'
  BY DEF Start, PageSplit, Copying
<1>4. NilMeansHandled'
  BY DEF Start, NilMeansHandled, Ended
<1> QED
  BY <1>1, <1>2, <1>3, <1>4 DEF Splits

(* A step after which the process is gone with no worker left: everything  *)
(* but the claim of a nil result is about a running process.               *)
LEMMA DownSplits ==
  ASSUME phase' = "down", live' = {}, \A w \in Workers : hand'[w] = 0,
         NilMeansHandled'
  PROVE  Splits'
<1>1. CollectionSplit'
  BY DEF CollectionSplit, Copying
<1>2. PoolSplit'
  BY DEF PoolSplit, Copying
<1>3. PageSplit'
  BY DEF PageSplit, Copying
<1> QED
  BY <1>1, <1>2, <1>3 DEF Splits

(* A worker that is gone holds no page.                                    *)
LEMMA NoHand ==
  ASSUME TypeOK, PoolSplit, live = {}
  PROVE  InHand = {} /\ \A w \in Workers : hand[w] = 0
  BY DEF PoolSplit, InHand, Range, TypeOK

LEMMA ReturnSplits ==
  ASSUME TypeOK, Splits,
         \/ ResolveFails \/ CollectionFails \/ VerifyFails \/ Verify \/ Kill
         \/ AllCollectionsDone /\ ~SampleVerify
  PROVE  Splits'
<1> USE DEF runVars, prodVars, poolVars, curVars, resVars, histVars
<1>1. CASE ResolveFails
  <2>1. live = {} /\ live' = {} /\ hand' = hand /\ phase' = "down" /\ result' = "error"
    BY <1>1 DEF ResolveFails, Splits, PoolSplit, Copying
  <2> QED
    BY <2>1, NoHand, DownSplits DEF Splits, NilMeansHandled, Ended
<1>2. CASE CollectionFails
  <2>1. live = {} /\ live' = {} /\ hand' = hand /\ phase' = "down" /\ result' = "error"
    BY <1>2 DEF CollectionFails, Return
  <2> QED
    BY <2>1, NoHand, DownSplits DEF Splits, NilMeansHandled, Ended
<1>3. CASE VerifyFails
  <2>1. live = {} /\ live' = {} /\ hand' = hand /\ phase' = "down" /\ result' = "error"
    BY <1>3 DEF VerifyFails, Return, Splits, PoolSplit, Copying
  <2> QED
    BY <2>1, NoHand, DownSplits DEF Splits, NilMeansHandled, Ended
<1>4. CASE Kill
  <2>1. live' = {} /\ phase' = "down" /\ result' = "killed"
        /\ \A w \in Workers : hand'[w] = 0
    BY <1>4 DEF Kill
  <2> QED
    BY <2>1, DownSplits DEF NilMeansHandled, Ended
<1>5. CASE Verify \/ (AllCollectionsDone /\ ~SampleVerify)
  <2>1. /\ phase \in {"next", "verify"} /\ todo = {} /\ phase' = "down"
        /\ UNCHANGED <<live, hand, skipped, start, acked>>
    BY <1>5 DEF Verify, AllCollectionsDone, Return, Splits, CollectionSplit
  <2>2. col = 0 /\ live = {}
    BY <2>1 DEF Splits, CollectionSplit, PoolSplit, Copying
  <2>3. \A c \in Copied : Handled(c)
    <3>1. 0 \notin Cols
      BY ColsAssumption DEF Cols
    <3>2. Copied = resolveCollections \ (todo \union skipped \union {col})
      BY <2>1, <2>2, <3>1, ResolveType DEF Copied
    <3> QED
      BY <2>1, <3>2 DEF Splits, CollectionSplit
  <2>4. NilMeansHandled'
    BY <2>1, <2>3 DEF NilMeansHandled, Handled, Copied
  <2> QED
    BY <2>1, <2>2, <2>4, NoHand, DownSplits DEF Splits
<1> QED
  BY <1>1, <1>2, <1>3, <1>4, <1>5

LEMMA ResolveSplits ==
  ASSUME TypeOK, Splits, Resolve
  PROVE  Splits'
<1> USE DEF runVars, prodVars, poolVars, curVars, resVars, histVars
<1>1. /\ phase = "resolve" /\ phase' = "next" /\ todo' = resolveCollections
      /\ UNCHANGED <<result, col, live, hand, workerErrs, jobs, skipped, acked>>
  BY DEF Resolve
<1>2. /\ result = "none" /\ skipped = {} /\ \A c \in Cols : acked[c] = {}
      /\ live = {}
  BY <1>1 DEF Splits, CollectionSplit, PoolSplit, Copying
<1>3. col' = 0
  BY <1>1 DEF Resolve, Splits, CollectionSplit
<1>4. CollectionSplit'
  BY <1>1, <1>2, <1>3, ResolveType DEF CollectionSplit, Copying
<1>5. PoolSplit'
  BY <1>1, <1>2 DEF Splits, PoolSplit, Copying
<1>6. PageSplit'
  BY <1>1 DEF PageSplit, Copying
<1>7. NilMeansHandled'
  BY <1>1, <1>2 DEF NilMeansHandled, Ended
<1> QED
  BY <1>4, <1>5, <1>6, <1>7 DEF Splits

LEMMA SkipSplits ==
  ASSUME TypeOK, Splits, NEW c \in Cols, SkipCollection(c)
  PROVE  Splits'
<1> USE DEF runVars, prodVars, poolVars, curVars, resVars, histVars
<1>1. /\ phase = "next" /\ phase' = "next" /\ c \in todo
      /\ todo' = todo \ {c} /\ skipped' = skipped \union {c}
      /\ UNCHANGED <<result, col, live, hand, workerErrs, jobs, acked, start>>
  BY DEF SkipCollection
<1>2. /\ result = "none" /\ col = 0 /\ live = {}
      /\ todo \subseteq resolveCollections /\ todo \intersect skipped = {}
      /\ \A d \in todo \union skipped : acked[d] = {}
      /\ \A d \in resolveCollections \ (todo \union skipped \union {col}) : Handled(d)
  BY <1>1 DEF Splits, CollectionSplit, PoolSplit, Copying
<1>3. CollectionSplit'
  BY <1>1, <1>2 DEF CollectionSplit, Copying, Handled
<1>4. PoolSplit'
  BY <1>1, <1>2 DEF Splits, PoolSplit, Copying
<1>5. PageSplit'
  BY <1>1 DEF PageSplit, Copying
<1>6. NilMeansHandled'
  BY <1>1, <1>2 DEF NilMeansHandled, Ended
<1> QED
  BY <1>3, <1>4, <1>5, <1>6 DEF Splits

LEMMA BeginSplits ==
  ASSUME TypeOK, Splits, NEW c \in Cols, BeginCollection(c)
  PROVE  Splits'
<1> USE DEF runVars, prodVars, poolVars, curVars, resVars, histVars
<1>1. /\ phase = "next" /\ phase' = "search" /\ c \in todo
      /\ todo' = todo \ {c} /\ col' = c /\ token' = cursors[c]
      /\ jobs' = <<>> /\ live' = Workers /\ hand' = [w \in Workers |-> 0]
      /\ start' = [start EXCEPT ![c] = cursors[c]]
      /\ UNCHANGED <<result, skipped, acked>>
  BY DEF BeginCollection
<1>2. /\ result = "none" /\ col = 0
      /\ todo \subseteq resolveCollections /\ todo \intersect skipped = {}
      /\ \A d \in todo \union skipped : acked[d] = {}
      /\ \A d \in resolveCollections \ (todo \union skipped \union {col}) : Handled(d)
  BY <1>1 DEF Splits, CollectionSplit
<1>3. /\ cursors[c] \in Nat /\ start'[c] = cursors[c]
      /\ \A d \in Cols : d # c => start'[d] = start[d]
  BY <1>1 DEF TypeOK
<1>4. \A d \in resolveCollections \ (todo' \union skipped' \union {col'}) : Handled(d)'
  <2> SUFFICES ASSUME NEW d \in resolveCollections, d \notin todo', d \notin skipped, d # c
               PROVE  Handled(d)'
    BY <1>1
  <2>1. 0 \notin Cols /\ d \in Cols
    BY ColsAssumption, ResolveType DEF Cols
  <2>2. Handled(d) /\ start'[d] = start[d]
    BY <1>1, <1>2, <1>3, <2>1
  <2> QED
    BY <1>1, <2>2 DEF Handled
<1>5. CollectionSplit'
  BY <1>1, <1>2, <1>4 DEF CollectionSplit, Copying
<1>6. PoolSplit'
  BY <1>1 DEF PoolSplit, Copying
<1>7. PageSplit'
  <2>1. Queued' = {} /\ InHand' = {}
    BY <1>1, RangeEmpty DEF Queued, InHand, Range
  <2>2. start'[col'] + 1 .. token' = {}
    BY <1>1, <1>3
  <2> QED
    BY <1>1, <1>3, <2>1, <2>2 DEF PageSplit, Copying, InFlight
<1>8. NilMeansHandled'
  BY <1>1, <1>2 DEF NilMeansHandled, Ended
<1> QED
  BY <1>5, <1>6, <1>7, <1>8 DEF Splits

(* When the producer returned nil and every worker ended without an error, *)
(* nothing is left on the channel or in a hand: the collection is handled. *)
LEMMA AllHandled ==
  ASSUME TypeOK, PoolSplit, PageSplit, col \in Cols,
         phase = "wait", live = {}, ~prodErr, workerErrs = 0
  PROVE  Handled(col)
<1>1. live # Workers
  BY WorkersAssumption
<1>2. Queued = {} /\ InHand = {}
  BY <1>1, NoHand, RangeEmpty DEF PoolSplit, Copying, Queued
<1>3. \A p \in start[col] + 1 .. NPages[col] : p \in acked[col]
  BY <1>2 DEF PageSplit, InFlight
<1> QED
  BY <1>3, ColsAssumption DEF Handled, PageSet, TypeOK

LEMMA DoneSplits ==
  ASSUME TypeOK, Splits, CollectionDone
  PROVE  Splits'
<1> USE DEF runVars, prodVars, poolVars, curVars, resVars, histVars
<1>1. /\ phase = "wait" /\ phase' = "next" /\ live = {} /\ ~prodErr /\ workerErrs = 0
      /\ col' = 0
      /\ UNCHANGED <<result, todo, live, hand, workerErrs, jobs, skipped, acked, start>>
  BY DEF CollectionDone
<1>2. /\ result = "none" /\ col \in resolveCollections
      /\ todo \subseteq resolveCollections /\ todo \intersect skipped = {}
      /\ \A d \in todo \union skipped : acked[d] = {}
      /\ \A d \in resolveCollections \ (todo \union skipped \union {col}) : Handled(d)
  BY <1>1 DEF Splits, CollectionSplit, Copying
<1>3. Handled(col)
  BY <1>1, <1>2, AllHandled, ResolveType DEF Splits
<1>4. \A d \in resolveCollections \ (todo \union skipped) : Handled(d)
  BY <1>2, <1>3
<1>5. CollectionSplit'
  BY <1>1, <1>2, <1>4 DEF CollectionSplit, Copying, Handled
<1>6. PoolSplit'
  BY <1>1 DEF Splits, PoolSplit, Copying
<1>7. PageSplit'
  BY <1>1 DEF PageSplit, Copying
<1>8. NilMeansHandled'
  BY <1>1, <1>2 DEF NilMeansHandled, Ended
<1> QED
  BY <1>5, <1>6, <1>7, <1>8 DEF Splits

LEMMA ToVerifySplits ==
  ASSUME TypeOK, Splits, AllCollectionsDone, SampleVerify
  PROVE  Splits'
<1> USE DEF runVars, prodVars, poolVars, curVars, resVars, histVars
<1>1. /\ phase = "next" /\ phase' = "verify" /\ todo = {}
      /\ UNCHANGED <<result, todo, col, live, hand, workerErrs, jobs, skipped,
                     acked, start>>
  BY DEF AllCollectionsDone
<1>2. CollectionSplit'
  BY <1>1 DEF Splits, CollectionSplit, Copying, Handled
<1>3. PoolSplit'
  BY <1>1 DEF Splits, PoolSplit, Copying
<1>4. PageSplit'
  BY <1>1 DEF PageSplit, Copying
<1>5. NilMeansHandled'
  BY <1>1 DEF Splits, CollectionSplit, NilMeansHandled, Ended
<1> QED
  BY <1>2, <1>3, <1>4, <1>5 DEF Splits

LEMMA InterruptSplits ==
  ASSUME Splits, Interrupt
  PROVE  Splits'
<1>1. UNCHANGED <<phase, result, todo, col, token, page, prodErr, jobs, live,
                  hand, workerErrs, skipped, start, acked>>
  BY DEF Interrupt, prodVars, poolVars, resVars, histVars
<1> QED
  BY <1>1 DEF Splits, CollectionSplit, PoolSplit, PageSplit, NilMeansHandled,
     Copying, Handled, InFlight, Queued, InHand, Ended, Copied

----------------------------------------------------------------------------
(* The producer's steps.  None changes which collections are done.         *)

LEMMA KeepCollections ==
  ASSUME CollectionSplit, Copying, Copying',
         UNCHANGED <<result, todo, col, skipped, acked, start>>
  PROVE  CollectionSplit' /\ NilMeansHandled'
<1>1. CollectionSplit'
  BY DEF CollectionSplit, Copying, Handled
<1>2. result' = "none"
  BY DEF CollectionSplit, Copying
<1> QED
  BY <1>1, <1>2 DEF NilMeansHandled, Ended

(* The facts about the collection being copied that arithmetic needs.      *)
LEMMA CopyingTypes ==
  ASSUME TypeOK, CollectionSplit, Copying
  PROVE  /\ col \in Cols /\ start[col] \in Nat /\ NPages[col] \in Nat
         /\ token \in Nat /\ page \in Nat /\ jobs \in Seq(Nat)
         /\ acked[col] \subseteq Nat
  BY ResolveType, ColsAssumption DEF TypeOK, CollectionSplit

LEMMA ProducerClosesSplits ==
  ASSUME TypeOK, Splits, ProducerFails \/ ProducerExhausted \/ ProducerAborts
  PROVE  Splits'
<1> USE DEF runVars, prodVars, poolVars, curVars, resVars, histVars
<1>1. /\ phase \in {"search", "send"} /\ phase' = "wait"
      /\ UNCHANGED <<result, todo, col, token, jobs, live, hand, workerErrs,
                     skipped, start, acked>>
  BY DEF ProducerFails, ProducerExhausted, ProducerAborts, CloseJobs
<1>2. Copying /\ Copying'
  BY <1>1 DEF Copying
<1>3. CollectionSplit' /\ NilMeansHandled'
  BY <1>1, <1>2, KeepCollections DEF Splits
<1>4. PoolSplit'
  BY <1>1, <1>2 DEF Splits, PoolSplit
<1>5. InFlight' = InFlight
  BY <1>1 DEF InFlight, Queued, InHand
<1>6. PageSplit'
  <2>1. CASE prodErr'
    BY <2>1, <1>1, <1>2, <1>5 DEF Splits, PageSplit
  <2>2. CASE ~prodErr'
    <3>1. phase = "search" /\ token >= NPages[col]
      BY <2>2 DEF ProducerFails, ProducerExhausted, ProducerAborts, CloseJobs
    <3>2. start[col] + 1 .. NPages[col] \subseteq start[col] + 1 .. token
      BY <3>1, <1>2, CopyingTypes DEF Splits
    <3> QED
      BY <3>1, <3>2, <1>1, <1>2, <1>5 DEF Splits, PageSplit
  <2> QED
    BY <2>1, <2>2
<1> QED
  BY <1>3, <1>4, <1>6 DEF Splits

LEMMA ProducerReadsSplits ==
  ASSUME TypeOK, Splits, ProducerReads
  PROVE  Splits'
<1> USE DEF runVars, prodVars, poolVars, curVars, resVars, histVars
<1>1. /\ phase = "search" /\ phase' = "send" /\ page' = token + 1
      /\ token < NPages[col]
      /\ UNCHANGED <<result, todo, col, token, jobs, live, hand, workerErrs,
                     prodErr, skipped, start, acked>>
  BY DEF ProducerReads
<1>2. Copying /\ Copying'
  BY <1>1 DEF Copying
<1>3. CollectionSplit' /\ NilMeansHandled'
  BY <1>1, <1>2, KeepCollections DEF Splits
<1>4. PoolSplit'
  BY <1>1, <1>2 DEF Splits, PoolSplit
<1>5. InFlight' = InFlight
  BY <1>1 DEF InFlight, Queued, InHand
<1>6. page' <= NPages[col]
  BY <1>1, <1>2, CopyingTypes DEF Splits
<1>7. PageSplit'
  BY <1>1, <1>2, <1>5, <1>6 DEF Splits, PageSplit
<1> QED
  BY <1>3, <1>4, <1>7 DEF Splits

LEMMA ProducerSendsSplits ==
  ASSUME TypeOK, Splits, ProducerSends \/ ProducerSendsLast
  PROVE  Splits'
<1> USE DEF runVars, prodVars, poolVars, curVars, resVars, histVars
<1>1. /\ phase = "send" /\ phase' \in {"search", "wait"}
      /\ jobs' = Append(jobs, page)
      /\ UNCHANGED <<result, todo, col, live, hand, workerErrs, skipped, start,
                     acked>>
  BY DEF ProducerSends, ProducerSendsLast, CloseJobs
<1>2. Copying /\ Copying'
  BY <1>1 DEF Copying
<1>3. CollectionSplit' /\ NilMeansHandled'
  BY <1>1, <1>2, KeepCollections DEF Splits
<1>4. page = token + 1 /\ page <= NPages[col] /\ start[col] <= token
  BY <1>1 DEF Splits, PageSplit
<1>5. /\ col \in Cols /\ start[col] \in Nat /\ NPages[col] \in Nat
      /\ token \in Nat /\ page \in Nat /\ jobs \in Seq(Nat)
  BY <1>2, CopyingTypes DEF Splits
<1>6. InFlight' = InFlight \union {page}
  BY <1>1, <1>5, RangeAppend DEF InFlight, Queued, InHand
<1>7. PoolSplit'
  <2>1. workerErrs = 0 => live = Workers
    BY <1>1, <1>2 DEF Splits, PoolSplit
  <2> QED
    BY <2>1, <1>1, <1>2 DEF Splits, PoolSplit
<1>8. InFlight' \subseteq start'[col'] + 1 .. NPages[col']
  BY <1>1, <1>2, <1>4, <1>5, <1>6 DEF Splits, PageSplit
<1>9. workerErrs = 0 => \A p \in start[col] + 1 .. page : p \in acked[col] \union InFlight'
  <2> SUFFICES ASSUME workerErrs = 0, NEW p \in start[col] + 1 .. page
               PROVE  p \in acked[col] \union InFlight'
    OBVIOUS
  <2>1. CASE p = page
    BY <2>1, <1>6
  <2>2. CASE p # page
    <3>1. p \in start[col] + 1 .. token
      BY <2>2, <1>4, <1>5
    <3> QED
      BY <3>1, <1>1, <1>6 DEF Splits, PageSplit
  <2> QED
    BY <2>1, <2>2
<1>10. PageSplit'
  <2>1. CASE ProducerSends
    <3>1. phase' = "search" /\ token' = NextToken(col, page) /\ NextToken(col, page) # 0
      BY <2>1 DEF ProducerSends
    <3>2. token' = page /\ start[col] <= token'
      BY <3>1, <1>4, <1>5 DEF NextToken
    <3> QED
      BY <3>1, <3>2, <1>1, <1>2, <1>8, <1>9 DEF PageSplit
  <2>2. CASE ProducerSendsLast
    <3>1. phase' = "wait" /\ NextToken(col, page) = 0
      BY <2>2 DEF ProducerSendsLast, CloseJobs
    <3>2. page = NPages[col]
      BY <3>1, <1>4, <1>5 DEF NextToken
    <3> QED
      BY <3>1, <3>2, <1>1, <1>2, <1>8, <1>9 DEF PageSplit
  <2> QED
    BY <2>1, <2>2
<1> QED
  BY <1>3, <1>7, <1>10 DEF Splits

----------------------------------------------------------------------------
(* The workers' steps                                                      *)

(* Overwriting one worker's hand.                                          *)
LEMMA HandUpdate ==
  ASSUME TypeOK, NEW w \in Workers, NEW p \in Nat,
         hand' = [hand EXCEPT ![w] = p]
  PROVE  /\ hand' \in [Workers -> Nat] /\ hand'[w] = p
         /\ \A x \in Workers : x # w => hand'[x] = hand[x]
         /\ InHand' \subseteq InHand \union ({p} \ {0})
         /\ InHand \subseteq InHand' \union {hand[w]}
         /\ p # 0 => p \in InHand'
         /\ hand[w] # 0 => hand[w] \in InHand
<1>1. hand \in [Workers -> Nat]
  BY DEF TypeOK
<1>2. /\ hand' \in [Workers -> Nat] /\ hand'[w] = p
      /\ \A x \in Workers : x # w => hand'[x] = hand[x]
  BY <1>1
<1>3. InHand = {hand[x] : x \in Workers} \ {0}
  BY <1>1 DEF InHand, Range
<1>4. InHand' = {hand'[x] : x \in Workers} \ {0}
  BY <1>2 DEF InHand, Range
<1> QED
  BY <1>2, <1>3, <1>4

LEMMA WorkerTakesSplits ==
  ASSUME TypeOK, Splits, NEW w \in Workers, WorkerTakes(w)
  PROVE  Splits'
<1> USE DEF runVars, prodVars, poolVars, curVars, resVars, histVars
<1>1. /\ w \in live /\ hand[w] = 0 /\ jobs # <<>>
      /\ hand' = [hand EXCEPT ![w] = Head(jobs)] /\ jobs' = Tail(jobs)
      /\ UNCHANGED <<phase, result, todo, col, token, page, prodErr, live,
                     workerErrs, skipped, start, acked>>
  BY DEF WorkerTakes
<1>2. Copying /\ Copying'
  BY <1>1 DEF Splits, PoolSplit, Copying
<1>3. CollectionSplit' /\ NilMeansHandled'
  BY <1>1, <1>2, KeepCollections DEF Splits
<1>4. Head(jobs) \in Nat /\ Queued = {Head(jobs)} \union Queued'
  BY <1>1, RangeTail DEF Queued, TypeOK
<1>5. InFlight' \subseteq InFlight /\ InFlight \ {0} \subseteq InFlight'
  BY <1>1, <1>4, HandUpdate DEF InFlight
<1>6. PoolSplit'
  <2>1. workerErrs = 0 => live = Workers
    BY <1>1, <1>2 DEF Splits, PoolSplit
  <2>2. \A x \in Workers : hand'[x] # 0 => x \in live
    BY <1>1, <1>4, HandUpdate DEF Splits, PoolSplit
  <2> QED
    BY <2>1, <2>2, <1>1, <1>2 DEF PoolSplit
<1>7. PageSplit'
  <2>1. start[col] \in Nat
    BY <1>2, CopyingTypes DEF Splits
  <2>2. \A p \in Nat : p > start[col] /\ p \in InFlight => p \in InFlight'
    BY <2>1, <1>5
  <2> QED
    BY <2>1, <2>2, <1>1, <1>2, <1>5, CopyingTypes DEF Splits, PageSplit
<1> QED
  BY <1>3, <1>6, <1>7 DEF Splits

LEMMA WorkerEndsSplits ==
  ASSUME TypeOK, Splits, NEW w \in Workers, WorkerEnds(w)
  PROVE  Splits'
<1> USE DEF runVars, prodVars, poolVars, curVars, resVars, histVars
<1>1. /\ phase = "wait" /\ hand[w] = 0 /\ jobs = <<>> /\ live' = live \ {w}
      /\ UNCHANGED <<phase, result, todo, col, token, page, prodErr, hand, jobs,
                     workerErrs, skipped, start, acked>>
  BY DEF WorkerEnds
<1>2. Copying /\ Copying'
  BY <1>1 DEF Copying
<1>3. CollectionSplit' /\ NilMeansHandled'
  BY <1>1, <1>2, KeepCollections DEF Splits
<1>4. PoolSplit'
  BY <1>1, <1>2 DEF Splits, PoolSplit
<1>5. PageSplit'
  BY <1>1, <1>2 DEF Splits, PageSplit, InFlight, Queued, InHand
<1> QED
  BY <1>3, <1>4, <1>5 DEF Splits

LEMMA WorkerFailsSplits ==
  ASSUME TypeOK, Splits, NEW w \in Workers, WorkerFails(w)
  PROVE  Splits'
<1> USE DEF runVars, prodVars, poolVars, curVars, resVars, histVars
<1>1. /\ w \in live /\ hand[w] # 0
      /\ hand' = [hand EXCEPT ![w] = 0] /\ live' = live \ {w}
      /\ UNCHANGED <<phase, result, todo, col, token, page, prodErr, jobs,
                     skipped, start, acked>>
  BY DEF WorkerFails
<1>2. Copying /\ Copying'
  BY <1>1 DEF Splits, PoolSplit, Copying
<1>3. CollectionSplit' /\ NilMeansHandled'
  BY <1>1, <1>2, KeepCollections DEF Splits
<1>4. workerErrs' # 0
  BY CapacityType DEF WorkerFails, TypeOK
<1>5. InFlight' \subseteq InFlight
  BY <1>1, HandUpdate DEF InFlight, Queued
<1>6. PoolSplit'
  <2>1. \A x \in Workers : hand'[x] # 0 => x \in live'
    BY <1>1, HandUpdate DEF Splits, PoolSplit
  <2> QED
    BY <2>1, <1>2, <1>4 DEF PoolSplit
<1>7. PageSplit'
  BY <1>1, <1>2, <1>4, <1>5 DEF Splits, PageSplit
<1> QED
  BY <1>3, <1>6, <1>7 DEF Splits

LEMMA WorkerWritesSplits ==
  ASSUME TypeOK, Splits, NEW w \in Workers, NEW f \in {"written", "failed"},
         WorkerWrites(w, f)
  PROVE  Splits'
<1> USE DEF runVars, prodVars, poolVars, curVars, resVars, histVars
<1>1. /\ w \in live /\ hand[w] # 0
      /\ hand' = [hand EXCEPT ![w] = 0]
      /\ acked' = [acked EXCEPT ![col] = @ \union {hand[w]}]
      /\ UNCHANGED <<phase, result, todo, col, token, page, prodErr, jobs, live,
                     workerErrs, skipped, start>>
  BY DEF WorkerWrites
<1>2. Copying /\ Copying'
  BY <1>1 DEF Splits, PoolSplit, Copying
<1>3. /\ result = "none" /\ col \in resolveCollections \ (todo \union skipped)
      /\ todo \subseteq resolveCollections /\ todo \intersect skipped = {}
      /\ \A c \in todo \union skipped : acked[c] = {}
      /\ \A c \in resolveCollections \ (todo \union skipped \union {col}) : Handled(c)
      /\ phase \in {"search", "send", "wait"}
  BY <1>2 DEF Splits, CollectionSplit, Copying
<1>4. /\ acked'[col] = acked[col] \union {hand[w]}
      /\ \A c \in Cols : c # col => acked'[c] = acked[c]
  BY <1>1, <1>3, ResolveType DEF TypeOK
<1>5. CollectionSplit'
  <2>1. \A c \in todo \union skipped : acked'[c] = {}
    <3>1. skipped \subseteq Cols /\ todo \subseteq Cols
      BY DEF TypeOK
    <3> QED
      BY <3>1, <1>3, <1>4
  <2>2. \A c \in resolveCollections \ (todo \union skipped \union {col}) : Handled(c)'
    BY <1>1, <1>3, <1>4, ResolveType DEF Handled
  <2> QED
    BY <2>1, <2>2, <1>1, <1>3 DEF CollectionSplit, Copying
<1>6. NilMeansHandled'
  BY <1>1, <1>3 DEF NilMeansHandled, Ended
<1>7. InFlight' \subseteq InFlight /\ InFlight \subseteq InFlight' \union {hand[w]}
  BY <1>1, HandUpdate DEF InFlight, Queued
<1>8. PoolSplit'
  <2>1. \A x \in Workers : hand'[x] # 0 => x \in live
    BY <1>1, HandUpdate DEF Splits, PoolSplit
  <2> QED
    BY <2>1, <1>1, <1>2 DEF Splits, PoolSplit
<1>9. PageSplit'
  BY <1>1, <1>2, <1>4, <1>7 DEF Splits, PageSplit
<1> QED
  BY <1>5, <1>6, <1>8, <1>9 DEF Splits

----------------------------------------------------------------------------
LEMMA NextSplits == TypeOK /\ Splits /\ [Next]_vars => Splits'
<1> SUFFICES ASSUME TypeOK, Splits, [Next]_vars PROVE Splits'
  OBVIOUS
<1>1. CASE Start
  BY <1>1, StartSplits
<1>2. CASE Producer
  BY <1>2, ResolveSplits, SkipSplits, BeginSplits, ReturnSplits, DoneSplits,
     ToVerifySplits, ProducerClosesSplits, ProducerReadsSplits,
     ProducerSendsSplits DEF Producer
<1>3. CASE \E w \in Workers : Worker(w)
  BY <1>3, WorkerTakesSplits, WorkerEndsSplits, WorkerWritesSplits,
     WorkerFailsSplits DEF Worker
<1>4. CASE Interrupt
  BY <1>4, InterruptSplits
<1>5. CASE Kill
  BY <1>5, ReturnSplits
<1>6. CASE UNCHANGED vars
  BY <1>6 DEF vars, runVars, prodVars, poolVars, curVars, resVars,
     histVars, Splits, CollectionSplit, PoolSplit, PageSplit, NilMeansHandled,
     Copying, Handled, InFlight, Queued, InHand, Ended, Copied
<1> QED
  BY <1>1, <1>2, <1>3, <1>4, <1>5, <1>6 DEF Next

(* The inductive invariant holds throughout: types, and where every        *)
(* collection and page of a run is.                                        *)
THEOREM InductiveInvariant == Spec => []IInv
<1>1. Init => IInv
  BY InitTypeOK, InitSplits DEF IInv, Splits
<1>2. IInv /\ [Next]_vars => IInv'
  BY NextTypeOK, NextSplits DEF IInv, Splits
<1> QED
  BY <1>1, <1>2, PTL DEF Spec

(* A Run that returns nil has had every page after its starting cursor     *)
(* accepted by a bulk call: no hard error is swallowed and no page is left *)
(* behind, for any number of workers, collections and pages.               *)
THEOREM NilIsHonest == Spec => []NilMeansHandled
<1>1. IInv => NilMeansHandled
  BY DEF IInv
<1> QED
  BY <1>1, InductiveInvariant, PTL

----------------------------------------------------------------------------
(* Run implements CopyContract.                                            *)

LEMMA ContractInit == Init => Contract!Init
  BY DEF Init, Contract!Init, stageBar, Zero

(* A return ends the contract's run, successfully only with IInv's word    *)
(* that everything was accepted.                                           *)
LEMMA ContractReturn ==
  ASSUME TypeOK, phase # "down", phase' = "down", result' \in Results \ {"none"},
         NilMeansHandled', UNCHANGED <<start, skipped, acked>>
  PROVE  Contract!Succeed \/ Contract!Fail
<1>1. stageBar = "running"
  BY DEF stageBar
<1>2. CASE Ended'
  <2>1. stageBar' = "succeeded"
    BY <1>2 DEF stageBar, Ended
  <2>2. ASSUME NEW c \in resolveCollections \ skipped,
               NEW p \in start[c] + 1 .. NPages[c]
        PROVE  p \in acked[c]
    <3>1. c \in Cols /\ start[c] \in Nat /\ NPages[c] \in Nat
      BY <2>2, ResolveType, ColsAssumption DEF TypeOK
    <3>2. p \in PageSet(c) /\ p > start[c]
      BY <3>1 DEF PageSet
    <3> QED
      BY <3>2, <1>2 DEF NilMeansHandled, Copied
  <2>3. Contract!Complete
    BY <2>2 DEF Contract!Complete
  <2> QED
    BY <1>1, <2>1, <2>3 DEF Contract!Succeed
<1>3. CASE ~Ended'
  <2>1. stageBar' = "failed"
    BY <1>3 DEF stageBar, Ended, Results
  <2> QED
    BY <1>1, <2>1 DEF Contract!Fail
<1> QED
  BY <1>2, <1>3

(* Steps the contract does not see.                                        *)
LEMMA ContractStutter ==
  ASSUME phase # "down", phase' # "down", UNCHANGED <<start, skipped, acked>>
  PROVE  UNCHANGED Contract!contractVars
  BY DEF Contract!contractVars, stageBar

LEMMA ContractStep ==
  ASSUME IInv, IInv', [Next]_vars
  PROVE  [Contract!Next]_Contract!contractVars
<1> USE DEF runVars, prodVars, poolVars, curVars, resVars, histVars
<1>1. CASE Start
  <2>1. stageBar # "running" /\ stageBar' = "running"
    BY <1>1 DEF Start, stageBar, Ended
  <2>2. Contract!Begin
    BY <1>1, <2>1 DEF Start, Contract!Begin, Zero
  <2> QED
    BY <2>2 DEF Contract!Next
<1>2. CASE ResolveFails \/ CollectionFails \/ Verify \/ VerifyFails \/ Kill
           \/ (AllCollectionsDone /\ ~SampleVerify)
  <2>1. phase # "down" /\ phase' = "down" /\ UNCHANGED <<start, skipped, acked>>
    BY <1>2 DEF ResolveFails, CollectionFails, Verify, VerifyFails, Kill,
       AllCollectionsDone, Return
  <2>2. result' \in Results \ {"none"}
    BY <1>2 DEF ResolveFails, CollectionFails, Verify, VerifyFails, Kill,
       AllCollectionsDone, Return, Results
  <2> QED
    BY <2>1, <2>2, ContractReturn DEF IInv, Contract!Next
<1>3. CASE Resolve \/ CollectionDone \/ (AllCollectionsDone /\ SampleVerify)
           \/ ProducerFails \/ ProducerExhausted \/ ProducerReads
           \/ ProducerSendsLast \/ ProducerSends \/ ProducerAborts \/ Interrupt
  <2>1. phase # "down" /\ phase' # "down" /\ UNCHANGED <<start, skipped, acked>>
    BY <1>3 DEF Resolve, CollectionDone, AllCollectionsDone, ProducerFails,
       ProducerExhausted, ProducerReads, ProducerSendsLast, ProducerSends,
       ProducerAborts, CloseJobs, Interrupt
  <2> QED
    BY <2>1, ContractStutter
<1>4. ASSUME NEW c \in Cols, SkipCollection(c)
      PROVE  Contract!Next
  <2>1. /\ phase # "down" /\ phase' = phase /\ c \in todo
        /\ skipped' = skipped \union {c} /\ UNCHANGED <<start, acked>>
    BY <1>4 DEF SkipCollection
  <2>2. c \in resolveCollections /\ acked[c] = {}
    BY <2>1 DEF IInv, CollectionSplit
  <2>3. Contract!GiveUp(c)
    BY <2>1, <2>2 DEF Contract!GiveUp, stageBar
  <2> QED
    BY <2>3 DEF Contract!Next
<1>5. ASSUME NEW c \in Cols, BeginCollection(c)
      PROVE  Contract!Next
  <2>1. /\ phase # "down" /\ phase' # "down" /\ c \in todo
        /\ start' = [start EXCEPT ![c] = cursors[c]]
        /\ UNCHANGED <<skipped, acked>>
    BY <1>5 DEF BeginCollection
  <2>2. c \in resolveCollections \ skipped /\ acked[c] = {}
    BY <2>1 DEF IInv, CollectionSplit
  <2>3. start'[c] \in Nat /\ start' = [start EXCEPT ![c] = start'[c]]
    BY <2>1 DEF IInv, TypeOK
  <2>4. Contract!PickUp(c)
    BY <2>1, <2>2, <2>3 DEF Contract!PickUp, stageBar
  <2> QED
    BY <2>4 DEF Contract!Next
<1>6. ASSUME NEW w \in Workers, WorkerTakes(w) \/ WorkerEnds(w) \/ WorkerFails(w)
      PROVE  UNCHANGED Contract!contractVars
  <2>1. w \in live /\ phase' = phase /\ UNCHANGED <<start, skipped, acked>>
    BY <1>6 DEF WorkerTakes, WorkerEnds, WorkerFails
  <2>2. phase # "down"
    BY <2>1 DEF IInv, PoolSplit, Copying
  <2> QED
    BY <2>1, <2>2, ContractStutter
<1>7. ASSUME NEW w \in Workers, NEW f \in {"written", "failed"}, WorkerWrites(w, f)
      PROVE  Contract!Next
  <2>1. /\ w \in live /\ hand[w] # 0 /\ phase' = phase
        /\ acked' = [acked EXCEPT ![col] = @ \union {hand[w]}]
        /\ UNCHANGED <<start, skipped>>
    BY <1>7 DEF WorkerWrites
  <2>2. Copying /\ phase # "down"
    BY <2>1 DEF IInv, PoolSplit, Copying
  <2>3. col \in resolveCollections \ skipped /\ col \in Cols
    BY <2>2, ResolveType DEF IInv, CollectionSplit
  <2>4. hand[w] \in start[col] + 1 .. NPages[col]
    <3>1. hand \in [Workers -> Nat] /\ w \in Workers
      BY DEF IInv, TypeOK
    <3>2. hand[w] \in InFlight
      BY <3>1, <2>1 DEF InFlight, InHand, Range
    <3> QED
      BY <3>2, <2>2 DEF IInv, PageSplit
  <2>5. Contract!Accept(col)
    BY <2>1, <2>2, <2>3, <2>4 DEF Contract!Accept, stageBar
  <2> QED
    BY <2>3, <2>5 DEF Contract!Next
<1>8. CASE UNCHANGED vars
  BY <1>8 DEF vars, Contract!contractVars, stageBar, Ended
<1> QED
  BY <1>1, <1>2, <1>3, <1>4, <1>5, <1>6, <1>7, <1>8 DEF Next, Producer, Worker

(* One run of the command keeps the contract, across interrupts, kills,    *)
(* failing calls and restarts.                                             *)
THEOREM RunKeepsContract == Spec => KeepsContract
<1>1. IInv /\ IInv' /\ [Next]_vars => [Contract!Next]_Contract!contractVars
  BY ContractStep
<1> QED
  BY ContractInit, <1>1, InductiveInvariant, PTL DEF Spec, KeepsContract, Contract!Spec
=============================================================================
