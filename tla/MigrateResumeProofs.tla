------------------------ MODULE MigrateResumeProofs ------------------------
(***************************************************************************)
(* More theorems about Migrate, on top of the inductive invariant IInv:    *)
(* what the cursors and the sidecar may lose over any number of runs, what *)
(* the summary of a run counts, and what sample-verify notices.            *)
(***************************************************************************)
EXTENDS MigrateProofs

Running == phase \notin {"down", "resolve"}

(* No cursor is past the end of its collection.                            *)
CursorRange ==
  \A c \in Cols : cursors[c] <= NPages[c] /\ sidecar[c] <= NPages[c] /\ start[c] <= NPages[c]

(* The producer's token is the cursor of the collection it reads.          *)
CursorOfCopy == Copying => cursors[col] = token

(* A cursor falls behind the saved one only once its collection is copied. *)
CursorSplit ==
  Resume /\ Running =>
    \A c \in Cols : cursors[c] < sidecar[c] => c \notin todo \union {col} /\ Handled(c)

CursorInv == CursorRange /\ CursorOfCopy /\ CursorSplit

----------------------------------------------------------------------------
(* Cursors and sidecar                                                     *)

(* The numbers of a collection.                                            *)
LEMMA ColTypes ==
  /\ 0 \notin Cols
  /\ \A c \in Cols : NPages[c] \in Nat
  /\ TypeOK => \A c \in Cols : /\ cursors[c] \in Nat /\ sidecar[c] \in Nat
                               /\ start[c] \in Nat
<1>1. 0 \notin Cols /\ \A c \in Cols : NPages[c] \in Nat
  BY ColsAssumption DEF Cols
<1>2. TypeOK => \A c \in Cols : /\ cursors[c] \in Nat /\ sidecar[c] \in Nat
                                /\ start[c] \in Nat
  BY DEF TypeOK
<1> QED
  BY <1>1, <1>2

(* Saving leaves the old file or writes the whole new map.                 *)
LEMMA SaveCursors ==
  ASSUME NEW cs, saveCursors(cs)
  PROVE  (Resume /\ sidecar' = cs) \/ sidecar' = sidecar
  BY DEF saveCursors

(* The initial states.                                                     *)
LEMMA InitCursorInv == Init => CursorInv
  BY ColTypes DEF Init, CursorInv, CursorRange, CursorOfCopy, CursorSplit, Zero,
     Copying, Running

LEMMA StartCursorInv ==
  ASSUME TypeOK, CursorInv, Start
  PROVE  CursorInv'
<1>1. cursors' = Zero /\ start' = Zero /\ sidecar' = sidecar /\ phase' = "resolve"
  BY DEF Start
<1>2. CursorRange'
  BY <1>1, ColTypes DEF CursorInv, CursorRange, Zero
<1> QED
  BY <1>1, <1>2 DEF CursorInv, CursorOfCopy, CursorSplit, Copying, Running

(* The process ends, with or without a save.                               *)
LEMMA DownCursorInv ==
  ASSUME CursorInv, phase' = "down", UNCHANGED <<cursors, start>>,
         sidecar' = sidecar \/ sidecar' = cursors
  PROVE  CursorInv'
  BY DEF CursorInv, CursorRange, CursorOfCopy, CursorSplit, Copying, Running

LEMMA ResolveCursorInv ==
  ASSUME TypeOK, CursorInv, Resolve
  PROVE  CursorInv'
<1>1. /\ phase' = "next" /\ cursors' = loadCursors
      /\ sidecar' = sidecar /\ start' = start
  BY DEF Resolve, histVars
<1>2. CursorRange'
  BY <1>1, ColTypes DEF CursorInv, CursorRange, loadCursors, Zero
<1>3. Resume => \A c \in Cols : ~(cursors'[c] < sidecar'[c])
  BY <1>1, ColTypes DEF loadCursors
<1> QED
  BY <1>1, <1>2, <1>3 DEF CursorInv, CursorOfCopy, CursorSplit, Copying

(* Steps of a running command that leave the cursors alone.                *)
LEMMA StillCursorInv ==
  ASSUME CursorInv, Running, Copying' => Copying, todo' \subseteq todo,
         UNCHANGED <<cursors, sidecar, start, col, token>>,
         \A c \in Cols : acked[c] \subseteq acked'[c]
  PROVE  CursorInv'
<1>1. \A c \in Cols : Handled(c) => Handled(c)'
  BY DEF Handled
<1> QED
  BY <1>1 DEF CursorInv, CursorRange, CursorOfCopy, CursorSplit

LEMMA BeginCursorInv ==
  ASSUME TypeOK, CursorInv, NEW c \in Cols, BeginCollection(c)
  PROVE  CursorInv'
<1> USE DEF runVars, prodVars, poolVars, curVars, resVars, histVars
<1>1. /\ phase = "next" /\ phase' = "search" /\ c \in todo /\ todo' = todo \ {c}
      /\ col' = c /\ token' = cursors[c] /\ start' = [start EXCEPT ![c] = cursors[c]]
      /\ UNCHANGED <<cursors, sidecar, acked>>
  BY DEF BeginCollection
<1>2. /\ start'[c] = cursors[c]
      /\ \A d \in Cols : d # c => start'[d] = start[d]
  BY <1>1 DEF TypeOK
<1>3. CursorRange'
  BY <1>1, <1>2 DEF CursorInv, CursorRange
<1>4. CursorOfCopy'
  BY <1>1 DEF CursorOfCopy
<1>5. CursorSplit'
  <2> SUFFICES ASSUME Resume, NEW d \in Cols, cursors'[d] < sidecar'[d]
               PROVE  d \notin todo' \union {col'} /\ Handled(d)'
    BY DEF CursorSplit
  <2>1. d \notin todo /\ Handled(d)
    BY <1>1 DEF CursorInv, CursorSplit, Running
  <2> QED
    BY <2>1, <1>1, <1>2 DEF Handled
<1> QED
  BY <1>3, <1>4, <1>5 DEF CursorInv

(* The cursor moves past the page just sent, never back.                   *)
LEMMA SendsCursor ==
  ASSUME TypeOK, Splits, CursorInv, ProducerSends
  PROVE  /\ Running /\ col \in Cols /\ page = token + 1 /\ page <= NPages[col]
         /\ token' = page /\ cursors[col] = token /\ token \in Nat
         /\ cursors' = [cursors EXCEPT ![col] = page]
         /\ (Resume /\ sidecar' = cursors') \/ sidecar' = sidecar
<1>1. Copying /\ phase = "send"
  BY DEF ProducerSends, Copying
<1>2. /\ col \in Cols /\ NPages[col] \in Nat /\ token \in Nat /\ page \in Nat
      /\ page = token + 1 /\ page <= NPages[col]
  BY <1>1, CopyingTypes DEF Splits, PageSplit
<1>3. token' = page /\ cursors' = [cursors EXCEPT ![col] = page]
  BY <1>2 DEF ProducerSends, NextToken
<1>4. (Resume /\ sidecar' = cursors') \/ sidecar' = sidecar
  BY DEF ProducerSends, saveCursors
<1> QED
  BY <1>1, <1>2, <1>3, <1>4 DEF CursorInv, CursorOfCopy, Running

LEMMA SendsCursorInv ==
  ASSUME TypeOK, Splits, CursorInv, ProducerSends
  PROVE  CursorInv'
<1> USE DEF runVars, prodVars, poolVars, curVars, resVars, histVars
<1>1. /\ Running /\ col \in Cols /\ page = token + 1 /\ page <= NPages[col]
      /\ token' = page /\ cursors[col] = token /\ token \in Nat
      /\ cursors' = [cursors EXCEPT ![col] = page]
      /\ (Resume /\ sidecar' = cursors') \/ sidecar' = sidecar
  BY SendsCursor
<1>2. phase' = "search" /\ UNCHANGED <<todo, col, start, acked>>
  BY DEF ProducerSends
<1>3. /\ cursors'[col] = page
      /\ \A d \in Cols : d # col => cursors'[d] = cursors[d]
  BY <1>1 DEF TypeOK
<1>4. CursorRange'
  BY <1>1, <1>2, <1>3 DEF CursorInv, CursorRange
<1>5. CursorOfCopy'
  BY <1>1, <1>2, <1>3 DEF CursorOfCopy
<1>6. CursorSplit'
  <2> SUFFICES ASSUME Resume, NEW d \in Cols, cursors'[d] < sidecar'[d]
               PROVE  d \notin todo' \union {col'} /\ Handled(d)'
    BY DEF CursorSplit
  <2>1. sidecar' = sidecar
    BY <1>1, <1>3, ColTypes DEF TypeOK
  <2>2. cursors[d] < sidecar[d]
    BY <2>1, <1>1, <1>3, ColTypes
  <2> QED
    BY <2>2, <1>1, <1>2 DEF CursorInv, CursorSplit, Handled
<1> QED
  BY <1>4, <1>5, <1>6 DEF CursorInv

LEMMA DoneCursorInv ==
  ASSUME TypeOK, Splits, CursorInv, CollectionDone
  PROVE  CursorInv'
<1> USE DEF runVars, prodVars, poolVars, curVars, resVars, histVars
<1>1. /\ phase = "wait" /\ live = {} /\ ~prodErr /\ workerErrs = 0
      /\ phase' = "next" /\ col' = 0 /\ cursors' = [cursors EXCEPT ![col] = 0]
      /\ UNCHANGED <<todo, start, acked>>
  BY DEF CollectionDone
<1>2. (Resume /\ sidecar' = cursors') \/ sidecar' = sidecar
  BY DEF CollectionDone, saveCursors
<1>3. col \in Cols /\ col \notin todo
  BY <1>1, ResolveType DEF Splits, CollectionSplit, Copying
<1>4. Handled(col)
  BY <1>1, <1>3, AllHandled DEF Splits
<1>5. /\ cursors'[col] = 0
      /\ \A d \in Cols : d # col => cursors'[d] = cursors[d]
      /\ \A d \in Cols : cursors'[d] \in Nat
  BY <1>1, <1>3 DEF TypeOK
<1>6. CursorRange'
  <2>1. \A d \in Cols : cursors'[d] <= NPages[d]
    BY <1>5, ColTypes DEF CursorInv, CursorRange
  <2> QED
    BY <2>1, <1>1, <1>2 DEF CursorInv, CursorRange
<1>7. CursorOfCopy'
  BY <1>1 DEF CursorOfCopy, Copying
<1>8. CursorSplit'
  <2> SUFFICES ASSUME Resume, NEW d \in Cols, cursors'[d] < sidecar'[d]
               PROVE  d \notin todo' \union {col'} /\ Handled(d)'
    BY DEF CursorSplit
  <2>1. sidecar' = sidecar
    BY <1>2, <1>5
  <2>2. d \notin todo /\ Handled(d)
    <3>1. CASE d = col
      BY <3>1, <1>3, <1>4
    <3>2. CASE d # col
      BY <3>2, <2>1, <1>1, <1>5 DEF CursorInv, CursorSplit, Running
    <3> QED
      BY <3>1, <3>2
  <2> QED
    BY <2>2, <1>1, ColTypes DEF Handled
<1> QED
  BY <1>6, <1>7, <1>8 DEF CursorInv

LEMMA WorkerCursorInv ==
  ASSUME TypeOK, Splits, CursorInv, NEW w \in Workers, Worker(w)
  PROVE  CursorInv'
<1> USE DEF runVars, prodVars, poolVars, curVars, resVars, histVars
<1>1. w \in live /\ UNCHANGED <<phase, todo, cursors, sidecar, start, col, token>>
  BY DEF Worker, WorkerTakes, WorkerEnds, WorkerWrites, WorkerFails
<1>2. Running
  BY <1>1 DEF Splits, PoolSplit, Copying, Running
<1>3. \A c \in Cols : acked[c] \subseteq acked'[c]
  <2>1. CASE \E f \in {"written", "failed"} : WorkerWrites(w, f)
    BY <2>1 DEF WorkerWrites, TypeOK
  <2>2. CASE WorkerTakes(w) \/ WorkerEnds(w) \/ WorkerFails(w)
    BY <2>2 DEF WorkerTakes, WorkerEnds, WorkerFails
  <2> QED
    BY <2>1, <2>2 DEF Worker
<1> QED
  BY <1>1, <1>2, <1>3, StillCursorInv DEF Copying

LEMMA ProducerCursorInv ==
  ASSUME TypeOK, Splits, CursorInv, Producer
  PROVE  CursorInv'
<1> USE DEF runVars, prodVars, poolVars, curVars, resVars, histVars
<1>1. CASE ResolveFails
  BY <1>1, DownCursorInv DEF ResolveFails
<1>2. CASE CollectionFails \/ Verify \/ VerifyFails
           \/ (AllCollectionsDone /\ ~SampleVerify)
  BY <1>2, DownCursorInv DEF CollectionFails, Verify, VerifyFails,
     AllCollectionsDone, Return, saveCursors
<1>3. ASSUME NEW c \in Cols, SkipCollection(c) PROVE CursorInv'
  BY <1>3, StillCursorInv DEF SkipCollection, Copying, Running
<1>4. CASE ProducerFails \/ ProducerExhausted \/ ProducerReads
           \/ ProducerSendsLast \/ ProducerAborts
           \/ (AllCollectionsDone /\ SampleVerify)
  <2>1. /\ Running /\ (Copying' => Copying)
        /\ UNCHANGED <<todo, cursors, sidecar, start, col, token, acked>>
    BY <1>4 DEF ProducerFails, ProducerExhausted, ProducerReads,
       ProducerSendsLast, ProducerAborts, CloseJobs, AllCollectionsDone,
       Copying, Running
  <2> QED
    BY <2>1, StillCursorInv
<1> QED
  BY <1>1, <1>2, <1>3, <1>4, ResolveCursorInv, BeginCursorInv, SendsCursorInv,
     DoneCursorInv DEF Producer

(* Every step keeps the cursors as CursorInv says.                         *)
LEMMA NextCursorInv == TypeOK /\ Splits /\ CursorInv /\ [Next]_vars => CursorInv'
<1> USE DEF runVars, prodVars, poolVars, curVars, resVars, histVars
<1> SUFFICES ASSUME TypeOK, Splits, CursorInv, [Next]_vars PROVE CursorInv'
  OBVIOUS
<1>1. CASE Start
  BY <1>1, StartCursorInv
<1>2. CASE Producer
  BY <1>2, ProducerCursorInv
<1>3. CASE \E w \in Workers : Worker(w)
  BY <1>3, WorkerCursorInv
<1>4. CASE Kill
  BY <1>4, DownCursorInv DEF Kill
<1>5. CASE Interrupt \/ UNCHANGED vars
  BY <1>5 DEF Interrupt, vars, CursorInv, CursorRange, CursorOfCopy, CursorSplit,
     Copying, Running, Handled
<1> QED
  BY <1>1, <1>2, <1>3, <1>4, <1>5 DEF Next

(* CursorInv holds throughout.                                             *)
LEMMA CursorInvariance == Spec => [](IInv /\ CursorInv)
<1>1. IInv /\ CursorInv /\ [Next]_vars => CursorInv'
  BY NextCursorInv DEF IInv, Splits
<1> QED
  BY <1>1, InitCursorInv, InductiveInvariant, PTL DEF Spec

(* A saved cursor goes back only when everything after the cursor that the *)
(* run had started from was accepted: the file is written at the end of    *)
(* the run, after a collection and after a page.                           *)
LEMMA CursorKeptStep ==
  ASSUME TypeOK, Splits, CursorInv, [Next]_vars,
         NEW c \in Cols, sidecar'[c] < sidecar[c]
  PROVE  Handled(c)
<1> USE DEF runVars, prodVars, poolVars, curVars, resVars, histVars
<1>1. sidecar' # sidecar
  BY ColTypes
<1>2. ASSUME sidecar' = cursors, Resume, Running
      PROVE  Handled(c)
  BY <1>2 DEF CursorInv, CursorSplit
<1>3. CASE CollectionFails \/ Verify \/ VerifyFails \/ AllCollectionsDone
  BY <1>1, <1>2, <1>3 DEF CollectionFails, Verify, VerifyFails,
     AllCollectionsDone, Return, saveCursors, Running
<1>4. CASE CollectionDone
  <2>1. /\ phase = "wait" /\ live = {} /\ ~prodErr /\ workerErrs = 0
        /\ cursors' = [cursors EXCEPT ![col] = 0]
        /\ Resume /\ sidecar' = cursors'
    BY <1>1, <1>4 DEF CollectionDone, saveCursors
  <2>2. col \in Cols
    BY <2>1, ResolveType DEF Splits, CollectionSplit, Copying
  <2>3. CASE c = col
    BY <2>1, <2>2, <2>3, AllHandled DEF Splits
  <2>4. CASE c # col
    <3>1. sidecar'[c] = cursors[c]
      BY <2>1, <2>2, <2>4 DEF TypeOK
    <3> QED
      BY <3>1, <2>1 DEF CursorInv, CursorSplit, Running
  <2> QED
    BY <2>3, <2>4
<1>5. CASE ProducerSends
  <2>1. /\ Running /\ col \in Cols /\ page = token + 1 /\ page <= NPages[col]
        /\ token' = page /\ cursors[col] = token /\ token \in Nat
        /\ cursors' = [cursors EXCEPT ![col] = page]
        /\ Resume /\ sidecar' = cursors'
    BY <1>1, <1>5, SendsCursor
  <2>2. cursors[c] < sidecar[c]
    <3>1. cursors[c] <= cursors'[c] /\ cursors'[c] \in Nat
      BY <2>1, ColTypes DEF TypeOK
    <3> QED
      BY <3>1, <2>1, ColTypes
  <2> QED
    BY <2>1, <2>2 DEF CursorInv, CursorSplit
<1>6. CASE Start \/ ResolveFails \/ Resolve
           \/ (\E d \in Cols : SkipCollection(d) \/ BeginCollection(d))
           \/ ProducerFails \/ ProducerExhausted \/ ProducerReads
           \/ ProducerSendsLast \/ ProducerAborts
           \/ Interrupt \/ Kill \/ UNCHANGED vars
  BY <1>1, <1>6 DEF Start, ResolveFails, Resolve, SkipCollection, BeginCollection,
     ProducerFails, ProducerExhausted, ProducerReads, ProducerSendsLast,
     ProducerAborts, Interrupt, Kill, vars
<1>7. CASE \E w \in Workers : Worker(w)
  BY <1>1, <1>7 DEF Worker, WorkerTakes, WorkerEnds, WorkerWrites, WorkerFails
<1> QED
  BY <1>3, <1>4, <1>5, <1>6, <1>7 DEF Next, Producer

(* The saved cursor of a collection is dropped only by a Run whose bulk    *)
(* calls accepted everything after the cursor it had resumed from, however *)
(* many runs failed, were interrupted or were killed before.               *)
THEOREM CursorIsKept == Spec => CursorKept
<1>1. IInv /\ CursorInv /\ [Next]_vars =>
        [\A c \in Cols :
           sidecar[c] > 0 /\ sidecar'[c] < sidecar[c] =>
             \A p \in PageSet(c) : p > start[c] => p \in acked[c]]_vars
  BY CursorKeptStep DEF IInv, Splits, Handled
<1> QED
  BY <1>1, CursorInvariance, PTL DEF Spec, CursorKept
----------------------------------------------------------------------------
(* Sample-verify                                                           *)

(* Only collections that were asked for are skipped.                       *)
SkipInv == skipped \subseteq resolveCollections /\ SkipNoticed

(* Every step keeps SkipInv.                                               *)
LEMMA NextSkipInv ==
  ASSUME TypeOK, Splits, SkipInv, [Next]_vars
  PROVE  SkipInv'
<1> USE DEF runVars, prodVars, poolVars, curVars, resVars, histVars
<1>1. CASE Start
  BY <1>1 DEF Start, SkipInv, SkipNoticed
<1>2. CASE Verify
  <2>1. /\ phase = "verify" /\ skipped' = skipped /\ tried' = tried
        /\ \E mismatches \in SUBSET resolveCollections :
             /\ \A c \in resolveCollections :
                  NPages[c] > 0 /\ 1 \notin tried[c] => c \in mismatches
             /\ result' = IF mismatches = {} THEN "nil" ELSE "mismatch"
    BY <1>2 DEF Verify, Return
  <2>2. result' = "nil" =>
          \A c \in resolveCollections : NPages[c] > 0 => 1 \in tried[c]
    BY <2>1
  <2> QED
    BY <2>1, <2>2 DEF SkipInv, SkipNoticed
<1>3. ASSUME NEW c \in Cols, SkipCollection(c) PROVE SkipInv'
  <2>1. /\ c \in todo /\ skipped' = skipped \union {c}
        /\ phase = "next" /\ result' = result
    BY <1>3 DEF SkipCollection
  <2>2. c \in resolveCollections /\ result' = "none"
    BY <2>1 DEF Splits, CollectionSplit
  <2> QED
    BY <2>1, <2>2 DEF SkipInv, SkipNoticed
<1>4. CASE \/ ResolveFails \/ Resolve \/ (\E c \in Cols : BeginCollection(c))
           \/ ProducerFails \/ ProducerExhausted \/ ProducerReads
           \/ ProducerSendsLast \/ ProducerSends \/ ProducerAborts
           \/ CollectionFails \/ CollectionDone \/ VerifyFails
           \/ AllCollectionsDone \/ Interrupt \/ Kill
  <2>1. phase # "down" /\ skipped' = skipped
    BY <1>4 DEF ResolveFails, Resolve, BeginCollection, ProducerFails,
       ProducerExhausted, ProducerReads, ProducerSendsLast, ProducerSends,
       ProducerAborts, CollectionFails, CollectionDone, VerifyFails,
       AllCollectionsDone, Interrupt, Kill
  <2>2. result = "none"
    BY <2>1 DEF Splits, CollectionSplit
  <2>3. result' # "nil" \/ ~SampleVerify
    BY <1>4, <2>2 DEF ResolveFails, Resolve, BeginCollection, ProducerFails,
       ProducerExhausted, ProducerReads, ProducerSendsLast, ProducerSends,
       ProducerAborts, CollectionFails, CollectionDone, VerifyFails,
       AllCollectionsDone, Interrupt, Kill, Return
  <2> QED
    BY <2>1, <2>3 DEF SkipInv, SkipNoticed
<1>5. ASSUME NEW w \in Workers, Worker(w) PROVE SkipInv'
  <2>1. w \in live /\ UNCHANGED <<skipped, result, phase>>
    BY <1>5 DEF Worker, WorkerTakes, WorkerEnds, WorkerWrites, WorkerFails
  <2>2. result' = "none"
    BY <2>1 DEF Splits, PoolSplit, CollectionSplit, Copying
  <2> QED
    BY <2>1, <2>2 DEF SkipInv, SkipNoticed
<1>6. CASE UNCHANGED vars
  BY <1>6 DEF vars, SkipInv, SkipNoticed
<1> QED
  BY <1>1, <1>2, <1>3, <1>4, <1>5, <1>6 DEF Next, Producer

(* With sample-verify on, the command does not exit successfully after     *)
(* skipping a collection none of whose first items was ever sent.          *)
THEOREM SkipIsNoticed == Spec => []SkipNoticed
<1>1. Init => SkipInv
  BY DEF Init, SkipInv, SkipNoticed
<1>2. IInv /\ SkipInv /\ [Next]_vars => SkipInv'
  BY NextSkipInv DEF IInv, Splits
<1>3. SkipInv => SkipNoticed
  BY DEF SkipInv
<1> QED
  BY <1>1, <1>2, <1>3, InductiveInvariant, PTL DEF Spec
----------------------------------------------------------------------------
(* The loss window.  Of the pages behind the token, those this run did not *)
(* have accepted are on the channel, in a hand, or were lost, each with    *)
(* the worker that held it.                                                *)

Unacked(accepted, n) == {p \in 1..n : p \notin accepted}
Window(r) == 2 * Capacity * r
Lost == {p \in start[col] + 1 .. token : p \notin everAcked[col] \union InFlight}

LossSplit ==
  /\ phase # "down" => runs >= 1
  /\ phase = "resolve" =>
       \A c \in Cols : Cardinality(Unacked(everAcked[c], sidecar[c])) <= Window(runs - 1)
  /\ Running =>
       \A c \in Cols \ {col} :
         Cardinality(Unacked(everAcked[c], cursors[c])) <= Window(runs - 1)
  /\ Copying => /\ Cardinality(Unacked(everAcked[col], start[col])) <= Window(runs - 1)
                /\ Cardinality(Lost) + Cardinality(live) <= Capacity

LossInv == LossSplit /\ LossWindow

(* The pages that were not accepted are finitely many, and fewer if more   *)
(* were.                                                                   *)
LEMMA UnackedSize ==
  ASSUME NEW A, NEW B, A \subseteq B, NEW n \in Nat
  PROVE  /\ IsFiniteSet(Unacked(A, n)) /\ Cardinality(Unacked(A, n)) \in Nat
         /\ Cardinality(Unacked(B, n)) \in Nat
         /\ Cardinality(Unacked(B, n)) <= Cardinality(Unacked(A, n))
         /\ Cardinality(Unacked(A, 0)) = 0
<1>1. IsFiniteSet(1..n)
  BY FS_Interval
<1>2. Unacked(A, n) \subseteq 1..n /\ Unacked(B, n) \subseteq Unacked(A, n)
      /\ Unacked(A, 0) = {}
  BY DEF Unacked
<1>3. IsFiniteSet(Unacked(A, n)) /\ Cardinality(Unacked(A, n)) \in Nat
  BY <1>1, <1>2, FS_Subset, FS_CardinalityType
<1>4. IsFiniteSet(Unacked(B, n)) /\ Cardinality(Unacked(B, n)) <= Cardinality(Unacked(A, n))
  BY <1>2, <1>3, FS_Subset
<1> QED
  BY <1>2, <1>3, <1>4, FS_EmptySet, FS_CardinalityType

(* The window grows by what one run can lose.                              *)
LEMMA WindowGrows ==
  ASSUME NEW r \in Nat
  PROVE  Window(r) \in Nat /\ Window(r + 1) = Window(r) + 2 * Capacity /\ Window(0) = 0
  BY CapacityType DEF Window

(* The pages up to t: those up to s, and, after s, the lost ones and those *)
(* in flight.                                                              *)
LEMMA BehindToken ==
  ASSUME NEW A, NEW s \in Nat, NEW t \in Nat, NEW F, IsFiniteSet(F),
         NEW lost, lost = {p \in s + 1 .. t : p \notin A \union F}
  PROVE  /\ IsFiniteSet(lost) /\ Cardinality(lost) \in Nat
         /\ Cardinality(Unacked(A, t))
              <= Cardinality(Unacked(A, s)) + Cardinality(lost) + Cardinality(F)
<1> DEFINE U == Unacked(A, s)
<1>1. IsFiniteSet(lost) /\ Cardinality(lost) \in Nat
  <2>1. IsFiniteSet(s + 1 .. t)
    BY FS_Interval
  <2> QED
    BY <2>1, FS_Subset, FS_CardinalityType
<1>2. IsFiniteSet(U) /\ Cardinality(U) \in Nat
  BY UnackedSize
<1>3. Cardinality(F) \in Nat
  BY FS_CardinalityType
<1>4. /\ IsFiniteSet(U \union lost) /\ Cardinality(U \union lost) \in Nat
      /\ Cardinality(U \union lost) <= Cardinality(U) + Cardinality(lost)
  <2>1. IsFiniteSet(U \intersect lost) /\ Cardinality(U \intersect lost) \in Nat
    BY <1>2, FS_Intersection, FS_CardinalityType
  <2>2. /\ IsFiniteSet(U \union lost)
        /\ Cardinality(U \union lost)
             = Cardinality(U) + Cardinality(lost) - Cardinality(U \intersect lost)
    BY <1>1, <1>2, FS_Union
  <2> QED
    BY <1>1, <1>2, <2>1, <2>2, FS_CardinalityType
<1>5. /\ IsFiniteSet((U \union lost) \union F)
      /\ Cardinality((U \union lost) \union F)
           <= Cardinality(U \union lost) + Cardinality(F)
  <2> DEFINE V == U \union lost
  <2>1. IsFiniteSet(V \intersect F) /\ Cardinality(V \intersect F) \in Nat
    BY <1>4, FS_Intersection, FS_CardinalityType
  <2>2. /\ IsFiniteSet(V \union F)
        /\ Cardinality(V \union F)
             = Cardinality(V) + Cardinality(F) - Cardinality(V \intersect F)
    BY <1>4, FS_Union
  <2> QED
    BY <1>3, <1>4, <2>1, <2>2
<1>6. Unacked(A, t) \subseteq (U \union lost) \union F
  BY DEF Unacked
<1>7. Cardinality(Unacked(A, t)) <= Cardinality((U \union lost) \union F)
      /\ Cardinality(Unacked(A, t)) \in Nat
      /\ Cardinality((U \union lost) \union F) \in Nat
  BY <1>5, <1>6, FS_Subset, FS_CardinalityType
<1> QED
  BY <1>1, <1>2, <1>3, <1>4, <1>5, <1>7

(* At most a full channel and one page for each live worker is in flight.  *)
LEMMA InFlightSize ==
  ASSUME NEW q \in Seq(Nat), NEW h \in [Workers -> Nat], NEW L \in SUBSET Workers,
         \A w \in Workers : h[w] # 0 => w \in L
  PROVE  LET F == Range(q) \union (Range(h) \ {0}) IN
         /\ IsFiniteSet(F) /\ Cardinality(F) \in Nat
         /\ Cardinality(F) <= Len(q) + Cardinality(L)
<1> DEFINE Q == Range(q)
           H == Range(h) \ {0}
           D == {w \in Workers : h[w] # 0}
<1>1. /\ IsFiniteSet(Q) /\ Cardinality(Q) \in Nat /\ Cardinality(Q) <= Len(q)
      /\ Len(q) \in Nat
  BY RangeCardinality, LenProperties
<1>2. /\ IsFiniteSet(L) /\ Cardinality(L) \in Nat
      /\ IsFiniteSet(D) /\ Cardinality(D) \in Nat /\ Cardinality(D) <= Cardinality(L)
  <2>1. IsFiniteSet(L) /\ Cardinality(L) \in Nat
    BY WorkersAssumption, FS_Subset, FS_CardinalityType
  <2>2. D \subseteq L
    OBVIOUS
  <2> QED
    BY <2>1, <2>2, FS_Subset, FS_CardinalityType
<1>3. IsFiniteSet(H) /\ Cardinality(H) \in Nat /\ Cardinality(H) <= Cardinality(D)
  <2> DEFINE g == [w \in D |-> h[w]]
  <2>1. g \in Surjection(D, H)
    <3>1. g \in [D -> H]
      BY DEF Range
    <3>2. \A t \in H : \E w \in D : g[w] = t
      BY DEF Range
    <3> QED
      BY <3>1, <3>2 DEF Surjection
  <2> HIDE DEF g
  <2> QED
    BY <1>2, <2>1, FS_Surjection, FS_CardinalityType
<1>4. IsFiniteSet(Q \intersect H) /\ Cardinality(Q \intersect H) \in Nat
  BY <1>1, FS_Intersection, FS_CardinalityType
<1>5. /\ IsFiniteSet(Q \union H)
      /\ Cardinality(Q \union H)
           = Cardinality(Q) + Cardinality(H) - Cardinality(Q \intersect H)
  BY <1>1, <1>3, FS_Union
<1> QED
  BY <1>1, <1>2, <1>3, <1>4, <1>5, FS_CardinalityType

(* What the cursor of the collection being copied has behind it.           *)
LEMMA CursorWindow ==
  ASSUME NEW A, NEW s \in Nat, NEW t \in Nat, NEW r \in Nat,
         NEW q \in Seq(Nat), Len(q) <= Capacity,
         NEW h \in [Workers -> Nat], NEW L \in SUBSET Workers,
         \A w \in Workers : h[w] # 0 => w \in L,
         Cardinality(Unacked(A, s)) <= Window(r),
         Cardinality({p \in s + 1 .. t : p \notin A \union (Range(q) \union (Range(h) \ {0}))})
           + Cardinality(L) <= Capacity
  PROVE  Cardinality(Unacked(A, t)) <= Window(r + 1)
<1> DEFINE F == Range(q) \union (Range(h) \ {0})
           lost == {p \in s + 1 .. t : p \notin A \union F}
<1>1. /\ IsFiniteSet(F) /\ Cardinality(F) \in Nat
      /\ Cardinality(F) <= Len(q) + Cardinality(L)
  BY InFlightSize
<1>2. Cardinality(lost) + Cardinality(L) <= Capacity
  OBVIOUS
<1>. lost = {p \in s + 1 .. t : p \notin A \union F}
  OBVIOUS
<1> HIDE DEF F, lost
<1>3. /\ Cardinality(lost) \in Nat
      /\ Cardinality(Unacked(A, t))
           <= Cardinality(Unacked(A, s)) + Cardinality(lost) + Cardinality(F)
  BY <1>1, BehindToken
<1>4. /\ Cardinality(Unacked(A, s)) \in Nat /\ Cardinality(Unacked(A, t)) \in Nat
  BY UnackedSize
<1>5. Len(q) \in Nat /\ Cardinality(L) \in Nat
  BY LenProperties, WorkersAssumption, FS_Subset, FS_CardinalityType
<1>6. Window(r) \in Nat /\ Window(r + 1) = Window(r) + 2 * Capacity /\ Capacity \in Nat
  BY WindowGrows, CapacityType
<1>7. Cardinality(Unacked(A, t)) <= Window(r) + Cardinality(lost) + Cardinality(F)
  BY <1>1, <1>3, <1>4, <1>6, SMTT(30)
<1>8. Cardinality(lost) + Cardinality(F) <= 2 * Capacity
  BY <1>1, <1>2, <1>3, <1>5, <1>6, SMTT(30)
<1> QED
  BY <1>1, <1>3, <1>4, <1>6, <1>7, <1>8, SMTT(30)

(* Accepting more pages makes no window larger.                            *)
LEMMA AckedShrinks ==
  ASSUME TypeOK, TypeOK', NEW c \in Cols, everAcked[c] \subseteq everAcked'[c],
         NEW n \in Nat, NEW m, Cardinality(Unacked(everAcked[c], n)) <= Window(m),
         m \in Nat
  PROVE  Cardinality(Unacked(everAcked'[c], n)) <= Window(m)
<1>1. /\ Cardinality(Unacked(everAcked[c], n)) \in Nat
      /\ Cardinality(Unacked(everAcked'[c], n)) \in Nat
      /\ Cardinality(Unacked(everAcked'[c], n)) <= Cardinality(Unacked(everAcked[c], n))
  BY UnackedSize
<1> QED
  BY <1>1, WindowGrows

(* The initial states.                                                     *)
LEMMA InitLossInv == Init => LossInv
<1> SUFFICES ASSUME Init PROVE LossInv
  OBVIOUS
<1>1. \A c \in Cols : Cardinality(Unacked(everAcked[c], sidecar[c])) = 0
  BY UnackedSize DEF Init, Zero
<1>2. runs = 0 /\ Window(0) = 0
  BY WindowGrows DEF Init
<1>3. LossWindow
  BY <1>1, <1>2 DEF LossWindow, Unacked, Window
<1> QED
  BY <1>3 DEF Init, LossInv, LossSplit, Running, Copying

(* A run begins with the window that the earlier ones left.                *)
LEMMA StartLossInv ==
  ASSUME TypeOK, LossInv, Start
  PROVE  LossInv'
<1>1. /\ phase' = "resolve" /\ runs' = runs + 1 /\ runs \in Nat
      /\ UNCHANGED <<sidecar, everAcked>>
  BY OptionsAssumption DEF Start, TypeOK
<1>2. \A c \in Cols : Cardinality(Unacked(everAcked[c], sidecar[c])) <= Window(runs)
  BY DEF LossInv, LossWindow, Unacked, Window
<1>3. runs' - 1 = runs /\ Window(runs) \in Nat /\ Window(runs') \in Nat
      /\ Window(runs) <= Window(runs')
  BY <1>1, WindowGrows, CapacityType
<1>4. \A c \in Cols : Cardinality(Unacked(everAcked[c], sidecar[c])) \in Nat
  BY UnackedSize, ColTypes
<1>5. \A c \in Cols : Cardinality(Unacked(everAcked'[c], sidecar'[c])) <= Window(runs')
  BY <1>1, <1>2, <1>3, <1>4
<1>6. LossWindow'
  BY <1>5 DEF LossWindow, Unacked, Window
<1> QED
  BY <1>1, <1>2, <1>3, <1>6 DEF LossInv, LossSplit, Running, Copying

(* A run behind its start: no window is larger than one run's more.        *)
LEMMA RunsType ==
  ASSUME TypeOK, LossInv, phase # "down"
  PROVE  /\ runs \in Nat /\ runs - 1 \in Nat
         /\ Window(runs - 1) \in Nat /\ Window(runs) \in Nat
         /\ Window(runs) = Window(runs - 1) + 2 * Capacity
         /\ Window(runs - 1) <= Window(runs)
<1>1. runs \in Nat /\ runs >= 1
  BY OptionsAssumption DEF TypeOK, LossInv, LossSplit
<1>2. runs - 1 \in Nat /\ (runs - 1) + 1 = runs
  BY <1>1
<1> QED
  BY <1>1, <1>2, WindowGrows, CapacityType

(* Every cursor of a running command is within the run's window.           *)
LEMMA CursorsInWindow ==
  ASSUME TypeOK, Splits, CursorInv, LossInv, Running, NEW c \in Cols
  PROVE  Cardinality(Unacked(everAcked[c], cursors[c])) <= Window(runs)
<1>1. /\ runs - 1 \in Nat /\ Window(runs - 1) \in Nat /\ Window(runs) \in Nat
      /\ Window(runs - 1) <= Window(runs) /\ (runs - 1) + 1 = runs
  BY RunsType DEF Running
<1>2. Cardinality(Unacked(everAcked[c], cursors[c])) \in Nat
  BY UnackedSize, ColTypes
<1>3. CASE c # col
  <2>1. Cardinality(Unacked(everAcked[c], cursors[c])) <= Window(runs - 1)
    BY <1>3 DEF LossInv, LossSplit
  <2> QED
    BY <1>1, <1>2, <2>1
<1>4. CASE c = col
  <2>1. Copying
    BY <1>4, ColTypes DEF Splits, CollectionSplit, Running, Copying, TypeOK, Phases
  <2>2. cursors[c] = token
    BY <1>4, <2>1 DEF CursorInv, CursorOfCopy
  <2>3. /\ start[col] \in Nat /\ token \in Nat /\ jobs \in Seq(Nat)
        /\ Len(jobs) <= Capacity /\ hand \in [Workers -> Nat] /\ live \in SUBSET Workers
    BY <1>4, ColTypes DEF TypeOK
  <2>4. \A w \in Workers : hand[w] # 0 => w \in live
    BY DEF Splits, PoolSplit
  <2>5. /\ Cardinality(Unacked(everAcked[col], start[col])) <= Window(runs - 1)
        /\ Cardinality(Lost) + Cardinality(live) <= Capacity
    BY <2>1 DEF LossInv, LossSplit
  <2>6. Cardinality(Unacked(everAcked[col], token)) <= Window((runs - 1) + 1)
    BY <1>1, <2>3, <2>4, <2>5, CursorWindow DEF Lost, InFlight, Queued, InHand
  <2> QED
    BY <1>1, <1>4, <2>2, <2>6
<1> QED
  BY <1>3, <1>4

LEMMA ResolveLossInv ==
  ASSUME TypeOK, Splits, LossInv, Resolve
  PROVE  LossInv'
<1>1. /\ phase = "resolve" /\ phase' = "next" /\ cursors' = loadCursors
      /\ UNCHANGED <<runs, col, sidecar, everAcked>>
  BY DEF Resolve, prodVars, histVars
<1>2. Window(runs - 1) \in Nat
  BY <1>1, RunsType
<1>3. ASSUME NEW c \in Cols
      PROVE  Cardinality(Unacked(everAcked[c], cursors'[c])) <= Window(runs - 1)
  <2>1. Cardinality(Unacked(everAcked[c], sidecar[c])) <= Window(runs - 1)
    BY <1>1 DEF LossInv, LossSplit
  <2>2. Cardinality(Unacked(everAcked[c], 0)) = 0
    BY UnackedSize
  <2> QED
    BY <1>1, <1>2, <2>1, <2>2 DEF loadCursors, Zero
<1>4. LossWindow'
  BY <1>1 DEF LossInv, LossWindow
<1> QED
  BY <1>1, <1>3, <1>4 DEF LossInv, LossSplit, Running, Copying

(* The process ends, with or without a last save.                          *)
LEMMA DownLossInv ==
  ASSUME TypeOK, Splits, CursorInv, LossInv, phase' = "down",
         UNCHANGED <<runs, everAcked>>,
         sidecar' = sidecar \/ (Running /\ sidecar' = cursors)
  PROVE  LossInv'
<1>1. CASE sidecar' = sidecar
  BY <1>1 DEF LossInv, LossSplit, LossWindow, Running, Copying
<1>2. CASE Running /\ sidecar' = cursors
  <2>1. \A c \in Cols :
          Cardinality(Unacked(everAcked'[c], sidecar'[c])) <= Window(runs')
    BY <1>2, CursorsInWindow
  <2>2. LossWindow'
    BY <2>1 DEF LossWindow, Unacked, Window
  <2> QED
    BY <2>2 DEF LossInv, LossSplit, Running, Copying
<1> QED
  BY <1>1, <1>2

(* A step between two collections: nothing is in flight.                   *)
LEMMA SkipLossInv ==
  ASSUME LossInv, phase = "next", phase' \in {"next", "verify"},
         UNCHANGED <<runs, col, cursors, sidecar, everAcked>>
  PROVE  LossInv'
  BY DEF LossInv, LossSplit, LossWindow, Running, Copying

LEMMA BeginLossInv ==
  ASSUME TypeOK, Splits, LossInv, NEW c \in Cols, BeginCollection(c)
  PROVE  LossInv'
<1>1. /\ phase = "next" /\ phase' = "search" /\ col' = c /\ token' = cursors[c]
      /\ live' = Workers /\ start' = [start EXCEPT ![c] = cursors[c]]
      /\ UNCHANGED <<runs, cursors, sidecar, everAcked>>
  BY DEF BeginCollection, curVars
<1>2. col = 0 /\ c # col /\ start'[c] = cursors[c] /\ cursors[c] \in Nat
  BY <1>1, ColTypes DEF Splits, CollectionSplit, TypeOK
<1>3. Lost' = {}
  BY <1>1, <1>2 DEF Lost
<1>4. Cardinality(Lost') + Cardinality(live') <= Capacity
  BY <1>1, <1>3, FS_EmptySet, CapacityType DEF Capacity
<1>5. \A d \in Cols : Cardinality(Unacked(everAcked[d], cursors[d])) <= Window(runs - 1)
  BY <1>1, <1>2, ColTypes DEF LossInv, LossSplit, Running
<1>6. LossWindow'
  BY <1>1 DEF LossInv, LossWindow
<1>7. runs >= 1
  BY <1>1 DEF LossInv, LossSplit
<1> QED
  BY <1>1, <1>2, <1>4, <1>5, <1>6, <1>7 DEF LossInv, LossSplit, Running, Copying

LEMMA DoneLossInv ==
  ASSUME TypeOK, Splits, CursorInv, LossInv, CollectionDone
  PROVE  LossInv'
<1>1. /\ phase = "wait" /\ phase' = "next" /\ col' = 0
      /\ cursors' = [cursors EXCEPT ![col] = 0]
      /\ UNCHANGED <<runs, everAcked>>
      /\ sidecar' = sidecar \/ sidecar' = cursors'
  BY DEF CollectionDone, saveCursors, histVars
<1>2. col \in Cols
  BY <1>1, ResolveType DEF Splits, CollectionSplit, Copying
<1>3. /\ runs >= 1 /\ Window(runs - 1) \in Nat /\ Window(runs) \in Nat
      /\ Window(runs - 1) <= Window(runs)
  BY <1>1, RunsType DEF LossInv, LossSplit
<1>4. ASSUME NEW c \in Cols
      PROVE  Cardinality(Unacked(everAcked[c], cursors'[c])) <= Window(runs - 1)
  <2>1. CASE c = col
    <3>1. cursors'[c] = 0 /\ Cardinality(Unacked(everAcked[c], 0)) = 0
      BY <2>1, <1>1, <1>2, UnackedSize DEF TypeOK
    <3> QED
      BY <3>1, <1>3
  <2>2. CASE c # col
    BY <2>2, <1>1, <1>2 DEF LossInv, LossSplit, Running, TypeOK
  <2> QED
    BY <2>1, <2>2
<1>5. LossWindow'
  <2>1. CASE sidecar' = sidecar
    BY <2>1, <1>1 DEF LossInv, LossWindow
  <2>2. CASE sidecar' = cursors'
    <3>1. ASSUME NEW c \in Cols
          PROVE  Cardinality(Unacked(everAcked'[c], sidecar'[c])) <= Window(runs')
      <4>1. cursors'[c] \in Nat
        BY <1>1, <1>2 DEF TypeOK
      <4>2. Cardinality(Unacked(everAcked[c], cursors'[c])) \in Nat
        BY <4>1, UnackedSize
      <4> QED
        BY <4>2, <2>2, <1>1, <1>3, <1>4
    <3> QED
      BY <3>1 DEF LossWindow, Unacked, Window
  <2> QED
    BY <2>1, <2>2, <1>1
<1> QED
  BY <1>1, <1>3, <1>4, <1>5 DEF LossInv, LossSplit, Running, Copying
(* A step inside a collection that leaves the sidecar or saves the cursors *)
(* keeps the windows if it loses a page only together with a worker.       *)
LEMMA CopyLossInv ==
  ASSUME TypeOK, TypeOK', Splits', CursorInv', LossInv, Copying, Copying', col \in Cols,
         UNCHANGED <<runs, col, start>>,
         \A d \in Cols : d # col => cursors'[d] = cursors[d],
         sidecar' = sidecar \/ sidecar' = cursors',
         \A d \in Cols : everAcked[d] \subseteq everAcked'[d],
         Cardinality(Lost') + Cardinality(live') <= Capacity
  PROVE  LossInv'
<1>1. /\ phase # "down" /\ phase' # "down" /\ phase' # "resolve" /\ Running /\ Running'
  BY DEF Copying, Running
<1>2. /\ runs >= 1 /\ runs - 1 \in Nat /\ runs \in Nat
  BY <1>1, RunsType DEF LossInv, LossSplit
<1>3. ASSUME NEW d \in Cols \ {col}
      PROVE  Cardinality(Unacked(everAcked'[d], cursors'[d])) <= Window(runs - 1)
  <2>1. Cardinality(Unacked(everAcked[d], cursors[d])) <= Window(runs - 1)
    BY <1>1 DEF LossInv, LossSplit
  <2>2. cursors[d] \in Nat /\ cursors'[d] = cursors[d]
    BY ColTypes
  <2> QED
    BY <2>1, <2>2, <1>2, AckedShrinks
<1>4. Cardinality(Unacked(everAcked'[col], start[col])) <= Window(runs - 1)
  <2>1. Cardinality(Unacked(everAcked[col], start[col])) <= Window(runs - 1)
    BY DEF LossInv, LossSplit
  <2>2. start[col] \in Nat
    BY ColTypes
  <2> QED
    BY <2>1, <2>2, <1>2, AckedShrinks
<1>5. LossSplit'
  BY <1>1, <1>2, <1>3, <1>4 DEF LossSplit
<1>6. CASE sidecar' = sidecar
  <2>1. ASSUME NEW c \in Cols
        PROVE  Cardinality(Unacked(everAcked'[c], sidecar'[c])) <= Window(runs')
    <3>1. Cardinality(Unacked(everAcked[c], sidecar[c])) <= Window(runs)
      BY DEF LossInv, LossWindow, Unacked, Window
    <3>2. sidecar[c] \in Nat
      BY ColTypes
    <3> QED
      BY <3>1, <3>2, <1>2, <1>6, AckedShrinks
  <2>2. LossWindow'
    BY <2>1 DEF LossWindow, Unacked, Window
  <2> QED
    BY <2>2, <1>5 DEF LossInv
<1>7. CASE sidecar' = cursors'
  <2>1. ASSUME NEW c \in Cols
        PROVE  Cardinality(Unacked(everAcked'[c], cursors'[c])) <= Window(runs)
    <3>1. CASE c = col
      <4>1. cursors'[c] = token'
        BY <3>1 DEF CursorInv, CursorOfCopy
      <4>2. /\ start[col] \in Nat /\ token' \in Nat /\ jobs' \in Seq(Nat)
            /\ Len(jobs') <= Capacity /\ hand' \in [Workers -> Nat]
            /\ live' \in SUBSET Workers
        BY ColTypes DEF TypeOK
      <4>3. \A w \in Workers : hand'[w] # 0 => w \in live'
        BY DEF Splits, PoolSplit
      <4>4. Cardinality(Unacked(everAcked'[col], token')) <= Window((runs - 1) + 1)
        <5> DEFINE F == Range(jobs') \union (Range(hand') \ {0})
        <5>1. Lost' = {p \in start[col] + 1 .. token' : p \notin everAcked'[col] \union F}
          BY DEF Lost, InFlight, Queued, InHand
        <5>2. Cardinality({p \in start[col] + 1 .. token' : p \notin everAcked'[col] \union F})
                + Cardinality(live') <= Capacity
          BY <5>1
        <5> QED
          BY <1>2, <1>4, <4>2, <4>3, <5>2, CursorWindow
      <4>5. (runs - 1) + 1 = runs
        BY <1>2
      <4> QED
        BY <3>1, <4>1, <4>4, <4>5
    <3>2. CASE c # col
      <4>1. Cardinality(Unacked(everAcked'[c], cursors'[c])) <= Window(runs - 1)
        BY <3>2, <1>3
      <4>2. /\ Window(runs - 1) \in Nat /\ Window(runs) \in Nat
            /\ Window(runs - 1) <= Window(runs)
        BY <1>1, RunsType
      <4>3. Cardinality(Unacked(everAcked'[c], cursors'[c])) \in Nat
        <5>1. cursors'[c] \in Nat
          BY DEF TypeOK
        <5> QED
          BY <5>1, UnackedSize
      <4> QED
        BY <4>1, <4>2, <4>3
    <3> QED
      BY <3>1, <3>2
  <2>2. \A c \in Cols :
          Cardinality(Unacked(everAcked'[c], sidecar'[c])) <= Window(runs')
    BY <2>1, <1>7
  <2>3. LossWindow'
    BY <2>2 DEF LossWindow, Unacked, Window
  <2> QED
    BY <2>3, <1>5 DEF LossInv
<1> QED
  BY <1>6, <1>7

(* The sizes of the lost pages and of the pool.                            *)
LEMMA LostType ==
  ASSUME TypeOK, col \in Cols
  PROVE  /\ IsFiniteSet(Lost) /\ Cardinality(Lost) \in Nat
         /\ IsFiniteSet(live) /\ Cardinality(live) \in Nat
<1>1. start[col] + 1 \in Int /\ token \in Int
  BY ColTypes DEF TypeOK
<1>2. IsFiniteSet(start[col] + 1 .. token) /\ Lost \in SUBSET (start[col] + 1 .. token)
  BY <1>1, FS_Interval DEF Lost
<1>3. IsFiniteSet(live)
  BY WorkersAssumption, FS_Subset DEF TypeOK
<1> QED
  BY <1>2, <1>3, FS_Subset, FS_CardinalityType

(* A step on which nothing is lost keeps within the capacity.              *)
LEMMA LostShrinks ==
  ASSUME TypeOK, col \in Cols, LossInv, Copying,
         Lost' \subseteq Lost, live' \subseteq live
  PROVE  Cardinality(Lost') + Cardinality(live') <= Capacity
<1>1. Cardinality(Lost) + Cardinality(live) <= Capacity
  BY DEF LossInv, LossSplit
<1>2. /\ IsFiniteSet(Lost) /\ Cardinality(Lost) \in Nat
      /\ IsFiniteSet(live) /\ Cardinality(live) \in Nat
  BY LostType
<1>3. Cardinality(Lost') <= Cardinality(Lost) /\ Cardinality(live') <= Cardinality(live)
      /\ Cardinality(Lost') \in Nat /\ Cardinality(live') \in Nat
  BY <1>2, FS_Subset, FS_CardinalityType
<1> QED
  BY <1>1, <1>2, <1>3, CapacityType

(* The producer puts the next page on the channel and moves past it.       *)
LEMMA SendsLossInv ==
  ASSUME TypeOK, TypeOK', Splits, Splits', CursorInv, CursorInv', LossInv, ProducerSends
  PROVE  LossInv'
<1> USE DEF runVars, prodVars, poolVars, curVars, resVars, histVars
<1>1. /\ col \in Cols /\ page = token + 1 /\ token' = page /\ token \in Nat
      /\ cursors' = [cursors EXCEPT ![col] = page]
      /\ sidecar' = cursors' \/ sidecar' = sidecar
  BY SendsCursor
<1>2. /\ Copying /\ Copying' /\ jobs' = Append(jobs, page)
      /\ UNCHANGED <<runs, col, start, hand, live, everAcked>>
  BY DEF ProducerSends, Copying
<1>3. \A d \in Cols : d # col => cursors'[d] = cursors[d]
  BY <1>1 DEF TypeOK
<1>4. InFlight' = InFlight \union {page}
  <2>1. jobs \in Seq(Nat) /\ page \in Nat
    BY DEF TypeOK
  <2> QED
    BY <1>2, <2>1, RangeAppend DEF InFlight, Queued, InHand
<1>5. Lost' \subseteq Lost
  BY <1>1, <1>2, <1>4, ColTypes DEF Lost
<1>6. Cardinality(Lost') + Cardinality(live') <= Capacity
  BY <1>1, <1>2, <1>5, LostShrinks
<1> QED
  BY <1>1, <1>2, <1>3, <1>6, CopyLossInv

(* The producer's other steps change nothing that is counted here.         *)
LEMMA ProducerLossInv ==
  ASSUME TypeOK, TypeOK', Splits, Splits', CursorInv', LossInv,
         \/ ProducerFails \/ ProducerExhausted \/ ProducerReads
         \/ ProducerSendsLast \/ ProducerAborts
  PROVE  LossInv'
<1> USE DEF runVars, prodVars, poolVars, curVars, resVars, histVars
<1>1. /\ Copying /\ Copying' /\ jobs' \in {jobs, Append(jobs, page)}
      /\ UNCHANGED <<runs, col, start, token, hand, live, cursors, sidecar, everAcked>>
  BY DEF ProducerFails, ProducerExhausted, ProducerReads, ProducerSendsLast,
     ProducerAborts, CloseJobs, Copying
<1>2. col \in Cols
  BY <1>1, CopyingTypes DEF Splits
<1>3. InFlight \subseteq InFlight'
  <2>1. jobs \in Seq(Nat) /\ page \in Nat
    BY DEF TypeOK
  <2>2. Range(Append(jobs, page)) = Range(jobs) \union {page}
    BY <2>1, RangeAppend
  <2> QED
    BY <1>1, <2>2 DEF InFlight, Queued, InHand
<1>4. Lost' \subseteq Lost
  BY <1>1, <1>3 DEF Lost
<1>5. Cardinality(Lost') + Cardinality(live') <= Capacity
  BY <1>1, <1>2, <1>4, LostShrinks
<1> QED
  BY <1>1, <1>2, <1>5, CopyLossInv

(* A worker's step: a page leaves its hand accepted, or lost with it.      *)
LEMMA WorkerLossInv ==
  ASSUME TypeOK, TypeOK', Splits, Splits', CursorInv', LossInv,
         NEW w \in Workers, Worker(w)
  PROVE  LossInv'
<1> USE DEF runVars, prodVars, poolVars, curVars, resVars, histVars
<1>1. /\ w \in live
      /\ UNCHANGED <<phase, runs, col, start, token, cursors, sidecar>>
  BY DEF Worker, WorkerTakes, WorkerEnds, WorkerWrites, WorkerFails
<1>2. Copying /\ Copying'
  BY <1>1 DEF Splits, PoolSplit, Copying
<1>3. col \in Cols /\ start[col] \in Nat /\ token \in Nat
  BY <1>2, CopyingTypes DEF Splits
<1>4. \A d \in Cols : everAcked[d] \subseteq everAcked'[d]
  <2>1. CASE \E f \in {"written", "failed"} : WorkerWrites(w, f)
    BY <2>1 DEF WorkerWrites, TypeOK
  <2>2. CASE WorkerTakes(w) \/ WorkerEnds(w) \/ WorkerFails(w)
    BY <2>2 DEF WorkerTakes, WorkerEnds, WorkerFails
  <2> QED
    BY <2>1, <2>2 DEF Worker
<1>5. CASE WorkerTakes(w)
  <2>1. /\ hand[w] = 0 /\ jobs # <<>> /\ hand' = [hand EXCEPT ![w] = Head(jobs)]
        /\ jobs' = Tail(jobs) /\ UNCHANGED <<live, everAcked>>
    BY <1>5 DEF WorkerTakes
  <2>2. Head(jobs) \in Nat /\ Queued = {Head(jobs)} \union Queued'
    BY <2>1, RangeTail DEF Queued, TypeOK
  <2>3. InFlight \ {0} \subseteq InFlight'
    <3>1. Head(jobs) # 0 => Head(jobs) \in InHand'
      BY <2>1, <2>2, HandUpdate
    <3>2. InHand \subseteq InHand' \union {0}
      BY <2>1, <2>2, HandUpdate
    <3> QED
      BY <2>2, <3>1, <3>2 DEF InFlight
  <2>4. Lost' \subseteq Lost
    <3>1. ASSUME NEW p \in Lost' PROVE p \in start[col] + 1 .. token
                                      /\ p \notin everAcked[col] /\ p \notin InFlight'
      BY <2>1, <1>1 DEF Lost
    <3>2. \A p \in start[col] + 1 .. token : p # 0
      BY <1>3
    <3>3. ASSUME NEW p \in Lost' PROVE p \notin everAcked[col] \union InFlight
      BY <2>3, <3>1, <3>2, <3>3
    <3> QED
      BY <3>1, <3>3 DEF Lost
  <2>5. Cardinality(Lost') + Cardinality(live') <= Capacity
    BY <2>1, <2>4, <1>2, <1>3, LostShrinks
  <2> QED
    BY <2>5, <1>1, <1>2, <1>3, <1>4, CopyLossInv
<1>6. CASE WorkerEnds(w)
  <2>1. UNCHANGED <<hand, jobs, everAcked>> /\ live' \subseteq live
    BY <1>6 DEF WorkerEnds
  <2>2. Lost' \subseteq Lost
    BY <2>1, <1>1 DEF Lost, InFlight, Queued, InHand
  <2>3. Cardinality(Lost') + Cardinality(live') <= Capacity
    BY <2>1, <2>2, <1>2, <1>3, LostShrinks
  <2> QED
    BY <2>3, <1>1, <1>2, <1>3, <1>4, CopyLossInv
<1>7. ASSUME NEW f \in {"written", "failed"}, WorkerWrites(w, f)
      PROVE  LossInv'
  <2>1. /\ hand' = [hand EXCEPT ![w] = 0] /\ UNCHANGED <<jobs, live>>
        /\ everAcked' = [everAcked EXCEPT ![col] = @ \union {hand[w]}]
    BY <1>7 DEF WorkerWrites
  <2>2. everAcked'[col] = everAcked[col] \union {hand[w]}
    BY <2>1, <1>3 DEF TypeOK
  <2>3. InFlight \subseteq InFlight' \union {hand[w]}
    BY <2>1, HandUpdate DEF InFlight, Queued
  <2>4. Lost' \subseteq Lost
    BY <2>2, <2>3, <1>1 DEF Lost
  <2>5. Cardinality(Lost') + Cardinality(live') <= Capacity
    BY <2>1, <2>4, <1>2, <1>3, LostShrinks
  <2> QED
    BY <2>5, <1>1, <1>2, <1>3, <1>4, CopyLossInv
<1>8. CASE WorkerFails(w)
  <2>1. /\ hand' = [hand EXCEPT ![w] = 0] /\ live' = live \ {w}
        /\ UNCHANGED <<jobs, everAcked>>
    BY <1>8 DEF WorkerFails
  <2>2. InFlight \subseteq InFlight' \union {hand[w]}
    BY <2>1, HandUpdate DEF InFlight, Queued
  <2>3. Lost' \subseteq Lost \union {hand[w]}
    BY <2>1, <2>2, <1>1 DEF Lost
  <2>4. /\ IsFiniteSet(Lost) /\ Cardinality(Lost) \in Nat
        /\ IsFiniteSet(live) /\ Cardinality(live) \in Nat
    BY <1>3, LostType
  <2>5. IsFiniteSet(Lost \union {hand[w]})
        /\ Cardinality(Lost \union {hand[w]}) <= Cardinality(Lost) + 1
        /\ Cardinality(Lost \union {hand[w]}) \in Nat
    <3>1. /\ IsFiniteSet(Lost \union {hand[w]})
          /\ Cardinality(Lost \union {hand[w]})
               = IF hand[w] \in Lost THEN Cardinality(Lost) ELSE Cardinality(Lost) + 1
      BY <2>4, FS_AddElement
    <3> QED
      BY <2>4, <3>1
  <2>6. Cardinality(Lost') <= Cardinality(Lost \union {hand[w]})
        /\ Cardinality(Lost') \in Nat
    BY <2>3, <2>5, FS_Subset, FS_CardinalityType
  <2>7. Cardinality(live') = Cardinality(live) - 1 /\ Cardinality(live') \in Nat
    BY <2>1, <2>4, <1>1, FS_RemoveElement, FS_CardinalityType
  <2>8. Cardinality(Lost) + Cardinality(live) <= Capacity
    BY <1>2 DEF LossInv, LossSplit
  <2>9. Cardinality(Lost') + Cardinality(live') <= Capacity
    BY <2>4, <2>5, <2>6, <2>7, <2>8, CapacityType
  <2> QED
    BY <2>9, <1>1, <1>2, <1>3, <1>4, CopyLossInv
<1> QED
  BY <1>5, <1>6, <1>7, <1>8 DEF Worker
(* Every step keeps LossInv.                                               *)
LEMMA NextLossInv ==
  ASSUME TypeOK, TypeOK', Splits, Splits', CursorInv, CursorInv', LossInv, [Next]_vars
  PROVE  LossInv'
<1> USE DEF runVars, prodVars, poolVars, curVars, resVars, histVars
<1>1. CASE Start
  BY <1>1, StartLossInv
<1>2. CASE ResolveFails \/ Kill
  BY <1>2, DownLossInv DEF ResolveFails, Kill
<1>3. CASE CollectionFails \/ Verify \/ VerifyFails
           \/ (AllCollectionsDone /\ ~SampleVerify)
  <2>1. /\ Running /\ phase' = "down" /\ UNCHANGED <<runs, everAcked>>
        /\ sidecar' = sidecar \/ sidecar' = cursors
    BY <1>3 DEF CollectionFails, Verify, VerifyFails, AllCollectionsDone,
       Return, saveCursors, Running
  <2> QED
    BY <2>1, DownLossInv
<1>4. CASE AllCollectionsDone /\ SampleVerify
  BY <1>4, SkipLossInv DEF AllCollectionsDone
<1>5. ASSUME NEW c \in Cols, SkipCollection(c) PROVE LossInv'
  BY <1>5, SkipLossInv DEF SkipCollection
<1>6. CASE Producer
  BY <1>2, <1>3, <1>4, <1>5, <1>6, ResolveLossInv, BeginLossInv, DoneLossInv,
     SendsLossInv, ProducerLossInv DEF Producer
<1>7. CASE \E w \in Workers : Worker(w)
  BY <1>7, WorkerLossInv
<1>8. CASE Interrupt \/ UNCHANGED vars
  <2>1. UNCHANGED <<phase, runs, col, token, jobs, live, hand, cursors, sidecar,
                    start, everAcked>>
    BY <1>8 DEF Interrupt, vars
  <2> QED
    BY <2>1 DEF LossInv, LossSplit, LossWindow, Running, Copying, Lost, InFlight,
       Queued, InHand
<1> QED
  BY <1>1, <1>2, <1>6, <1>7, <1>8 DEF Next

(* However many runs were interrupted, failed or were killed, the pages    *)
(* behind a saved cursor that no bulk call ever accepted are at most two   *)
(* for each worker and run.                                                *)
THEOREM LossIsBounded == Spec => []LossWindow
<1>1. IInv /\ CursorInv /\ LossInv /\ [Next]_vars /\ IInv' /\ CursorInv'
        => LossInv'
  <2> SUFFICES ASSUME IInv, CursorInv, LossInv, [Next]_vars, IInv', CursorInv'
               PROVE  LossInv'
    OBVIOUS
  <2>1. TypeOK /\ Splits
    BY DEF IInv, Splits
  <2>2. TypeOK' /\ Splits'
    BY DEF IInv, Splits
  <2> QED
    BY <2>1, <2>2, NextLossInv
<1>2. LossInv => LossWindow
  BY DEF LossInv
<1> QED
  BY <1>1, <1>2, InitLossInv, CursorInvariance, PTL DEF Spec
----------------------------------------------------------------------------
(* CountsMatch                                                             *)

(* Between the producer and the summary a page is about to be sent, on the *)
(* channel or in a worker's hand; a worker that fails breaks the balance,  *)
(* and its error ends the run.                                             *)
Hands == {w \in Workers : hand[w] # 0}
About == IF phase = "send" THEN 1 ELSE 0
Underway == Len(jobs) + Cardinality(Hands) + About
Reported(c) == cr[c]["written"] + cr[c]["failed"]
Untouched(c) == \A f \in Counts : cr[c][f] = 0
Tallied(c) == /\ cr[c]["read"] = NPages[c] - start[c]
              /\ cr[c]["read"] = Reported(c)

TodoCount ==
  /\ phase = "resolve" => \A c \in Cols : Untouched(c)
  /\ phase # "down" => \A c \in todo : Untouched(c)

CopyCount ==
  /\ phase \in {"search", "send"} => cr[col]["read"] = (token - start[col]) + About
  /\ phase = "wait" /\ ~prodErr => cr[col]["read"] = NPages[col] - start[col]
  /\ Copying /\ workerErrs = 0 /\ (phase = "wait" => ~prodErr) =>
       cr[col]["read"] = Reported(col) + Underway

DoneCount ==
  Running => \A c \in resolveCollections \ (todo \union skipped \union {col}) : Tallied(c)

CountInv == TodoCount /\ CopyCount /\ DoneCount /\ CountsMatch

(* What one count adds to.                                                 *)
LEMMA CountedOnce ==
  ASSUME TypeOK, NEW c \in Cols, NEW f \in Counts, cr' = Counted(c, f)
  PROVE  /\ cr'[c][f] = cr[c][f] + 1
         /\ \A g \in Counts : g # f => cr'[c][g] = cr[c][g]
         /\ \A d \in Cols : d # c => cr'[d] = cr[d]
<1>1. cr \in [Cols -> [Counts -> Nat]] /\ cr[c] \in [Counts -> Nat]
  BY DEF TypeOK
<1>2. cr' = [cr EXCEPT ![c] = [cr[c] EXCEPT ![f] = cr[c][f] + 1]]
  BY DEF Counted
<1>3. cr'[c] = [cr[c] EXCEPT ![f] = cr[c][f] + 1]
  BY <1>1, <1>2
<1> QED
  BY <1>1, <1>2, <1>3

(* The counts of a collection.                                             *)
LEMMA CountTypes ==
  ASSUME TypeOK, NEW c \in Cols
  PROVE  /\ cr[c]["read"] \in Nat /\ cr[c]["written"] \in Nat
         /\ cr[c]["failed"] \in Nat
         /\ NPages[c] \in Nat /\ start[c] \in Nat
<1>1. cr[c] \in [Counts -> Nat]
  BY DEF TypeOK
<1> QED
  BY <1>1, ColTypes DEF Counts

(* The pages in hand are counted by a number.                              *)
LEMMA HandsType == TypeOK => IsFiniteSet(Hands) /\ Cardinality(Hands) \in Nat
<1>1. Hands \in SUBSET Workers
  BY DEF Hands
<1> QED
  BY <1>1, WorkersAssumption, FS_Subset, FS_CardinalityType

(* A worker takes a page, or puts one down.                                *)
LEMMA HandsChange ==
  ASSUME TypeOK, NEW w \in Workers, NEW p, hand' = [hand EXCEPT ![w] = p]
  PROVE  /\ hand[w] = 0 /\ p # 0 => Cardinality(Hands') = Cardinality(Hands) + 1
         /\ hand[w] # 0 /\ p = 0 => Cardinality(Hands') = Cardinality(Hands) - 1
<1>1. hand'[w] = p /\ \A v \in Workers : v # w => hand'[v] = hand[v]
  BY DEF TypeOK
<1>2. hand[w] = 0 /\ p # 0 => Hands' = Hands \union {w} /\ w \notin Hands
  BY <1>1 DEF Hands
<1>3. hand[w] # 0 /\ p = 0 => Hands' = Hands \ {w} /\ w \in Hands
  BY <1>1 DEF Hands
<1>4. IsFiniteSet(Hands)
  BY HandsType
<1>5. Cardinality(Hands \union {w}) = IF w \in Hands THEN Cardinality(Hands)
                                      ELSE Cardinality(Hands) + 1
  BY <1>4, FS_AddElement
<1>6. Cardinality(Hands \ {w}) = IF w \in Hands THEN Cardinality(Hands) - 1
                                 ELSE Cardinality(Hands)
  BY <1>4, FS_RemoveElement
<1> QED
  BY <1>2, <1>3, <1>5, <1>6

(* The process ends without success.                                       *)
LEMMA DownCountInv ==
  ASSUME phase' = "down", result' \notin {"nil", "mismatch"}
  PROVE  CountInv'
  BY DEF CountInv, TodoCount, CopyCount, DoneCount, CountsMatch, Ended, Copying,
     Running

(* The loop of Run is through.                                             *)
LEMMA EndCountInv ==
  ASSUME CountInv, Running, col = 0, todo = {}, phase' = "down",
         UNCHANGED <<cr, skipped, start>>
  PROVE  CountInv'
<1>1. \A c \in Copied : Tallied(c)
  BY ResolveType, ColTypes DEF CountInv, DoneCount, Copied
<1>2. CountsMatch'
  BY <1>1 DEF CountsMatch, Copied, Tallied, Reported, resolveCollections
<1> QED
  BY <1>2 DEF CountInv, TodoCount, CopyCount, DoneCount, Copying, Running

LEMMA BeginCountInv ==
  ASSUME TypeOK, Splits, CountInv, NEW c \in Cols, BeginCollection(c)
  PROVE  CountInv'
<1> USE DEF runVars, prodVars, poolVars, curVars, resVars, histVars
<1>1. /\ phase = "next" /\ phase' = "search" /\ c \in todo /\ todo' = todo \ {c}
      /\ col' = c /\ token' = cursors[c] /\ start' = [start EXCEPT ![c] = cursors[c]]
      /\ jobs' = <<>> /\ hand' = [w \in Workers |-> 0]
      /\ UNCHANGED <<result, cr, skipped>>
  BY DEF BeginCollection
<1>2. /\ start'[c] = cursors[c] /\ cursors[c] \in Nat
      /\ \A d \in Cols : d # c => start'[d] = start[d]
  BY <1>1 DEF TypeOK
<1>3. col = 0 /\ result = "none"
  BY <1>1 DEF Splits, CollectionSplit
<1>4. Untouched(c)
  BY <1>1 DEF CountInv, TodoCount
<1>5. TodoCount'
  BY <1>1 DEF CountInv, TodoCount, Untouched
<1>6. CopyCount'
  <2>1. Hands' = {} /\ Cardinality({}) = 0 /\ Len(jobs') = 0
    BY <1>1, FS_EmptySet DEF Hands
  <2>2. About' = 0 /\ cr'[c]["read"] = 0 /\ cr'[c]["written"] = 0 /\ cr'[c]["failed"] = 0
    BY <1>1, <1>4 DEF About, Untouched, Counts
  <2>3. token' - start'[c] = 0
    BY <1>1, <1>2
  <2> QED
    BY <2>1, <2>2, <2>3, <1>1 DEF CopyCount, Reported, Underway
<1>7. DoneCount'
  <2> SUFFICES ASSUME NEW d \in resolveCollections \ (todo' \union skipped' \union {col'})
               PROVE  Tallied(d)'
    BY DEF DoneCount, resolveCollections
  <2>1. d \in Cols /\ d # c
    BY <1>1, ResolveType
  <2>2. Tallied(d)
    BY <2>1, <1>1, <1>3, ColTypes DEF CountInv, DoneCount, Running
  <2> QED
    BY <2>1, <2>2, <1>1, <1>2 DEF Tallied, Reported
<1> QED
  BY <1>1, <1>3, <1>5, <1>6, <1>7 DEF CountInv, CountsMatch, Ended

(* A step within a collection leaves the counts of the others alone.       *)
LEMMA CopyCountInv ==
  ASSUME Splits, CountInv, Copying, Copying', col \in Cols,
         UNCHANGED <<result, todo, col, skipped, start>>,
         \A d \in Cols : d # col => cr'[d] = cr[d],
         CopyCount'
  PROVE  CountInv'
<1>1. result = "none" /\ todo \subseteq Cols /\ col \notin todo
  BY ResolveType DEF Splits, CollectionSplit, Copying
<1>2. Running /\ phase # "down" /\ phase' # "resolve"
  BY DEF Copying, Running
<1>3. TodoCount'
  BY <1>1, <1>2 DEF CountInv, TodoCount, Untouched
<1>4. DoneCount'
  <2> SUFFICES ASSUME NEW d \in resolveCollections \ (todo' \union skipped' \union {col'})
               PROVE  Tallied(d)'
    BY DEF DoneCount, resolveCollections
  <2>1. d \in Cols /\ d # col /\ Tallied(d)
    BY <1>2, ResolveType DEF CountInv, DoneCount
  <2> QED
    BY <2>1 DEF Tallied, Reported
<1> QED
  BY <1>1, <1>3, <1>4 DEF CountInv, CountsMatch, Ended

(* The producer reads a page, sends it, stops or fails.                    *)
LEMMA ProducerCountInv ==
  ASSUME TypeOK, Splits, CursorInv, CountInv,
         \/ ProducerFails \/ ProducerExhausted \/ ProducerReads
         \/ ProducerSendsLast \/ ProducerSends \/ ProducerAborts
  PROVE  CountInv'
<1> USE DEF runVars, prodVars, poolVars, curVars, resVars, histVars
<1>1. /\ Copying /\ Copying' /\ phase \in {"search", "send"}
      /\ UNCHANGED <<result, todo, col, skipped, start, hand, workerErrs>>
  BY DEF ProducerFails, ProducerExhausted, ProducerReads, ProducerSendsLast,
     ProducerSends, ProducerAborts, CloseJobs, Copying
<1>2. /\ col \in Cols /\ start[col] \in Nat /\ NPages[col] \in Nat /\ token \in Nat
      /\ page \in Nat /\ jobs \in Seq(Nat) /\ Len(jobs) \in Nat
  BY <1>1, CopyingTypes, LenProperties DEF Splits
<1>3. /\ cr[col]["read"] \in Nat /\ cr[col]["written"] \in Nat
      /\ cr[col]["failed"] \in Nat /\ Reported(col) \in Nat
      /\ Cardinality(Hands) \in Nat /\ Hands' = Hands
  BY <1>1, <1>2, CountTypes, HandsType DEF Hands, Reported
<1>4. /\ token <= NPages[col]
      /\ phase = "send" => page = token + 1 /\ page <= NPages[col]
      /\ cr[col]["read"] = (token - start[col]) + About
      /\ workerErrs = 0 => cr[col]["read"] = Reported(col) + Underway
  BY <1>1, <1>2 DEF CursorInv, CursorRange, CursorOfCopy, Splits, PageSplit,
     CountInv, CopyCount
<1>5. Len(Append(jobs, page)) = Len(jobs) + 1
  BY <1>2, AppendProperties
<1>6. CopyCount' /\ \A d \in Cols : d # col => cr'[d] = cr[d]
  <2>1. CASE ProducerFails \/ ProducerAborts
    <3>1. phase' = "wait" /\ prodErr' /\ cr' = cr
      BY <2>1 DEF ProducerFails, ProducerAborts, CloseJobs
    <3> QED
      BY <3>1 DEF CopyCount
  <2>2. CASE ProducerExhausted
    <3>1. /\ phase = "search" /\ phase' = "wait" /\ token >= NPages[col]
          /\ UNCHANGED <<cr, jobs>>
      BY <2>2 DEF ProducerExhausted, CloseJobs
    <3>2. About = 0 /\ About' = 0 /\ token = NPages[col]
      BY <3>1, <1>2, <1>4 DEF About
    <3>3. Underway' = Underway /\ Reported(col)' = Reported(col)
      BY <3>1, <3>2, <1>1, <1>3 DEF Underway, Reported
    <3> QED
      BY <3>1, <3>2, <3>3, <1>1, <1>2, <1>4 DEF CopyCount
  <2>3. CASE ProducerReads
    <3>1. /\ phase = "search" /\ phase' = "send" /\ cr' = Counted(col, "read")
          /\ UNCHANGED <<jobs, token>>
      BY <2>3 DEF ProducerReads
    <3>2. About = 0 /\ About' = 1
      BY <3>1 DEF About
    <3>3. /\ cr'[col]["read"] = cr[col]["read"] + 1
          /\ cr'[col]["written"] = cr[col]["written"]
          /\ cr'[col]["failed"] = cr[col]["failed"]
          /\ \A d \in Cols : d # col => cr'[d] = cr[d]
      BY <3>1, <1>2, CountedOnce DEF Counts
    <3>4. Underway' = Underway + 1 /\ Underway \in Nat
      BY <3>1, <3>2, <1>2, <1>3 DEF Underway
    <3>5. Reported(col)' = Reported(col)
      BY <3>3, <1>1 DEF Reported
    <3> QED
      BY <3>1, <3>2, <3>3, <3>4, <3>5, <1>1, <1>2, <1>3, <1>4 DEF CopyCount
  <2>4. CASE ProducerSendsLast
    <3>1. /\ phase = "send" /\ phase' = "wait" /\ NextToken(col, page) = 0
          /\ jobs' = Append(jobs, page) /\ UNCHANGED cr
      BY <2>4 DEF ProducerSendsLast, CloseJobs
    <3>2. About = 1 /\ About' = 0 /\ page = NPages[col]
      BY <3>1, <1>2, <1>4 DEF About, NextToken
    <3>3. cr[col]["read"] = NPages[col] - start[col]
      BY <3>1, <3>2, <1>2, <1>4
    <3>4. Underway' = Underway /\ Reported(col)' = Reported(col)
      BY <3>1, <3>2, <1>1, <1>2, <1>3, <1>5 DEF Underway, Reported
    <3> QED
      BY <3>1, <3>2, <3>3, <3>4, <1>1, <1>4 DEF CopyCount
  <2>5. CASE ProducerSends
    <3>1. /\ phase = "send" /\ phase' = "search" /\ token' = page
          /\ jobs' = Append(jobs, page) /\ UNCHANGED cr
      BY <2>5, SendsCursor DEF ProducerSends
    <3>2. About = 1 /\ About' = 0 /\ token' = token + 1
      BY <3>1, <1>4 DEF About
    <3>3. cr[col]["read"] = (token' - start[col]) + 0
      <4>1. cr[col]["read"] = (token - start[col]) + 1
        BY <3>2, <1>4
      <4>2. \A t, s \in Nat : (t - s) + 1 = ((t + 1) - s) + 0
        OBVIOUS
      <4> QED
        BY <3>2, <4>1, <4>2, <1>2
    <3>4. Underway' = Underway /\ Reported(col)' = Reported(col)
      BY <3>1, <3>2, <1>1, <1>2, <1>3, <1>5 DEF Underway, Reported
    <3> QED
      BY <3>1, <3>2, <3>3, <3>4, <1>1, <1>4 DEF CopyCount
  <2> QED
    BY <2>1, <2>2, <2>3, <2>4, <2>5
<1> QED
  BY <1>1, <1>2, <1>6, CopyCountInv

(* A page leaves a worker's hand as written or as failed; a page lost with *)
(* its worker leaves an error behind.                                      *)
LEMMA WorkerCountInv ==
  ASSUME TypeOK, Splits, CountInv, NEW w \in Workers, Worker(w)
  PROVE  CountInv'
<1> USE DEF runVars, prodVars, poolVars, curVars, resVars, histVars
<1>1. /\ w \in live
      /\ UNCHANGED <<phase, result, todo, col, token, prodErr, skipped, start>>
  BY DEF Worker, WorkerTakes, WorkerEnds, WorkerWrites, WorkerFails
<1>2. Copying /\ Copying'
  BY <1>1 DEF Splits, PoolSplit, Copying
<1>3. /\ col \in Cols /\ start[col] \in Nat /\ jobs \in Seq(Nat) /\ Len(jobs) \in Nat
  BY <1>2, CopyingTypes, LenProperties DEF Splits
<1>4. /\ cr[col]["read"] \in Nat /\ cr[col]["written"] \in Nat
      /\ cr[col]["failed"] \in Nat /\ About \in Nat /\ About' = About
      /\ Cardinality(Hands) \in Nat /\ Reported(col) \in Nat /\ Underway \in Nat
  BY <1>1, <1>3, CountTypes, HandsType DEF About, Reported, Underway
<1>5. /\ phase \in {"search", "send"} =>
           cr[col]["read"] = (token - start[col]) + About
      /\ phase = "wait" /\ ~prodErr => cr[col]["read"] = NPages[col] - start[col]
      /\ workerErrs = 0 /\ (phase = "wait" => ~prodErr) =>
           cr[col]["read"] = Reported(col) + Underway
  BY <1>2 DEF CountInv, CopyCount
<1>6. CopyCount' /\ \A d \in Cols : d # col => cr'[d] = cr[d]
  <2>1. CASE WorkerTakes(w)
    <3>1. /\ hand[w] = 0 /\ jobs # <<>> /\ hand' = [hand EXCEPT ![w] = Head(jobs)]
          /\ jobs' = Tail(jobs) /\ UNCHANGED <<cr, workerErrs>>
      BY <2>1 DEF WorkerTakes
    <3>2. Len(jobs') = Len(jobs) - 1 /\ Head(jobs) \in Queued
      BY <3>1, <1>3, RangeTail DEF Queued
    <3>3. Head(jobs) # 0
      BY <3>2, <1>2, <1>3 DEF Splits, PageSplit, InFlight
    <3>4. Cardinality(Hands') = Cardinality(Hands) + 1
      BY <3>1, <3>3, HandsChange
    <3>5. Underway' = Underway /\ Reported(col)' = Reported(col)
      BY <3>1, <3>2, <3>4, <1>1, <1>3, <1>4 DEF Underway, Reported
    <3> QED
      BY <3>1, <3>5, <1>1, <1>4, <1>5 DEF CopyCount
  <2>2. CASE WorkerEnds(w)
    <3>1. UNCHANGED <<jobs, hand, workerErrs, cr>>
      BY <2>2 DEF WorkerEnds
    <3>2. Underway' = Underway /\ Reported(col)' = Reported(col)
      BY <3>1, <1>1, <1>4 DEF Underway, Reported, Hands
    <3> QED
      BY <3>1, <3>2, <1>1, <1>2, <1>4, <1>5 DEF CopyCount
  <2>3. ASSUME NEW f \in {"written", "failed"}, WorkerWrites(w, f)
        PROVE  CopyCount' /\ \A d \in Cols : d # col => cr'[d] = cr[d]
    <3>1. /\ hand[w] # 0 /\ hand' = [hand EXCEPT ![w] = 0]
          /\ cr' = Counted(col, f) /\ UNCHANGED <<jobs, workerErrs>>
      BY <2>3 DEF WorkerWrites
    <3>2. Cardinality(Hands') = Cardinality(Hands) - 1
      BY <3>1, HandsChange
    <3>3. /\ cr'[col]["read"] = cr[col]["read"]
          /\ \A d \in Cols : d # col => cr'[d] = cr[d]
      <4>1. f \in Counts /\ "read" \in Counts /\ f # "read"
        BY <2>3 DEF Counts
      <4> QED
        BY <4>1, <3>1, <1>3, CountedOnce
    <3>4. Reported(col)' = Reported(col) + 1
      <4>1. CASE f = "written"
        <5>1. /\ cr'[col]["written"] = cr[col]["written"] + 1
              /\ cr'[col]["failed"] = cr[col]["failed"]
          BY <4>1, <3>1, <1>3, CountedOnce DEF Counts
        <5> QED
          BY <5>1, <1>1, <1>4 DEF Reported
      <4>2. CASE f = "failed"
        <5>1. /\ cr'[col]["failed"] = cr[col]["failed"] + 1
              /\ cr'[col]["written"] = cr[col]["written"]
          BY <4>2, <3>1, <1>3, CountedOnce DEF Counts
        <5> QED
          BY <5>1, <1>1, <1>4 DEF Reported
      <4> QED
        BY <4>1, <4>2, <2>3
    <3>5. Underway' = Underway - 1
      BY <3>1, <3>2, <1>3, <1>4 DEF Underway
    <3> QED
      BY <3>1, <3>3, <3>4, <3>5, <1>1, <1>4, <1>5 DEF CopyCount
  <2>4. CASE WorkerFails(w)
    <3>1. /\ workerErrs' = IF workerErrs < Capacity THEN workerErrs + 1 ELSE workerErrs
          /\ cr' = cr \/ \E f \in {"written", "failed"} : cr' = Counted(col, f)
      BY <2>4 DEF WorkerFails
    <3>2. workerErrs' # 0
      BY <3>1, CapacityType DEF TypeOK
    <3>3. /\ cr'[col]["read"] = cr[col]["read"]
          /\ \A d \in Cols : d # col => cr'[d] = cr[d]
      BY <3>1, <1>3, CountedOnce DEF Counts
    <3> QED
      BY <3>2, <3>3, <1>1, <1>4, <1>5 DEF CopyCount
  <2> QED
    BY <2>1, <2>2, <2>3, <2>4 DEF Worker
<1> QED
  BY <1>1, <1>2, <1>3, <1>6, CopyCountInv

(* No worker is left, and none reported an error: nothing is in flight.    *)
LEMMA DoneCountInv ==
  ASSUME TypeOK, Splits, CountInv, CollectionDone
  PROVE  CountInv'
<1> USE DEF runVars, prodVars, poolVars, curVars, resVars, histVars
<1>1. /\ phase = "wait" /\ live = {} /\ ~prodErr /\ workerErrs = 0
      /\ phase' = "next" /\ col' = 0
      /\ UNCHANGED <<result, todo, cr, skipped, start>>
  BY DEF CollectionDone
<1>2. Copying /\ Running
  BY <1>1 DEF Copying, Running
<1>3. col \in Cols /\ result = "none"
  BY <1>1, <1>2, CopyingTypes DEF Splits, CollectionSplit
<1>4. jobs = <<>> /\ Hands = {}
  BY <1>1, <1>2, WorkersAssumption DEF Splits, PoolSplit, Hands
<1>5. Len(jobs) = 0 /\ Cardinality(Hands) = 0 /\ About = 0
  BY <1>1, <1>4, FS_EmptySet DEF About
<1>6. Tallied(col)
  BY <1>1, <1>2, <1>3, <1>5, CountTypes DEF CountInv, CopyCount, Tallied, Reported,
     Underway
<1>7. DoneCount'
  BY <1>1, <1>2, <1>6 DEF CountInv, DoneCount, Tallied, Reported, resolveCollections
<1>8. TodoCount' /\ CopyCount' /\ CountsMatch'
  BY <1>1, <1>3 DEF CountInv, TodoCount, CopyCount, CountsMatch, Untouched, Ended,
     Copying
<1> QED
  BY <1>7, <1>8 DEF CountInv

(* Every step keeps CountInv.                                              *)
LEMMA NextCountInv ==
  ASSUME TypeOK, Splits, CursorInv, CountInv, [Next]_vars
  PROVE  CountInv'
<1> USE DEF runVars, prodVars, poolVars, curVars, resVars, histVars
<1>1. CASE Start
  BY <1>1 DEF Start, CountInv, TodoCount, CopyCount, DoneCount, CountsMatch, Ended,
     Untouched, Copying, Running
<1>2. CASE ResolveFails \/ CollectionFails \/ VerifyFails \/ Kill
  BY <1>2, DownCountInv DEF ResolveFails, CollectionFails, VerifyFails, Kill, Return
<1>3. CASE Resolve
  <2>1. /\ phase = "resolve" /\ phase' = "next" /\ todo' = resolveCollections
        /\ UNCHANGED <<result, col, cr, skipped, start>>
    BY <1>3 DEF Resolve
  <2>2. result = "none"
    BY <2>1 DEF Splits, CollectionSplit
  <2> QED
    BY <2>1, <2>2, ResolveType DEF CountInv, TodoCount, CopyCount, DoneCount,
       CountsMatch, Ended, Untouched, Copying, resolveCollections
<1>4. CASE Verify \/ (AllCollectionsDone /\ ~SampleVerify)
  <2>1. /\ Running /\ col = 0 /\ todo = {} /\ phase' = "down"
        /\ UNCHANGED <<cr, skipped, start>>
    BY <1>4 DEF Verify, AllCollectionsDone, Return, Splits, CollectionSplit, Running
  <2> QED
    BY <2>1, EndCountInv
<1>5. CASE AllCollectionsDone /\ SampleVerify
  <2>1. /\ phase = "next" /\ phase' = "verify"
        /\ UNCHANGED <<result, todo, col, cr, skipped, start>>
    BY <1>5 DEF AllCollectionsDone
  <2> QED
    BY <2>1 DEF CountInv, TodoCount, CopyCount, DoneCount, CountsMatch, Copied,
       Ended, Untouched, Tallied, Reported, Copying, Running, resolveCollections
<1>6. ASSUME NEW c \in Cols, SkipCollection(c) PROVE CountInv'
  <2>1. /\ phase = "next" /\ phase' = "next" /\ todo' = todo \ {c} /\ c \in todo
        /\ skipped' = skipped \union {c} /\ UNCHANGED <<result, col, cr, start>>
    BY <1>6 DEF SkipCollection
  <2>2. result = "none"
    BY <2>1 DEF Splits, CollectionSplit
  <2> QED
    BY <2>1, <2>2 DEF CountInv, TodoCount, CopyCount, DoneCount, CountsMatch, Ended,
       Untouched, Tallied, Reported, Copying, Running, resolveCollections
<1>7. CASE Interrupt \/ UNCHANGED vars
  <2>1. UNCHANGED <<phase, result, todo, col, token, prodErr, jobs, hand,
                    workerErrs, cr, skipped, start>>
    BY <1>7 DEF Interrupt, vars
  <2> QED
    BY <2>1 DEF CountInv, TodoCount, CopyCount, DoneCount, CountsMatch, Copied,
       Ended, Untouched, Tallied, Reported, Copying, Running, Hands, About, Underway,
       resolveCollections
<1> QED
  BY <1>1, <1>2, <1>3, <1>4, <1>5, <1>6, <1>7, BeginCountInv, ProducerCountInv,
     WorkerCountInv, DoneCountInv DEF Next, Producer

(* A run that returns nil reports as read exactly the pages after the      *)
(* cursor it started from, each of them once as written or as failed.      *)
THEOREM CountsAreExact == Spec => []CountsMatch
<1>1. Init => CountInv
  BY DEF Init, CountInv, TodoCount, CopyCount, DoneCount, CountsMatch, Ended,
     Copying, Running
<1>2. IInv /\ CursorInv /\ CountInv /\ [Next]_vars => CountInv'
  <2> SUFFICES ASSUME IInv, CursorInv, CountInv, [Next]_vars PROVE CountInv'
    OBVIOUS
  <2>1. TypeOK /\ Splits
    BY DEF IInv, Splits
  <2> QED
    BY <2>1, NextCountInv
<1>3. CountInv => CountsMatch
  BY DEF CountInv
<1> QED
  BY <1>1, <1>2, <1>3, CursorInvariance, PTL DEF Spec
=============================================================================
