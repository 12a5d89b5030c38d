------------------------------ MODULE Migrate ------------------------------
(***************************************************************************)
(* `polystac migrate` (internal/migrate/migrate.go): Run copies every      *)
(* selected collection from a source to a destination repository.  For     *)
(* each collection the goroutine of Run is the producer: it pages through  *)
(* the source in id order and sends every page on the channel jobs;        *)
(* Workers goroutines receive pages and bulk-upsert them.  The token of    *)
(* the next page is the collection's cursor; the cursors are saved now and *)
(* then to a JSON sidecar, from which a later Run resumes.                 *)
(*                                                                         *)
(* Abstractions.  The source does not change while it is copied.  A page   *)
(* is its number 1..NPages[c] in id order; the token returned with page p  *)
(* is p, and the empty token is 0, so that token t asks for page t + 1.    *)
(* Per-item counts are counted in pages.  Which repository plays source or *)
(* destination is left open: Search, UpsertCollection and BulkUpsertItems  *)
(* may succeed or fail at any time.                                        *)
(***************************************************************************)
EXTENDS Naturals, Sequences, FiniteSets, Functions

CONSTANTS
  Workers,        \* the worker goroutines of one collection (opt.Workers)
  NumCols,        \* the source's collections are 1..NumCols, in list order
  NPages,         \* how many pages of BatchSize items each collection has
  TrailingToken,  \* collections whose last page still carries a token
  Requested,      \* opt.Collections; empty asks for every collection
  ListLimit,      \* the one page of ListCollections read (1000 in the code)
  SaveEvery,      \* pages between two saves of the sidecar (5 in the code)
  Resume,         \* whether opt.ResumePath is set
  SampleVerify,   \* whether opt.SampleVerify > 0
  MaxRuns         \* bound: how many times the operator starts the command

Cols == 1..NumCols

ASSUME WorkersAssumption == IsFiniteSet(Workers) /\ Workers # {}
ASSUME ColsAssumption    == /\ NumCols \in Nat
                            /\ NPages \in [Cols -> Nat]
                            /\ TrailingToken \subseteq Cols
                            /\ Requested \subseteq Cols
ASSUME OptionsAssumption == /\ ListLimit \in Nat \ {0}
                            /\ SaveEvery \in Nat \ {0}
                            /\ Resume \in BOOLEAN
                            /\ SampleVerify \in BOOLEAN
                            /\ MaxRuns \in Nat

VARIABLES
  phase,       \* where Run's goroutine is (see Phases)
  result,      \* how the last run ended; "none" while it runs (see Results)
  cancelled,   \* ctx is done
  runs,        \* how many times the command was started
  todo,        \* the collections the loop of Run has not reached
  col,         \* the collection being copied, 0 outside copyCollectionItems
  token,       \* the producer's token
  page,        \* the page the producer is about to send, 0 for none
  pages,       \* pages sent for this collection
  prodErr,     \* produceErr() returned an error
  jobs,        \* the buffered channel
  live,        \* workers still in their range loop
  hand,        \* the page a worker is writing, 0 for none
  workerErrs,  \* errors in workerErrCh
  cursors,     \* the map of cursors; 0 is an absent key
  sidecar,     \* what ResumePath holds
  cr,          \* per collection: pages read, written, failed
  skipped,     \* res.Collections entries that record a failed metadata copy
  tried,       \* history: pages a bulk call was ever made for
  start,       \* history: the cursor this Run started a collection from
  acked,       \* history: pages a bulk call of this Run returned no error for
  everAcked    \* history: the same over all runs

runVars  == <<phase, result, cancelled, runs, todo>>
prodVars == <<col, token, page, pages, prodErr>>
poolVars == <<jobs, live, hand, workerErrs>>
curVars  == <<cursors, sidecar>>
resVars  == <<cr, skipped>>
histVars == <<start, acked, everAcked>>
vars == <<runVars, prodVars, poolVars, curVars, resVars, tried, histVars>>

Phases == {"down", "resolve", "next", "search", "send", "wait", "verify"}
(* "nil" and "error" are what RunCLI returns; "mismatch" is its error after *)
(* a Run that returned nil with VerifyMismatches.                          *)
Results == {"none", "nil", "error", "mismatch", "killed"}
PageSet(c) == 1..NPages[c]
Capacity == Cardinality(Workers)
Counts == {"read", "written", "failed"}   \* of CollectionResult
Zero == [c \in Cols |-> 0]
Queued == Range(jobs)
InHand == Range(hand) \ {0}

Init ==
  /\ phase = "down" /\ result = "none" /\ cancelled = FALSE /\ runs = 0
  /\ todo = {} /\ col = 0 /\ token = 0 /\ page = 0 /\ pages = 0
  /\ prodErr = FALSE
  /\ jobs = <<>> /\ live = {} /\ hand = [w \in Workers |-> 0]
  /\ workerErrs = 0
  /\ cursors = Zero /\ sidecar = Zero
  /\ cr = [c \in Cols |-> [f \in Counts |-> 0]]
  /\ skipped = {}
  /\ tried = [c \in Cols |-> {}]
  /\ start = Zero
  /\ acked = [c \in Cols |-> {}]
  /\ everAcked = [c \in Cols |-> {}]

----------------------------------------------------------------------------
(* The sidecar.  saveCursors writes a temporary file and renames it, so    *)
(* ResumePath holds the old or the new map; its error is always dropped.   *)

saveCursors(cs) ==
  \/ Resume /\ sidecar' = cs
  \/ UNCHANGED sidecar

loadCursors == IF Resume THEN sidecar ELSE Zero

(* resolveCollections reads one page of the list, and only if the operator *)
(* named no collection.                                                    *)
resolveCollections ==
  IF Requested # {} THEN Requested ELSE {c \in Cols : c <= ListLimit}

(* Every return after loadCursors runs the deferred save.                  *)
Return(r) ==
  /\ phase' = "down" /\ result' = r
  /\ saveCursors(cursors)

----------------------------------------------------------------------------
(* Run                                                                     *)

(* The operator starts the command: a new process, so only what is on disk *)
(* and in the destination survives from earlier runs.                      *)
Start ==
  /\ phase = "down" /\ runs < MaxRuns
  /\ phase' = "resolve" /\ result' = "none" /\ cancelled' = FALSE
  /\ runs' = runs + 1 /\ todo' = {}
  /\ col' = 0 /\ token' = 0 /\ page' = 0 /\ pages' = 0 /\ prodErr' = FALSE
  /\ jobs' = <<>> /\ live' = {} /\ hand' = [w \in Workers |-> 0]
  /\ workerErrs' = 0
  /\ cursors' = Zero
  /\ cr' = [c \in Cols |-> [f \in Counts |-> 0]]
  /\ skipped' = {}
  /\ start' = Zero /\ acked' = [c \in Cols |-> {}]
  /\ UNCHANGED <<sidecar, tried, everAcked>>

(* Mutant: the save is deferred before the sidecar was read.               *)
ResolveFailsSaving ==
  /\ phase = "resolve"
  /\ Return("error")
  /\ UNCHANGED <<cancelled, runs, todo, prodVars, poolVars, cursors, resVars,
                 tried, histVars>>

(* Listing the collections or reading the sidecar fails: Run returns before *)
(* the deferred save is installed, so the sidecar is not overwritten.       *)
ResolveFails ==
  /\ phase = "resolve"
  /\ phase' = "down" /\ result' = "error"
  /\ UNCHANGED <<cancelled, runs, todo, prodVars, poolVars, curVars, resVars,
                 tried, histVars>>

Resolve ==
  /\ phase = "resolve"
  /\ phase' = "next"
  /\ todo' = resolveCollections
  /\ cursors' = loadCursors
  /\ UNCHANGED <<result, cancelled, runs, prodVars, poolVars, sidecar, resVars,
                 tried, histVars>>

(* copyCollectionMetadata fails: the error is recorded and the loop goes on. *)
SkipCollection(c) ==
  /\ phase = "next" /\ c \in todo /\ \A d \in todo : c <= d
  /\ todo' = todo \ {c}
  /\ skipped' = skipped \union {c}
  /\ UNCHANGED <<phase, result, cancelled, runs, prodVars, poolVars, curVars,
                 cr, tried, histVars>>

(* copyCollectionMetadata succeeds and copyCollectionItems starts: a fresh  *)
(* channel, Workers goroutines, and the producer at the saved cursor.       *)
BeginCollection(c) ==
  /\ phase = "next" /\ c \in todo /\ \A d \in todo : c <= d
  /\ phase' = "search"
  /\ todo' = todo \ {c}
  /\ col' = c /\ token' = cursors[c] /\ page' = 0 /\ pages' = 0
  /\ prodErr' = FALSE
  /\ jobs' = <<>> /\ live' = Workers /\ hand' = [w \in Workers |-> 0]
  /\ workerErrs' = 0
  /\ start' = [start EXCEPT ![c] = cursors[c]]
  /\ UNCHANGED <<result, cancelled, runs, curVars, resVars, tried,
                 acked, everAcked>>

----------------------------------------------------------------------------
(* The producer                                                            *)

(* produceErr returns: jobs is closed and Run waits for the workers.       *)
CloseJobs(err) ==
  /\ phase' = "wait" /\ prodErr' = err /\ page' = 0

(* The loop finds ctx done, or the search fails.                           *)
ProducerFails ==
  /\ phase = "search"
  /\ CloseJobs(TRUE)
  /\ UNCHANGED <<result, cancelled, runs, todo, col, token, pages, poolVars,
                 curVars, resVars, tried, histVars>>

(* The search returns no item: the collection is exhausted.                *)
ProducerExhausted ==
  /\ phase = "search" /\ ~cancelled
  /\ token >= NPages[col]
  /\ CloseJobs(FALSE)
  /\ UNCHANGED <<result, cancelled, runs, todo, col, token, pages, poolVars,
                 curVars, resVars, tried, histVars>>

Counted(c, field) == [cr EXCEPT ![c][field] = @ + 1]

ProducerReads ==
  /\ phase = "search" /\ ~cancelled
  /\ token < NPages[col]
  /\ phase' = "send" /\ page' = token + 1
  /\ cr' = Counted(col, "read")
  /\ UNCHANGED <<result, cancelled, runs, todo, col, token, pages, prodErr,
                 poolVars, curVars, skipped, tried, histVars>>

(* The source's next token: empty after the last page, unless the source   *)
(* hands out a token with every non-empty page.                            *)
NextToken(c, p) == IF p = NPages[c] /\ c \notin TrailingToken THEN 0 ELSE p

(* The last page was sent: produceErr returns nil and leaves the cursor.   *)
ProducerSendsLast ==
  /\ phase = "send" /\ Len(jobs) < Capacity
  /\ NextToken(col, page) = 0
  /\ jobs' = Append(jobs, page)
  /\ CloseJobs(FALSE)
  /\ UNCHANGED <<result, cancelled, runs, todo, col, token, pages, live, hand,
                 workerErrs, curVars, resVars, tried, histVars>>

(* Mutant: an unbounded channel.                                           *)
ProducerSendsUnbounded ==
  /\ phase = "send"
  /\ NextToken(col, page) # 0
  /\ jobs' = Append(jobs, page)
  /\ token' = NextToken(col, page)
  /\ cursors' = [cursors EXCEPT ![col] = NextToken(col, page)]
  /\ pages' = pages + 1
  /\ IF pages' % SaveEvery = 0 THEN saveCursors(cursors') ELSE UNCHANGED sidecar
  /\ phase' = "search" /\ page' = 0
  /\ UNCHANGED <<result, cancelled, runs, todo, col, prodErr, live, hand,
                 workerErrs, resVars, tried, histVars>>

(* The page is on the channel: the cursor moves past it at once, and every *)
(* SaveEvery pages the sidecar is written.                                 *)
ProducerSends ==
  /\ phase = "send" /\ Len(jobs) < Capacity
  /\ NextToken(col, page) # 0
  /\ jobs' = Append(jobs, page)
  /\ token' = NextToken(col, page)
  /\ cursors' = [cursors EXCEPT ![col] = NextToken(col, page)]
  /\ pages' = pages + 1
  /\ IF pages' % SaveEvery = 0 THEN saveCursors(cursors') ELSE UNCHANGED sidecar
  /\ phase' = "search" /\ page' = 0
  /\ UNCHANGED <<result, cancelled, runs, todo, col, prodErr, live, hand,
                 workerErrs, resVars, tried, histVars>>

(* Mutant: a plain send, with ctx looked at only once jobs has room.       *)
ProducerAbortsWithRoom ==
  /\ phase = "send" /\ cancelled /\ Len(jobs) < Capacity
  /\ CloseJobs(TRUE)
  /\ UNCHANGED <<result, cancelled, runs, todo, col, token, pages, poolVars,
                 curVars, resVars, tried, histVars>>

(* The select takes the <-ctx.Done() case, whether or not jobs has room.   *)
ProducerAborts ==
  /\ phase = "send" /\ cancelled
  /\ CloseJobs(TRUE)
  /\ UNCHANGED <<result, cancelled, runs, todo, col, token, pages, poolVars,
                 curVars, resVars, tried, histVars>>

----------------------------------------------------------------------------
(* The workers                                                             *)

WorkerTakes(w) ==
  /\ w \in live /\ hand[w] = 0 /\ jobs # <<>>
  /\ hand' = [hand EXCEPT ![w] = Head(jobs)]
  /\ jobs' = Tail(jobs)
  /\ UNCHANGED <<runVars, prodVars, live, workerErrs, curVars, resVars, tried,
                 histVars>>

(* Mutant: a worker that stops when the channel is closed, drained or not. *)
WorkerEndsUndrained(w) ==
  /\ w \in live /\ hand[w] = 0 /\ phase = "wait"
  /\ live' = live \ {w}
  /\ UNCHANGED <<runVars, prodVars, jobs, hand, workerErrs, curVars, resVars,
                 tried, histVars>>

(* Mutant: the channel is closed only when the producer fails.             *)
WorkerEndsOnError(w) ==
  /\ w \in live /\ hand[w] = 0 /\ jobs = <<>> /\ phase = "wait" /\ prodErr
  /\ live' = live \ {w}
  /\ UNCHANGED <<runVars, prodVars, jobs, hand, workerErrs, curVars, resVars,
                 tried, histVars>>

(* The channel is closed and empty: the range loop ends.                   *)
WorkerEnds(w) ==
  /\ w \in live /\ hand[w] = 0 /\ jobs = <<>> /\ phase = "wait"
  /\ live' = live \ {w}
  /\ UNCHANGED <<runVars, prodVars, jobs, hand, workerErrs, curVars, resVars,
                 tried, histVars>>

(* The bulk call returns without an error; the items it could not write    *)
(* are counted and recorded in cr.Errors, and the worker goes on.          *)
WorkerWrites(w, field) ==
  /\ w \in live /\ hand[w] # 0
  /\ hand' = [hand EXCEPT ![w] = 0]
  /\ cr' = Counted(col, field)
  /\ tried' = [tried EXCEPT ![col] = @ \union {hand[w]}]
  /\ acked' = [acked EXCEPT ![col] = @ \union {hand[w]}]
  /\ everAcked' = [everAcked EXCEPT ![col] = @ \union {hand[w]}]
  /\ UNCHANGED <<runVars, prodVars, jobs, live, workerErrs, curVars, skipped,
                 start>>

(* Mutant: the worker drops the error and takes the next page.             *)
WorkerFailsSilently(w) ==
  /\ w \in live /\ hand[w] # 0
  /\ hand' = [hand EXCEPT ![w] = 0]
  /\ cr' \in {cr} \union {Counted(col, f) : f \in {"written", "failed"}}
  /\ tried' = [tried EXCEPT ![col] = @ \union {hand[w]}]
  /\ UNCHANGED <<runVars, prodVars, jobs, live, workerErrs, curVars, skipped,
                 histVars>>

(* The bulk call returns an error, with or without a result that counts    *)
(* the page: the worker is gone and the page with it.  The error is sent   *)
(* only if workerErrCh has room.                                           *)
WorkerFails(w) ==
  /\ w \in live /\ hand[w] # 0
  /\ hand' = [hand EXCEPT ![w] = 0]
  /\ live' = live \ {w}
  /\ workerErrs' = IF workerErrs < Capacity THEN workerErrs + 1 ELSE workerErrs
  /\ cr' \in {cr} \union {Counted(col, f) : f \in {"written", "failed"}}
  /\ tried' = [tried EXCEPT ![col] = @ \union {hand[w]}]
  /\ UNCHANGED <<runVars, prodVars, jobs, curVars, skipped, histVars>>

----------------------------------------------------------------------------
(* Run, after wg.Wait                                                      *)

(* The producer's error, or else the first worker's, ends the whole run.   *)
CollectionFails ==
  /\ phase = "wait" /\ live = {}
  /\ prodErr \/ workerErrs > 0
  /\ Return("error")
  /\ UNCHANGED <<cancelled, runs, todo, prodVars, poolVars, cursors, resVars,
                 tried, histVars>>

(* Mutant: workerErrCh is not read.                                        *)
CollectionDoneUnchecked ==
  /\ phase = "wait" /\ live = {} /\ ~prodErr
  /\ phase' = "next" /\ col' = 0
  /\ cursors' = [cursors EXCEPT ![col] = 0]
  /\ saveCursors(cursors')
  /\ UNCHANGED <<result, cancelled, runs, todo, token, page, pages, prodErr,
                 poolVars, resVars, tried, histVars>>

(* The collection is copied: its cursor is deleted and the sidecar saved.  *)
CollectionDone ==
  /\ phase = "wait" /\ live = {}
  /\ ~prodErr /\ workerErrs = 0
  /\ phase' = "next" /\ col' = 0
  /\ cursors' = [cursors EXCEPT ![col] = 0]
  /\ saveCursors(cursors')
  /\ UNCHANGED <<result, cancelled, runs, todo, token, page, pages, prodErr,
                 poolVars, resVars, tried, histVars>>

AllCollectionsDone ==
  /\ phase = "next" /\ todo = {}
  /\ IF SampleVerify
     THEN phase' = "verify" /\ UNCHANGED <<result, sidecar>>
     ELSE Return("nil")
  /\ UNCHANGED <<cancelled, runs, todo, prodVars, poolVars, cursors, resVars,
                 tried, histVars>>

(* Mutant: only the collections whose metadata was copied are compared.    *)
VerifyCopied ==
  /\ phase = "verify"
  /\ \E mismatches \in SUBSET {c \in resolveCollections \ skipped : NPages[c] > 0} :
       /\ \A c \in resolveCollections \ skipped :
            NPages[c] > 0 /\ 1 \notin tried[c] => c \in mismatches
       /\ Return(IF mismatches = {} THEN "nil" ELSE "mismatch")
  /\ UNCHANGED <<cancelled, runs, todo, prodVars, poolVars, cursors, resVars,
                 tried, histVars>>

(* sampleVerify compares the first items of every resolved collection with *)
(* the destination's.  The sample is a prefix of page 1 (opt.SampleVerify  *)
(* is taken to be at most opt.BatchSize): it is missing if no bulk call    *)
(* was ever made for the page, and otherwise may match or not, as the      *)
(* call went, as GetItem answers and as the destination keeps what it      *)
(* gets.  A failing search ends the run.                                   *)
Verify ==
  /\ phase = "verify"
  /\ \E mismatches \in SUBSET {c \in resolveCollections : NPages[c] > 0} :
       /\ \A c \in resolveCollections :
            NPages[c] > 0 /\ 1 \notin tried[c] => c \in mismatches
       /\ Return(IF mismatches = {} THEN "nil" ELSE "mismatch")
  /\ UNCHANGED <<cancelled, runs, todo, prodVars, poolVars, cursors, resVars,
                 tried, histVars>>

VerifyFails ==
  /\ phase = "verify"
  /\ Return("error")
  /\ UNCHANGED <<cancelled, runs, todo, prodVars, poolVars, cursors, resVars,
                 tried, histVars>>

----------------------------------------------------------------------------
(* The environment                                                         *)

(* A signal cancels ctx (cmd/polystac: signal.NotifyContext).              *)
Interrupt ==
  /\ phase # "down" /\ ~cancelled
  /\ cancelled' = TRUE
  /\ UNCHANGED <<phase, result, runs, todo, prodVars, poolVars, curVars,
                 resVars, tried, histVars>>

(* The process is killed: no deferred save.                                *)
Kill ==
  /\ phase # "down"
  /\ phase' = "down" /\ result' = "killed"
  /\ live' = {} /\ hand' = [w \in Workers |-> 0] /\ jobs' = <<>>
  /\ tried' = IF InHand = {} THEN tried
              ELSE [tried EXCEPT ![col] = @ \union InHand]
  /\ UNCHANGED <<cancelled, runs, todo, prodVars, workerErrs, curVars, resVars,
                 histVars>>

Producer == \/ ResolveFails \/ Resolve
            \/ \E c \in Cols : SkipCollection(c) \/ BeginCollection(c)
            \/ ProducerFails \/ ProducerExhausted \/ ProducerReads
            \/ ProducerSendsLast \/ ProducerSends \/ ProducerAborts
            \/ CollectionFails \/ CollectionDone \/ AllCollectionsDone
            \/ Verify \/ VerifyFails

Worker(w) == \/ WorkerTakes(w) \/ WorkerEnds(w)
             \/ \E f \in {"written", "failed"} : WorkerWrites(w, f)
             \/ WorkerFails(w)

Next == Start \/ Producer \/ (\E w \in Workers : Worker(w))
        \/ Interrupt \/ Kill

Spec == Init /\ [][Next]_vars

(* Go's scheduler runs every goroutine that can run, and the repositories  *)
(* answer every call.  Nothing obliges an operator to interrupt, kill or   *)
(* restart the command.                                                    *)
FairSpec == Spec /\ WF_vars(Producer) /\ \A w \in Workers : WF_vars(Worker(w))

----------------------------------------------------------------------------
(* Properties                                                              *)

(* The types, with the capacities of the two channels.                     *)
TypeOK ==
  /\ phase \in Phases /\ result \in Results /\ cancelled \in BOOLEAN
  /\ runs \in 0..MaxRuns /\ todo \subseteq Cols
  /\ col \in Cols \union {0} /\ token \in Nat /\ page \in Nat /\ pages \in Nat
  /\ prodErr \in BOOLEAN
  /\ jobs \in Seq(Nat) /\ Len(jobs) <= Capacity
  /\ live \subseteq Workers /\ hand \in [Workers -> Nat]
  /\ workerErrs \in 0..Capacity
  /\ cursors \in [Cols -> Nat] /\ sidecar \in [Cols -> Nat]
  /\ cr \in [Cols -> [Counts -> Nat]]
  /\ skipped \subseteq Cols
  /\ tried \in [Cols -> SUBSET Nat]
  /\ start \in [Cols -> Nat]
  /\ acked \in [Cols -> SUBSET Nat] /\ everAcked \in [Cols -> SUBSET Nat]

(* The collections a Run that reached the end copied item by item.         *)
Copied == resolveCollections \ skipped
Ended == result \in {"nil", "mismatch"}

(* A Run that returns nil has had every page after its starting cursor     *)
(* accepted by a bulk call, whatever worker failed, whatever order the     *)
(* workers finished in and whenever ctx was cancelled: no hard error is    *)
(* swallowed and no page is left in the channel (migrate.go 250-264).      *)
NilMeansHandled ==
  Ended => \A c \in Copied : \A p \in PageSet(c) :
             p > start[c] => p \in acked[c]

(* The summary of a Run that returns nil counts every page it read exactly *)
(* once, as written or as failed.                                          *)
CountsMatch ==
  Ended => \A c \in Copied :
             /\ cr[c]["read"] = NPages[c] - start[c]
             /\ cr[c]["read"] = cr[c]["written"] + cr[c]["failed"]

(* How much a resume can lose: of the pages behind the saved cursor, those *)
(* no bulk call ever accepted are at most a full channel and one page per  *)
(* worker for each run.                                                    *)
LossWindow ==
  \A c \in Cols :
    Cardinality({p \in 1..sidecar[c] : p \notin everAcked[c]})
      <= 2 * Capacity * runs

(* The saved cursor of a collection is dropped only by a Run whose bulk    *)
(* calls accepted everything after the cursor it had resumed from: neither *)
(* a failed start nor an interrupted or failed run resets it.              *)
CursorKept ==
  [][\A c \in Cols :
       sidecar[c] > 0 /\ sidecar'[c] < sidecar[c] =>
         \A p \in PageSet(c) : p > start[c] => p \in acked[c]]_vars

(* With sample-verify on, the command does not exit successfully after     *)
(* skipping a collection none of whose first items were ever sent: the     *)
(* check covers the collections whose metadata copy failed, too.           *)
SkipNoticed ==
  result = "nil" /\ SampleVerify =>
    \A c \in skipped : NPages[c] > 0 => 1 \in tried[c]

(* An interrupted run ends, even if every worker is gone and the channel   *)
(* is full.                                                                *)
InterruptEnds == cancelled ~> phase = "down"

(* A run ends as long as one worker survives its bulk calls.               *)
RunEnds ==
  phase = "resolve" ~> phase = "down" \/ (phase \in {"search", "send"} /\ live = {})

(* Documented: "after every successful batch, the per-collection cursor is *)
(* flushed", "safe to interrupt and re-run": a Run that returns nil leaves *)
(* no page that neither it nor an earlier run handled.                     *)
ResumeIsComplete ==
  Ended => \A c \in Copied : PageSet(c) \subseteq everAcked[c]

(* Documented: Run returns the first hard error.                           *)
HardErrorReturned == workerErrs > 0 ~> phase = "down"

(* Run keeps the contract of CopyContract: a collection is picked up at    *)
(* the cursor it started from, a page is accepted when its bulk call       *)
(* returns without an error, and the run succeeds when Run returns nil.    *)
stageBar == IF phase # "down" THEN "running"
            ELSE IF result = "none" THEN "idle"
            ELSE IF Ended THEN "succeeded" ELSE "failed"

Contract == INSTANCE CopyContract
              WITH Asked <- resolveCollections, stage <- stageBar,
                   from <- start, dropped <- skipped, accepted <- acked

KeepsContract == Contract!Spec

----------------------------------------------------------------------------
(* The inductive invariant behind NilMeansHandled and KeepsContract.  A    *)
(* page that was read is accepted, on the channel, in a worker's hand, or  *)
(* lost with a worker whose error is waiting in workerErrCh.               *)

Copying == phase \in {"search", "send", "wait"}
InFlight == Queued \union InHand
Handled(c) == \A p \in PageSet(c) : p > start[c] => p \in acked[c]

(* Where each collection of the run is: not reached, given up on, being    *)
(* copied, or done.                                                        *)
CollectionSplit ==
  /\ phase # "down" => /\ result = "none"
                       /\ todo \subseteq resolveCollections
                       /\ todo \intersect skipped = {}
  /\ phase = "resolve" => skipped = {} /\ \A c \in Cols : acked[c] = {}
  /\ phase \in {"resolve", "next", "verify"} => col = 0
  /\ phase = "verify" => todo = {}
  /\ Copying => col \in resolveCollections \ (todo \union skipped)
  /\ phase # "down" => \A c \in todo \union skipped : acked[c] = {}
  /\ phase \notin {"down", "resolve"} =>
       \A c \in resolveCollections \ (todo \union skipped \union {col}) : Handled(c)

(* Only the workers of the current collection hold pages; a worker stops   *)
(* without an error only when the channel is closed and empty.             *)
PoolSplit ==
  /\ ~Copying => live = {}
  /\ \A w \in Workers : hand[w] # 0 => w \in live
  /\ Copying /\ workerErrs = 0 /\ live # Workers => phase = "wait" /\ jobs = <<>>

(* Where the pages behind the producer are.                                *)
PageSplit ==
  /\ Copying => InFlight \subseteq start[col] + 1 .. NPages[col]
  /\ phase \in {"search", "send"} => start[col] <= token
  /\ phase = "send" => page = token + 1 /\ page <= NPages[col]
  /\ phase \in {"search", "send"} /\ workerErrs = 0 =>
       \A p \in start[col] + 1 .. token : p \in acked[col] \union InFlight
  /\ phase = "wait" /\ ~prodErr /\ workerErrs = 0 =>
       \A p \in start[col] + 1 .. NPages[col] : p \in acked[col] \union InFlight

IInv == TypeOK /\ CollectionSplit /\ PoolSplit /\ PageSplit /\ NilMeansHandled
=============================================================================
