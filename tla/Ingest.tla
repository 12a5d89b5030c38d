------------------------------- MODULE Ingest -------------------------------
(***************************************************************************)
(* polystac-ingest: ingest.Run hands a receiver's iterator to              *)
(* BulkUpsertItems of the destination.  The iterator and the loop of       *)
(* BulkUpsertItems alternate in one goroutine: the receiver produces a     *)
(* pair, the body of the loop consumes it, and control returns to the      *)
(* receiver after its yield.                                               *)
(*   stdin  a json.Decoder over newline-delimited items                    *)
(*   dir    one file per item                                              *)
(*   sqs    batches of messages, each deleted after its yield              *)
(* An item stands for the line, file or message that carries it.           *)
(***************************************************************************)
EXTENDS BulkUpsert

CONSTANTS
  Receivers,   \* which receivers to consider
  Inputs,      \* what the lines, files or messages may hold (see input)
  ReceiveMax,  \* messages per ReceiveMessage (10 in the code)
  MaxRuns      \* bound: how many times the command is started

ASSUME IngestAssumption == IsFiniteSet(Items) /\ MaxRuns \in Nat

VARIABLES
  receiver,  \* "stdin", "dir" or "sqs"
  input,     \* "item", "mistyped" (JSON, not an Item) or "garbled" (not JSON)
  pc,        \* where the receiver is: "off", "pull", "again", "batch" or "ack"
  runs,      \* how many times the command was started
  unread,    \* stdin, dir: the lines or files not reached yet
  stuck,     \* stdin: the decoder has met a syntax error
  queue,     \* sqs: each message is "ready", "hidden" or "gone"
  batch,     \* sqs: messages received and not processed yet
  current,   \* sqs: the messages (at most one) yielded and not deleted yet
  deleted    \* history: messages deleted in this run

recvVars == <<unread, stuck, queue, batch, current, deleted>>
confVars == <<receiver, input, backend>>
vars == <<confVars, pc, runs, recvVars, ctxDone, bulkVars>>

Init ==
  /\ BulkInit
  /\ receiver \in Receivers /\ input \in Inputs
  /\ pc = "off" /\ runs = 0
  /\ unread = {} /\ stuck = FALSE
  /\ queue = [m \in Items |-> "ready"]
  /\ batch = {} /\ current = {} /\ deleted = {}

(* A new process reads its input from the beginning; the queue is as the   *)
(* earlier ones left it.                                                   *)
Start ==
  /\ pc = "off" /\ runs < MaxRuns
  /\ pc' = "pull" /\ runs' = runs + 1 /\ ctxDone' = FALSE
  /\ BulkStart
  /\ unread' = Items /\ stuck' = FALSE
  /\ batch' = {} /\ current' = {} /\ deleted' = {}
  /\ UNCHANGED <<confVars, queue>>

(* Control returns to the receiver, or the loop body has returned.         *)
Resume(at) == pc' = IF bulk' = "running" THEN at ELSE "off"

(* The receiver returns: BulkUpsertItems leaves its loop.                  *)
Exhausted ==
  /\ BulkEnd
  /\ pc' = "off"
  /\ UNCHANGED <<confVars, runs, recvVars, ctxDone>>

(* ctx is done, as each round of a receiver begins.  It may also be         *)
(* cancelled later in the round, which the body of the loop then finds.    *)
ContextSeen == pc = "pull" /\ CtxErr /\ Exhausted

----------------------------------------------------------------------------
(* stdin and dir                                                           *)

(* Mutant: the receiver returns after the first error that it yielded.     *)
InputEndsAtError ==
  /\ pc = "pull" /\ receiver \in {"stdin", "dir"}
  /\ unread = {} \/ Unknown \in errors
  /\ ~stuck
  /\ Exhausted

InputEnds ==
  /\ pc = "pull" /\ receiver \in {"stdin", "dir"}
  /\ unread = {} /\ ~stuck
  /\ Exhausted

(* The next line or file is an item.                                       *)
ReadsItem(i) ==
  /\ pc = "pull" /\ receiver \in {"stdin", "dir"}
  /\ i \in unread /\ ~stuck /\ input[i] = "item"
  /\ TakeItem(i) /\ Resume("pull")
  /\ unread' = unread \ {i}
  /\ UNCHANGED <<confVars, runs, stuck, queue, batch, current, deleted, ctxDone>>

(* It is not: the error is yielded in the item's place, and the receiver   *)
(* goes on.  The decoder does not recover from a syntax error.             *)
ReadsError(i) ==
  /\ pc = "pull" /\ receiver \in {"stdin", "dir"}
  /\ i \in unread /\ ~stuck /\ input[i] # "item"
  /\ TakeError /\ Resume("pull")
  /\ unread' = unread \ {i}
  /\ stuck' = (receiver = "stdin" /\ input[i] = "garbled")
  /\ UNCHANGED <<confVars, runs, queue, batch, current, deleted, ctxDone>>

(* stdin: Decode returns the same error again, and it is yielded again.    *)
DecoderStuck ==
  /\ pc = "pull" /\ stuck
  /\ pc' = "again"
  /\ UNCHANGED <<confVars, runs, recvVars, ctxDone, bulkVars>>

YieldsAgain ==
  /\ pc = "again"
  /\ TakeError /\ Resume("pull")
  /\ UNCHANGED <<confVars, runs, recvVars, ctxDone>>

----------------------------------------------------------------------------
(* sqs                                                                     *)

ReceiveFails ==
  /\ pc = "pull" /\ receiver = "sqs"
  /\ TakeError /\ Resume("pull")
  /\ UNCHANGED <<confVars, runs, recvVars, ctxDone>>

(* No message within the wait time.                                        *)
ReceivesNothing ==
  /\ pc = "pull" /\ receiver = "sqs"
  /\ Exhausted

Receives(msgs) ==
  /\ pc = "pull" /\ receiver = "sqs"
  /\ msgs # {} /\ Cardinality(msgs) <= ReceiveMax
  /\ \A m \in msgs : queue[m] = "ready"
  /\ queue' = [m \in Items |-> IF m \in msgs THEN "hidden" ELSE queue[m]]
  /\ batch' = msgs /\ pc' = "batch"
  /\ UNCHANGED <<confVars, runs, unread, stuck, current, deleted, ctxDone, bulkVars>>

(* A body that does not parse: its error is yielded, the message stays.    *)
MessageUnparsed(m) ==
  /\ pc = "batch" /\ m \in batch /\ input[m] # "item"
  /\ TakeError /\ Resume("batch")
  /\ batch' = batch \ {m}
  /\ UNCHANGED <<confVars, runs, unread, stuck, queue, current, deleted, ctxDone>>

MessageYielded(m) ==
  /\ pc = "batch" /\ m \in batch /\ input[m] = "item"
  /\ TakeItem(m) /\ Resume("ack")
  /\ batch' = batch \ {m}
  /\ current' = {m}
  /\ UNCHANGED <<confVars, runs, unread, stuck, queue, deleted, ctxDone>>

(* The yield returned true: DeleteMessage, whose own error is dropped.     *)
MessageDeleted ==
  /\ pc = "ack"
  /\ \/ /\ queue' = [m \in Items |-> IF m \in current THEN "gone" ELSE queue[m]]
        /\ deleted' = deleted \union current
     \/ UNCHANGED <<queue, deleted>>
  /\ current' = {} /\ pc' = "batch"
  /\ UNCHANGED <<confVars, runs, unread, stuck, batch, ctxDone, bulkVars>>

BatchDone ==
  /\ pc = "batch" /\ batch = {}
  /\ pc' = "pull"
  /\ UNCHANGED <<confVars, runs, recvVars, ctxDone, bulkVars>>

----------------------------------------------------------------------------
(* The environment                                                         *)

(* A received message that was not deleted becomes visible again.          *)
VisibilityTimeout(m) ==
  /\ queue[m] = "hidden"
  /\ queue' = [queue EXCEPT ![m] = "ready"]
  /\ UNCHANGED <<confVars, pc, runs, unread, stuck, batch, current, deleted,
                 ctxDone, bulkVars>>

Interrupt ==
  /\ pc # "off" /\ ~ctxDone
  /\ ctxDone' = TRUE
  /\ UNCHANGED <<confVars, pc, runs, recvVars, bulkVars>>

(* The process is killed; what is buffered is gone.                        *)
Kill ==
  /\ pc # "off"
  /\ pc' = "off" /\ bulk' = "error" /\ buffer' = <<>>
  /\ UNCHANGED <<confVars, runs, recvVars, ctxDone, stored, succeeded, failed,
                 errors, pairs, taken>>

Work == \/ ContextSeen \/ InputEnds \/ DecoderStuck \/ YieldsAgain
        \/ \E i \in Items : ReadsItem(i) \/ ReadsError(i)
        \/ ReceiveFails \/ ReceivesNothing
        \/ \E msgs \in SUBSET Items : Receives(msgs)
        \/ \E m \in Items : MessageUnparsed(m) \/ MessageYielded(m)
        \/ MessageDeleted \/ BatchDone

Next == Start \/ Work \/ Interrupt \/ Kill \/ \E m \in Items : VisibilityTimeout(m)

Spec == Init /\ [][Next]_vars

(* The process keeps running, its reads and calls return (stdin is a file, *)
(* or a pipe whose writer goes on to its end), and nothing is asked of the *)
(* operator or of the queue's clock.                                       *)
FairSpec == Spec /\ WF_vars(Work)

----------------------------------------------------------------------------
(* Properties                                                              *)

TypeOK ==
  /\ BulkTypeOK
  /\ receiver \in Receivers /\ input \in Inputs
  /\ pc \in {"off", "pull", "again", "batch", "ack"} /\ runs \in 0..MaxRuns
  /\ unread \subseteq Items /\ stuck \in BOOLEAN
  /\ queue \in [Items -> {"ready", "hidden", "gone"}]
  /\ batch \subseteq Items /\ current \subseteq Items /\ deleted \subseteq Items

(* A command that exits successfully (no error, no failure) has stored     *)
(* every message it deleted: what is lost with a chunk is always reported. *)
SuccessMeansStored ==
  bulk = "nil" /\ failed = 0 => deleted \subseteq stored

(* How much a failing, interrupted or killed run can lose: the messages it *)
(* deleted that are neither stored, nor still buffered, nor named in       *)
(* Errors are fewer than a chunk.                                          *)
LossIsPartOfAChunk ==
  Cardinality(deleted \ (stored \union Range(buffer) \union errors)) < Chunk

(* A run over a directory, or over a stream of lines that are JSON         *)
(* documents, ends; and if no signal came and its bulk call returned nil   *)
(* (it was not killed, and no flush failed) every input was read: each     *)
(* good one reached the call, and each bad one was passed over as one      *)
(* counted failure, not as the end of the input.                           *)
WellFormed == \/ receiver = "dir"
              \/ receiver = "stdin" /\ \A i \in Items : input[i] # "garbled"

EverythingRead == /\ unread = {}
                  /\ taken = {i \in Items : input[i] = "item"}
                  /\ pairs = Plus(0, Cardinality(Items))

InputIsRead ==
  pc # "off" /\ WellFormed ~> pc = "off" /\ (bulk = "nil" /\ ~ctxDone => EverythingRead)

(* An interrupted command ends.                                            *)
InterruptEnds == ctxDone ~> pc = "off"

(* Documented: "the ingest binary deletes messages it successfully         *)
(* processes; failures stay in flight".                                    *)
DeletedIsStored == \A m \in Items : queue[m] = "gone" => m \in stored \union Range(buffer)
=============================================================================
