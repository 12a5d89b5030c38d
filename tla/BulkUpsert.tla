----------------------------- MODULE BulkUpsert -----------------------------
(***************************************************************************)
(* One call of BulkUpsertItems, as each backend implements it: the body of *)
(* its `for item, err := range items` loop and the flush after the loop.   *)
(*   inmem       writes every item at once                                 *)
(*   pgstac      buffers a chunk and writes it with pgstac.create_items    *)
(*   opensearch  buffers a chunk and writes it with one _bulk request      *)
(*   spatialite  buffers a chunk and writes it in one transaction          *)
(* The caller, who produces the (item, error) pairs, is the module that    *)
(* extends this one.  Items are identified with their ids.                 *)
(***************************************************************************)
EXTENDS Naturals, Sequences, FiniteSets, Functions

CONSTANTS
  Items,     \* the item ids
  Backends,  \* which backends to consider
  Chunk,     \* items per flush (500 in the code)
  MaxCount   \* bound: where the counters stop counting

ASSUME BulkAssumption == /\ Backends \subseteq {"inmem", "pgstac", "opensearch", "spatialite"}
                         /\ Chunk \in Nat \ {0}
                         /\ MaxCount \in Nat \ {0}

Unknown == "<unknown>"   \* the key of an error that comes without an item
ASSUME UnknownAssumption == Unknown \notin Items

VARIABLES
  backend,    \* the backend behind the repository
  bulk,       \* "running", or how the call returned: "nil" or "error"
  ctxDone,    \* ctx.Err() # nil
  buffer,     \* items buffered since the last flush
  stored,     \* items the backend holds
  succeeded,  \* BulkResult.Succeeded
  failed,     \* BulkResult.Failed
  errors,     \* the keys of BulkResult.Errors
  pairs,      \* history: pairs the loop has taken
  taken       \* history: items the loop has taken

bulkVars == <<bulk, buffer, stored, succeeded, failed, errors, pairs, taken>>

(* Mutant: a context that no signal cancels.                               *)
CtxErrNever == FALSE

CtxErr == ctxDone   \* what ctx.Err() reports

Plus(n, k) == IF n + k > MaxCount THEN MaxCount ELSE n + k

BulkInit ==
  /\ backend \in Backends
  /\ bulk = "nil" /\ ctxDone = FALSE
  /\ buffer = <<>> /\ stored = {}
  /\ succeeded = 0 /\ failed = 0 /\ errors = {}
  /\ pairs = 0 /\ taken = {}

(* A new call; what is stored stays.                                       *)
BulkStart ==
  /\ bulk' = "running" /\ buffer' = <<>>
  /\ succeeded' = 0 /\ failed' = 0 /\ errors' = {}
  /\ pairs' = 0 /\ taken' = {}
  /\ UNCHANGED stored

----------------------------------------------------------------------------
(* Mutant: rejected rows count as written.                                 *)
FlushWritesMiscounts(b) ==
  \E rejected \in SUBSET Range(b) :
    /\ backend = "pgstac" => rejected = {}
    /\ failed' = Plus(failed, Cardinality({i \in DOMAIN b : b[i] \in rejected}))
    /\ succeeded' = Plus(succeeded, Len(b))
    /\ errors' = errors \union rejected
    /\ stored' = stored \union (Range(b) \ rejected)
    /\ buffer' = <<>>

(* flush, for the chunk b.  FlushWrites returns nil: opensearch and        *)
(* spatialite may reject single rows, which they count and name; pgstac    *)
(* takes a chunk as a whole.                                               *)
FlushWrites(b) ==
  \E rejected \in SUBSET Range(b) :
    /\ backend = "pgstac" => rejected = {}
    /\ LET bad == {i \in DOMAIN b : b[i] \in rejected} IN
       /\ failed' = Plus(failed, Cardinality(bad))
       /\ succeeded' = Plus(succeeded, Len(b) - Cardinality(bad))
    /\ errors' = errors \union rejected
    /\ stored' = stored \union (Range(b) \ rejected)
    /\ buffer' = <<>>

(* flush returns an error.  pgstac and opensearch count the whole chunk as *)
(* failed, although the server may have applied it before the call failed; *)
(* spatialite may fail to begin, and then counts nothing, or to commit,    *)
(* when its rows are already counted, the rejected ones also named.        *)
FlushFails(b) ==
  /\ buffer' = <<>>
  /\ \/ /\ backend \in {"pgstac", "opensearch"}
        /\ failed' = Plus(failed, Len(b))
        /\ \E applied \in SUBSET Range(b) :
             /\ backend = "pgstac" => applied \in {{}, Range(b)}
             /\ stored' = stored \union applied
        /\ UNCHANGED <<succeeded, errors>>
     \/ /\ backend = "spatialite"
        /\ \/ UNCHANGED <<succeeded, failed, errors>>
           \/ \E rejected \in SUBSET Range(b) :
                LET bad == {i \in DOMAIN b : b[i] \in rejected} IN
                /\ failed' = Plus(failed, Cardinality(bad))
                /\ succeeded' = Plus(succeeded, Len(b) - Cardinality(bad))
                /\ errors' = errors \union rejected
        /\ UNCHANGED stored

----------------------------------------------------------------------------
(* The loop body, for one pair.  bulk' # "running" means that it returned, *)
(* so that yield returns false to the producer of the pairs.               *)

Abandon ==   \* ctx is done: return without flushing what is buffered
  /\ CtxErr /\ bulk' = "error"
  /\ UNCHANGED <<buffer, stored, succeeded, failed, errors>>

Reject(key) ==   \* count and name one failure, and go on
  /\ failed' = Plus(failed, 1) /\ errors' = errors \union {key}
  /\ UNCHANGED <<bulk, buffer, stored, succeeded>>

(* The pair (nil, err).                                                    *)
TakeError ==
  /\ bulk = "running"
  /\ pairs' = Plus(pairs, 1) /\ UNCHANGED taken
  /\ \/ Abandon
     \/ ~CtxErr /\ Reject(Unknown)

(* inmem: UpsertItem at once; it fails if the collection is missing.       *)
WriteThrough(i) ==
  /\ backend = "inmem"
  /\ \/ Reject(i)
     \/ /\ stored' = stored \union {i} /\ succeeded' = Plus(succeeded, 1)
        /\ UNCHANGED <<bulk, buffer, failed, errors>>

(* Mutant: the chunk is flushed one item too late.                         *)
BufferedLate(i) ==
  /\ backend # "inmem"
  /\ \/ backend # "opensearch" /\ Reject(i)
     \/ /\ Len(buffer) < Chunk
        /\ buffer' = Append(buffer, i)
        /\ UNCHANGED <<bulk, stored, succeeded, failed, errors>>
     \/ /\ Len(buffer) >= Chunk
        /\ \/ FlushWrites(Append(buffer, i)) /\ UNCHANGED bulk
           \/ FlushFails(Append(buffer, i)) /\ bulk' = "error"

(* Mutant: the loop goes on after a flush that failed.                     *)
BufferedGoesOn(i) ==
  /\ backend # "inmem"
  /\ \/ backend # "opensearch" /\ Reject(i)
     \/ /\ Len(buffer) + 1 < Chunk
        /\ buffer' = Append(buffer, i)
        /\ UNCHANGED <<bulk, stored, succeeded, failed, errors>>
     \/ /\ Len(buffer) + 1 >= Chunk
        /\ FlushWrites(Append(buffer, i)) \/ FlushFails(Append(buffer, i))
        /\ UNCHANGED bulk

(* The others: the item may fail to encode; otherwise it joins the chunk,  *)
(* and a full chunk is flushed.                                            *)
Buffered(i) ==
  /\ backend # "inmem"
  /\ \/ backend # "opensearch" /\ Reject(i)
     \/ /\ Len(buffer) + 1 < Chunk
        /\ buffer' = Append(buffer, i)
        /\ UNCHANGED <<bulk, stored, succeeded, failed, errors>>
     \/ /\ Len(buffer) + 1 >= Chunk
        /\ \/ FlushWrites(Append(buffer, i)) /\ UNCHANGED bulk
           \/ FlushFails(Append(buffer, i)) /\ bulk' = "error"

(* The pair (item, nil).                                                   *)
TakeItem(i) ==
  /\ bulk = "running"
  /\ pairs' = Plus(pairs, 1) /\ taken' = taken \union {i}
  /\ \/ Abandon
     \/ ~CtxErr /\ (WriteThrough(i) \/ Buffered(i))

(* Mutant: no flush after the loop.                                        *)
BulkEndUnflushed ==
  /\ bulk = "running" /\ bulk' = "nil"
  /\ UNCHANGED <<buffer, stored, succeeded, failed, errors, pairs, taken>>

(* Mutant: the error of the last flush is dropped.                         *)
BulkEndNil ==
  /\ bulk = "running" /\ bulk' = "nil"
  /\ \/ buffer = <<>> /\ UNCHANGED <<buffer, stored, succeeded, failed, errors>>
     \/ buffer # <<>> /\ (FlushWrites(buffer) \/ FlushFails(buffer))
  /\ UNCHANGED <<pairs, taken>>

(* The pairs are exhausted: the last, partial chunk is flushed.            *)
BulkEnd ==
  /\ bulk = "running"
  /\ \/ /\ buffer = <<>> /\ bulk' = "nil"
        /\ UNCHANGED <<buffer, stored, succeeded, failed, errors>>
     \/ buffer # <<>> /\ FlushWrites(buffer) /\ bulk' = "nil"
     \/ buffer # <<>> /\ FlushFails(buffer) /\ bulk' = "error"
  /\ UNCHANGED <<pairs, taken>>

----------------------------------------------------------------------------
BulkTypeOK ==
  /\ backend \in Backends /\ bulk \in {"running", "nil", "error"}
  /\ ctxDone \in BOOLEAN
  /\ buffer \in Seq(Items) /\ Len(buffer) < Chunk
  /\ stored \subseteq Items /\ taken \subseteq Items
  /\ succeeded \in 0..MaxCount /\ failed \in 0..MaxCount /\ pairs \in 0..MaxCount
  /\ errors \subseteq Items \union {Unknown}

(* BulkUpsertItems that returns nil has answered for every pair it took:   *)
(* each is counted once, as succeeded or as failed.                        *)
EveryPairCounted ==
  bulk = "nil" /\ pairs < MaxCount => succeeded + failed = pairs

(* ... and every item it took is in the backend or named in Errors: none   *)
(* is left in a chunk that was never flushed.                              *)
EveryItemAnswered ==
  bulk = "nil" => taken \subseteq stored \union errors
=============================================================================
