---------------------------- MODULE IngestProofs ----------------------------
(***************************************************************************)
(* Theorems about one call of BulkUpsertItems and about polystac-ingest,   *)
(* for any items, inputs, backends, chunk and batch sizes and any number   *)
(* of runs.                                                                *)
(***************************************************************************)
EXTENDS Ingest, SequenceLemmas

(* The call is going on, or returned nil: nothing was given up.            *)
Unbroken == bulk \in {"running", "nil"}

(* Every pair is counted, or its item is in the chunk.                     *)
PairSplit == Unbroken /\ pairs < MaxCount => succeeded + failed + Len(buffer) = pairs

(* Every item is stored, or named, or in the chunk.                        *)
ItemSplit == Unbroken => taken \subseteq stored \union errors \union Range(buffer)

(* What is named was counted; a call returns nil with an empty chunk.      *)
NamedIsCounted == errors # {} => failed > 0
NilIsFlushed == bulk = "nil" => buffer = <<>>

Splits == PairSplit /\ ItemSplit /\ NamedIsCounted /\ NilIsFlushed

----------------------------------------------------------------------------
(* The counters.                                                           *)

(* Adding stops at the bound and is exact below it.                        *)
LEMMA PlusType ==
  ASSUME NEW n \in 0..MaxCount, NEW k \in Nat
  PROVE  /\ Plus(n, k) \in 0..MaxCount
         /\ n <= Plus(n, k)
         /\ k > 0 => Plus(n, k) > 0
         /\ n + k <= MaxCount => Plus(n, k) = n + k
  BY BulkAssumption DEF Plus

(* The rows of a chunk that carry rejected items.                          *)
LEMMA RejectedRows ==
  ASSUME NEW b \in Seq(Items), NEW rejected \in SUBSET Range(b)
  PROVE  LET bad == {i \in DOMAIN b : b[i] \in rejected} IN
         /\ Cardinality(bad) \in 0..Len(b)
         /\ rejected # {} => Cardinality(bad) > 0
<1> DEFINE bad == {i \in DOMAIN b : b[i] \in rejected}
<1>1. Len(b) \in Nat /\ DOMAIN b = 1..Len(b)
  BY LenProperties
<1>2. IsFiniteSet(1..Len(b)) /\ Cardinality(1..Len(b)) = Len(b)
  BY <1>1, FS_Interval
<1>3. bad \in SUBSET (1..Len(b))
  BY <1>1
<1>4. IsFiniteSet(bad) /\ Cardinality(bad) <= Len(b) /\ Cardinality(bad) \in Nat
  BY <1>2, <1>3, FS_Subset, FS_CardinalityType
<1>5. ASSUME rejected # {} PROVE Cardinality(bad) # 0
  <2>1. PICK i \in DOMAIN b : b[i] \in rejected
    BY <1>5 DEF Range
  <2>2. bad # {}
    BY <2>1
  <2> QED
    BY <2>2, <1>4, FS_EmptySet
<1> QED
  BY <1>1, <1>4, <1>5

(* What a flush does to the counters, the names and the store.             *)
Answers ==
  /\ buffer' = <<>>
  /\ stored \subseteq stored' /\ stored' \subseteq Items
  /\ errors \subseteq errors' /\ errors' \subseteq Items \union {Unknown}
  /\ succeeded' \in 0..MaxCount /\ failed' \in 0..MaxCount
  /\ NamedIsCounted => NamedIsCounted'

(* Counting a chunk whose bad rows failed and whose others succeeded.      *)
LEMMA CountChunk ==
  ASSUME BulkTypeOK, NEW n \in Nat, NEW bad \in 0..n,
         failed' = Plus(failed, bad), succeeded' = Plus(succeeded, n - bad)
  PROVE  /\ succeeded' \in 0..MaxCount /\ failed' \in 0..MaxCount
         /\ failed <= failed' /\ (bad > 0 => failed' > 0)
         /\ succeeded + failed + n <= MaxCount
              => succeeded' + failed' = succeeded + failed + n
<1>1. succeeded \in 0..MaxCount /\ failed \in 0..MaxCount /\ MaxCount \in Nat
  BY BulkAssumption DEF BulkTypeOK
<1>2. bad \in Nat /\ n - bad \in Nat
  OBVIOUS
<1>3. /\ failed' \in 0..MaxCount /\ failed <= failed' /\ (bad > 0 => failed' > 0)
      /\ failed + bad <= MaxCount => failed' = failed + bad
  BY <1>1, <1>2, PlusType
<1>4. /\ succeeded' \in 0..MaxCount
      /\ succeeded + (n - bad) <= MaxCount => succeeded' = succeeded + (n - bad)
  BY <1>1, <1>2, PlusType
<1> QED
  BY <1>1, <1>2, <1>3, <1>4

(* A flush that succeeds answers for every item of the chunk, in the       *)
(* counters too,                                                           *)
LEMMA FlushWritesAnswers ==
  ASSUME BulkTypeOK, NEW b \in Seq(Items), FlushWrites(b)
  PROVE  /\ Answers
         /\ Range(b) \subseteq stored' \union errors'
         /\ succeeded + failed + Len(b) <= MaxCount
              => succeeded' + failed' = succeeded + failed + Len(b)
<1>1. PICK rejected \in SUBSET Range(b) :
        LET bad == {i \in DOMAIN b : b[i] \in rejected} IN
        /\ failed' = Plus(failed, Cardinality(bad))
        /\ succeeded' = Plus(succeeded, Len(b) - Cardinality(bad))
        /\ errors' = errors \union rejected
        /\ stored' = stored \union (Range(b) \ rejected)
        /\ buffer' = <<>>
  BY DEF FlushWrites
<1> DEFINE bad == {i \in DOMAIN b : b[i] \in rejected}
<1>2. Cardinality(bad) \in 0..Len(b) /\ (rejected # {} => Cardinality(bad) > 0)
  BY RejectedRows
<1>3. Len(b) \in Nat
  BY LenProperties
<1>4. /\ succeeded' \in 0..MaxCount /\ failed' \in 0..MaxCount
      /\ failed <= failed' /\ (Cardinality(bad) > 0 => failed' > 0)
      /\ succeeded + failed + Len(b) <= MaxCount
           => succeeded' + failed' = succeeded + failed + Len(b)
  BY <1>1, <1>2, <1>3, CountChunk
<1>5. NamedIsCounted => NamedIsCounted'
  BY <1>1, <1>2, <1>4 DEF NamedIsCounted, BulkTypeOK
<1>6. Range(b) \subseteq Items
  BY RangeType
<1> QED
  BY <1>1, <1>4, <1>5, <1>6 DEF Answers, BulkTypeOK

(* ... and one that fails takes nothing back.                              *)
LEMMA FlushFailsAnswers ==
  ASSUME BulkTypeOK, NEW b \in Seq(Items), FlushFails(b)
  PROVE  Answers
<1>1. Len(b) \in Nat /\ Range(b) \subseteq Items
  BY LenProperties, RangeType
<1>2. CASE /\ failed' = Plus(failed, Len(b))
           /\ \E applied \in SUBSET Range(b) : stored' = stored \union applied
           /\ UNCHANGED <<succeeded, errors>>
  <2>1. failed' \in 0..MaxCount /\ failed <= failed'
    BY <1>1, <1>2, PlusType DEF BulkTypeOK
  <2> QED
    BY <1>1, <1>2, <2>1 DEF FlushFails, Answers, BulkTypeOK, NamedIsCounted
<1>3. CASE UNCHANGED <<succeeded, failed, errors, stored>>
  BY <1>3 DEF FlushFails, Answers, BulkTypeOK, NamedIsCounted
<1>4. ASSUME NEW rejected \in SUBSET Range(b),
             LET bad == {i \in DOMAIN b : b[i] \in rejected} IN
             /\ failed' = Plus(failed, Cardinality(bad))
             /\ succeeded' = Plus(succeeded, Len(b) - Cardinality(bad))
             /\ errors' = errors \union rejected,
             UNCHANGED stored
      PROVE  Answers
  <2> DEFINE bad == {i \in DOMAIN b : b[i] \in rejected}
  <2>1. Cardinality(bad) \in 0..Len(b) /\ (rejected # {} => Cardinality(bad) > 0)
    BY RejectedRows
  <2>2. /\ succeeded' \in 0..MaxCount /\ failed' \in 0..MaxCount
        /\ failed <= failed' /\ (Cardinality(bad) > 0 => failed' > 0)
    BY <1>1, <1>4, <2>1, CountChunk
  <2>3. NamedIsCounted => NamedIsCounted'
    BY <1>4, <2>1, <2>2 DEF NamedIsCounted, BulkTypeOK
  <2> QED
    BY <1>1, <1>4, <2>2, <2>3 DEF FlushFails, Answers, BulkTypeOK
<1> QED
  BY <1>2, <1>3, <1>4 DEF FlushFails

----------------------------------------------------------------------------
(* One call of BulkUpsertItems keeps the splits.                           *)

BulkInv == BulkTypeOK /\ Splits

(* What a step of the call keeps: nothing stored or named is taken back.   *)
Advances == stored \subseteq stored' /\ errors \subseteq errors'

(* Initially no call is running.                                           *)
LEMMA BulkInitInv == BulkInit => BulkInv
<1> SUFFICES ASSUME BulkInit PROVE BulkInv
  OBVIOUS
<1>1. buffer \in Seq(Items) /\ Len(buffer) = 0 /\ Range(buffer) = {}
  BY RangeEmpty DEF BulkInit
<1>2. 0 \in 0..MaxCount /\ 0 < Chunk
  BY BulkAssumption
<1>3. BulkTypeOK
  BY <1>1, <1>2 DEF BulkInit, BulkTypeOK
<1>4. Splits
  BY <1>1 DEF BulkInit, Splits, PairSplit, ItemSplit, NamedIsCounted, NilIsFlushed
<1> QED
  BY <1>3, <1>4 DEF BulkInv

(* A call starts with nothing taken.                                       *)
LEMMA BulkStartInv ==
  ASSUME BulkTypeOK, BulkStart, ctxDone' \in BOOLEAN, UNCHANGED backend
  PROVE  BulkInv'
<1>1. buffer' \in Seq(Items) /\ Len(buffer') = 0 /\ Range(buffer') = {}
  BY RangeEmpty DEF BulkStart
<1>2. 0 \in 0..MaxCount /\ 0 < Chunk
  BY BulkAssumption
<1> QED
  BY <1>1, <1>2 DEF BulkStart, BulkInv, BulkTypeOK, Splits, PairSplit, ItemSplit,
                    NamedIsCounted, NilIsFlushed

(* Taking a pair counts it, until the bound.                               *)
LEMMA PairTaken ==
  ASSUME BulkTypeOK, pairs' = Plus(pairs, 1)
  PROVE  /\ pairs' \in 0..MaxCount
         /\ pairs' < MaxCount => pairs < MaxCount /\ pairs' = pairs + 1
<1>1. pairs \in 0..MaxCount /\ MaxCount \in Nat /\ 1 \in Nat
  BY BulkAssumption DEF BulkTypeOK
<1> QED
  BY <1>1 DEF Plus

(* A call that gives up leaves behind what it had buffered.                *)
LEMMA AbandonInv ==
  ASSUME BulkInv, Abandon, UNCHANGED <<backend, ctxDone>>,
         pairs' \in 0..MaxCount, taken' \subseteq Items
  PROVE  BulkInv' /\ Advances
  BY DEF BulkInv, BulkTypeOK, Splits, PairSplit, ItemSplit, NamedIsCounted,
         NilIsFlushed, Unbroken, Abandon, Advances

(* One failure counted and named, for an item or for no item.              *)
LEMMA RejectInv ==
  ASSUME BulkInv, bulk = "running", UNCHANGED <<backend, ctxDone>>,
         NEW key \in Items \union {Unknown}, Reject(key),
         pairs' = Plus(pairs, 1), taken' \subseteq taken \union {key},
         taken' \subseteq Items
  PROVE  BulkInv' /\ Advances
<1>1. failed \in 0..MaxCount /\ succeeded \in 0..MaxCount /\ Len(buffer) \in Nat
      /\ pairs \in 0..MaxCount /\ MaxCount \in Nat
  BY LenProperties, BulkAssumption DEF BulkInv, BulkTypeOK
<1>2. failed' \in 0..MaxCount /\ failed' > 0
      /\ (failed + 1 <= MaxCount => failed' = failed + 1)
  BY <1>1, PlusType DEF Reject
<1>3. pairs' \in 0..MaxCount
      /\ (pairs' < MaxCount => pairs < MaxCount /\ pairs' = pairs + 1)
  BY PairTaken DEF BulkInv
<1>4. BulkTypeOK'
  BY <1>2, <1>3 DEF BulkInv, BulkTypeOK, Reject
<1>5. PairSplit'
  <2> SUFFICES ASSUME pairs' < MaxCount
               PROVE  succeeded' + failed' + Len(buffer') = pairs'
    BY DEF PairSplit
  <2>1. succeeded + failed + Len(buffer) = pairs
    BY <1>3 DEF BulkInv, Splits, PairSplit, Unbroken
  <2>2. UNCHANGED <<succeeded, buffer>>
    BY DEF Reject
  <2> QED
    BY <1>1, <1>2, <1>3, <2>1, <2>2
<1>6. ItemSplit'
  BY DEF BulkInv, Splits, ItemSplit, Unbroken, Reject
<1>7. NamedIsCounted' /\ NilIsFlushed'
  BY <1>2 DEF NamedIsCounted, NilIsFlushed, Reject
<1> QED
  BY <1>4, <1>5, <1>6, <1>7 DEF BulkInv, Splits, Advances, Reject

(* inmem: the item is written at once.                                     *)
LEMMA WriteThroughInv ==
  ASSUME BulkInv, bulk = "running", UNCHANGED <<backend, ctxDone>>,
         NEW i \in Items, WriteThrough(i),
         pairs' = Plus(pairs, 1), taken' = taken \union {i}
  PROVE  BulkInv' /\ Advances
<1>1. failed \in 0..MaxCount /\ succeeded \in 0..MaxCount /\ Len(buffer) \in Nat
      /\ pairs \in 0..MaxCount /\ MaxCount \in Nat /\ taken \subseteq Items
  BY LenProperties, BulkAssumption DEF BulkInv, BulkTypeOK
<1>2. CASE Reject(i)
  BY <1>1, <1>2, RejectInv
<1>3. CASE /\ stored' = stored \union {i} /\ succeeded' = Plus(succeeded, 1)
           /\ UNCHANGED <<bulk, buffer, failed, errors>>
  <2>1. succeeded' \in 0..MaxCount
        /\ (succeeded + 1 <= MaxCount => succeeded' = succeeded + 1)
    BY <1>1, <1>3, PlusType
  <2>2. pairs' \in 0..MaxCount
        /\ (pairs' < MaxCount => pairs < MaxCount /\ pairs' = pairs + 1)
    BY PairTaken DEF BulkInv
  <2>3. BulkTypeOK'
    BY <1>3, <2>1, <2>2 DEF BulkInv, BulkTypeOK
  <2>4. PairSplit'
    <3> SUFFICES ASSUME pairs' < MaxCount
                 PROVE  succeeded' + failed' + Len(buffer') = pairs'
      BY DEF PairSplit
    <3>1. succeeded + failed + Len(buffer) = pairs
      BY <2>2 DEF BulkInv, Splits, PairSplit, Unbroken
    <3> QED
      BY <1>1, <1>3, <2>1, <2>2, <3>1
  <2>5. ItemSplit' /\ NamedIsCounted' /\ NilIsFlushed'
    BY <1>3 DEF BulkInv, Splits, ItemSplit, NamedIsCounted, NilIsFlushed, Unbroken
  <2> QED
    BY <1>3, <2>3, <2>4, <2>5 DEF BulkInv, Splits, Advances
<1> QED
  BY <1>2, <1>3 DEF WriteThrough

(* A chunk b is flushed: all of the chunk so far, with or without the      *)
(* item that fills it.                                                     *)
LEMMA FlushInv ==
  ASSUME BulkInv, bulk = "running", UNCHANGED <<backend, ctxDone>>,
         NEW b \in Seq(Items), Range(buffer) \subseteq Range(b),
         taken' \subseteq taken \union Range(b), pairs' \in 0..MaxCount,
         pairs' < MaxCount => pairs < MaxCount
                              /\ pairs' = pairs + (Len(b) - Len(buffer)),
         \/ FlushWrites(b) /\ bulk' \in {"running", "nil"}
         \/ FlushFails(b) /\ bulk' = "error"
  PROVE  BulkInv' /\ Advances
<1>1. failed \in 0..MaxCount /\ succeeded \in 0..MaxCount /\ Len(buffer) \in Nat
      /\ pairs \in 0..MaxCount /\ MaxCount \in Nat /\ taken \subseteq Items
      /\ Len(b) \in Nat /\ Range(b) \subseteq Items
  BY LenProperties, RangeType, BulkAssumption DEF BulkInv, BulkTypeOK
<1>2. Answers
  BY FlushWritesAnswers, FlushFailsAnswers DEF BulkInv
<1>3. buffer' = <<>> /\ buffer' \in Seq(Items) /\ Len(buffer') = 0 /\ 0 < Chunk
  BY <1>2, RangeEmpty, BulkAssumption DEF Answers
<1>4. BulkTypeOK'
  BY <1>1, <1>2, <1>3 DEF BulkInv, BulkTypeOK, Answers
<1>5. PairSplit'
  <2> SUFFICES ASSUME Unbroken', pairs' < MaxCount
               PROVE  succeeded' + failed' + Len(buffer') = pairs'
    BY DEF PairSplit
  <2>1. succeeded + failed + Len(buffer) = pairs
    BY DEF BulkInv, Splits, PairSplit, Unbroken
  <2>2. FlushWrites(b)
    BY DEF Unbroken
  <2>3. succeeded + failed + Len(b) <= MaxCount
          => succeeded' + failed' = succeeded + failed + Len(b)
    BY <2>2, FlushWritesAnswers DEF BulkInv
  <2>4. succeeded' \in Nat /\ failed' \in Nat
    BY <1>1, <1>2 DEF Answers
  <2>5. pairs' = pairs + (Len(b) - Len(buffer))
    OBVIOUS
  <2>6. succeeded + failed + Len(b) = pairs'
    BY <1>1, <2>1, <2>5
  <2>7. succeeded' + failed' = pairs'
    BY <1>1, <2>3, <2>6
  <2> QED
    BY <1>1, <1>3, <2>4, <2>7
<1>6. ItemSplit'
  <2> SUFFICES ASSUME Unbroken' PROVE taken' \subseteq stored' \union errors'
    BY DEF ItemSplit
  <2>1. Range(b) \subseteq stored' \union errors'
    BY FlushWritesAnswers DEF Unbroken, BulkInv
  <2>2. taken \subseteq stored \union errors \union Range(buffer)
    BY DEF BulkInv, Splits, ItemSplit, Unbroken
  <2> QED
    BY <1>2, <2>1, <2>2 DEF Answers
<1>7. NamedIsCounted' /\ NilIsFlushed'
  BY <1>2, <1>3 DEF BulkInv, Splits, Answers, NilIsFlushed
<1> QED
  BY <1>2, <1>4, <1>5, <1>6, <1>7 DEF BulkInv, Splits, Advances, Answers

(* The others: the item may be rejected, joins the chunk, or fills it.     *)
LEMMA BufferedInv ==
  ASSUME BulkInv, bulk = "running", UNCHANGED <<backend, ctxDone>>,
         NEW i \in Items, Buffered(i),
         pairs' = Plus(pairs, 1), taken' = taken \union {i}
  PROVE  BulkInv' /\ Advances
<1> DEFINE b == Append(buffer, i)
<1>1. failed \in 0..MaxCount /\ succeeded \in 0..MaxCount /\ Len(buffer) \in Nat
      /\ pairs \in 0..MaxCount /\ MaxCount \in Nat /\ taken \subseteq Items
      /\ buffer \in Seq(Items)
  BY LenProperties, BulkAssumption DEF BulkInv, BulkTypeOK
<1>2. /\ b \in Seq(Items) /\ Len(b) = Len(buffer) + 1
      /\ Range(b) = Range(buffer) \union {i}
  BY <1>1, RangeAppend
<1>3. pairs' \in 0..MaxCount
      /\ (pairs' < MaxCount => pairs < MaxCount /\ pairs' = pairs + 1)
  BY PairTaken DEF BulkInv
<1>4. CASE Reject(i)
  BY <1>1, <1>4, RejectInv
<1>5. CASE /\ Len(buffer) + 1 < Chunk /\ buffer' = b
           /\ UNCHANGED <<bulk, stored, succeeded, failed, errors>>
  <2>1. BulkTypeOK'
    BY <1>2, <1>3, <1>5 DEF BulkInv, BulkTypeOK
  <2>2. PairSplit'
    <3> SUFFICES ASSUME pairs' < MaxCount
                 PROVE  succeeded' + failed' + Len(buffer') = pairs'
      BY DEF PairSplit
    <3>1. succeeded + failed + Len(buffer) = pairs
      BY <1>3 DEF BulkInv, Splits, PairSplit, Unbroken
    <3> QED
      BY <1>1, <1>2, <1>3, <1>5, <3>1
  <2>3. ItemSplit'
    BY <1>2, <1>5 DEF BulkInv, Splits, ItemSplit, Unbroken
  <2>4. NamedIsCounted' /\ NilIsFlushed'
    BY <1>5 DEF BulkInv, Splits, NamedIsCounted, NilIsFlushed
  <2> QED
    BY <1>5, <2>1, <2>2, <2>3, <2>4 DEF BulkInv, Splits, Advances
<1>6. CASE \/ FlushWrites(b) /\ UNCHANGED bulk
           \/ FlushFails(b) /\ bulk' = "error"
  <2>1. pairs' < MaxCount
          => pairs < MaxCount /\ pairs' = pairs + (Len(b) - Len(buffer))
    BY <1>1, <1>2, <1>3
  <2>2. taken' \subseteq taken \union Range(b)
    BY <1>2
  <2> HIDE DEF b
  <2> QED
    BY <1>2, <1>3, <1>6, <2>1, <2>2, FlushInv
<1> QED
  BY <1>4, <1>5, <1>6 DEF Buffered

(* One pair: the call goes on or returns an error, never nil.              *)
LEMMA TakeErrorInv ==
  ASSUME BulkInv, TakeError, UNCHANGED <<backend, ctxDone>>
  PROVE  BulkInv' /\ Advances /\ UNCHANGED taken /\ bulk' \in {"running", "error"}
<1>1. pairs' \in 0..MaxCount /\ bulk = "running" /\ taken' = taken /\ taken \subseteq Items
  BY PairTaken DEF TakeError, BulkInv, BulkTypeOK
<1>2. CASE Abandon
  BY <1>1, <1>2, AbandonInv DEF Abandon
<1>3. CASE Reject(Unknown)
  <2>1. BulkInv' /\ Advances
    BY <1>1, <1>3, RejectInv DEF TakeError
  <2> QED
    BY <1>1, <1>3, <2>1 DEF Reject
<1> QED
  BY <1>2, <1>3 DEF TakeError

(* One turn of the loop with an item: it is stored, buffered or named.     *)
LEMMA TakeItemInv ==
  ASSUME BulkInv, NEW i \in Items, TakeItem(i), UNCHANGED <<backend, ctxDone>>
  PROVE  /\ BulkInv' /\ Advances
         /\ taken' = taken \union {i} /\ bulk' \in {"running", "error"}
<1>1. pairs' \in 0..MaxCount /\ bulk = "running" /\ taken' = taken \union {i}
      /\ taken \subseteq Items /\ pairs' = Plus(pairs, 1)
  BY PairTaken DEF TakeItem, BulkInv, BulkTypeOK
<1>2. CASE Abandon
  BY <1>1, <1>2, AbandonInv DEF Abandon
<1>3. CASE WriteThrough(i)
  <2>1. BulkInv' /\ Advances
    BY <1>1, <1>3, WriteThroughInv
  <2> QED
    BY <1>1, <1>3, <2>1 DEF WriteThrough, Reject
<1>4. CASE Buffered(i)
  <2>1. BulkInv' /\ Advances
    BY <1>1, <1>4, BufferedInv
  <2>2. bulk' \in {"running", "error"}
    BY <1>1, <1>4 DEF Buffered, Reject
  <2> QED
    BY <1>1, <2>1, <2>2
<1> QED
  BY <1>2, <1>3, <1>4 DEF TakeItem

(* The pairs are exhausted.                                                *)
LEMMA BulkEndInv ==
  ASSUME BulkInv, BulkEnd, UNCHANGED <<backend, ctxDone>>
  PROVE  BulkInv' /\ Advances /\ UNCHANGED taken /\ bulk' \in {"nil", "error"}
<1>1. /\ bulk = "running" /\ UNCHANGED <<pairs, taken>>
      /\ buffer \in Seq(Items) /\ pairs \in 0..MaxCount
  BY DEF BulkEnd, BulkInv, BulkTypeOK
<1>2. CASE /\ buffer = <<>> /\ bulk' = "nil"
           /\ UNCHANGED <<buffer, stored, succeeded, failed, errors>>
  <2>1. BulkTypeOK'
    BY <1>1, <1>2 DEF BulkInv, BulkTypeOK
  <2>2. Splits'
    BY <1>1, <1>2 DEF BulkInv, Splits, PairSplit, ItemSplit, NamedIsCounted,
                      NilIsFlushed, Unbroken
  <2> QED
    BY <1>1, <1>2, <2>1, <2>2 DEF BulkInv, Advances
<1>3. CASE \/ FlushWrites(buffer) /\ bulk' = "nil"
           \/ FlushFails(buffer) /\ bulk' = "error"
  <2>1. Len(buffer) \in Nat /\ pairs \in Nat
    BY <1>1, LenProperties
  <2>2. pairs' < MaxCount
          => pairs < MaxCount /\ pairs' = pairs + (Len(buffer) - Len(buffer))
    BY <1>1, <2>1
  <2>3. taken' \subseteq taken \union Range(buffer)
    BY <1>1
  <2>4. BulkInv' /\ Advances
    BY <1>1, <1>3, <2>2, <2>3, FlushInv
  <2> QED
    BY <1>1, <1>3, <2>4
<1> QED
  BY <1>2, <1>3 DEF BulkEnd

(* The process dies in the call: what is buffered is gone.                 *)
LEMMA KilledInv ==
  ASSUME BulkInv, bulk' = "error", buffer' = <<>>, UNCHANGED <<backend, ctxDone>>,
         UNCHANGED <<stored, succeeded, failed, errors, pairs, taken>>
  PROVE  BulkInv' /\ Advances
<1>1. buffer' \in Seq(Items) /\ Len(buffer') = 0 /\ 0 < Chunk
  BY RangeEmpty, BulkAssumption
<1>2. BulkTypeOK'
  BY <1>1 DEF BulkInv, BulkTypeOK
<1> QED
  BY <1>2 DEF BulkInv, Splits, PairSplit, ItemSplit, NamedIsCounted, NilIsFlushed,
              Unbroken, Advances

(* The call stands still.                                                  *)
LEMMA StillInv ==
  ASSUME BulkInv, UNCHANGED bulkVars, UNCHANGED backend, ctxDone' \in BOOLEAN
  PROVE  BulkInv' /\ Advances
<1>1. BulkTypeOK'
  BY DEF BulkInv, BulkTypeOK, bulkVars
<1>2. Splits'
  BY DEF BulkInv, Splits, PairSplit, ItemSplit, NamedIsCounted, NilIsFlushed,
         Unbroken, bulkVars
<1> QED
  BY <1>1, <1>2 DEF BulkInv, Advances, bulkVars

----------------------------------------------------------------------------
(* The command around the call.                                            *)

RecvTypeOK ==
  /\ receiver \in Receivers /\ input \in Inputs
  /\ pc \in {"off", "pull", "again", "batch", "ack"} /\ runs \in 0..MaxRuns
  /\ unread \subseteq Items /\ stuck \in BOOLEAN
  /\ queue \in [Items -> {"ready", "hidden", "gone"}]
  /\ batch \subseteq Items /\ current \subseteq Items /\ deleted \subseteq Items

(* The receiver runs while the call does, and only messages that the call  *)
(* took in this run are about to be deleted or deleted.                    *)
InCall == pc # "off" <=> bulk = "running"
DeletedTaken == current \subseteq taken /\ deleted \subseteq taken

(* The inductive invariant.                                                *)
IInv == BulkInv /\ RecvTypeOK /\ InCall /\ DeletedTaken /\ LossIsPartOfAChunk

(* The types of the two modules together.                                  *)
LEMMA TypesAgree == TypeOK <=> BulkTypeOK /\ RecvTypeOK
  BY DEF TypeOK, RecvTypeOK

(* A step of a running process that takes nothing back and deletes only    *)
(* what was taken before can lose no more than the chunk.                  *)
LEMMA LossKept ==
  ASSUME BulkInv, bulk = "running", Advances, deleted' \subseteq taken
  PROVE  LossIsPartOfAChunk'
<1> DEFINE lost == deleted' \ (stored' \union Range(buffer') \union errors')
<1>1. lost \subseteq Range(buffer)
  BY DEF BulkInv, Splits, ItemSplit, Unbroken, Advances
<1>2. buffer \in Seq(Items) /\ Len(buffer) < Chunk /\ Len(buffer) \in Nat
  BY LenProperties DEF BulkInv, BulkTypeOK
<1>3. /\ IsFiniteSet(Range(buffer)) /\ Cardinality(Range(buffer)) \in Nat
      /\ Cardinality(Range(buffer)) <= Len(buffer)
  BY <1>2, RangeCardinality
<1>4. Cardinality(lost) <= Cardinality(Range(buffer)) /\ Cardinality(lost) \in Nat
  BY <1>1, <1>3, FS_Subset, FS_CardinalityType
<1>5. Cardinality(lost) < Chunk
  BY <1>2, <1>3, <1>4, BulkAssumption
<1> QED
  BY <1>5 DEF LossIsPartOfAChunk

(* An empty buffer is shorter than a chunk.                                *)
LEMMA NothingLost ==
  Cardinality({}) = 0 /\ 0 < Chunk
  BY FS_EmptySet, BulkAssumption

(* The initial states.                                                     *)
LEMMA InitIInv == Init => IInv
<1> SUFFICES ASSUME Init PROVE IInv
  OBVIOUS
<1>1. BulkInv
  BY BulkInitInv DEF Init
<1>2. RecvTypeOK
  <2>1. runs \in 0..MaxRuns
    BY IngestAssumption DEF Init
  <2>2. queue \in [Items -> {"ready", "hidden", "gone"}]
    BY DEF Init
  <2> QED
    BY <2>1, <2>2 DEF Init, RecvTypeOK
<1>3. InCall /\ DeletedTaken
  BY DEF Init, BulkInit, InCall, DeletedTaken
<1>4. deleted \ (stored \union Range(buffer) \union errors) = {}
  BY DEF Init
<1>5. LossIsPartOfAChunk
  BY <1>4, NothingLost DEF LossIsPartOfAChunk
<1> QED
  BY <1>1, <1>2, <1>3, <1>5 DEF IInv

(* A new process.                                                          *)
LEMMA StartIInv ==
  ASSUME IInv, Start
  PROVE  IInv'
<1>1. BulkInv'
  BY BulkStartInv DEF IInv, BulkInv, Start, confVars
<1>2. RecvTypeOK'
  <2>1. runs' \in 0..MaxRuns
    BY IngestAssumption DEF IInv, RecvTypeOK, Start
  <2> QED
    BY <2>1 DEF IInv, RecvTypeOK, Start, confVars
<1>3. InCall' /\ DeletedTaken'
  BY DEF Start, BulkStart, InCall, DeletedTaken
<1>4. deleted' \ (stored' \union Range(buffer') \union errors') = {}
  BY DEF Start
<1>5. LossIsPartOfAChunk'
  BY <1>4, NothingLost DEF LossIsPartOfAChunk
<1> QED
  BY <1>1, <1>2, <1>3, <1>5 DEF IInv

(* The receiver returns.                                                   *)
LEMMA ExhaustedIInv ==
  ASSUME IInv, Exhausted
  PROVE  IInv'
<1>1. BulkInv' /\ Advances /\ UNCHANGED taken /\ bulk' \in {"nil", "error"}
  BY BulkEndInv DEF Exhausted, IInv, confVars
<1>2. RecvTypeOK'
  BY DEF IInv, RecvTypeOK, Exhausted, confVars, recvVars
<1>3. InCall' /\ DeletedTaken'
  BY <1>1 DEF IInv, InCall, DeletedTaken, Exhausted, recvVars
<1>4. LossIsPartOfAChunk'
  BY <1>1, LossKept DEF IInv, DeletedTaken, Exhausted, BulkEnd, recvVars
<1> QED
  BY <1>1, <1>2, <1>3, <1>4 DEF IInv

(* A pair without an item: an error of the input or of the queue.          *)
LEMMA ErrorIInv ==
  ASSUME IInv, NEW at \in {"pull", "batch"}, TakeError, Resume(at),
         UNCHANGED <<confVars, runs, queue, current, deleted, ctxDone>>,
         unread' \subseteq Items, stuck' \in BOOLEAN, batch' \subseteq Items
  PROVE  IInv'
<1>1. BulkInv' /\ Advances /\ UNCHANGED taken /\ bulk' \in {"running", "error"}
  BY TakeErrorInv DEF IInv, confVars
<1>2. RecvTypeOK'
  BY DEF IInv, RecvTypeOK, Resume, confVars
<1>3. InCall' /\ DeletedTaken'
  BY <1>1 DEF IInv, InCall, DeletedTaken, Resume
<1>4. LossIsPartOfAChunk'
  BY <1>1, LossKept DEF IInv, DeletedTaken, TakeError
<1> QED
  BY <1>1, <1>2, <1>3, <1>4 DEF IInv

(* A pair with an item; sqs remembers which message it came from.          *)
LEMMA ItemIInv ==
  ASSUME IInv, NEW at \in {"pull", "ack"}, NEW i \in Items, TakeItem(i), Resume(at),
         UNCHANGED <<confVars, runs, stuck, queue, deleted, ctxDone>>,
         unread' \subseteq Items, batch' \subseteq Items,
         current' \subseteq current \union {i}
  PROVE  IInv'
<1>1. /\ BulkInv' /\ Advances
      /\ taken' = taken \union {i} /\ bulk' \in {"running", "error"}
  BY TakeItemInv DEF IInv, confVars
<1>2. RecvTypeOK'
  BY DEF IInv, RecvTypeOK, Resume, confVars
<1>3. InCall' /\ DeletedTaken'
  BY <1>1 DEF IInv, InCall, DeletedTaken, Resume
<1>4. LossIsPartOfAChunk'
  BY <1>1, LossKept DEF IInv, DeletedTaken, TakeItem
<1> QED
  BY <1>1, <1>2, <1>3, <1>4 DEF IInv

(* Steps of a running process outside the call.                            *)
LEMMA OutsideIInv ==
  ASSUME IInv, pc # "off", UNCHANGED bulkVars, UNCHANGED confVars, RecvTypeOK',
         ctxDone' \in BOOLEAN, pc' # "off",
         current' \subseteq current, deleted' \subseteq deleted \union current
  PROVE  IInv'
<1>1. BulkInv' /\ Advances
  BY StillInv DEF IInv, confVars
<1>2. InCall' /\ DeletedTaken'
  BY DEF IInv, InCall, DeletedTaken, bulkVars
<1>3. LossIsPartOfAChunk'
  BY <1>1, LossKept DEF IInv, DeletedTaken, InCall
<1> QED
  BY <1>1, <1>2, <1>3 DEF IInv

(* Nothing but the visibility of a message changes.                        *)
LEMMA IdleIInv ==
  ASSUME IInv, queue' \in [Items -> {"ready", "hidden", "gone"}],
         UNCHANGED <<confVars, pc, runs, unread, stuck, batch, current, deleted,
                     ctxDone, bulkVars>>
  PROVE  IInv'
<1>1. BulkInv'
  BY StillInv DEF IInv, BulkInv, BulkTypeOK, confVars
<1>2. RecvTypeOK'
  BY DEF IInv, RecvTypeOK, confVars
<1>3. InCall' /\ DeletedTaken' /\ LossIsPartOfAChunk'
  BY DEF IInv, InCall, DeletedTaken, LossIsPartOfAChunk, bulkVars
<1> QED
  BY <1>1, <1>2, <1>3 DEF IInv

(* A killed one.                                                           *)
LEMMA KillIInv ==
  ASSUME IInv, Kill
  PROVE  IInv'
<1>1. BulkInv' /\ Advances
  BY KilledInv DEF Kill, IInv, confVars
<1>2. RecvTypeOK'
  BY DEF IInv, RecvTypeOK, Kill, confVars, recvVars
<1>3. InCall' /\ DeletedTaken'
  BY DEF IInv, InCall, DeletedTaken, Kill, recvVars
<1>4. LossIsPartOfAChunk'
  BY <1>1, LossKept DEF IInv, InCall, DeletedTaken, Kill, recvVars
<1> QED
  BY <1>1, <1>2, <1>3, <1>4 DEF IInv

(* One step of the receiver or of the call.                                *)
LEMMA WorkIInv ==
  ASSUME IInv, Work
  PROVE  IInv'
<1> USE DEF recvVars
<1>1. CASE ContextSeen \/ InputEnds \/ ReceivesNothing
  BY <1>1, ExhaustedIInv DEF ContextSeen, InputEnds, ReceivesNothing
<1>2. CASE DecoderStuck
  <2>1. RecvTypeOK'
    BY <1>2 DEF IInv, RecvTypeOK, DecoderStuck, confVars
  <2> QED
    BY <1>2, <2>1, OutsideIInv DEF DecoderStuck, IInv, BulkInv, BulkTypeOK
<1>3. CASE YieldsAgain
  BY <1>3, ErrorIInv DEF YieldsAgain, IInv, RecvTypeOK
<1>4. ASSUME NEW i \in Items, ReadsItem(i) PROVE IInv'
  BY <1>4, ItemIInv DEF ReadsItem, IInv, RecvTypeOK
<1>5. ASSUME NEW i \in Items, ReadsError(i) PROVE IInv'
  BY <1>5, ErrorIInv DEF ReadsError, IInv, RecvTypeOK
<1>6. CASE ReceiveFails
  BY <1>6, ErrorIInv DEF ReceiveFails, IInv, RecvTypeOK
<1>7. ASSUME NEW msgs \in SUBSET Items, Receives(msgs) PROVE IInv'
  <2>1. RecvTypeOK'
    BY <1>7 DEF IInv, RecvTypeOK, Receives, confVars
  <2> QED
    BY <1>7, <2>1, OutsideIInv DEF Receives, IInv, BulkInv, BulkTypeOK
<1>8. ASSUME NEW m \in Items, MessageUnparsed(m) PROVE IInv'
  BY <1>8, ErrorIInv DEF MessageUnparsed, IInv, RecvTypeOK
<1>9. ASSUME NEW m \in Items, MessageYielded(m) PROVE IInv'
  BY <1>9, ItemIInv DEF MessageYielded, IInv, RecvTypeOK
<1>10. CASE MessageDeleted
  <2>1. queue' \in [Items -> {"ready", "hidden", "gone"}]
    BY <1>10 DEF MessageDeleted, IInv, RecvTypeOK
  <2>2. RecvTypeOK'
    BY <1>10, <2>1 DEF IInv, RecvTypeOK, MessageDeleted, confVars
  <2> QED
    BY <1>10, <2>2, OutsideIInv DEF MessageDeleted, IInv, BulkInv, BulkTypeOK
<1>11. CASE BatchDone
  <2>1. RecvTypeOK'
    BY <1>11 DEF IInv, RecvTypeOK, BatchDone, confVars
  <2> QED
    BY <1>11, <2>1, OutsideIInv DEF BatchDone, IInv, BulkInv, BulkTypeOK
<1> QED
  BY <1>1, <1>2, <1>3, <1>4, <1>5, <1>6, <1>7, <1>8, <1>9, <1>10, <1>11 DEF Work

(* Every step keeps the invariant.                                         *)
LEMMA NextIInv == IInv /\ [Next]_vars => IInv'
<1> SUFFICES ASSUME IInv, [Next]_vars PROVE IInv'
  OBVIOUS
<1>1. CASE Start
  BY <1>1, StartIInv
<1>2. CASE Work
  BY <1>2, WorkIInv
<1>3. CASE Interrupt
  <2>1. RecvTypeOK'
    BY <1>3 DEF IInv, RecvTypeOK, Interrupt, confVars, recvVars
  <2> QED
    BY <1>3, <2>1, OutsideIInv DEF Interrupt, recvVars
<1>4. CASE Kill
  BY <1>4, KillIInv
<1>5. ASSUME NEW m \in Items, VisibilityTimeout(m) PROVE IInv'
  <2>1. queue' \in [Items -> {"ready", "hidden", "gone"}]
    BY <1>5 DEF VisibilityTimeout, IInv, RecvTypeOK
  <2> QED
    BY <1>5, <2>1, IdleIInv DEF VisibilityTimeout
<1>6. CASE UNCHANGED vars
  BY <1>6, IdleIInv DEF vars, recvVars, IInv, RecvTypeOK
<1> QED
  BY <1>1, <1>2, <1>3, <1>4, <1>5, <1>6 DEF Next

----------------------------------------------------------------------------
(* Every reachable state of the command satisfies the inductive invariant. *)
THEOREM Invariance == Spec => []IInv
  BY InitIInv, NextIInv, PTL DEF Spec

(* The variables keep their types; in particular a chunk is flushed before *)
(* it exceeds its size.                                                    *)
THEOREM TypeCorrect == Spec => []TypeOK
<1>1. IInv => TypeOK
  BY TypesAgree DEF IInv, BulkInv
<1> QED
  BY <1>1, Invariance, PTL

(* BulkUpsertItems that returns nil has counted every pair once.           *)
THEOREM PairsCounted == Spec => []EveryPairCounted
<1>1. IInv => EveryPairCounted
  <2> SUFFICES ASSUME IInv, bulk = "nil", pairs < MaxCount
               PROVE  succeeded + failed = pairs
    BY DEF EveryPairCounted
  <2>1. buffer = <<>>
    BY DEF IInv, BulkInv, Splits, NilIsFlushed
  <2>2. succeeded + failed + Len(buffer) = pairs /\ Len(buffer) = 0
    BY <2>1, RangeEmpty DEF IInv, BulkInv, Splits, PairSplit, Unbroken
  <2>3. succeeded \in 0..MaxCount /\ failed \in 0..MaxCount
    BY DEF IInv, BulkInv, BulkTypeOK
  <2> QED
    BY <2>2, <2>3
<1> QED
  BY <1>1, Invariance, PTL

(* ... and has stored or named every item it took.                         *)
THEOREM ItemsAnswered == Spec => []EveryItemAnswered
<1>1. IInv => EveryItemAnswered
  BY RangeEmpty DEF IInv, BulkInv, Splits, NilIsFlushed, ItemSplit, Unbroken,
                    EveryItemAnswered
<1> QED
  BY <1>1, Invariance, PTL

(* A command that exits without an error or a failure has stored every     *)
(* message that it deleted from the queue.                                 *)
THEOREM DeletedStored == Spec => []SuccessMeansStored
<1>1. IInv => SuccessMeansStored
  <2> SUFFICES ASSUME IInv, bulk = "nil", failed = 0 PROVE deleted \subseteq stored
    BY DEF SuccessMeansStored
  <2>1. errors = {}
    BY DEF IInv, BulkInv, Splits, NamedIsCounted
  <2>2. taken \subseteq stored
    BY <2>1, RangeEmpty DEF IInv, BulkInv, Splits, NilIsFlushed, ItemSplit, Unbroken
  <2> QED
    BY <2>2 DEF IInv, DeletedTaken
<1> QED
  BY <1>1, Invariance, PTL

(* However a run ends, the messages it deleted without storing or naming   *)
(* them are fewer than a chunk.                                            *)
THEOREM LossBounded == Spec => []LossIsPartOfAChunk
<1>1. IInv => LossIsPartOfAChunk
  BY DEF IInv
<1> QED
  BY <1>1, Invariance, PTL
=============================================================================
