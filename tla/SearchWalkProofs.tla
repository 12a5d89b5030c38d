-------------------------- MODULE SearchWalkProofs --------------------------
(***************************************************************************)
(* Proofs about SearchWalk, for every set of keys, page size, sort clause  *)
(* and number of writes.  Keyset pages: what is kept and was not returned  *)
(* yet lies after the last item returned.  Offset pages: a removal moves   *)
(* at most one item across the offset, unread, and an addition at most one *)
(* back, read.                                                             *)
(***************************************************************************)
EXTENDS SearchWalk, SequenceLemmas

(* The items there are and were: finitely many at a time, and the history  *)
(* variables say of them what their names say.                             *)
StoreInv == /\ IsFiniteSet(store) /\ kept \subseteq store
            /\ store \subseteq known /\ known \subseteq Docs
            /\ added + removed = 0 => kept = store

(* A keyset walk: the items returned are in order, the token is the place  *)
(* of the last one, and what was kept is among them or behind it.          *)
KeysetInv ==
  backend # "inmem" /\ Reliable =>
    /\ walk \in {"on", "over"}
    /\ \A i \in DOMAIN got : got[i] \in known
    /\ \A i, j \in DOMAIN got : i < j => Precedes(got[i], got[j])
    /\ walk = "on" => token = IF got = <<>> THEN NoToken ELSE Cursor(got[Len(got)])
    /\ \A d \in kept : \/ \E i \in DOMAIN got : got[i] = d
                       \/ /\ walk = "on"
                          /\ got # <<>> => Precedes(got[Len(got)], d)

(* An offset walk: the items before the offset are those it has passed.    *)
Before(d) == {e \in store : Precedes(e, d)}
Passed == IF walk = "over" THEN store
          ELSE {d \in store : Cardinality(Before(d)) < token.at}
Missed == {d \in kept \cap Passed : Times(d) = 0}
Repeated == {d \in kept : Times(d) > 1 \/ (Times(d) = 1 /\ d \notin Passed)}
OffsetInv ==
  backend = "inmem" /\ Reliable => /\ Cardinality(Missed) <= removed
                                   /\ Cardinality(Repeated) <= added

(* ... and the offset lies past the end only after two removals.           *)
OffsetBound ==
  backend = "inmem" =>
    /\ walk = "on" => token.at = 0 \/ token.at + 1 <= Cardinality(store) + removed
    /\ walk = "panic" => removed > 1

IInv == TypeOK /\ StoreInv /\ KeysetInv /\ OffsetInv /\ OffsetBound

----------------------------------------------------------------------------
(* The order of a listing                                                  *)

(* The fields of an item.                                                  *)
LEMMA DocFields ==
  ASSUME NEW d \in Docs
  PROVE  /\ d.id \in Nat \ {0} /\ d.val \in 0..MaxVal /\ MaxVal \in Nat
         /\ d.id \in {k.id : k \in Keys}
         /\ d = [col |-> d.col, id |-> d.id, val |-> d.val]
  BY WalkAssumption DEF Docs

(* What a clause compares is a number.                                     *)
LEMMA KeyType ==
  ASSUME NEW d \in Docs
  PROVE  Key(d) \in Int
<1>1. d.id \in Int /\ d.val \in Int /\ MaxVal + 1 \in Int
  BY DocFields
<1> QED
  BY <1>1 DEF Key

(* Where pages are reliable, the order is lexicographic: the clause, then  *)
(* the id.                                                                 *)
LEMMA PrecedesIsLexicographic ==
  ASSUME StoreInv, Reliable, NEW d \in known, NEW e \in known
  PROVE  Precedes(d, e) <=> \/ Key(d) < Key(e)
                            \/ Key(d) = Key(e) /\ d.id < e.id
<1>1. Comparable(d, e)
  BY DEF Reliable, Comparable
<1> QED
  BY <1>1 DEF Precedes

(* ... so it is strict and transitive,                                     *)
LEMMA PrecedesIsStrict ==
  ASSUME StoreInv, Reliable
  PROVE  /\ \A d \in known : ~Precedes(d, d)
         /\ \A d, e, f \in known : Precedes(d, e) /\ Precedes(e, f) => Precedes(d, f)
<1>1. \A d \in known : Key(d) \in Int /\ d.id \in Int
  BY KeyType, DocFields DEF StoreInv
<1>2. \A d, e \in known : Precedes(d, e) <=> \/ Key(d) < Key(e)
                                             \/ Key(d) = Key(e) /\ d.id < e.id
  BY PrecedesIsLexicographic
<1> QED
  BY <1>1, <1>2

(* ... and total on what is stored at one time.                            *)
LEMMA PrecedesIsTotal ==
  ASSUME TypeOK, StoreInv, Reliable, NEW d \in store, NEW e \in store, d # e
  PROVE  Precedes(d, e) \/ Precedes(e, d)
<1>1. d \in known /\ e \in known
  BY DEF StoreInv
<1>2. Key(d) \in Int /\ Key(e) \in Int /\ d.id \in Int /\ e.id \in Int
  BY <1>1, KeyType, DocFields DEF StoreInv
<1>3. d.id # e.id
  BY <1>1 DEF TypeOK, OneKeyEach, SameKey, Reliable
<1> QED
  BY <1>1, <1>2, <1>3, PrecedesIsLexicographic

(* The order does not depend on the items.                                 *)
LEMMA OrderStays ==
  ASSUME UNCHANGED reqVars, NEW d, NEW e
  PROVE  /\ Precedes(d, e)' <=> Precedes(d, e)
         /\ Field' = Field
<1>1. Field' = Field /\ Desc' = Desc /\ backend' = backend
  BY DEF reqVars, Field, Desc
<1>2. Key(d)' = Key(d) /\ Key(e)' = Key(e)
  BY <1>1 DEF Key
<1>3. Comparable(d, e)' <=> Comparable(d, e)
  BY <1>1 DEF Comparable
<1> QED
  BY <1>1, <1>2, <1>3 DEF Precedes

(* The next state is reliable only if this one is.                         *)
LEMMA ReliableBefore ==
  ASSUME UNCHANGED reqVars, known \subseteq known', Reliable'
  PROVE  Reliable
<1>1. Field' = Field /\ backend' = backend
  BY OrderStays DEF reqVars
<1> QED
  BY <1>1 DEF Reliable, TokensSurvive

(* A listing holds every element once.                                     *)
LEMMA ListingIsBijection ==
  ASSUME NEW T, IsFiniteSet(T), NEW l \in Listings(T)
  PROVE  /\ Cardinality(T) \in Nat /\ Len(l) = Cardinality(T)
         /\ l \in Seq(T) /\ DOMAIN l = 1..Len(l)
         /\ \A i \in 1..Len(l) : l[i] \in T
         /\ \A d \in T : \E i \in 1..Len(l) : l[i] = d
         /\ \A i, j \in 1..Len(l) : l[i] = l[j] => i = j
         /\ \A i \in 1..(Len(l) - 1) : ~Precedes(l[i + 1], l[i])
<1> DEFINE n == Cardinality(T)
<1>1. n \in Nat
  BY FS_CardinalityType
<1>2. /\ l \in [1..n -> T] /\ Range(l) = T
      /\ \A i \in 1..(n - 1) : ~Precedes(l[i + 1], l[i])
  BY DEF Listings
<1>3. l \in Seq(T) /\ Len(l) = n
  BY <1>1, <1>2
<1>4. l \in Surjection(1..n, T)
  BY <1>2 DEF Range, Surjection
<1>5. IsFiniteSet(1..n) /\ Cardinality(1..n) = n
  BY <1>1, FS_Interval
<1>6. l \in Injection(1..n, T)
  BY <1>4, <1>5, FS_SurjSameCardinalityImpliesInj
<1>7. \A i, j \in 1..n : l[i] = l[j] => i = j
  BY <1>6 DEF Injection, IsInjective
<1> QED
  BY <1>1, <1>2, <1>3, <1>4, <1>7 DEF Surjection

(* Where pages are reliable, it is sorted.                                 *)
LEMMA ListingIsSorted ==
  ASSUME TypeOK, StoreInv, Reliable, NEW T, T \subseteq store, NEW l \in Listings(T),
         NEW i \in 1..Len(l), NEW j \in 1..Len(l), i < j
  PROVE  Precedes(l[i], l[j])
<1> DEFINE n == Len(l)
           Bad == {k \in 1..n : i < k /\ ~Precedes(l[i], l[k])}
<1>1. IsFiniteSet(T)
  BY FS_Subset DEF StoreInv
<1>2. /\ n \in Nat
      /\ \A k \in 1..n : l[k] \in store /\ l[k] \in known
      /\ \A k, m \in 1..n : l[k] = l[m] => k = m
      /\ \A k \in 1..(n - 1) : ~Precedes(l[k + 1], l[k])
  BY <1>1, ListingIsBijection DEF StoreInv
<1>3. \A k \in 1..n : k + 1 \in 1..n => Precedes(l[k], l[k + 1])
  <2>1. SUFFICES ASSUME NEW k \in 1..n, k + 1 \in 1..n
                 PROVE  Precedes(l[k], l[k + 1])
    OBVIOUS
  <2>2. l[k] # l[k + 1] /\ ~Precedes(l[k + 1], l[k])
    BY <1>2, <2>1
  <2> QED
    BY <1>2, <2>1, <2>2, PrecedesIsTotal
<1>4. SUFFICES ASSUME Bad # {} PROVE FALSE
  OBVIOUS
<1>5. Bad \subseteq Nat
  BY <1>2
<1>6. PICK k \in Bad : \A m \in Bad : k <= m
  BY <1>4, <1>5, LeastNatural, Zenon
<1>7. k \in 1..n /\ i < k /\ ~Precedes(l[i], l[k])
  OBVIOUS
<1>8. CASE k = i + 1
  BY <1>3, <1>7, <1>8
<1>9. CASE k # i + 1
  <2>1. k - 1 \in 1..n /\ i < k - 1 /\ (k - 1) + 1 = k
    BY <1>2, <1>7, <1>9
  <2>2. Precedes(l[i], l[k - 1])
    BY <1>6, <2>1
  <2>3. Precedes(l[k - 1], l[k])
    BY <1>3, <1>7, <2>1
  <2> QED
    BY <1>2, <1>7, <2>1, <2>2, <2>3, PrecedesIsStrict
<1> QED
  BY <1>8, <1>9

----------------------------------------------------------------------------
(* The pages                                                               *)

(* The items of a page are consecutive in the listing.                     *)
LEMMA PageOf ==
  ASSUME NEW T, NEW l \in Seq(T), NEW b \in 0..Len(l), NEW a \in 0..b
  PROVE  /\ SubSeq(l, a + 1, b) \in Seq(T)
         /\ Len(SubSeq(l, a + 1, b)) = b - a
         /\ \A j \in 1..(b - a) : SubSeq(l, a + 1, b)[j] = l[a + j]
<1>1. Len(l) \in Nat /\ \A i \in 1..Len(l) : l[i] \in T
  BY LenProperties, ElementOfSeq
<1>2. /\ a + 1 \in Int /\ b \in Int /\ \A i \in (a + 1)..b : l[i] \in T
      /\ b - (a + 1) + 1 = b - a /\ a \in Int
  BY <1>1
<1>3. /\ SubSeq(l, a + 1, b) \in Seq(T)
      /\ Len(SubSeq(l, a + 1, b)) = IF a + 1 <= b THEN b - (a + 1) + 1 ELSE 0
      /\ \A j \in 1..(b - (a + 1) + 1) : SubSeq(l, a + 1, b)[j] = l[(a + 1) + j - 1]
  BY <1>2, SubSeqProperties
<1>4. \A j \in 1..(b - a) : (a + 1) + j - 1 = a + j
  BY <1>2
<1> QED
  BY <1>2, <1>3, <1>4

(* What the query of a keyset page selects.                                *)
After(d) == IF backend = "spatialite" THEN keysetWhere(d) ELSE searchAfter(d)

(* The tokens that may be made from an item.                               *)
Tokens(d) == IF backend = "spatialite" THEN {Cursor(d)} ELSE SortTokens(d)

(* A keyset page is the beginning of a listing of what the query selects;  *)
(* its token is made from its last item, unless the listing ends.          *)
LEMMA KeysetPages ==
  ASSUME TypeOK, StoreInv, backend # "inmem", NEW p \in Pages
  PROVE  \E l \in Listings({d \in store : After(d)}) : \E n \in 0..Len(l) :
           /\ p.items = SubSeq(l, 1, n)
           /\ \/ n = Len(l) /\ p.next = NoToken
              \/ n >= 1 /\ p.next \in Tokens(l[n])
<1> DEFINE T == {d \in store : After(d)}
           IsPage(l, n) == /\ p.items = SubSeq(l, 1, n)
                           /\ \/ n = Len(l) /\ p.next = NoToken
                              \/ n >= 1 /\ p.next \in Tokens(l[n])
<1> SUFFICES \E l \in Listings(T) : \E n \in 0..Len(l) : IsPage(l, n)
  OBVIOUS
<1>1. IsFiniteSet(T)
  BY FS_Subset DEF StoreInv
<1> HIDE DEF T, IsPage
<1>2. limit \in Nat \ {0} /\ backend \in {"spatialite", "opensearch"}
  BY WalkAssumption DEF TypeOK
<1>3. CASE backend = "spatialite"
  <2>1. T = {d \in store : keysetWhere(d)}
    BY <1>3 DEF After, T
  <2>2. PICK l \in Listings(T) : p = KeysetPage(l)
    BY <1>3, <2>1 DEF Pages
  <2>3. l \in Seq(T) /\ Len(l) \in Nat
    BY <1>1, ListingIsBijection
  <2>4. CASE Len(l) > limit
    <3>1. p.items = SubSeq(l, 1, limit) /\ p.next = Cursor(l[limit])
      BY <2>2, <2>4 DEF KeysetPage
    <3>2. limit \in 0..Len(l) /\ limit >= 1
      BY <1>2, <2>3, <2>4
    <3> QED
      BY <1>3, <3>1, <3>2 DEF IsPage, Tokens
  <2>5. CASE ~(Len(l) > limit)
    <3>1. p.items = l /\ p.next = NoToken
      BY <2>2, <2>5 DEF KeysetPage
    <3>2. SubSeq(l, 1, Len(l)) = l
      BY <2>3, SubSeqFull
    <3>3. Len(l) \in 0..Len(l)
      BY <2>3
    <3> QED
      BY <3>1, <3>2, <3>3 DEF IsPage
  <2> QED
    BY <2>4, <2>5
<1>4. CASE backend = "opensearch"
  <2>1. T = {d \in store : searchAfter(d)}
    BY <1>4 DEF After, T
  <2>2. PICK l \in Listings(T) : p \in SearchAfterPages(l)
    BY <1>4, <2>1 DEF Pages
  <2>3. l \in Seq(T) /\ Len(l) \in Nat
    BY <1>1, ListingIsBijection
  <2> DEFINE n == IF Len(l) > limit THEN limit ELSE Len(l)
  <2>4. /\ p.items = SubSeq(l, 1, n)
        /\ p.next \in IF n = 0 THEN {NoToken} ELSE Tokens(l[n])
    BY <1>4, <2>2 DEF SearchAfterPages, Tokens
  <2>5. n \in 0..Len(l) /\ (n = 0 => n = Len(l)) /\ (n # 0 => n >= 1)
    BY <1>2, <2>3
  <2> HIDE DEF n
  <2>6. IsPage(l, n)
    BY <2>4, <2>5 DEF IsPage
  <2> QED
    BY <2>5, <2>6
<1> QED
  BY <1>2, <1>3, <1>4

(* Where pages are reliable, that token is the cursor of the item.         *)
LEMMA TokenIsCursor ==
  ASSUME TypeOK, StoreInv, backend # "inmem", Reliable, NEW d \in known
  PROVE  Tokens(d) = {Cursor(d)}
<1>1. CASE backend = "spatialite"
  BY <1>1 DEF Tokens
<1>2. CASE backend = "opensearch"
  <2>1. /\ Field # "id"    => d.val # 0
        /\ Field = "other" => d.val <= MaxExact
    BY <1>2 DEF Reliable, TokensSurvive
  <2>2. d.val \in 0..MaxVal /\ MaxExact \in Nat \ {0} /\ MaxVal \in Nat
    BY DocFields, WalkAssumption DEF StoreInv
  <2>3. Field \in {"id", "datetime", "other"}
    BY <1>2, WalkAssumption DEF TypeOK, Field
  <2>4. CASE Field = "id"
    BY <1>2, <2>4 DEF Tokens, SortTokens
  <2>5. CASE Field = "datetime"
    BY <1>2, <2>1, <2>5 DEF Tokens, SortTokens
  <2>6. CASE Field = "other"
    <3>1. d.val \in 1..MaxExact /\ d.val # 0 /\ ~(d.val > MaxExact)
      BY <2>1, <2>2, <2>6
    <3> QED
      BY <1>2, <2>6, <3>1 DEF Tokens, SortTokens
  <2> QED
    BY <2>3, <2>4, <2>5, <2>6
<1> QED
  BY <1>1, <1>2, WalkAssumption DEF TypeOK

(* ... so a page ends with the cursor of its last item.                    *)
LEMMA ReliablePages ==
  ASSUME TypeOK, StoreInv, backend # "inmem", Reliable, NEW p \in Pages
  PROVE  \E l \in Listings({d \in store : After(d)}) : \E n \in 0..Len(l) :
           /\ p.items = SubSeq(l, 1, n)
           /\ \/ n = Len(l) /\ p.next = NoToken
              \/ n >= 1 /\ p.next = Cursor(l[n])
<1> DEFINE T == {d \in store : After(d)}
<1>1. IsFiniteSet(T) /\ T \subseteq known
  BY FS_Subset DEF StoreInv
<1>2. \E l \in Listings(T) : \E n \in 0..Len(l) :
        /\ p.items = SubSeq(l, 1, n)
        /\ \/ n = Len(l) /\ p.next = NoToken
           \/ n >= 1 /\ p.next \in Tokens(l[n])
  BY KeysetPages, Zenon
<1> HIDE DEF T
<1>3. PICK l \in Listings(T) : \E n \in 0..Len(l) :
        /\ p.items = SubSeq(l, 1, n)
        /\ \/ n = Len(l) /\ p.next = NoToken
           \/ n >= 1 /\ p.next \in Tokens(l[n])
  BY <1>2
<1>4. PICK n \in 0..Len(l) :
        /\ p.items = SubSeq(l, 1, n)
        /\ \/ n = Len(l) /\ p.next = NoToken
           \/ n >= 1 /\ p.next \in Tokens(l[n])
  BY <1>3
<1>5. n >= 1 => l[n] \in known
  BY <1>1, ListingIsBijection
<1>6. n >= 1 => Tokens(l[n]) = {Cursor(l[n])}
  BY <1>5, TokenIsCursor
<1>7. \/ n = Len(l) /\ p.next = NoToken
      \/ n >= 1 /\ p.next = Cursor(l[n])
  BY <1>4, <1>6
<1> QED
  BY <1>3, <1>4, <1>7 DEF T

(* Where pages are reliable, the query of a token selects what comes after *)
(* the item the token was made from.                                       *)
LEMMA AfterIsBehind ==
  ASSUME TypeOK, StoreInv, backend # "inmem", Reliable,
         NEW g \in known, token = Cursor(g), NEW d \in store
  PROVE  After(d) <=> Precedes(g, d)
<1>1. d \in known /\ g \in Docs /\ d \in Docs
  BY DEF StoreInv
<1>2. /\ token \notin {NoToken, OutOfRange} /\ token.val = g.val /\ token.id = g.id
  BY DEF Cursor, NoToken, OutOfRange
<1>3. /\ d.id \in Int /\ g.id \in Int /\ d.val \in 0..MaxVal /\ g.val \in 0..MaxVal
      /\ MaxVal \in Int
  BY <1>1, DocFields
<1>4. Precedes(g, d) <=> \/ Key(g) < Key(d)
                         \/ Key(g) = Key(d) /\ g.id < d.id
  BY <1>1, PrecedesIsLexicographic
<1>5. CASE backend = "spatialite"
  <2>1. Field \in {"datetime", "id"}
    BY <1>5, WalkAssumption DEF Reliable, Field, TypeOK
  <2>2. CASE Field = "datetime"
    <3>1. d.val # 0
      BY <1>1, <1>5, <2>2 DEF Reliable
    <3> QED
      BY <1>2, <1>3, <1>4, <1>5, <2>2, <3>1 DEF After, keysetWhere, Key
  <2>3. CASE Field = "id"
    BY <1>2, <1>3, <1>4, <1>5, <2>3 DEF After, keysetWhere, Key
  <2> QED
    BY <2>1, <2>2, <2>3
<1>6. CASE backend = "opensearch"
  <2>1. Key(token) = Key(g)
    BY <1>2 DEF Key
  <2>2. CASE Field = "id"
    BY <1>2, <1>3, <1>4, <1>6, <2>1, <2>2 DEF After, searchAfter, Key
  <2>3. CASE Field # "id"
    <3>1. Key(g) \in Int /\ Key(d) \in Int
      BY <1>1, KeyType
    <3> QED
      BY <1>2, <1>3, <1>4, <1>6, <2>1, <2>3, <3>1 DEF After, searchAfter
  <2> QED
    BY <2>2, <2>3
<1> QED
  BY <1>5, <1>6, WalkAssumption DEF TypeOK

(* An offset page begins at the token and ends at the next token.          *)
LEMMA OffsetPages ==
  ASSUME TypeOK, StoreInv, backend = "inmem", token.at <= Cardinality(store),
         NEW p \in Pages
  PROVE  \E l \in Listings(store) : \E e \in token.at..Len(l) :
           /\ p.items = SubSeq(l, token.at + 1, e)
           /\ \/ e = Len(l) /\ p.next = NoToken
              \/ e < Len(l) /\ p.next = [at |-> e, val |-> 0, id |-> 0]
                 /\ p.next # NoToken
<1>1. PICK l \in Listings(store) : p = OffsetPage(l)
  BY DEF Pages
<1>2. Len(l) \in Nat /\ token.at \in Nat /\ token.at <= Len(l) /\ limit \in Nat \ {0}
  BY ListingIsBijection, WalkAssumption DEF TypeOK, StoreInv
<1> DEFINE e == IF token.at + limit > Len(l) THEN Len(l) ELSE token.at + limit
<1>3. [NoToken EXCEPT !.at = e] = [at |-> e, val |-> 0, id |-> 0]
  BY DEF NoToken
<1>4. /\ p.items = SubSeq(l, token.at + 1, e)
      /\ p.next = IF e < Len(l) THEN [NoToken EXCEPT !.at = e] ELSE NoToken
  BY <1>1 DEF OffsetPage
<1>5. /\ e \in token.at..Len(l) /\ (e < Len(l) => e # 0)
      /\ ~(e < Len(l)) => e = Len(l)
  BY <1>2
<1>6. [at |-> e, val |-> 0, id |-> 0] = NoToken => e = 0
  BY DEF NoToken
<1> HIDE DEF e
<1> QED
  BY <1>3, <1>4, <1>5, <1>6

----------------------------------------------------------------------------
(* A page is fetched                                                       *)

(* The initial states.                                                     *)
LEMMA InitInv == Init => IInv
<1> SUFFICES ASSUME Init PROVE IInv
  OBVIOUS
<1>1. /\ got = <<>> /\ <<>> \in Seq(Docs) /\ DOMAIN got = {} /\ added = 0 /\ removed = 0
      /\ walk = "on" /\ token = NoToken /\ kept = store /\ known = store
      /\ IsFiniteSet(store) /\ OneKeyEach(store) /\ store \subseteq Docs
  BY EmptySeq DEF Init
<1>2. TypeOK
  <2>1. token \in [at : Nat, val : 0..MaxVal, id : {k.id : k \in Keys} \union {0}]
    BY <1>1, WalkAssumption DEF NoToken
  <2>2. PICK b \in Bounds : /\ backend = b.backend
                            /\ quota = [upserts |-> b.upserts, deletes |-> b.deletes]
    BY DEF Init
  <2>3. quota \in [upserts : 0..b.upserts, deletes : 0..b.deletes]
    BY <2>2, WalkAssumption
  <2> QED
    BY <1>1, <2>1, <2>2, <2>3 DEF Init, TypeOK
<1>3. StoreInv /\ KeysetInv /\ OffsetBound
  BY <1>1 DEF StoreInv, KeysetInv, OffsetBound, NoToken
<1>4. \A d : Times(d) = 0
  <2>1. \A d : {i \in DOMAIN got : got[i] = d} = {}
    BY <1>1
  <2> QED
    BY <2>1, FS_EmptySet DEF Times
<1>5. Repeated = {}
  BY <1>4 DEF Repeated
<1>6. Passed = {}
  <2>1. ASSUME NEW d \in store PROVE ~(Cardinality(Before(d)) < token.at)
    <3>1. IsFiniteSet(Before(d))
      BY <1>1, FS_Subset DEF Before
    <3> QED
      BY <1>1, <3>1, FS_CardinalityType DEF NoToken
  <2> QED
    BY <1>1, <2>1 DEF Passed
<1>7. Missed = {}
  BY <1>6 DEF Missed
<1>8. OffsetInv
  BY <1>1, <1>5, <1>7, FS_EmptySet DEF OffsetInv
<1> QED
  BY <1>2, <1>3, <1>8 DEF IInv

(* A token that is made from an item is of the token's type.               *)
LEMMA CursorType ==
  ASSUME TypeOK, NEW d \in Docs, NEW t \in Tokens(d)
  PROVE  t \in [at : Nat, val : 0..MaxVal, id : {k.id : k \in Keys} \union {0}]
<1> DEFINE TokenSet == [at : Nat, val : 0..MaxVal, id : {k.id : k \in Keys} \union {0}]
<1>1. Cursor(d) \in TokenSet /\ OutOfRange \in TokenSet
  BY DocFields DEF Cursor, OutOfRange
<1>2. \A v \in MaxExact..MaxVal : [Cursor(d) EXCEPT !.val = v] \in TokenSet
  <2>1. \A v \in MaxExact..MaxVal : v \in 0..MaxVal
    BY WalkAssumption
  <2> QED
    BY <2>1, DocFields DEF Cursor
<1>3. t \in {Cursor(d), OutOfRange} \union {[Cursor(d) EXCEPT !.val = v] : v \in MaxExact..MaxVal}
  <2>1. d.val \in 0..MaxVal /\ MaxExact \in Nat \ {0} /\ MaxVal \in Nat
    BY DocFields, WalkAssumption
  <2>2. \/ d.val = 0
        \/ d.val # 0 /\ d.val \in 1..MaxExact
        \/ d.val # 0 /\ d.val \notin 1..MaxExact /\ d.val > MaxExact
    BY <2>1
  <2>3. Field \in {"id", "datetime", "other"}
    BY WalkAssumption DEF TypeOK, Field
  <2>4. CASE backend = "spatialite"
    BY <2>4 DEF Tokens
  <2>5. CASE backend # "spatialite" /\ Field = "id"
    BY <2>5 DEF Tokens, SortTokens
  <2>6. CASE backend # "spatialite" /\ Field = "datetime"
    BY <2>6 DEF Tokens, SortTokens
  <2>7. CASE backend # "spatialite" /\ Field = "other"
    <3>1. SortTokens(d) \subseteq
            {Cursor(d), OutOfRange} \union {[Cursor(d) EXCEPT !.val = v] : v \in MaxExact..MaxVal}
      <4>1. CASE d.val = 0
        BY <2>1, <2>7, <4>1 DEF SortTokens
      <4>2. CASE d.val # 0 /\ d.val \in 1..MaxExact
        BY <2>1, <2>7, <4>2 DEF SortTokens
      <4>3. CASE d.val # 0 /\ d.val \notin 1..MaxExact /\ d.val > MaxExact
        BY <2>1, <2>7, <4>3 DEF SortTokens
      <4> QED
        BY <2>2, <4>1, <4>2, <4>3
    <3> QED
      BY <2>7, <3>1 DEF Tokens
  <2> QED
    BY <2>3, <2>4, <2>5, <2>6, <2>7
<1> QED
  BY <1>1, <1>2, <1>3

(* The items of a page are items, its token a token.                       *)
LEMMA PageType ==
  ASSUME TypeOK, StoreInv, NEW p \in Pages,
         backend = "inmem" => token.at <= Cardinality(store)
  PROVE  /\ p.items \in Seq(store) /\ p.items \in Seq(Docs)
         /\ p.next \in [at : Nat, val : 0..MaxVal, id : {k.id : k \in Keys} \union {0}]
<1>1. /\ NoToken \in [at : Nat, val : 0..MaxVal, id : {k.id : k \in Keys} \union {0}]
      /\ token.at \in Nat
  BY WalkAssumption DEF NoToken, TypeOK
<1>2. CASE backend = "inmem"
  <2>1. PICK l \in Listings(store) : \E e \in token.at..Len(l) :
              /\ p.items = SubSeq(l, token.at + 1, e)
              /\ p.next = NoToken \/ p.next = [at |-> e, val |-> 0, id |-> 0]
    BY <1>2, OffsetPages, Zenon
  <2>0. PICK e \in token.at..Len(l) :
              /\ p.items = SubSeq(l, token.at + 1, e)
              /\ p.next = NoToken \/ p.next = [at |-> e, val |-> 0, id |-> 0]
    BY <2>1
  <2>2. l \in Seq(store) /\ Len(l) \in Nat
    BY ListingIsBijection DEF StoreInv
  <2>3. e \in 0..Len(l) /\ token.at \in 0..e
    BY <1>1, <2>2
  <2>4. SubSeq(l, token.at + 1, e) \in Seq(store)
    BY <2>2, <2>3, PageOf
  <2>5. [at |-> e, val |-> 0, id |-> 0] \in
          [at : Nat, val : 0..MaxVal, id : {k.id : k \in Keys} \union {0}]
    BY <2>3, WalkAssumption
  <2>6. p.items \in Seq(store)
    BY <2>0, <2>4, Zenon
  <2>7. p.items \in Seq(Docs)
    BY <2>6, SeqMonotonic DEF TypeOK
  <2>8. p.next \in [at : Nat, val : 0..MaxVal, id : {k.id : k \in Keys} \union {0}]
    BY <1>1, <2>0, <2>5, Zenon
  <2> QED
    BY <2>6, <2>7, <2>8
<1>3. CASE backend # "inmem"
  <2> DEFINE T == {d \in store : After(d)}
  <2> HIDE DEF T
  <2>1. PICK l \in Listings(T) : \E n \in 0..Len(l) :
              /\ p.items = SubSeq(l, 1, n)
              /\ \/ n = Len(l) /\ p.next = NoToken
                 \/ n >= 1 /\ p.next \in Tokens(l[n])
    BY <1>3, KeysetPages, Zenon DEF T
  <2>0. PICK n \in 0..Len(l) :
              /\ p.items = SubSeq(l, 1, n)
              /\ \/ n = Len(l) /\ p.next = NoToken
                 \/ n >= 1 /\ p.next \in Tokens(l[n])
    BY <2>1
  <2>2. IsFiniteSet(T) /\ T \subseteq store /\ T \subseteq Docs
    BY FS_Subset DEF StoreInv, TypeOK, T
  <2>3. l \in Seq(T) /\ Len(l) \in Nat /\ \A i \in 1..Len(l) : l[i] \in T
    BY <2>2, ListingIsBijection
  <2>4. SubSeq(l, 0 + 1, n) \in Seq(T)
    BY <2>3, PageOf
  <2>5. p.items \in Seq(T)
    BY <2>0, <2>4
  <2>6. n >= 1 => l[n] \in Docs
    BY <2>2, <2>3
  <2> QED
    BY <1>1, <2>0, <2>2, <2>5, <2>6, CursorType, SeqMonotonic
<1> QED
  BY <1>2, <1>3

(* Where the items of a page come to stand.                                *)
LEMMA PageAppended ==
  ASSUME TypeOK, NEW q \in Seq(Docs), got' = got \o q
  PROVE  /\ got' \in Seq(Docs) /\ Len(got) \in Nat /\ Len(q) \in Nat
         /\ Len(got') = Len(got) + Len(q)
         /\ DOMAIN got = 1..Len(got) /\ DOMAIN got' = 1..(Len(got) + Len(q))
         /\ \A i \in 1..Len(got) : got'[i] = got[i]
         /\ \A j \in 1..Len(q) : got'[Len(got) + j] = q[j]
         /\ \A i \in DOMAIN got' \ DOMAIN got :
              i - Len(got) \in 1..Len(q) /\ got'[i] = q[i - Len(got)]
<1>1. got \in Seq(Docs)
  BY DEF TypeOK
<1>2. /\ got' \in Seq(Docs) /\ Len(got) \in Nat /\ Len(q) \in Nat
      /\ Len(got') = Len(got) + Len(q)
      /\ DOMAIN got = 1..Len(got) /\ DOMAIN got' = 1..(Len(got) + Len(q))
  BY <1>1, ConcatProperties, LenProperties
<1>3. \A i \in 1..(Len(got) + Len(q)) :
        got'[i] = IF i <= Len(got) THEN got[i] ELSE q[i - Len(got)]
  BY <1>1, ConcatProperties
<1>4. \A i \in 1..Len(got) : i \in 1..(Len(got) + Len(q)) /\ i <= Len(got)
  BY <1>2
<1>5. \A j \in 1..Len(q) : /\ Len(got) + j \in 1..(Len(got) + Len(q))
                            /\ ~(Len(got) + j <= Len(got))
                            /\ Len(got) + j - Len(got) = j
  BY <1>2
<1>6. \A i \in DOMAIN got' \ DOMAIN got :
        /\ i - Len(got) \in 1..Len(q) /\ ~(i <= Len(got))
        /\ i \in 1..(Len(got) + Len(q))
  BY <1>2
<1> QED
  BY <1>2, <1>3, <1>4, <1>5, <1>6

(* A fetch keeps the types.                                                *)
LEMMA FetchType ==
  ASSUME TypeOK, StoreInv, Fetch
  PROVE  TypeOK' /\ StoreInv'
<1>1. PICK p \in Pages : /\ got' = got \o p.items /\ token' = p.next
                         /\ walk' = IF p.next = NoToken THEN "over" ELSE "on"
  BY DEF Fetch
<1>2. /\ p.items \in Seq(Docs)
      /\ p.next \in [at : Nat, val : 0..MaxVal, id : {k.id : k \in Keys} \union {0}]
  BY PageType DEF Fetch
<1>3. got' \in Seq(Docs)
  BY <1>1, <1>2, PageAppended
<1>4. /\ UNCHANGED <<backend, sort, limit, store, kept, known, added, removed, quota>>
      /\ walk' \in {"on", "over", "panic", "refused"}
  BY <1>1 DEF Fetch, reqVars, histVars
<1>5. OneKeyEach(store)'
  BY <1>4 DEF TypeOK, OneKeyEach
<1>6. StoreInv'
  BY <1>4 DEF StoreInv
<1> QED
  BY <1>1, <1>2, <1>3, <1>4, <1>5, <1>6 DEF TypeOK

(* A fetch keeps a keyset walk in order: the page continues where the last *)
(* one ended, and leaves behind it what it did not return.                 *)
LEMMA FetchKeepsKeyset ==
  ASSUME TypeOK, StoreInv, KeysetInv, Fetch
  PROVE  KeysetInv'
<1>1. /\ UNCHANGED <<backend, sort, limit, store, kept, known>> /\ UNCHANGED reqVars
      /\ walk = "on"
  BY DEF Fetch, reqVars, histVars
<1>2. SUFFICES ASSUME (backend # "inmem" /\ Reliable)'
               PROVE  /\ walk' \in {"on", "over"}
                      /\ \A i \in DOMAIN got' : got'[i] \in known
                      /\ \A i, j \in DOMAIN got' : i < j => Precedes(got'[i], got'[j])
                      /\ walk' = "on" =>
                           token' = IF got' = <<>> THEN NoToken ELSE Cursor(got'[Len(got')])
                      /\ \A d \in kept :
                           \/ \E i \in DOMAIN got' : got'[i] = d
                           \/ /\ walk' = "on"
                              /\ got' # <<>> => Precedes(got'[Len(got')], d)
  <2>1. \A d, e : Precedes(d, e)' <=> Precedes(d, e)
    BY <1>1, OrderStays
  <2> QED
    BY <1>1, <2>1, Zenon DEF KeysetInv, Cursor, NoToken
<1>3. backend # "inmem" /\ Reliable
  BY <1>1, <1>2, ReliableBefore
<1>4. /\ \A i \in DOMAIN got : got[i] \in known
      /\ \A i, j \in DOMAIN got : i < j => Precedes(got[i], got[j])
      /\ token = IF got = <<>> THEN NoToken ELSE Cursor(got[Len(got)])
      /\ \A d \in kept : \/ \E i \in DOMAIN got : got[i] = d
                         \/ got # <<>> => Precedes(got[Len(got)], d)
  BY <1>1, <1>3 DEF KeysetInv
<1>5. PICK p \in Pages : /\ got' = got \o p.items /\ token' = p.next
                         /\ walk' = IF p.next = NoToken THEN "over" ELSE "on"
  BY DEF Fetch
<1> DEFINE T == {d \in store : After(d)}
<1>6. \A d : d \in T <=> d \in store /\ After(d)
  OBVIOUS
<1>7. T \subseteq store /\ IsFiniteSet(T)
  BY FS_Subset DEF StoreInv
<1>8. \E l \in Listings(T) : \E n \in 0..Len(l) :
         /\ p.items = SubSeq(l, 1, n)
         /\ \/ n = Len(l) /\ p.next = NoToken
            \/ n >= 1 /\ p.next = Cursor(l[n])
  BY <1>3, ReliablePages, Zenon
<1> HIDE DEF T
<1>9. PICK l \in Listings(T) : \E n \in 0..Len(l) :
         /\ p.items = SubSeq(l, 1, n)
         /\ \/ n = Len(l) /\ p.next = NoToken
            \/ n >= 1 /\ p.next = Cursor(l[n])
  BY <1>8
<1>10. PICK n \in 0..Len(l) :
         /\ p.items = SubSeq(l, 1, n)
         /\ \/ n = Len(l) /\ p.next = NoToken
            \/ n >= 1 /\ p.next = Cursor(l[n])
  BY <1>9
<1>11. /\ l \in Seq(T) /\ Len(l) \in Nat
       /\ \A i \in 1..Len(l) : l[i] \in T /\ l[i] \in store /\ l[i] \in known
       /\ \A d \in T : \E i \in 1..Len(l) : l[i] = d
  BY <1>7, ListingIsBijection DEF StoreInv
<1>12. \A i, j \in 1..Len(l) : i < j => Precedes(l[i], l[j])
  BY <1>3, <1>7, ListingIsSorted
<1>13. /\ SubSeq(l, 1, n) \in Seq(T) /\ Len(SubSeq(l, 1, n)) = n
       /\ \A j \in 1..n : SubSeq(l, 1, n)[j] = l[j]
  <2>1. /\ SubSeq(l, 0 + 1, n) \in Seq(T) /\ Len(SubSeq(l, 0 + 1, n)) = n - 0
        /\ \A j \in 1..(n - 0) : SubSeq(l, 0 + 1, n)[j] = l[0 + j]
    BY <1>11, PageOf
  <2> QED
    BY <1>11, <2>1
<1>14. SubSeq(l, 1, n) \in Seq(Docs)
  BY <1>7, <1>13, SeqMonotonic DEF TypeOK
<1>15. /\ got' = got \o SubSeq(l, 1, n) /\ n \in Nat
  BY <1>5, <1>10, <1>11
<1>16. /\ Len(got) \in Nat /\ Len(got') = Len(got) + n
       /\ DOMAIN got = 1..Len(got) /\ DOMAIN got' = 1..(Len(got) + n)
       /\ \A i \in 1..Len(got) : got'[i] = got[i]
       /\ \A j \in 1..n : got'[Len(got) + j] = l[j]
       /\ \A i \in DOMAIN got' \ DOMAIN got :
            i - Len(got) \in 1..n /\ got'[i] = l[i - Len(got)]
  BY <1>13, <1>14, <1>15, PageAppended
<1>17. /\ got = <<>> <=> Len(got) = 0
       /\ got' = <<>> <=> Len(got') = 0
  BY <1>14, <1>15, PageAppended, EmptySeq DEF TypeOK
<1>18. /\ \A d, e, f \in known : Precedes(d, e) /\ Precedes(e, f) => Precedes(d, f)
       /\ \A i \in 1..n : i \in 1..Len(l)
  BY <1>3, <1>11, PrecedesIsStrict
<1>19. ASSUME NEW d \in store, got # <<>>
       PROVE  After(d) <=> Precedes(got[Len(got)], d)
  <2>1. got[Len(got)] \in known /\ token = Cursor(got[Len(got)])
    BY <1>4, <1>16, <1>17, <1>19
  <2> QED
    BY <1>3, <2>1, AfterIsBehind
<1>20. ASSUME NEW i \in DOMAIN got, NEW j \in 1..n
       PROVE  Precedes(got[i], l[j])
  <2>1. /\ got # <<>> /\ Len(got) \in DOMAIN got /\ l[j] \in T /\ l[j] \in store
        /\ l[j] \in known
    BY <1>11, <1>16, <1>17, <1>18
  <2>2. Precedes(got[Len(got)], l[j])
    BY <1>6, <1>19, <2>1
  <2>3. CASE i = Len(got)
    BY <2>2, <2>3
  <2>4. CASE i # Len(got)
    <3>1. i < Len(got)
      BY <1>16, <2>4
    <3> QED
      BY <1>4, <1>18, <2>1, <2>2, <3>1
  <2> QED
    BY <2>3, <2>4
<1>21. walk' \in {"on", "over"} /\ \A i \in DOMAIN got' : got'[i] \in known
  <2>1. ASSUME NEW i \in DOMAIN got' PROVE got'[i] \in known
    <3>1. CASE i \in DOMAIN got
      BY <1>4, <1>16, <3>1
    <3>2. CASE i \notin DOMAIN got
      BY <1>11, <1>16, <1>18, <3>2
    <3> QED
      BY <3>1, <3>2
  <2> QED
    BY <1>5, <2>1
<1>22. ASSUME NEW i \in DOMAIN got', NEW j \in DOMAIN got', i < j
       PROVE  Precedes(got'[i], got'[j])
  <2>1. CASE j \in DOMAIN got
    <3>1. i \in DOMAIN got
      BY <1>16, <1>22, <2>1
    <3> QED
      BY <1>4, <1>16, <1>22, <2>1, <3>1
  <2>2. CASE j \notin DOMAIN got /\ i \in DOMAIN got
    BY <1>16, <1>20, <2>2
  <2>3. CASE j \notin DOMAIN got /\ i \notin DOMAIN got
    <3>1. i - Len(got) < j - Len(got)
      BY <1>16, <1>22
    <3> QED
      BY <1>12, <1>16, <1>18, <2>3, <3>1
  <2> QED
    BY <2>1, <2>2, <2>3
<1>23. ASSUME walk' = "on"
       PROVE  n >= 1 /\ token' = Cursor(l[n]) /\ got' # <<>> /\ got'[Len(got')] = l[n]
  <2>1. p.next # NoToken
    BY <1>5, <1>23
  <2>2. n >= 1 /\ p.next = Cursor(l[n])
    BY <1>10, <2>1
  <2>3. n \in 1..n /\ Len(got') = Len(got) + n /\ Len(got') # 0
    BY <1>15, <1>16, <2>2
  <2>4. got'[Len(got) + n] = l[n]
    BY <1>16, <2>3
  <2> QED
    BY <1>5, <1>17, <2>2, <2>3, <2>4
<1>24. ASSUME NEW d \in kept, ~ \E i \in DOMAIN got' : got'[i] = d
       PROVE  /\ walk' = "on"
              /\ got' # <<>> => Precedes(got'[Len(got')], d)
  <2>1. ~ \E i \in DOMAIN got : got[i] = d
    BY <1>16, <1>24
  <2>2. d \in store /\ (got # <<>> => Precedes(got[Len(got)], d))
    BY <1>4, <2>1 DEF StoreInv
  <2>3. d \in T
    <3>1. CASE got = <<>>
      <4>1. token = NoToken
        BY <1>4, <3>1
      <4> QED
        BY <1>6, <2>2, <4>1 DEF After, keysetWhere, searchAfter
    <3>2. CASE got # <<>>
      BY <1>6, <1>19, <2>2, <3>2
    <3> QED
      BY <3>1, <3>2
  <2>4. PICK k \in 1..Len(l) : l[k] = d
    BY <1>11, <2>3
  <2>5. ~(k <= n)
    <3>1. SUFFICES ASSUME k \in 1..n PROVE FALSE
      BY <1>15
    <3>2. got'[Len(got) + k] = d /\ Len(got) + k \in DOMAIN got'
      BY <1>15, <1>16, <2>4, <3>1
    <3> QED
      BY <1>24, <3>2
  <2>6. n < k /\ n # Len(l)
    BY <1>11, <1>15, <2>5
  <2>7. n >= 1 /\ p.next = Cursor(l[n])
    BY <1>10, <2>6
  <2>8. Cursor(l[n]) # NoToken
    BY DEF Cursor, NoToken
  <2>9. walk' = "on"
    BY <1>5, <2>7, <2>8
  <2>10. Precedes(l[n], d)
    <3>1. Precedes(l[n], l[k])
      BY <1>11, <1>12, <1>18, <2>6, <2>7
    <3> QED
      BY <2>4, <3>1, Zenon
  <2> QED
    BY <1>23, <2>9, <2>10
<1> QED
  BY <1>21, <1>22, <1>23, <1>24

----------------------------------------------------------------------------
(* Offsets and ranks                                                       *)

(* A set without two elements has at most one.                             *)
LEMMA AtMostOne ==
  ASSUME NEW S, \A x, y \in S : x = y
  PROVE  IsFiniteSet(S) /\ Cardinality(S) <= 1
<1>1. CASE S = {}
  BY <1>1, FS_EmptySet
<1>2. CASE S # {}
  <2>1. PICK x \in S : S = {x}
    BY <1>2
  <2>2. IsFiniteSet({x}) /\ Cardinality({x}) = 1
    BY FS_Singleton
  <2>3. IsFiniteSet(S) /\ Cardinality(S) = 1
    BY <2>1, <2>2, Zenon
  <2> QED
    BY <2>3
<1> QED
  BY <1>1, <1>2

(* The number of items before another is a number.                         *)
LEMMA BeforeType ==
  ASSUME StoreInv, NEW d
  PROVE  IsFiniteSet(Before(d)) /\ Cardinality(Before(d)) \in Nat
  BY FS_Subset, FS_CardinalityType DEF StoreInv, Before

(* Two stored items have different numbers of items before them.           *)
LEMMA RankIsUnique ==
  ASSUME TypeOK, StoreInv, Reliable, NEW d \in store, NEW e \in store,
         Cardinality(Before(d)) = Cardinality(Before(e))
  PROVE  d = e
<1>1. ASSUME NEW x \in store, NEW y \in store, Precedes(x, y)
      PROVE  Cardinality(Before(x)) # Cardinality(Before(y))
  <2>1. \A f \in Before(x) : f \in store /\ f \in known /\ x \in known /\ y \in known
    BY DEF Before, StoreInv
  <2>2. Before(x) \subseteq Before(y)
    BY <1>1, <2>1, PrecedesIsStrict DEF Before
  <2>3. x \in Before(y) /\ x \notin Before(x)
    BY <1>1, PrecedesIsStrict DEF Before, StoreInv
  <2> QED
    BY <2>2, <2>3, BeforeType, FS_Subset
<1> QED
  BY <1>1, PrecedesIsTotal

(* An item's number is its place in the listing, counted from zero.        *)
LEMMA RankIsPlace ==
  ASSUME TypeOK, StoreInv, Reliable, NEW l \in Listings(store), NEW i \in 1..Len(l)
  PROVE  Cardinality(Before(l[i])) = i - 1
<1>1. /\ Len(l) \in Nat /\ \A k \in 1..Len(l) : l[k] \in store
      /\ \A d \in store : \E k \in 1..Len(l) : l[k] = d
      /\ \A k, m \in 1..Len(l) : l[k] = l[m] => k = m
  BY ListingIsBijection DEF StoreInv
<1>2. \A k, m \in 1..Len(l) : k < m => Precedes(l[k], l[m])
  BY ListingIsSorted
<1> DEFINE f == [j \in 1..(i - 1) |-> l[j]]
<1>3. \A j \in 1..(i - 1) : j \in 1..Len(l) /\ j < i
  BY <1>1
<1>4. \A j \in 1..(i - 1) : f[j] = l[j] /\ l[j] \in Before(l[i])
  BY <1>1, <1>2, <1>3 DEF Before
<1>5. ASSUME NEW d \in Before(l[i]) PROVE \E j \in 1..(i - 1) : f[j] = d
  <2>1. d \in store /\ Precedes(d, l[i])
    BY DEF Before
  <2>2. PICK k \in 1..Len(l) : l[k] = d
    BY <1>1, <2>1
  <2>3. d \in known /\ l[i] \in known
    BY <1>1, <2>1 DEF StoreInv
  <2>4. k # i
    BY <2>1, <2>2, <2>3, PrecedesIsStrict
  <2>5. ~(i < k)
    BY <1>2, <2>1, <2>2, <2>3, PrecedesIsStrict
  <2>6. k \in 1..(i - 1)
    BY <1>1, <2>4, <2>5
  <2> QED
    BY <1>4, <2>2, <2>6
<1>6. f \in Bijection(1..(i - 1), Before(l[i]))
  <2>1. f \in [1..(i - 1) -> Before(l[i])]
    BY <1>4
  <2>2. \A j, k \in 1..(i - 1) : f[j] = f[k] => j = k
    BY <1>1, <1>3, <1>4
  <2> HIDE DEF f
  <2> QED
    BY <1>5, <2>1, <2>2 DEF Bijection, Injection, Surjection, IsInjective
<1> HIDE DEF f
<1>7. ExistsBijection(1..(i - 1), Before(l[i]))
  BY <1>6 DEF ExistsBijection
<1>8. IsFiniteSet(1..(i - 1)) /\ Cardinality(1..(i - 1)) = i - 1
  <2>1. i - 1 \in Int /\ 1 \in Int /\ (IF 1 > i - 1 THEN 0 ELSE (i - 1) - 1 + 1) = i - 1
    BY <1>1
  <2>2. /\ IsFiniteSet(1..(i - 1))
        /\ Cardinality(1..(i - 1)) = IF 1 > i - 1 THEN 0 ELSE (i - 1) - 1 + 1
    BY <2>1, FS_Interval
  <2> QED
    BY <2>1, <2>2
<1> QED
  BY <1>7, <1>8, FS_Bijection

(* How often an item was returned is a number.                             *)
LEMMA TimesType ==
  ASSUME TypeOK, NEW d
  PROVE  /\ IsFiniteSet({i \in DOMAIN got : got[i] = d})
         /\ Times(d) \in Nat
<1>1. DOMAIN got = 1..Len(got) /\ Len(got) \in Nat
  BY LenProperties DEF TypeOK
<1>2. IsFiniteSet(DOMAIN got)
  BY <1>1, FS_Interval
<1> QED
  BY <1>2, FS_Subset, FS_CardinalityType DEF Times

(* A page without repetitions adds one to the items it holds.              *)
LEMMA TimesGrow ==
  ASSUME TypeOK, NEW q \in Seq(Docs), got' = got \o q,
         \A i, j \in 1..Len(q) : q[i] = q[j] => i = j,
         NEW d
  PROVE  /\ (\E j \in 1..Len(q) : q[j] = d) => Times(d)' = Times(d) + 1
         /\ ~(\E j \in 1..Len(q) : q[j] = d) => Times(d)' = Times(d)
<1> DEFINE I == {i \in DOMAIN got : got[i] = d}
           J == {i \in DOMAIN got' : got'[i] = d}
<1>1. /\ Len(got) \in Nat /\ Len(q) \in Nat
      /\ DOMAIN got = 1..Len(got) /\ DOMAIN got' = 1..(Len(got) + Len(q))
      /\ \A i \in 1..Len(got) : got'[i] = got[i]
      /\ \A j \in 1..Len(q) : got'[Len(got) + j] = q[j]
      /\ \A i \in DOMAIN got' \ DOMAIN got :
           i - Len(got) \in 1..Len(q) /\ got'[i] = q[i - Len(got)]
  BY PageAppended
<1>2. Times(d) = Cardinality(I) /\ Times(d)' = Cardinality(J) /\ IsFiniteSet(I)
  BY TimesType DEF Times
<1>3. CASE \E j \in 1..Len(q) : q[j] = d
  <2>1. PICK j \in 1..Len(q) : q[j] = d
    BY <1>3
  <2>2. ASSUME NEW i \in J PROVE i \in I \union {Len(got) + j}
    <3>1. CASE i \in DOMAIN got
      BY <1>1, <3>1
    <3>2. CASE i \notin DOMAIN got
      <4>1. i - Len(got) \in 1..Len(q) /\ q[i - Len(got)] = d /\ i \in Int
        BY <1>1, <3>2
      <4>2. i - Len(got) = j
        BY <2>1, <4>1
      <4> QED
        BY <1>1, <4>1, <4>2
    <3> QED
      BY <3>1, <3>2
  <2>3. I \subseteq J /\ Len(got) + j \in J /\ Len(got) + j \notin I
    <3>1. Len(got) + j \in DOMAIN got' /\ Len(got) + j \notin DOMAIN got
      BY <1>1
    <3>2. \A i \in DOMAIN got : i \in DOMAIN got'
      BY <1>1
    <3> QED
      BY <1>1, <2>1, <3>1, <3>2
  <2>4. J = I \union {Len(got) + j}
    BY <2>2, <2>3
  <2> HIDE DEF I, J
  <2> QED
    BY <1>2, <1>3, <2>3, <2>4, FS_AddElement
<1>4. CASE ~(\E j \in 1..Len(q) : q[j] = d)
  <2>1. I = J
    BY <1>1, <1>4
  <2> QED
    BY <1>2, <1>4, <2>1
<1> QED
  BY <1>3, <1>4

(* A fetch neither passes an item without returning it nor returns one it  *)
(* had passed, and its next offset lies inside the listing.                *)
LEMMA FetchKeepsOffset ==
  ASSUME TypeOK, StoreInv, OffsetInv, OffsetBound, Fetch
  PROVE  OffsetInv' /\ OffsetBound'
<1>1. /\ UNCHANGED <<backend, sort, limit, store, kept, known, added, removed>>
      /\ UNCHANGED reqVars /\ walk = "on"
  BY DEF Fetch, reqVars, histVars
<1>2. SUFFICES ASSUME backend = "inmem"
               PROVE  OffsetInv' /\ OffsetBound'
  BY <1>1 DEF OffsetInv, OffsetBound
<1>3. PICK p \in Pages : /\ got' = got \o p.items /\ token' = p.next
                         /\ walk' = IF p.next = NoToken THEN "over" ELSE "on"
  BY DEF Fetch
<1> DEFINE a == token.at
<1>4. \E l \in Listings(store) : \E e \in a..Len(l) :
        /\ p.items = SubSeq(l, a + 1, e)
        /\ \/ e = Len(l) /\ p.next = NoToken
           \/ e < Len(l) /\ p.next = [at |-> e, val |-> 0, id |-> 0]
              /\ p.next # NoToken
  BY <1>2, OffsetPages, Zenon DEF Fetch
<1>5. PICK l \in Listings(store) : \E e \in a..Len(l) :
        /\ p.items = SubSeq(l, a + 1, e)
        /\ \/ e = Len(l) /\ p.next = NoToken
           \/ e < Len(l) /\ p.next = [at |-> e, val |-> 0, id |-> 0]
              /\ p.next # NoToken
  BY <1>4
<1>6. PICK e \in a..Len(l) :
        /\ p.items = SubSeq(l, a + 1, e)
        /\ \/ e = Len(l) /\ p.next = NoToken
           \/ e < Len(l) /\ p.next = [at |-> e, val |-> 0, id |-> 0]
              /\ p.next # NoToken
  BY <1>5
<1>7. /\ Len(l) = Cardinality(store) /\ Len(l) \in Nat /\ l \in Seq(store)
      /\ \A k \in 1..Len(l) : l[k] \in store
      /\ \A d \in store : \E k \in 1..Len(l) : l[k] = d
      /\ \A k, m \in 1..Len(l) : l[k] = l[m] => k = m
  BY ListingIsBijection DEF StoreInv
<1>8. a \in Nat /\ a <= Len(l) /\ e \in 0..Len(l) /\ a \in 0..e /\ removed \in Nat
  BY <1>2, <1>7 DEF TypeOK, Fetch
<1>9. OffsetBound'
  <2>1. walk' # "panic"
    BY <1>3
  <2>2. walk' = "on" => token'.at = e /\ e < Len(l)
    BY <1>3, <1>6
  <2>3. e < Len(l) => e + 1 <= Cardinality(store) + removed
    BY <1>7, <1>8
  <2> QED
    BY <1>1, <2>1, <2>2, <2>3 DEF OffsetBound
<1> HIDE DEF a
<1> DEFINE q == SubSeq(l, a + 1, e)
<1>10. /\ q \in Seq(store) /\ Len(q) = e - a /\ \A j \in 1..(e - a) : q[j] = l[a + j]
  <2>1. l \in Seq(store) /\ e \in 0..Len(l) /\ a \in 0..e
    BY <1>7, <1>8
  <2> QED
    BY <2>1, PageOf, Zenon
<1>11. q \in Seq(Docs) /\ got' = got \o q
  BY <1>3, <1>6, <1>10, SeqMonotonic DEF TypeOK
<1> HIDE DEF q
<1>12. \A j \in 1..(e - a) : a + j \in 1..Len(l)
  BY <1>8
<1>13. \A i, j \in 1..Len(q) : q[i] = q[j] => i = j
  <2>1. SUFFICES ASSUME NEW i \in 1..(e - a), NEW j \in 1..(e - a), l[a + i] = l[a + j]
                 PROVE  i = j
    BY <1>10
  <2>2. a + i = a + j
    BY <1>7, <1>12, <2>1
  <2> QED
    BY <1>8, <2>2
<1>14. SUFFICES ASSUME Reliable' PROVE OffsetInv'
  BY <1>9 DEF OffsetInv
<1>15. Reliable /\ Cardinality(Missed) <= removed /\ Cardinality(Repeated) <= added
  BY <1>1, <1>2, <1>14, ReliableBefore DEF OffsetInv
<1>16. \A d : Before(d)' = Before(d)
  BY <1>1, OrderStays DEF Before
<1>17. ASSUME NEW d \in store
       PROVE  \/ /\ d \in Passed /\ d \in Passed'
                 /\ Times(d)' = Times(d)
              \/ /\ d \notin Passed /\ d \in Passed'
                 /\ Times(d)' = Times(d) + 1
              \/ /\ d \notin Passed /\ d \notin Passed'
                 /\ Times(d)' = Times(d)
  <2>1. PICK k \in 1..Len(l) : l[k] = d
    BY <1>7
  <2>2. Cardinality(Before(d)) = k - 1
    BY <1>15, <2>1, RankIsPlace
  <2>3. d \in Passed <=> k <= a
    BY <1>1, <1>7, <1>8, <2>2 DEF Passed, a
  <2>4. d \in Passed' <=> k <= e
    <3>1. CASE walk' = "over"
      <4>1. e = Len(l)
        BY <1>3, <1>6, <3>1
      <4> QED
        BY <1>1, <1>7, <3>1, <4>1 DEF Passed
    <3>2. CASE walk' # "over"
      <4>1. token'.at = e
        BY <1>3, <1>6, <3>2
      <4>2. d \in Passed' <=> Cardinality(Before(d)) < e
        BY <1>1, <1>16, <3>2, <4>1 DEF Passed
      <4> QED
        BY <1>7, <1>8, <2>2, <4>2
    <3> QED
      BY <3>1, <3>2
  <2>5. (\E j \in 1..Len(q) : q[j] = d) <=> a < k /\ k <= e
    <3>1. ASSUME NEW j \in 1..(e - a), q[j] = d PROVE a < k /\ k <= e
      <4>1. l[a + j] = l[k]
        BY <1>10, <2>1, <3>1
      <4>2. a + j = k
        BY <1>7, <1>12, <4>1
      <4> QED
        BY <1>8, <4>2
    <3>2. ASSUME a < k, k <= e PROVE k - a \in 1..(e - a) /\ q[k - a] = d
      <4>1. k - a \in 1..(e - a) /\ a + (k - a) = k
        BY <1>7, <1>8, <3>2
      <4> QED
        BY <1>10, <2>1, <4>1
    <3> QED
      BY <1>10, <3>1, <3>2
  <2>6. /\ a < k /\ k <= e => Times(d)' = Times(d) + 1
        /\ ~(a < k /\ k <= e) => Times(d)' = Times(d)
    BY <1>11, <1>13, <2>5, TimesGrow
  <2> QED
    BY <1>7, <1>8, <2>3, <2>4, <2>6
<1>18. \A d : Times(d) \in Nat
  BY TimesType
<1>19. \A d \in kept : d \in store
  BY DEF StoreInv
<1>20. IsFiniteSet(Missed) /\ IsFiniteSet(Repeated)
  BY FS_Subset DEF StoreInv, Missed, Repeated
<1>21. Missed' \subseteq Missed
  <2>1. ASSUME NEW d \in Missed' PROVE d \in Missed
    <3>1. d \in kept /\ d \in Passed' /\ Times(d)' = 0
      BY <1>1, <2>1 DEF Missed
    <3>2. d \in Passed /\ Times(d) = 0
      BY <1>17, <1>18, <1>19, <3>1
    <3> QED
      BY <3>1, <3>2 DEF Missed
  <2> QED
    BY <2>1
<1>22. Repeated' \subseteq Repeated
  <2>1. ASSUME NEW d \in Repeated' PROVE d \in Repeated
    <3>1. d \in kept /\ (Times(d)' > 1 \/ (Times(d)' = 1 /\ d \notin Passed'))
      BY <1>1, <2>1 DEF Repeated
    <3>2. Times(d) > 1 \/ (Times(d) = 1 /\ d \notin Passed)
      BY <1>17, <1>18, <1>19, <3>1
    <3> QED
      BY <3>1, <3>2 DEF Repeated
  <2> QED
    BY <2>1
<1>23. /\ Cardinality(Missed') <= Cardinality(Missed)
       /\ Cardinality(Repeated') <= Cardinality(Repeated)
       /\ Cardinality(Missed') \in Nat /\ Cardinality(Missed) \in Nat
       /\ Cardinality(Repeated') \in Nat /\ Cardinality(Repeated) \in Nat
  BY <1>20, <1>21, <1>22, FS_Subset, FS_CardinalityType
<1>24. added \in Nat
  BY DEF TypeOK
<1>25. Cardinality(Missed') <= removed' /\ Cardinality(Repeated') <= added'
  BY <1>1, <1>8, <1>15, <1>23, <1>24
<1> QED
  BY <1>25 DEF OffsetInv

(* A refusal ends the walk, which is not one of inmem's and, its token     *)
(* being no cursor, not a reliable one.                                    *)
LEMMA RefusalKeepsInv ==
  ASSUME IInv, FetchRefused
  PROVE  IInv'
<1>1. /\ UNCHANGED <<backend, sort, limit, store, token, got, kept, known, added,
                     removed, quota>>
      /\ UNCHANGED reqVars /\ walk = "on" /\ walk' = "refused" /\ backend = "opensearch"
      /\ token = OutOfRange
  BY DEF FetchRefused, reqVars, histVars
<1>2. TypeOK'
  <2>1. OneKeyEach(store)'
    BY <1>1 DEF IInv, TypeOK, OneKeyEach
  <2> QED
    BY <1>1, <2>1 DEF IInv, TypeOK
<1>3. StoreInv' /\ OffsetInv' /\ OffsetBound'
  BY <1>1 DEF IInv, StoreInv, OffsetInv, OffsetBound
<1>4. KeysetInv'
  <2>1. SUFFICES ASSUME Reliable' PROVE FALSE
    BY DEF KeysetInv
  <2>2. token = IF got = <<>> THEN NoToken ELSE Cursor(got[Len(got)])
    BY <1>1, <2>1, ReliableBefore DEF IInv, KeysetInv
  <2> QED
    BY <1>1, <2>2 DEF Cursor, NoToken, OutOfRange
<1> QED
  BY <1>2, <1>3, <1>4 DEF IInv

(* An offset past the end takes two removals.                              *)
LEMMA PanicKeepsInv ==
  ASSUME IInv, FetchPanics
  PROVE  IInv'
<1>1. /\ UNCHANGED <<backend, sort, limit, store, token, got, kept, known, added,
                     removed, quota>>
      /\ UNCHANGED reqVars /\ walk = "on" /\ walk' = "panic" /\ backend = "inmem"
      /\ token.at > Cardinality(store)
  BY DEF FetchPanics, reqVars, histVars
<1>2. TypeOK'
  <2>1. OneKeyEach(store)'
    BY <1>1 DEF IInv, TypeOK, OneKeyEach
  <2> QED
    BY <1>1, <2>1 DEF IInv, TypeOK
<1>3. StoreInv' /\ KeysetInv'
  BY <1>1 DEF IInv, StoreInv, KeysetInv
<1>4. OffsetInv'
  <2>1. SUFFICES ASSUME Reliable' PROVE OffsetInv'
    BY DEF OffsetInv
  <2>2. Cardinality(Missed) <= removed /\ Cardinality(Repeated) <= added
    BY <1>1, <2>1, ReliableBefore DEF IInv, OffsetInv
  <2>3. \A d : Times(d)' = Times(d) /\ Before(d)' = Before(d)
    BY <1>1, OrderStays DEF Times, Before
  <2>4. Passed' = Passed
    BY <1>1, <2>3 DEF Passed
  <2>5. Missed' = Missed /\ Repeated' = Repeated
    BY <1>1, <2>3, <2>4 DEF Missed, Repeated
  <2> QED
    BY <1>1, <2>2, <2>5 DEF OffsetInv
<1>5. OffsetBound'
  <2>1. Cardinality(store) \in Nat /\ token.at \in Nat /\ removed \in Nat
    BY FS_CardinalityType DEF IInv, TypeOK, StoreInv
  <2>2. token.at = 0 \/ token.at + 1 <= Cardinality(store) + removed
    BY <1>1 DEF IInv, OffsetBound
  <2>3. removed > 1
    BY <1>1, <2>1, <2>2
  <2> QED
    BY <1>1, <2>3 DEF OffsetBound
<1> QED
  BY <1>2, <1>3, <1>4, <1>5 DEF IInv

----------------------------------------------------------------------------
(* Others write                                                            *)

(* What any write does: it removes O and adds N, one item each at most.    *)
Writes(O, N) ==
  /\ walk = "on" /\ O \subseteq store /\ N \subseteq Docs /\ N \cap store = {}
  /\ IsFiniteSet(O) /\ Cardinality(O) \in 0..1
  /\ IsFiniteSet(N) /\ Cardinality(N) \in 0..1
  /\ store' = (store \ O) \union N
  /\ kept' = kept \ O
  /\ known' = known \union N
  /\ added' = added + Cardinality(N) /\ removed' = removed + Cardinality(O)
  /\ UNCHANGED <<backend, sort, limit, token, walk, got>>

(* UpsertItem is such a write, and leaves one item of each key.            *)
LEMMA UpsertWrites ==
  ASSUME TypeOK, StoreInv, NEW d \in Docs, Upsert(d)
  PROVE  Writes({e \in store : SameKey(e, d)}, {d}) /\ TypeOK'
<1> DEFINE old == {e \in store : SameKey(e, d)}
<1>1. \A x, y \in old : x = y
  BY DEF TypeOK, OneKeyEach, SameKey
<1>2. IsFiniteSet(old) /\ Cardinality(old) \in 0..1 /\ Cardinality(old) \in Nat
  <2>1. IsFiniteSet(old) /\ Cardinality(old) <= 1
    BY <1>1, AtMostOne
  <2> QED
    BY <2>1, FS_CardinalityType
<1>3. IsFiniteSet({d}) /\ Cardinality({d}) = 1
  BY FS_Singleton
<1>4. /\ walk = "on" /\ quota.upserts > 0 /\ d \notin store
      /\ store' = (store \ old) \union {d} /\ kept' = kept \ old
      /\ known' = known \union {d}
      /\ added' = added + 1 /\ removed' = removed + Cardinality(old)
      /\ quota' = [quota EXCEPT !.upserts = @ - 1]
      /\ UNCHANGED <<backend, sort, limit, token, walk, got>>
  BY DEF Upsert, reqVars
<1>5. Writes(old, {d})
  <2>1. Cardinality({d}) \in 0..1
    BY <1>3
  <2> HIDE DEF old
  <2>2. old \subseteq store
    BY DEF old
  <2> QED
    BY <1>2, <1>3, <1>4, <2>1, <2>2 DEF Writes
<1>6. OneKeyEach(store)'
  <2>1. \A e \in store \ old : ~SameKey(e, d) /\ ~SameKey(d, e)
    BY DEF SameKey
  <2> QED
    BY <1>4, <2>1 DEF TypeOK, OneKeyEach
<1>7. PICK b \in Bounds : /\ backend = b.backend
                          /\ quota \in [upserts : 0..b.upserts, deletes : 0..b.deletes]
  BY DEF TypeOK
<1>8. b.upserts \in Nat
  BY WalkAssumption
<1>9. quota' \in [upserts : 0..b.upserts, deletes : 0..b.deletes] /\ backend' = b.backend
  BY <1>4, <1>7, <1>8
<1>10. added' \in Nat /\ removed' \in Nat
  BY <1>2, <1>4 DEF TypeOK
<1>11. kept' \subseteq store' /\ store' \subseteq Docs /\ known' \subseteq Docs
  BY <1>4 DEF TypeOK
<1>12. TypeOK'
  BY <1>4, <1>6, <1>9, <1>10, <1>11 DEF TypeOK
<1> QED
  BY <1>5, <1>12

(* ... and DeleteItem.                                                     *)
LEMMA DeleteWrites ==
  ASSUME TypeOK, StoreInv, NEW d \in Docs, Delete(d)
  PROVE  Writes({d}, {}) /\ TypeOK'
<1>1. IsFiniteSet({d}) /\ Cardinality({d}) = 1 /\ IsFiniteSet({}) /\ Cardinality({}) = 0
  BY FS_Singleton, FS_EmptySet
<1>2. /\ walk = "on" /\ quota.deletes > 0 /\ d \in store
      /\ store' = store \ {d} /\ kept' = kept \ {d} /\ known' = known
      /\ added' = added /\ removed' = removed + 1
      /\ quota' = [quota EXCEPT !.deletes = @ - 1]
      /\ UNCHANGED <<backend, sort, limit, token, walk, got>>
  BY DEF Delete, reqVars
<1>3. Writes({d}, {})
  <2>1. added' = added + 0
    BY <1>2 DEF TypeOK
  <2>2. store' = (store \ {d}) \union {} /\ known' = known \union {}
    BY <1>2
  <2>3. 0 \in 0..1 /\ 1 \in 0..1
    OBVIOUS
  <2> QED
    BY <1>1, <1>2, <2>1, <2>2, <2>3 DEF Writes
<1>4. OneKeyEach(store)'
  BY <1>2 DEF TypeOK, OneKeyEach
<1>5. PICK b \in Bounds : /\ backend = b.backend
                          /\ quota \in [upserts : 0..b.upserts, deletes : 0..b.deletes]
  BY DEF TypeOK
<1>6. b.deletes \in Nat
  BY WalkAssumption
<1>7. quota' \in [upserts : 0..b.upserts, deletes : 0..b.deletes] /\ backend' = b.backend
  BY <1>2, <1>5, <1>6
<1>8. added' \in Nat /\ removed' \in Nat
  BY <1>2 DEF TypeOK
<1>9. kept' \subseteq store' /\ store' \subseteq Docs /\ known' \subseteq Docs
  BY <1>2 DEF TypeOK
<1>10. TypeOK'
  BY <1>2, <1>4, <1>7, <1>8, <1>9 DEF TypeOK
<1> QED
  BY <1>3, <1>10

(* A write leaves the store finite and the histories true.                 *)
LEMMA WriteKeepsStore ==
  ASSUME TypeOK, StoreInv, NEW O, NEW N, Writes(O, N)
  PROVE  StoreInv'
<1>1. IsFiniteSet((store \ O) \union N)
  BY FS_Difference, FS_Union DEF StoreInv, Writes
<1>2. ASSUME added' + removed' = 0 PROVE kept' = store'
  <2>1. Cardinality(N) = 0 /\ Cardinality(O) = 0 /\ added + removed = 0
    BY <1>2 DEF Writes, TypeOK
  <2>2. N = {} /\ O = {}
    BY <2>1, FS_EmptySet DEF Writes
  <2> QED
    BY <2>1, <2>2 DEF StoreInv, Writes
<1> QED
  BY <1>1, <1>2 DEF StoreInv, Writes

(* A write does not disturb a keyset walk: it kept what it did not touch.  *)
LEMMA WriteKeepsKeyset ==
  ASSUME TypeOK, StoreInv, KeysetInv, NEW O, NEW N, Writes(O, N)
  PROVE  KeysetInv'
<1>1. /\ UNCHANGED <<backend, sort, limit, token, walk, got>> /\ UNCHANGED reqVars
      /\ walk = "on" /\ kept' \subseteq kept /\ known \subseteq known'
  BY DEF Writes, reqVars
<1>2. SUFFICES ASSUME (backend # "inmem" /\ Reliable)'
               PROVE  KeysetInv'
  BY DEF KeysetInv
<1>3. backend # "inmem" /\ Reliable
  BY <1>1, <1>2, ReliableBefore
<1>4. \A d, e : Precedes(d, e)' <=> Precedes(d, e)
  BY <1>1, OrderStays
<1>5. /\ \A i \in DOMAIN got : got[i] \in known
      /\ \A i, j \in DOMAIN got : i < j => Precedes(got[i], got[j])
      /\ token = IF got = <<>> THEN NoToken ELSE Cursor(got[Len(got)])
      /\ \A d \in kept : \/ \E i \in DOMAIN got : got[i] = d
                         \/ got # <<>> => Precedes(got[Len(got)], d)
  BY <1>1, <1>3 DEF KeysetInv
<1>6. /\ \A i \in DOMAIN got' : got'[i] \in known'
      /\ \A i, j \in DOMAIN got' : i < j => Precedes(got'[i], got'[j])
      /\ token' = IF got' = <<>> THEN NoToken ELSE Cursor(got'[Len(got')])
      /\ \A d \in kept' : \/ \E i \in DOMAIN got' : got'[i] = d
                          \/ got' # <<>> => Precedes(got'[Len(got')], d)
      /\ walk' = "on"
  BY <1>1, <1>5
<1> QED
  BY <1>1, <1>4, <1>6, Zenon DEF KeysetInv, NoToken, Cursor

(* A write leaves the offset in bounds, but for the removals.              *)
LEMMA WriteKeepsBound ==
  ASSUME TypeOK, StoreInv, OffsetBound, NEW O, NEW N, Writes(O, N)
  PROVE  OffsetBound'
<1>1. /\ IsFiniteSet(store) /\ Cardinality(store) \in Nat /\ token.at \in Nat
      /\ removed \in Nat /\ Cardinality(O) \in Nat /\ Cardinality(N) \in Nat
      /\ IsFiniteSet(N)
  BY FS_CardinalityType DEF StoreInv, TypeOK, Writes
<1>2. store \cap O = O /\ (store \ O) \cap N = {}
  BY DEF Writes
<1>3. /\ IsFiniteSet(store \ O)
      /\ Cardinality(store \ O) = Cardinality(store) - Cardinality(O)
  <2>1. /\ IsFiniteSet(store \ O)
        /\ Cardinality(store \ O) = Cardinality(store) - Cardinality(store \cap O)
    BY <1>1, FS_Difference
  <2> QED
    BY <2>1, <1>2, Zenon
<1>4. Cardinality((store \ O) \union N) =
        Cardinality(store) - Cardinality(O) + Cardinality(N) - 0
  <2>1. Cardinality((store \ O) \cap N) = 0
    BY <1>2, FS_EmptySet
  <2> QED
    BY <1>1, <1>3, <2>1, FS_Union
<1>5. Cardinality(store') + removed' = Cardinality(store) + Cardinality(N) + removed
  BY <1>1, <1>4 DEF Writes
<1>6. /\ UNCHANGED <<backend, token, walk>> /\ walk = "on"
  BY DEF Writes
<1>7. backend = "inmem" => token.at = 0 \/ token.at + 1 <= Cardinality(store) + removed
  BY <1>6 DEF OffsetBound
<1>8. backend' = "inmem" => token'.at = 0 \/ token'.at + 1 <= Cardinality(store') + removed'
  BY <1>1, <1>5, <1>6, <1>7
<1> QED
  BY <1>6, <1>8 DEF OffsetBound

(* A write moves every number by one at most: down if it removes an item,  *)
(* up if it adds one.                                                      *)
LEMMA WriteMovesRanks ==
  ASSUME TypeOK, StoreInv, NEW O, NEW N, Writes(O, N), NEW d
  PROVE  /\ Cardinality(Before(d)') \in Nat
         /\ Cardinality(Before(d)') <= Cardinality(Before(d)) + Cardinality(N)
         /\ Cardinality(Before(d)) <= Cardinality(Before(d)') + Cardinality(O)
<1>1. \A e : Precedes(e, d)' <=> Precedes(e, d)
  <2>1. UNCHANGED reqVars
    BY DEF Writes, reqVars
  <2> QED
    BY <2>1, OrderStays
<1>2. Before(d)' \subseteq Before(d) \union N /\ Before(d) \subseteq Before(d)' \union O
  BY <1>1 DEF Before, Writes
<1>3. /\ IsFiniteSet(Before(d)) /\ Cardinality(Before(d)) \in Nat
      /\ IsFiniteSet(N) /\ IsFiniteSet(O)
      /\ Cardinality(N) \in Nat /\ Cardinality(O) \in Nat
  BY BeforeType DEF Writes
<1>4. /\ IsFiniteSet(Before(d) \union N)
      /\ Cardinality(Before(d) \union N) =
           Cardinality(Before(d)) + Cardinality(N) - Cardinality(Before(d) \cap N)
      /\ Cardinality(Before(d) \cap N) \in Nat
  BY <1>3, FS_Union, FS_Intersection, FS_CardinalityType
<1>5. /\ IsFiniteSet(Before(d)') /\ Cardinality(Before(d)') \in Nat
      /\ Cardinality(Before(d)') <= Cardinality(Before(d) \union N)
  BY <1>2, <1>4, FS_Subset, FS_CardinalityType
<1>6. /\ IsFiniteSet(Before(d)' \union O)
      /\ Cardinality(Before(d)' \union O) =
           Cardinality(Before(d)') + Cardinality(O) - Cardinality(Before(d)' \cap O)
      /\ Cardinality(Before(d)' \cap O) \in Nat
  BY <1>3, <1>5, FS_Union, FS_Intersection, FS_CardinalityType
<1>7. Cardinality(Before(d)) <= Cardinality(Before(d)' \union O)
  BY <1>2, <1>6, FS_Subset
<1> QED
  BY <1>3, <1>4, <1>5, <1>6, <1>7, FS_CardinalityType

(* A write moves one kept item at most across the offset: unread, if it    *)
(* removes an item; back, read, if it adds one.                            *)
LEMMA WriteKeepsOffset ==
  ASSUME TypeOK, StoreInv, OffsetInv, NEW O, NEW N, Writes(O, N)
  PROVE  OffsetInv'
<1>1. /\ UNCHANGED <<backend, sort, limit, token, walk, got>> /\ UNCHANGED reqVars
      /\ walk = "on" /\ kept' = kept \ O /\ known \subseteq known'
      /\ store' = (store \ O) \union N
      /\ added' = added + Cardinality(N) /\ removed' = removed + Cardinality(O)
      /\ Cardinality(N) \in 0..1 /\ Cardinality(O) \in 0..1
      /\ IsFiniteSet(N) /\ IsFiniteSet(O)
  BY DEF Writes, reqVars
<1>2. SUFFICES ASSUME (backend = "inmem" /\ Reliable)'
               PROVE  /\ Cardinality(Missed') <= removed'
                      /\ Cardinality(Repeated') <= added'
  BY DEF OffsetInv
<1>3. Reliable /\ Cardinality(Missed) <= removed /\ Cardinality(Repeated) <= added
  BY <1>1, <1>2, ReliableBefore DEF OffsetInv
<1>4. \A d : Times(d)' = Times(d) /\ Times(d) \in Nat
  BY <1>1, TimesType DEF Times
<1>5. added \in Nat /\ removed \in Nat /\ token.at \in Nat
  BY DEF TypeOK
<1> DEFINE Stay == store \ O
           Enter == {d \in Stay : /\ ~(Cardinality(Before(d)) < token.at)
                                  /\ Cardinality(Before(d)') < token.at}
           Leave == {d \in Stay : /\ Cardinality(Before(d)) < token.at
                                  /\ ~(Cardinality(Before(d)') < token.at)}
<1>6. \A d : /\ Cardinality(Before(d)) \in Nat /\ Cardinality(Before(d)') \in Nat
             /\ Cardinality(Before(d)') <= Cardinality(Before(d)) + Cardinality(N)
             /\ Cardinality(Before(d)) <= Cardinality(Before(d)') + Cardinality(O)
  BY BeforeType, WriteMovesRanks
<1>7. \A d \in kept' : d \in kept /\ d \in Stay /\ d \in store /\ d \in store'
  BY <1>1 DEF StoreInv
<1>8. /\ \A d \in store : d \in Passed <=> Cardinality(Before(d)) < token.at
      /\ \A d \in store' : d \in Passed' <=> Cardinality(Before(d)') < token.at
  BY <1>1 DEF Passed
<1>9. /\ IsFiniteSet(Enter) /\ Cardinality(Enter) \in Nat
      /\ Cardinality(Enter) <= Cardinality(O)
  <2>1. \A d \in Enter : Cardinality(O) = 1 /\ Cardinality(Before(d)) = token.at
    BY <1>1, <1>5, <1>6
  <2>2. \A d, e \in Enter : d = e
    <3>1. SUFFICES ASSUME NEW d \in Enter, NEW e \in Enter PROVE d = e
      OBVIOUS
    <3>2. d \in store /\ e \in store
      OBVIOUS
    <3>3. Cardinality(Before(d)) = Cardinality(Before(e))
      BY <2>1
    <3> QED
      BY <1>3, <3>2, <3>3, RankIsUnique
  <2> HIDE DEF Enter
  <2>3. IsFiniteSet(Enter) /\ Cardinality(Enter) <= 1 /\ Cardinality(Enter) \in Nat
    BY <2>2, AtMostOne, FS_CardinalityType
  <2>4. CASE Enter = {}
    BY <1>1, <2>3, <2>4, FS_EmptySet
  <2>5. CASE Enter # {}
    BY <2>1, <2>3, <2>5
  <2> QED
    BY <2>4, <2>5
<1>10. /\ IsFiniteSet(Leave) /\ Cardinality(Leave) \in Nat
       /\ Cardinality(Leave) <= Cardinality(N)
  <2>1. \A d \in Leave : Cardinality(N) = 1 /\ Cardinality(Before(d)) = token.at - 1
    BY <1>1, <1>5, <1>6
  <2>2. \A d, e \in Leave : d = e
    <3>1. SUFFICES ASSUME NEW d \in Leave, NEW e \in Leave PROVE d = e
      OBVIOUS
    <3>2. d \in store /\ e \in store
      OBVIOUS
    <3>3. Cardinality(Before(d)) = Cardinality(Before(e))
      BY <2>1
    <3> QED
      BY <1>3, <3>2, <3>3, RankIsUnique
  <2> HIDE DEF Leave
  <2>3. IsFiniteSet(Leave) /\ Cardinality(Leave) <= 1 /\ Cardinality(Leave) \in Nat
    BY <2>2, AtMostOne, FS_CardinalityType
  <2>4. CASE Leave = {}
    BY <1>1, <2>3, <2>4, FS_EmptySet
  <2>5. CASE Leave # {}
    BY <2>1, <2>3, <2>5
  <2> QED
    BY <2>4, <2>5
<1>11. Missed' \subseteq Missed \union Enter
  <2>1. SUFFICES ASSUME NEW d \in Missed' PROVE d \in Missed \union Enter
    OBVIOUS
  <2>2. d \in kept' /\ d \in Passed' /\ Times(d) = 0
    BY <1>4 DEF Missed
  <2>3. d \in kept /\ d \in Stay /\ Cardinality(Before(d)') < token.at /\ d \in store
    BY <1>7, <1>8, <2>2
  <2>4. CASE d \in Passed
    BY <2>2, <2>3, <2>4 DEF Missed
  <2>5. CASE d \notin Passed
    BY <1>8, <2>3, <2>5
  <2> QED
    BY <2>4, <2>5
<1>12. Repeated' \subseteq Repeated \union Leave
  <2>1. SUFFICES ASSUME NEW d \in Repeated' PROVE d \in Repeated \union Leave
    OBVIOUS
  <2>2. d \in kept' /\ (Times(d) > 1 \/ (Times(d) = 1 /\ d \notin Passed'))
    BY <1>4 DEF Repeated
  <2>3. d \in kept /\ d \in Stay /\ d \in store /\ d \in store'
    BY <1>7, <2>2
  <2>4. CASE Times(d) > 1 \/ d \notin Passed
    BY <2>2, <2>3, <2>4 DEF Repeated
  <2>5. CASE ~(Times(d) > 1) /\ d \in Passed
    BY <1>8, <2>2, <2>3, <2>5
  <2> QED
    BY <2>4, <2>5
<1> HIDE DEF Enter, Leave
<1>13. /\ IsFiniteSet(Missed) /\ Cardinality(Missed) \in Nat
       /\ IsFiniteSet(Repeated) /\ Cardinality(Repeated) \in Nat
  BY FS_Subset, FS_CardinalityType DEF StoreInv, Missed, Repeated
<1>14. Cardinality(Missed') <= removed'
  <2>1. /\ IsFiniteSet(Missed \union Enter)
        /\ Cardinality(Missed \union Enter) =
             Cardinality(Missed) + Cardinality(Enter) - Cardinality(Missed \cap Enter)
        /\ Cardinality(Missed \cap Enter) \in Nat
    BY <1>9, <1>13, FS_Union, FS_Intersection, FS_CardinalityType
  <2>2. /\ Cardinality(Missed') \in Nat
        /\ Cardinality(Missed') <= Cardinality(Missed \union Enter)
    BY <1>11, <2>1, FS_Subset, FS_CardinalityType
  <2> QED
    BY <1>1, <1>3, <1>5, <1>9, <1>13, <2>1, <2>2
<1>15. Cardinality(Repeated') <= added'
  <2>1. /\ IsFiniteSet(Repeated \union Leave)
        /\ Cardinality(Repeated \union Leave) =
             Cardinality(Repeated) + Cardinality(Leave) - Cardinality(Repeated \cap Leave)
        /\ Cardinality(Repeated \cap Leave) \in Nat
    BY <1>10, <1>13, FS_Union, FS_Intersection, FS_CardinalityType
  <2>2. /\ Cardinality(Repeated') \in Nat
        /\ Cardinality(Repeated') <= Cardinality(Repeated \union Leave)
    BY <1>12, <2>1, FS_Subset, FS_CardinalityType
  <2> QED
    BY <1>1, <1>3, <1>5, <1>10, <1>13, <2>1, <2>2
<1> QED
  BY <1>14, <1>15

----------------------------------------------------------------------------
(* The invariant and the properties                                        *)

(* Every step keeps the invariant.                                         *)
LEMMA NextInv == IInv /\ [Next]_vars => IInv'
<1> SUFFICES ASSUME IInv, [Next]_vars PROVE IInv'
  OBVIOUS
<1>1. TypeOK /\ StoreInv /\ KeysetInv /\ OffsetInv /\ OffsetBound
  BY DEF IInv
<1>2. CASE Fetch
  BY <1>1, <1>2, FetchType, FetchKeepsKeyset, FetchKeepsOffset DEF IInv
<1>3. CASE FetchPanics
  BY <1>3, PanicKeepsInv
<1>8. CASE FetchRefused
  BY <1>8, RefusalKeepsInv
<1>4. ASSUME TypeOK', NEW O, NEW N, Writes(O, N)
      PROVE  IInv'
  BY <1>1, <1>4, WriteKeepsStore, WriteKeepsKeyset, WriteKeepsOffset, WriteKeepsBound
     DEF IInv
<1>5. ASSUME NEW d \in Docs, Upsert(d) PROVE IInv'
  BY <1>1, <1>4, <1>5, UpsertWrites
<1>6. ASSUME NEW d \in Docs, Delete(d) PROVE IInv'
  BY <1>1, <1>4, <1>6, DeleteWrites
<1>7. CASE UNCHANGED vars
  <2>1. /\ UNCHANGED <<backend, sort, limit, store, token, walk, got, kept, known,
                       added, removed, quota>>
        /\ UNCHANGED reqVars
    BY <1>7 DEF vars, reqVars, histVars
  <2>2. \A d, e : Precedes(d, e)' <=> Precedes(d, e)
    BY <2>1, OrderStays
  <2>3. Field' = Field
    BY <2>1, OrderStays
  <2>4. Reliable' <=> Reliable
    BY <2>1, <2>3 DEF Reliable, TokensSurvive
  <2>5. TypeOK' /\ StoreInv' /\ OffsetBound'
    BY <1>1, <2>1 DEF TypeOK, OneKeyEach, StoreInv, OffsetBound
  <2>6. KeysetInv'
    BY <1>1, <2>1, <2>2, <2>4, Zenon DEF KeysetInv, NoToken, Cursor
  <2>7. \A d : Times(d)' = Times(d) /\ Before(d)' = Before(d)
    BY <2>1, <2>2 DEF Times, Before
  <2>8. Passed' = Passed
    BY <2>1, <2>7 DEF Passed
  <2>9. Missed' = Missed /\ Repeated' = Repeated
    BY <2>1, <2>7, <2>8 DEF Missed, Repeated
  <2>10. OffsetInv'
    BY <1>1, <2>1, <2>4, <2>9 DEF OffsetInv
  <2> QED
    BY <2>5, <2>6, <2>10 DEF IInv
<1> QED
  BY <1>2, <1>3, <1>5, <1>6, <1>7, <1>8 DEF Next

(* The invariant holds throughout.                                         *)
LEMMA Invariance == Spec => []IInv
  BY InitInv, NextInv, PTL DEF Spec

(* Requests, tokens, pages and histories stay well-formed, no two items    *)
(* share a key, and what no write touched is still stored.                 *)
THEOREM TypeCorrect == Spec => []TypeOK
<1>1. IInv => TypeOK
  BY DEF IInv
<1> QED
  BY <1>1, Invariance, PTL

(* A keyset walk (spatialite.Search, opensearch.Search) returns every item *)
(* that was there throughout exactly once, in order, whatever is written   *)
(* meanwhile, for every page size and every number of writes.              *)
THEOREM KeysetWalkIsExact == Spec => []KeysetWalk
<1>1. IInv => KeysetWalk
  <2>1. SUFFICES ASSUME IInv, backend # "inmem", Reliable
                 PROVE  /\ walk \in {"on", "over"}
                        /\ walk = "over" => \A d \in kept : Times(d) = 1
                        /\ \A i, j \in DOMAIN got : i < j => Precedes(got[i], got[j])
    BY DEF KeysetWalk
  <2>2. /\ walk \in {"on", "over"}
        /\ \A i \in DOMAIN got : got[i] \in known
        /\ \A i, j \in DOMAIN got : i < j => Precedes(got[i], got[j])
        /\ walk = "over" => \A d \in kept : \E i \in DOMAIN got : got[i] = d
    BY <2>1 DEF IInv, KeysetInv
  <2>3. ASSUME walk = "over", NEW d \in kept PROVE Times(d) = 1
    <3>1. PICK i \in DOMAIN got : got[i] = d
      BY <2>2, <2>3
    <3>2. DOMAIN got \subseteq Int
      BY LenProperties DEF IInv, TypeOK
    <3>3. \A j \in DOMAIN got : got[j] = d => j = i
      <4>1. d \in known /\ ~Precedes(d, d)
        BY <2>1, <2>2, <3>1, PrecedesIsStrict DEF IInv
      <4>2. SUFFICES ASSUME NEW j \in DOMAIN got, got[j] = d, j # i PROVE FALSE
        OBVIOUS
      <4>3. i < j \/ j < i
        BY <3>2, <4>2
      <4> QED
        BY <2>2, <3>1, <4>1, <4>2, <4>3
    <3>4. {j \in DOMAIN got : got[j] = d} = {i}
      BY <3>1, <3>3
    <3> QED
      BY <3>4, FS_Singleton DEF Times
  <2> QED
    BY <2>2, <2>3
<1> QED
  BY <1>1, Invariance, PTL

(* An offset walk (inmem.Search) loses no more items than were removed     *)
(* while it went on, repeats no more than were added, and runs past the    *)
(* end of the matches only after two removals.                             *)
THEOREM OffsetWalkIsBounded == Spec => []OffsetWalk
<1>1. IInv => OffsetWalk
  <2>1. SUFFICES ASSUME IInv, backend = "inmem", Reliable
                 PROVE  /\ walk = "over" => Cardinality({d \in kept : Times(d) = 0}) <= removed
                        /\ Cardinality({d \in kept : Times(d) > 1}) <= added
                        /\ walk = "panic" => removed > 1
    BY DEF OffsetWalk
  <2>2. /\ Cardinality(Missed) <= removed /\ Cardinality(Repeated) <= added
        /\ walk = "panic" => removed > 1
    BY <2>1 DEF IInv, OffsetInv, OffsetBound
  <2>3. walk = "over" => Missed = {d \in kept : Times(d) = 0}
    BY <2>1 DEF IInv, StoreInv, Missed, Passed
  <2>4. {d \in kept : Times(d) > 1} \subseteq Repeated
    BY DEF Repeated
  <2>5. IsFiniteSet(Repeated)
    BY <2>1, FS_Subset DEF IInv, StoreInv, Repeated
  <2>6. /\ Cardinality({d \in kept : Times(d) > 1}) <= Cardinality(Repeated)
        /\ Cardinality({d \in kept : Times(d) > 1}) \in Nat
        /\ Cardinality(Repeated) \in Nat /\ added \in Nat
    BY <2>1, <2>4, <2>5, FS_Subset, FS_CardinalityType DEF IInv, TypeOK
  <2> QED
    BY <2>2, <2>3, <2>6
<1> QED
  BY <1>1, Invariance, PTL

(* What repository/page.go says of every walk over a repository that does  *)
(* not change holds of all three backends where the pages are reliable:    *)
(* the run that refutes it needs a walk that is not.                       *)
THEOREM StillReliableWalkIsExact == Spec => [](Reliable => StillWalkIsExact)
<1>1. IInv /\ KeysetWalk /\ OffsetWalk => (Reliable => StillWalkIsExact)
  <2>1. SUFFICES ASSUME IInv, KeysetWalk, OffsetWalk, Reliable, walk = "over",
                        added + removed = 0, NEW d \in store
                 PROVE  Times(d) = 1
    BY DEF StillWalkIsExact
  <2>2. added = 0 /\ removed = 0 /\ d \in kept
    BY <2>1 DEF IInv, TypeOK, StoreInv
  <2>3. CASE backend # "inmem"
    BY <2>1, <2>2, <2>3 DEF KeysetWalk
  <2>4. CASE backend = "inmem"
    <3>1. /\ Cardinality({e \in kept : Times(e) = 0}) <= 0
          /\ Cardinality({e \in kept : Times(e) > 1}) <= 0
      BY <2>1, <2>2, <2>4 DEF OffsetWalk
    <3>2. \A S \in SUBSET kept : Cardinality(S) <= 0 => S = {}
      <4>1. IsFiniteSet(kept)
        BY <2>1, FS_Subset DEF IInv, StoreInv
      <4>2. SUFFICES ASSUME NEW S \in SUBSET kept, Cardinality(S) <= 0 PROVE S = {}
        OBVIOUS
      <4>3. IsFiniteSet(S) /\ Cardinality(S) \in Nat
        BY <4>1, FS_Subset, FS_CardinalityType
      <4>4. Cardinality(S) = 0
        BY <4>2, <4>3
      <4> QED
        BY <4>3, <4>4, FS_EmptySet
    <3>3. {e \in kept : Times(e) = 0} = {} /\ {e \in kept : Times(e) > 1} = {}
      BY <3>1, <3>2
    <3>4. Times(d) # 0 /\ ~(Times(d) > 1)
      BY <2>2, <3>3
    <3>5. Times(d) \in Nat
      BY <2>1, TimesType DEF IInv
    <3> QED
      BY <3>4, <3>5
  <2> QED
    BY <2>3, <2>4
<1> QED
  BY <1>1, Invariance, KeysetWalkIsExact, OffsetWalkIsBounded, PTL
=============================================================================
