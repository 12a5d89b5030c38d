----------------------------- MODULE SearchWalk -----------------------------
(***************************************************************************)
(* A client walks the pages of one Search, from the empty token until a    *)
(* page comes without NextToken, while others write to the repository.     *)
(*   inmem       the token is an offset into the sorted matches            *)
(*   spatialite  the token is a keyset cursor, turned into a WHERE clause  *)
(*   opensearch  the token holds the sort values of the last hit, as the   *)
(*               JSON that is left of them after a decoding into []any,    *)
(*               sent back as search_after                                 *)
(* An item is its collection, its id and the value of the one property the *)
(* request sorts on (0 if it has none).  Only items that match the request *)
(* are modelled.  A page is read in one step: inmem collects the matches   *)
(* under its lock, the other two ask their engine for one snapshot.        *)
(***************************************************************************)
EXTENDS Integers, Sequences, FiniteSets, Functions

CONSTANTS
  Keys,       \* the items' keys: [col, id], where ids are ordered as numbers
  MaxVal,     \* values of the sort property are 1..MaxVal
  MaxExact,   \* values above it are integers that a float64 may not hold (2^53)
  Sorts,      \* which sort clauses: [field, desc], see Field
  Limits,     \* which page sizes
  MaxGot,     \* bound: a walk that has this many items is not watched any further
  Bounds      \* bounds: [backend, items, upserts, deletes], a backend with the most
              \* items before a walk, and the most writes of either kind during it

Docs == {[col |-> k.col, id |-> k.id, val |-> v] : k \in Keys, v \in 0..MaxVal}
SameKey(d, e) == d.col = e.col /\ d.id = e.id

ASSUME WalkAssumption ==
  /\ \A k \in Keys : k.id \in Nat \ {0}
  /\ MaxVal \in Nat /\ MaxExact \in Nat \ {0} /\ MaxGot \in Nat
  /\ Bounds \subseteq [backend : {"inmem", "spatialite", "opensearch"},
                       items : Nat, upserts : Nat, deletes : Nat]
  /\ Sorts \subseteq [field : {"default", "id", "datetime", "other"}, desc : BOOLEAN]
  /\ Limits \subseteq Nat \ {0}

VARIABLES
  backend, sort, limit,  \* the request
  store,     \* the items
  token,     \* the token of the next request
  walk,      \* "on", "over", "panic" or "refused"
  got,       \* the items of all pages so far, in order
  kept,      \* history: items that no write touched since the walk began
  known,     \* history: every item there was since then
  added,     \* history: how many writes added an item
  removed,   \* history: how many writes removed one
  quota      \* bound: the writes still allowed, [upserts, deletes]

reqVars  == <<backend, sort, limit>>
histVars == <<kept, known, added, removed>>
vars == <<reqVars, store, token, walk, got, histVars, quota>>

NoToken == [at |-> 0, val |-> 0, id |-> 0]
OneKeyEach(S) == \A d, e \in S : SameKey(d, e) => d = e

Init ==
  /\ sort \in Sorts /\ limit \in Limits
  /\ \E b \in Bounds :
       /\ backend = b.backend /\ quota = [upserts |-> b.upserts, deletes |-> b.deletes]
       /\ store \in {S \in SUBSET Docs : /\ IsFiniteSet(S) /\ OneKeyEach(S)
                                        /\ Cardinality(S) <= b.items}
  /\ token = NoToken /\ walk = "on" /\ got = <<>>
  /\ kept = store /\ known = store /\ added = 0 /\ removed = 0

----------------------------------------------------------------------------
(* The order of a listing                                                  *)

(* Without a sort clause, inmem sorts by id, the others by datetime,       *)
(* descending.                                                             *)
Field == IF sort.field # "default" THEN sort.field
         ELSE IF backend = "inmem" THEN "id" ELSE "datetime"
Desc  == IF sort.field # "default" THEN sort.desc ELSE backend # "inmem"

(* The value a clause compares.  SQLite puts NULL before every value,      *)
(* OpenSearch puts a missing value last either way.                        *)
Key(d) == LET v == IF Field = "id" THEN d.id ELSE d.val IN
          IF Field # "id" /\ backend = "opensearch" /\ v = 0 THEN MaxVal + 1
          ELSE IF Desc THEN -v ELSE v

(* inmem takes an item without the property for equal to any other.        *)
Comparable(d, e) == backend # "inmem" \/ Field = "id" \/ (d.val # 0 /\ e.val # 0)

Precedes(d, e) ==
  \/ Comparable(d, e) /\ Key(d) < Key(e)
  \/ (~Comparable(d, e) \/ Key(d) = Key(e)) /\ d.id < e.id

(* sort.Slice and sort.SliceStable insert the elements of a short slice    *)
(* one by one, and the slice they start from comes from map iteration, in  *)
(* any order: the outcomes are the sequences without an inverted pair of   *)
(* neighbours.  An engine orders ties in any way, which is the same set.   *)
Listings(S) ==
  LET n == Cardinality(S) IN
  {l \in [1..n -> S] : /\ Range(l) = S
                       /\ \A i \in 1..(n - 1) : ~Precedes(l[i + 1], l[i])}

----------------------------------------------------------------------------
(* The pages                                                               *)

Cursor(d) == [at |-> 1, val |-> d.val, id |-> d.id]

(* Mutant: the next offset skips one.                                      *)
OffsetPageSkips(l) ==
  LET start == token.at
      end == IF start + limit > Len(l) THEN Len(l) ELSE start + limit
  IN [items |-> SubSeq(l, start + 1, end),
      next  |-> IF end < Len(l) THEN [NoToken EXCEPT !.at = end + 1] ELSE NoToken]

(* inmem: items[start:end] of the listing.                                 *)
OffsetPage(l) ==
  LET start == token.at
      end == IF start + limit > Len(l) THEN Len(l) ELSE start + limit
  IN [items |-> SubSeq(l, start + 1, end),
      next  |-> IF end < Len(l) THEN [NoToken EXCEPT !.at = end] ELSE NoToken]

(* Mutant: no tiebreak on the id.                                          *)
keysetWhereNoTiebreak(d) ==
  \/ token = NoToken
  \/ Field = "datetime" /\ d.val # 0 /\ Desc /\ d.val < token.val
  \/ Field = "datetime" /\ d.val # 0 /\ ~Desc /\ d.val > token.val
  \/ Field = "id" /\ Desc /\ d.id < token.id
  \/ Field = "id" /\ ~Desc /\ d.id > token.id
  \/ Field = "other" /\ d.id > token.id

(* spatialite: the rows after the cursor.  A missing datetime is the empty *)
(* string in the cursor and NULL in the table, and a comparison with NULL  *)
(* is never true.                                                          *)
keysetWhere(d) ==
  \/ token = NoToken
  \/ Field = "datetime" /\ d.val # 0 /\ d.val = token.val /\ d.id > token.id
  \/ Field = "datetime" /\ d.val # 0 /\ Desc /\ d.val < token.val
  \/ Field = "datetime" /\ d.val # 0 /\ ~Desc /\ d.val > token.val
  \/ Field = "id" /\ Desc /\ d.id < token.id
  \/ Field = "id" /\ ~Desc /\ d.id > token.id
  \/ Field = "other" /\ d.id > token.id

(* limit + 1 rows are read to learn whether there is another page.         *)
KeysetPage(l) ==
  IF Len(l) > limit
  THEN [items |-> SubSeq(l, 1, limit), next |-> Cursor(l[limit])]
  ELSE [items |-> l, next |-> NoToken]

(* opensearch: the sort values of a hit are decoded into []any, where a    *)
(* number is a float64, and encoded again.  Dates in milliseconds and ids  *)
(* stay as they are.  A missing date sorts as the least or the greatest    *)
(* long (last either way), which comes back as a number that no long       *)
(* holds; of another property the value that stands for a missing one may  *)
(* also be null or a string, which stays, and a large integer comes back   *)
(* as a neighbour.                                                         *)
OutOfRange == [at |-> 2, val |-> 0, id |-> 0]

SortTokens(d) ==
  CASE Field = "id"                             -> {Cursor(d)}
    [] Field = "datetime" /\ d.val = 0          -> {OutOfRange}
    [] Field = "datetime" /\ d.val # 0          -> {Cursor(d)}
    [] Field = "other" /\ d.val = 0             -> {OutOfRange, Cursor(d)}
    [] Field = "other" /\ d.val \in 1..MaxExact -> {Cursor(d)}
    [] Field = "other" /\ d.val > MaxExact      -> {[Cursor(d) EXCEPT !.val = v] : v \in MaxExact..MaxVal}

(* opensearch: the hits after the sort values of the last one.  A number   *)
(* out of range, where the engine does not refuse it, wraps around to one  *)
(* before every hit.                                                       *)
searchAfter(d) ==
  \/ token \in {NoToken, OutOfRange}
  \/ Key(d) > Key(token)
  \/ Field # "id" /\ Key(d) = Key(token) /\ d.id > token.id

(* Mutant: a page without hits hands the token back.                       *)
SearchAfterPagesKeepToken(l) ==
  LET n == IF Len(l) > limit THEN limit ELSE Len(l) IN
  {[items |-> SubSeq(l, 1, n), next |-> t] : t \in IF n = 0 THEN {token} ELSE SortTokens(l[n])}

(* Every page with a hit has a token, the last one too.                    *)
SearchAfterPages(l) ==
  LET n == IF Len(l) > limit THEN limit ELSE Len(l) IN
  {[items |-> SubSeq(l, 1, n), next |-> t] : t \in IF n = 0 THEN {NoToken} ELSE SortTokens(l[n])}

Pages == CASE backend = "inmem"      -> {OffsetPage(l) : l \in Listings(store)}
           [] backend = "spatialite" -> {KeysetPage(l) : l \in Listings({d \in store : keysetWhere(d)})}
           [] backend = "opensearch" -> UNION {SearchAfterPages(l) : l \in Listings({d \in store : searchAfter(d)})}

(* The client fetches a page and follows its NextToken.                    *)
Fetch ==
  /\ walk = "on" /\ Len(got) < MaxGot
  /\ backend = "inmem" => token.at <= Cardinality(store)
  /\ \E p \in Pages :
       /\ got' = got \o p.items
       /\ token' = p.next
       /\ walk' = IF p.next = NoToken THEN "over" ELSE "on"
  /\ UNCHANGED <<reqVars, store, histVars, quota>>

(* inmem: the offset lies past the end of the matches, the slice           *)
(* expression panics and the server's recover turns it into an error.      *)
FetchPanics ==
  /\ walk = "on" /\ backend = "inmem" /\ token.at > Cardinality(store)
  /\ walk' = "panic"
  /\ UNCHANGED <<reqVars, store, token, got, histVars, quota>>

(* opensearch: the engine refuses a search_after that is out of range.     *)
FetchRefused ==
  /\ walk = "on" /\ backend = "opensearch" /\ token = OutOfRange
  /\ walk' = "refused"
  /\ UNCHANGED <<reqVars, store, token, got, histVars, quota>>

----------------------------------------------------------------------------
(* Others write: UpsertItem, which may replace an item, and DeleteItem.    *)

UpsertAppends(d) ==   \* mutant: an item of the same key stays
  /\ walk = "on" /\ quota.upserts > 0 /\ d \notin store
  /\ store' = store \union {d}
  /\ known' = known \union {d}
  /\ added' = added + 1 /\ quota' = [quota EXCEPT !.upserts = @ - 1]
  /\ UNCHANGED <<reqVars, token, walk, got, kept, removed>>

Upsert(d) ==
  LET old == {e \in store : SameKey(e, d)} IN
  /\ walk = "on" /\ quota.upserts > 0 /\ d \notin store
  /\ store' = (store \ old) \union {d}
  /\ kept' = kept \ old
  /\ known' = known \union {d}
  /\ added' = added + 1 /\ removed' = removed + Cardinality(old)
  /\ quota' = [quota EXCEPT !.upserts = @ - 1]
  /\ UNCHANGED <<reqVars, token, walk, got>>

Delete(d) ==
  /\ walk = "on" /\ quota.deletes > 0 /\ d \in store
  /\ store' = store \ {d}
  /\ kept' = kept \ {d}
  /\ removed' = removed + 1 /\ quota' = [quota EXCEPT !.deletes = @ - 1]
  /\ UNCHANGED <<reqVars, token, walk, got, known, added>>

Next == Fetch \/ FetchPanics \/ FetchRefused \/ \E d \in Docs : Upsert(d) \/ Delete(d)

Spec == Init /\ [][Next]_vars

(* A client that follows the next links to their end.                      *)
FairSpec == Spec /\ WF_vars(Fetch \/ FetchPanics \/ FetchRefused)

----------------------------------------------------------------------------
(* Properties                                                              *)

TypeOK ==
  /\ \E b \in Bounds : /\ backend = b.backend
                        /\ quota \in [upserts : 0..b.upserts, deletes : 0..b.deletes]
  /\ sort \in Sorts /\ limit \in Limits
  /\ store \subseteq Docs /\ OneKeyEach(store)
  /\ token \in [at : Nat, val : 0..MaxVal, id : {k.id : k \in Keys} \union {0}]
  /\ walk \in {"on", "over", "panic", "refused"} /\ got \in Seq(Docs)
  /\ kept \subseteq store /\ known \subseteq Docs
  /\ added \in Nat /\ removed \in Nat

(* opensearch: every sort value there was comes back from a token as it    *)
(* was: no item lacks the property, and no number is too large.            *)
TokensSurvive ==
  backend = "opensearch" =>
    /\ Field # "id"   => \A d \in known : d.val # 0
    /\ Field = "other" => \A d \in known : d.val <= MaxExact

(* Where the pages are meant to be reliable: no two collections in scope   *)
(* hold items of the same id; every item has the property that is sorted   *)
(* on; spatialite sorts by id or by the datetime; opensearch's tokens      *)
(* survive.                                                                *)
Reliable ==
  /\ \A d, e \in known : d.id = e.id => d.col = e.col
  /\ backend = "spatialite" => Field # "other"
  /\ Field # "id" => \A d \in known : d.val # 0
  /\ TokensSurvive

Times(d) == Cardinality({i \in DOMAIN got : got[i] = d})

(* A keyset walk is not refused, neither loses nor repeats an item,        *)
(* whatever is written meanwhile to the others, and never steps back.      *)
KeysetWalk ==
  backend # "inmem" /\ Reliable =>
    /\ walk \in {"on", "over"}
    /\ walk = "over" => \A d \in kept : Times(d) = 1
    /\ \A i, j \in DOMAIN got : i < j => Precedes(got[i], got[j])

(* An offset walk loses no more items than were removed meanwhile, repeats *)
(* no more than were added, and panics only after two removals.            *)
OffsetWalk ==
  backend = "inmem" /\ Reliable =>
    /\ walk = "over" => Cardinality({d \in kept : Times(d) = 0}) <= removed
    /\ Cardinality({d \in kept : Times(d) > 1}) <= added
    /\ walk = "panic" => removed > 1

(* A walk ends, whatever the request and however unreliable its pages,     *)
(* unless a token of opensearch does not survive: each one is further on.  *)
WalkEnds == []TokensSurvive => <>(walk # "on")

(* Documented: NextToken "MUST round-trip", the next page is deterministic *)
(* and "the keyset cursor is unique": a walk over a repository that does   *)
(* not change returns every item once.                                     *)
StillWalkIsExact ==
  walk = "over" /\ added + removed = 0 => \A d \in store : Times(d) = 1
=============================================================================
