------------------------- MODULE SearchParityProofs -------------------------
(***************************************************************************)
(* Theorems about SearchParity, for any items and any requests: the        *)
(* parameters for time and place find the same item on every backend.      *)
(*                                                                         *)
(* DatetimeParameter follows from the types alone: in whole seconds the    *)
(* order of the texts spatialite compares is the order of the instants.    *)
(* SpatialParameters needs to know of the geometry in the row that it is   *)
(* that of the item whenever that parses, which every upsert keeps.        *)
(*                                                                         *)
(* Then about filters.  The conditions they are made of are answered alike *)
(* by the three backends, and so is what the logical operators make of     *)
(* them, for filters of any size: by the rank of their parts, since what   *)
(* is defined by recursion over them cannot be proved about.               *)
(***************************************************************************)
EXTENDS SearchParity, SequenceLemmas

Geometries == {i.geometry : i \in {j \in Items : Parses(j.geometry)}}

(* What holds of the item and its row after any upserts: a geometry of the *)
(* item that parses is in the row.                                         *)
OwnGeometry == Parses(item.geometry) => geom = item.geometry

RowInv ==
  /\ item \in Items /\ geom \in {Nil} \union Geometries
  /\ OwnGeometry
  /\ \E r \in Requests : AsksFor(r)

(* An item is inserted with its geometry, or without one.                  *)
LEMMA RowInit == SearchInit => RowInv
<1> SUFFICES ASSUME SearchInit PROVE RowInv
  OBVIOUS
<1>1. item \in Items /\ geom = IF Parses(item.geometry) THEN item.geometry ELSE Nil
  BY DEF SearchInit, Inserted, upsertGeom
<1> QED
  BY <1>1 DEF RowInv, OwnGeometry, SearchInit, Geometries

(* An upsert replaces the geometry of the row unless there is no other.    *)
LEMMA RowStep == RowInv /\ [\E i \in Items : Upsert(i)]_searchVars => RowInv'
<1> SUFFICES ASSUME RowInv, [\E i \in Items : Upsert(i)]_searchVars
             PROVE  RowInv'
  OBVIOUS
<1> USE DEF RowInv, OwnGeometry, AsksFor, Geometries
<1>1. ASSUME NEW i \in Items, Upsert(i)
      PROVE  RowInv'
  BY <1>1 DEF Upsert, upsertGeom, params
<1>2. CASE UNCHANGED searchVars
  BY <1>2 DEF searchVars, params
<1> QED
  BY <1>1, <1>2

(* RowInv, which the runs do not check, is what the theorems rest on.      *)
THEOREM SearchRow == SearchSpec => []RowInv
  BY RowInit, RowStep, PTL DEF SearchSpec

----------------------------------------------------------------------------
(* Time                                                                    *)

(* The texts of two timestamps of whole seconds are ordered like what they *)
(* stand for.                                                              *)
LEMMA SecondsOrder ==
  ASSUME NEW s, NEW t, WholeSeconds(s), WholeSeconds(t)
  PROVE  LET x == FormatSeconds(s)
             y == FormatSeconds(t)
         IN /\ Less(x, y) <=> Instant(s) < Instant(t)
            /\ x = y <=> Instant(s) = Instant(t)
            /\ Instant(x) = Instant(s) /\ Len(x) = 3
            /\ Instant(s) \in Nat /\ Instant(s) # Instant(t) + 1
            /\ Instant(s) <= Instant(t) + 1 <=> Instant(s) <= Instant(t)
<1> DEFINE x == FormatSeconds(s)
           y == FormatSeconds(t)
<1>1. /\ Len(s) = 3 /\ s[1] \in Nat /\ s[2] \in 0..1
      /\ Len(t) = 3 /\ t[1] \in Nat /\ t[2] \in 0..1
  BY DEF WholeSeconds, SecondsPerDay, Percent
<1>2. /\ x[1] = s[1] /\ x[2] = s[2] /\ x[3] = Z /\ DOMAIN x = 1..3 /\ Len(x) = 3
      /\ y[1] = t[1] /\ y[2] = t[2] /\ y[3] = Z /\ DOMAIN y = 1..3 /\ Len(y) = 3
  BY DEF FormatSeconds
<1>3. Instant(s) = 4 * s[1] + 2 * s[2] /\ Instant(t) = 4 * t[1] + 2 * t[2]
  BY <1>1 DEF Instant, SecondsPerDay
<1>4. Instant(x) = Instant(s)
  BY <1>1, <1>2, <1>3 DEF Instant, SecondsPerDay
<1>5. x = y <=> s[1] = t[1] /\ s[2] = t[2]
  BY DEF FormatSeconds
<1>6. Less(x, y) <=> s[1] < t[1] \/ (s[1] = t[1] /\ s[2] < t[2])
  <2>1. ASSUME Less(x, y) PROVE s[1] < t[1] \/ (s[1] = t[1] /\ s[2] < t[2])
    <3>1. PICK i \in 1..3 : (\A j \in 1..(i - 1) : x[j] = y[j]) /\ x[i] < y[i]
      BY <2>1, <1>2 DEF Less
    <3>2. CASE i = 1
      BY <3>1, <3>2, <1>2
    <3>3. CASE i = 2
      <4>1. x[1] = y[1]
        BY <3>1, <3>3
      <4> QED
        BY <3>1, <3>3, <4>1, <1>2
    <3>4. CASE i = 3
      BY <3>1, <3>4, <1>2 DEF Z
    <3> QED
      BY <3>2, <3>3, <3>4
  <2>2. ASSUME s[1] < t[1] PROVE Less(x, y)
    <3>1. 1 \in DOMAIN y /\ x[1] < y[1] /\ 1..(1 - 1) = {}
      BY <2>2, <1>2
    <3> QED
      BY <3>1, Zenon DEF Less
  <2>3. ASSUME s[1] = t[1], s[2] < t[2] PROVE Less(x, y)
    <3>1. 2 \in DOMAIN y /\ x[2] < y[2] /\ \A j \in 1..(2 - 1) : j <= Len(x) /\ x[j] = y[j]
      BY <2>3, <1>2
    <3> QED
      BY <3>1, Zenon DEF Less
  <2> QED
    BY <2>1, <2>2, <2>3
<1> HIDE DEF x, y
<1>7. /\ Less(x, y) <=> Instant(s) < Instant(t)
      /\ x = y <=> Instant(s) = Instant(t)
  BY <1>1, <1>3, <1>5, <1>6
<1>8. /\ Instant(s) \in Nat /\ Instant(s) # Instant(t) + 1
      /\ Instant(s) <= Instant(t) + 1 <=> Instant(s) <= Instant(t)
  BY <1>1, <1>3
<1> QED
  BY <1>2, <1>4, <1>7, <1>8 DEF x, y

TimeNames == {"datetime", "start_datetime", "end_datetime"}
InOrder(op, s, t) == applyOrder(op, Instant(s) < Instant(t), Instant(s) = Instant(t))

(* The times of an item, if every backend reads them alike.                *)
LEMMA ItemTimes ==
  ASSUME IsItem(item), NEW name \in TimeNames
  PROVE  /\ name \in DOMAIN item
         /\ item[name] = Nil \/ (item[name] = Value("str", item[name].v)
                                /\ item[name].kind = "str" /\ item[name].v \in Seq(Nat))
         /\ item[name] # Nil /\ PlainTimes =>
              /\ WholeSeconds(item[name].v) /\ IsRFC3339(item[name].v)
              /\ FormatSeconds(item[name].v) = item[name].v
<1>1. name \in DOMAIN item
  BY DEF IsItem, TimeNames
<1>2. item[name] = Nil \/ (item[name] = Value("str", item[name].v)
                         /\ item[name].kind = "str" /\ item[name].v \in Seq(Nat))
  <2>1. /\ item[name] = Nil \/ item[name] = Value("str", item[name].v)
        /\ item[name] # Nil => item[name].v \in Seq(Nat)
    BY DEF IsItem, IsValue, TimeNames
  <2> QED
    BY <2>1 DEF Value
<1>3. ASSUME item[name] # Nil, PlainTimes
      PROVE  /\ WholeSeconds(item[name].v) /\ IsRFC3339(item[name].v)
             /\ FormatSeconds(item[name].v) = item[name].v
  <2> DEFINE v == item[name].v
  <2>1. WholeSeconds(v) /\ v \in Seq(Nat)
    BY <1>2, <1>3 DEF PlainTimes, TimeNames
  <2> HIDE DEF v
  <2>2. Len(v) = 3 /\ DOMAIN v = 1..3 /\ v[3] = Z /\ v[1] \in 0..36
    BY <2>1, LenProperties DEF WholeSeconds, Percent
  <2>3. v = <<v[1], v[2], v[3]>>
    BY <2>1, <2>2
  <2>4. v # <<>>
    BY <2>2, RangeEmpty
  <2>5. IsRFC3339(v)
    <3>1. v[1] < Percent /\ Len(v) > 1
      BY <2>2 DEF Percent
    <3> QED
      BY <2>4, <3>1, Zenon DEF IsRFC3339, IsTime
  <2>6. FormatSeconds(v) = v
    BY <2>2, <2>3 DEF FormatSeconds
  <2> QED
    BY <2>1, <2>5, <2>6 DEF v
<1> QED
  BY <1>1, <1>2, <1>3

(* A column of texts, compared with a timestamp.                           *)
LEMMA SqlTime ==
  ASSUME NEW op \in {"=", "<>", "<", "<=", ">", ">="}, NEW v, NEW t,
         WholeSeconds(v), WholeSeconds(t)
  PROVE  SqlCompare(op, Value("str", FormatSeconds(v)), Value("str", FormatSeconds(t)))
           = SqlIs(InOrder(op, v, t))
<1> DEFINE x == Value("str", FormatSeconds(v))
           y == Value("str", FormatSeconds(t))
<1>1. x.kind = "str" /\ y.kind = "str" /\ x # Nil /\ y # Nil
      /\ x.v = FormatSeconds(v) /\ y.v = FormatSeconds(t) /\ (x = y <=> x.v = y.v)
  BY DEF Value, Nil
<1>2. /\ Less(x.v, y.v) <=> Instant(v) < Instant(t)
      /\ x.v = y.v <=> Instant(v) = Instant(t)
  BY <1>1, SecondsOrder
<1>3. SqlCompare(op, x, y) = SqlIs(applyOrder(op, Less(x.v, y.v), x = y))
  BY <1>1 DEF SqlCompare
<1>4. applyOrder(op, Less(x.v, y.v), x = y)
        <=> InOrder(op, v, t)
  BY <1>1, <1>2, Zenon DEF applyOrder, InOrder
<1> QED
  BY <1>3, <1>4, Zenon DEF SqlIs

(* A date field, compared with a timestamp.                                *)
LEMMA DslTime ==
  ASSUME NEW op \in {"=", "<", "<=", ">", ">="}, NEW name \in TimeNames, NEW x, NEW e,
         x # Nil => WholeSeconds(x.v), e.op = "time", WholeSeconds(e.v)
  PROVE  DslCompare(op, name, x, e) = DslIs(x # Nil /\ InOrder(op, x.v, e.v))
<1> DEFINE t == e.v
<1>1. textOf(e) = FormatSeconds(t)
  BY DEF textOf
<1>2. mapping(name) = "time"
  BY DEF mapping, Unqualified, KindOf, TimeNames
<1>3. IsTime(t)
  <2>1. t # <<>>
    BY RangeEmpty DEF WholeSeconds
  <2>2. t[1] < Percent
    BY DEF WholeSeconds, Percent
  <2> QED
    BY <2>1, <2>2, Zenon DEF IsTime
<1>4. first(textOf(e)) = Instant(t) /\ last(textOf(e)) = Instant(t) + 1
  <2>1. Instant(FormatSeconds(t)) = Instant(t) /\ Len(FormatSeconds(t)) = 3
    BY SecondsOrder
  <2> QED
    BY <1>1, <2>1 DEF first, last
<1>5. ASSUME x = Nil
      PROVE  DslCompare(op, name, x, e) = DslIs(FALSE)
  BY <1>1, <1>2, <1>3, <1>5 DEF DslCompare, DslIs
<1>6. ASSUME x # Nil
      PROVE  DslCompare(op, name, x, e)
               = DslIs(InOrder(op, x.v, t))
  <2> DEFINE u == Instant(x.v)
             w == Instant(t)
             asks == CASE op = "="  -> w <= u /\ u <= w + 1
                       [] op = "<"  -> u < w
                       [] op = "<=" -> u <= w + 1
                       [] op = ">"  -> u > w + 1
                       [] op = ">=" -> u >= w
  <2>1. u \in Nat /\ w \in Nat /\ u # w + 1 /\ (u <= w + 1 <=> u <= w)
    BY <1>6, SecondsOrder
  <2>2. DslCompare(op, name, x, e) = DslIs(asks)
    BY <1>1, <1>2, <1>3, <1>4, <1>6 DEF DslCompare, DslIs
  <2>3. asks <=> InOrder(op, x.v, t)
    <3>1. CASE op = "="
      BY <2>1, <3>1 DEF applyOrder, InOrder, u, w
    <3>2. CASE op = "<"
      BY <2>1, <3>2 DEF applyOrder, InOrder, u, w
    <3>3. CASE op = "<="
      BY <2>1, <3>3 DEF applyOrder, InOrder, u, w
    <3>4. CASE op = ">"
      BY <2>1, <3>4 DEF applyOrder, InOrder, u, w
    <3>5. CASE op = ">="
      BY <2>1, <3>5 DEF applyOrder, InOrder, u, w
    <3> QED
      BY <3>1, <3>2, <3>3, <3>4, <3>5
  <2> HIDE DEF asks
  <2> QED
    BY <2>2, <2>3, Zenon DEF DslIs
<1> QED
  BY <1>5, <1>6, Zenon DEF DslIs

(* The column a time is kept in, compared with one end of the parameter.   *)
LEMMA SqlColumn ==
  ASSUME IsItem(item), PlainTimes, NEW name \in TimeNames, NEW op \in {">=", "<="},
         NEW t, WholeSeconds(t)
  PROVE  LET answer == SqlCompare(op, pickDatetime(item[name]), Value("str", FormatSeconds(t)))
             x == item[name]
         IN /\ answer \in {"T", "F", "N"}
            /\ answer = "T" <=> x # Nil /\ InOrder(op, x.v, t)
<1> DEFINE x == item[name]
           y == Value("str", FormatSeconds(t))
<1>1. y # Nil /\ y.kind = "str"
  BY DEF Value, Nil
<1>2. CASE x = Nil
  <2>1. pickDatetime(x) = Nil /\ Nil.kind = "nil"
    BY <1>2 DEF pickDatetime, Nil, Value
  <2>2. SqlCompare(op, pickDatetime(x), y) = "N"
    BY <2>1, <1>1 DEF SqlCompare
  <2> QED
    BY <1>2, <2>2
<1>3. CASE x # Nil
  <2>1. /\ x.kind = "str" /\ IsRFC3339(x.v) /\ WholeSeconds(x.v)
    BY <1>3, ItemTimes
  <2>2. pickDatetime(x) = Value("str", FormatSeconds(x.v))
    BY <2>1 DEF pickDatetime
  <2>3. SqlCompare(op, pickDatetime(x), y) = SqlIs(InOrder(op, x.v, t))
    BY <2>1, <2>2, SqlTime DEF Equality, Ordering
  <2> QED
    BY <1>3, <2>3 DEF SqlIs
<1> QED
  BY <1>2, <1>3

(* The three readings of the datetime parameter agree: one end at least is *)
(* given, and both are in whole seconds, like the times of the item.       *)
LEMMA RowDatetime == RowInv => DatetimeParameter
<1> DEFINE start == datetime[1]
           end   == datetime[2]
           x == item.datetime
           from == start # <<>> => InOrder(">=", x.v, start)
           to   == end # <<>> => InOrder("<=", x.v, end)
<1> SUFFICES ASSUME RowInv, PlainTimes,
                    \E i \in DOMAIN datetime : datetime[i] # <<>>,
                    \A i \in DOMAIN datetime : datetime[i] = <<>> \/ WholeSeconds(datetime[i])
             PROVE  /\ (datetimeRange(item, start, end) = "T") <=> datetimeMatches(item, start, end)
                    /\ datetimeMatches(item, start, end) => datetimeWhere(item, start, end) = "T"
                    /\ item.start_datetime = Nil /\ item.end_datetime = Nil =>
                         (datetimeWhere(item, start, end) = "T"
                            <=> datetimeMatches(item, start, end))
  BY Zenon DEF DatetimeParameter
<1>1. IsItem(item)
  BY ItemsAssumption DEF RowInv
<1>2. datetime \in Seq(Nat) \X Seq(Nat)
  <2>1. datetime \in {<<>>} \union (Seq(Nat) \X Seq(Nat))
    BY RequestsAssumption DEF RowInv, AsksFor
  <2> QED
    BY <2>1
<1>3. /\ start = <<>> \/ WholeSeconds(start)
      /\ end = <<>> \/ WholeSeconds(end)
      /\ start # <<>> \/ end # <<>>
  BY <1>2
<1>4. x # Nil => x.kind = "str" /\ IsRFC3339(x.v) /\ WholeSeconds(x.v)
  BY <1>1, ItemTimes DEF TimeNames
<1> HIDE DEF start, end, x
<1>5. datetimeMatches(item, start, end) <=> x # Nil /\ from /\ to
  <2>1. x = Nil => x.kind # "str"
    BY DEF Nil, Value
  <2>2. ASSUME x # Nil, NEW t, WholeSeconds(t)
        PROVE  /\ InOrder(">=", x.v, t) <=> Instant(x.v) >= Instant(t)
               /\ InOrder("<=", x.v, t) <=> Instant(x.v) <= Instant(t)
    <3>1. Instant(x.v) \in Nat /\ Instant(t) \in Nat
      BY <1>4, <2>2, SecondsOrder
    <3> QED
      BY <3>1 DEF InOrder, applyOrder
  <2> QED
    BY <1>3, <1>4, <2>1, <2>2 DEF datetimeMatches, x
<1>6. datetimeRange(item, start, end) = "T" <=> x # Nil /\ from /\ to
  <2> DEFINE lower == DslCompare(">=", "datetime", x, Lit("time", start))
             upper == DslCompare("<=", "datetime", x, Lit("time", end))
  <2>1. start # <<>> => lower \in {"T", "F"} /\ (lower = "T" <=> x # Nil /\ from)
    <3> SUFFICES ASSUME start # <<>>
                 PROVE  lower \in {"T", "F"} /\ (lower = "T" <=> x # Nil /\ from)
      OBVIOUS
    <3>1. lower = DslIs(x # Nil /\ InOrder(">=", x.v, start))
      <4>1. Lit("time", start).op = "time" /\ Lit("time", start).v = start
        BY DEF Lit
      <4> QED
        BY <1>3, <1>4, <4>1, DslTime DEF TimeNames
    <3> HIDE DEF lower
    <3> QED
      BY <3>1 DEF DslIs
  <2>2. end # <<>> => upper \in {"T", "F"} /\ (upper = "T" <=> x # Nil /\ to)
    <3> SUFFICES ASSUME end # <<>>
                 PROVE  upper \in {"T", "F"} /\ (upper = "T" <=> x # Nil /\ to)
      OBVIOUS
    <3>1. upper = DslIs(x # Nil /\ InOrder("<=", x.v, end))
      <4>1. Lit("time", end).op = "time" /\ Lit("time", end).v = end
        BY DEF Lit
      <4> QED
        BY <1>3, <1>4, <4>1, DslTime DEF TimeNames
    <3> HIDE DEF upper
    <3> QED
      BY <3>1 DEF DslIs
  <2>3. datetimeRange(item, start, end)
          = DslAnd((IF start = <<>> THEN {} ELSE {lower})
                     \union (IF end = <<>> THEN {} ELSE {upper}))
    BY DEF datetimeRange, x
  <2> HIDE DEF lower, upper, from, to
  <2>4. start = <<>> => from
    BY DEF from
  <2>5. end = <<>> => to
    BY DEF to
  <2> QED
    BY <1>3, <2>1, <2>2, <2>3, <2>4, <2>5 DEF DslAnd, DslIs
<1>7. ASSUME NEW other \in TimeNames, NEW op \in {">=", "<="}, NEW t,
             t = <<>> \/ WholeSeconds(t)
      PROVE  LET c(n) == SqlCompare(op, pickDatetime(item[n]), Value("str", FormatSeconds(t)))
                 part == IF t = <<>> THEN "T" ELSE SqlOr({c(n) : n \in {"datetime", other}})
                 meets == t # <<>> => InOrder(op, x.v, t)
             IN /\ part \in {"T", "F", "N"}
                /\ x # Nil /\ meets => part = "T"
                /\ item[other] = Nil /\ part = "T" => meets /\ (t # <<>> => x # Nil)
  <2> DEFINE c(n) == SqlCompare(op, pickDatetime(item[n]), Value("str", FormatSeconds(t)))
  <2>1. {c(n) : n \in {"datetime", other}} = {c("datetime"), c(other)}
    OBVIOUS
  <2>2. CASE t = <<>>
    BY <2>2
  <2>3. CASE t # <<>>
    <3>1. /\ c("datetime") \in {"T", "F", "N"} /\ c(other) \in {"T", "F", "N"}
          /\ c("datetime") = "T" <=> x # Nil /\ InOrder(op, x.v, t)
          /\ item[other] = Nil => c(other) # "T"
      BY <1>1, <1>7, <2>3, SqlColumn DEF TimeNames, x
    <3> HIDE DEF c
    <3>2. /\ SqlOr({c("datetime"), c(other)}) \in {"T", "F", "N"}
          /\ SqlOr({c("datetime"), c(other)}) = "T" <=> c("datetime") = "T" \/ c(other) = "T"
      BY <3>1 DEF SqlOr
    <3> QED
      BY <2>1, <2>3, <3>1, <3>2 DEF c
  <2> QED
    BY <2>2, <2>3
<1> DEFINE c(op, n, t) == SqlCompare(op, pickDatetime(item[n]), Value("str", FormatSeconds(t)))
           first1 == IF start = <<>> THEN "T"
                     ELSE SqlOr({c(">=", n, start) : n \in {"datetime", "end_datetime"}})
           last1  == IF end = <<>> THEN "T"
                     ELSE SqlOr({c("<=", n, end) : n \in {"datetime", "start_datetime"}})
<1>8. datetimeWhere(item, start, end) = SqlAnd({first1, last1})
  BY DEF datetimeWhere
<1>9. /\ first1 \in {"T", "F", "N"}
      /\ x # Nil /\ from => first1 = "T"
      /\ item.end_datetime = Nil /\ first1 = "T" => from /\ (start # <<>> => x # Nil)
  BY <1>3, <1>7 DEF TimeNames
<1>10. /\ last1 \in {"T", "F", "N"}
       /\ x # Nil /\ to => last1 = "T"
       /\ item.start_datetime = Nil /\ last1 = "T" => to /\ (end # <<>> => x # Nil)
  BY <1>3, <1>7 DEF TimeNames
<1> HIDE DEF first1, last1, from, to
<1>11. datetimeWhere(item, start, end) = "T" <=> first1 = "T" /\ last1 = "T"
  <2>1. SqlAnd({first1, last1}) = "T" <=> first1 = "T" /\ last1 = "T"
    BY <1>9, <1>10 DEF SqlAnd
  <2> QED
    BY <1>8, <2>1
<1> QED
  BY <1>3, <1>5, <1>6, <1>9, <1>10, <1>11 DEF start, end

(* DatetimeParameter, for any items and requests.                          *)
THEOREM SearchDatetime == SearchSpec => []DatetimeParameter
  BY SearchRow, RowDatetime, PTL

----------------------------------------------------------------------------
(* Place                                                                   *)

(* A finite set of integers that is not empty has a least element.  By     *)
(* minimal counterexample in the number of elements: without one of them   *)
(* it has one, and that or the one taken out is least.                     *)
LEMMA LeastInteger ==
  ASSUME NEW T, T \subseteq Int, IsFiniteSet(T), T # {}
  PROVE  \E x \in T : \A y \in T : x <= y
<1> DEFINE Least(S) == \E x \in S : \A y \in S : x <= y
           Bad == {n \in Nat : \E S \in SUBSET Int : /\ IsFiniteSet(S) /\ S # {}
                                                     /\ Cardinality(S) = n /\ ~Least(S)}
<1>1. ASSUME Bad # {} PROVE FALSE
  <2>1. PICK n \in Bad : \A m \in Bad : n <= m
    <3>1. Bad \subseteq Nat
      OBVIOUS
    <3> HIDE DEF Bad
    <3> QED
      BY <1>1, <3>1, LeastNatural
  <2>2. PICK S \in SUBSET Int : /\ IsFiniteSet(S) /\ S # {}
                                /\ Cardinality(S) = n /\ ~Least(S)
    BY <2>1
  <2>3. PICK x \in S : TRUE
    BY <2>2
  <2>4. /\ IsFiniteSet(S \ {x}) /\ Cardinality(S \ {x}) = n - 1
    BY <2>2, <2>3, FS_RemoveElement
  <2>5. S \ {x} = {} \/ Least(S \ {x})
    <3>1. n - 1 \in Nat /\ n - 1 \notin Bad
      <4>1. n - 1 \in Nat /\ n \in Nat
        BY <2>4, FS_CardinalityType
      <4> HIDE DEF Bad
      <4> QED
        BY <2>1, <4>1
    <3>2. S \ {x} \in SUBSET Int
      BY <2>2
    <3> QED
      BY <3>1, <3>2, <2>4
  <2>6. CASE S \ {x} = {}
    <3>1. \A y \in S : y = x
      BY <2>6
    <3>2. x \in Int /\ x <= x
      BY <2>2, <2>3
    <3>3. Least(S)
      BY <2>3, <3>1, <3>2
    <3> QED
      BY <2>2, <3>3
  <2>7. CASE Least(S \ {x})
    <3>1. PICK z \in S \ {x} : \A y \in S \ {x} : z <= y
      BY <2>7
    <3>2. S \subseteq Int /\ x \in Int /\ z \in Int
      BY <2>2, <2>3, <3>1
    <3>3. CASE x <= z
      <4>1. \A y \in S : x <= y
        BY <3>1, <3>2, <3>3
      <4> QED
        BY <2>2, <2>3, <4>1
    <3>4. CASE z <= x
      <4>1. \A y \in S : z <= y
        BY <3>1, <3>2, <3>4
      <4> QED
        BY <2>2, <3>1, <4>1
    <3> QED
      BY <3>2, <3>3, <3>4
  <2> QED
    BY <2>5, <2>6, <2>7
<1>2. Cardinality(T) \in Nat
  BY FS_CardinalityType
<1> QED
  BY <1>1, <1>2

(* ... and a greatest: that of the negated integers is their least.        *)
LEMMA GreatestInteger ==
  ASSUME NEW T, T \subseteq Int, IsFiniteSet(T), T # {}
  PROVE  \E x \in T : \A y \in T : x >= y
<1> DEFINE N == {0 - x : x \in T}
<1>1. N \subseteq Int /\ N # {}
  <2>1. \A x \in T : 0 - x \in Int
    OBVIOUS
  <2> QED
    BY <2>1
<1>2. IsFiniteSet(N)
  <2>1. [x \in T |-> 0 - x] \in Surjection(T, N)
    BY DEF Surjection
  <2> QED
    BY <2>1, FS_Surjection
<1>3. PICK m \in N : \A y \in N : m <= y
  <2> HIDE DEF N
  <2> QED
    BY <1>1, <1>2, LeastInteger
<1>4. PICK x \in T : m = 0 - x
  BY <1>3
<1>5. ASSUME NEW y \in T PROVE x >= y
  <2>1. 0 - y \in N /\ x \in Int /\ y \in Int
    BY <1>4
  <2>2. 0 - x <= 0 - y
    BY <1>3, <1>4, <2>1
  <2> QED
    BY <2>1, <2>2
<1> QED
  BY <1>5

(* The envelope of a geometry has its cells inside.                        *)
LEMMA EnvelopeCovers ==
  ASSUME NEW g \in Seq(Int), g # <<>>
  PROVE  /\ Envelope(g)[1] \in Int /\ Envelope(g)[2] \in Int
         /\ \A x \in Range(g) : x \in Int /\ Envelope(g)[1] <= x /\ x <= Envelope(g)[2]
<1> DEFINE S == Range(g)
<1>1. S \subseteq Int /\ IsFiniteSet(S)
  BY RangeType, RangeCardinality
<1>2. S # {}
  <2>1. Range(g) = {Head(g)} \union Range(Tail(g))
    BY RangeTail
  <2> QED
    BY <2>1
<1> HIDE DEF S
<1>3. Min(S) \in S /\ \A y \in S : Min(S) <= y
  BY <1>1, <1>2, LeastInteger DEF Min
<1>4. Max(S) \in S /\ \A y \in S : Max(S) >= y
  BY <1>1, <1>2, GreatestInteger DEF Max
<1>5. Envelope(g)[1] = Min(S) /\ Envelope(g)[2] = Max(S)
  BY DEF Envelope, S
<1> QED
  BY <1>1, <1>3, <1>4, <1>5 DEF S

(* A cell that a geometry shares with others lies in both their bboxes.    *)
LEMMA SharedCell ==
  ASSUME NEW g \in Seq(Int), NEW x \in Range(g),
         NEW l, NEW r, l \in Int, r \in Int, l <= x, x <= r,
         NEW b, b[1] \in Int, b[2] \in Int, Within(Envelope(g), b)
  PROVE  b[1] <= r /\ l <= b[2]
<1>1. g # <<>>
  BY RangeEmpty
<1>2. /\ x \in Int /\ Envelope(g)[1] \in Int /\ Envelope(g)[2] \in Int
      /\ Envelope(g)[1] <= x /\ x <= Envelope(g)[2]
  BY <1>1, EnvelopeCovers
<1>3. b[1] <= Envelope(g)[1] /\ Envelope(g)[2] <= b[2]
  BY DEF Within
<1> QED
  BY <1>2, <1>3

(* The readings of bbox and intersects agree on an item in its row.        *)
LEMMA RowSpatial == RowInv => SpatialParameters
<1> SUFFICES ASSUME RowInv PROVE SpatialParameters
  OBVIOUS
<1> DEFINE g == item.geometry
           box == itemBBox(item)
<1>1. /\ Parses(g) => g # Nil /\ g.v \in Seq(Int) /\ g.v # <<>> /\ geom = g
      /\ item.bbox # Nil => item.bbox.v[1] \in Int /\ item.bbox.v[2] \in Int
  BY ItemsAssumption DEF RowInv, OwnGeometry, IsItem, Parses
<1>2. bbox # <<>> => bbox[1] \in Int /\ bbox[2] \in Int
  BY RequestsAssumption DEF RowInv, AsksFor
<1>3. intersects \in Seq(Int)
  BY RequestsAssumption DEF RowInv, AsksFor
<1>4. Parses(g) => box = IF item.bbox # Nil THEN item.bbox ELSE Value("box", Envelope(g.v))
  <2>1. item.bbox # Nil => box = item.bbox
    BY DEF itemBBox
  <2>2. item.bbox = Nil /\ Parses(g) => box = Value("box", Envelope(g.v))
    BY DEF itemBBox
  <2> QED
    BY <2>1, <2>2
<1>5. Parses(g) => box # Nil /\ box.v[1] \in Int /\ box.v[2] \in Int
  <2>1. Parses(g) => Envelope(g.v)[1] \in Int /\ Envelope(g.v)[2] \in Int
    BY <1>1, EnvelopeCovers
  <2> QED
    BY <1>1, <1>4, <2>1 DEF Value, Nil
<1> HIDE DEF box
<1>6. ASSUME Parses(g), Within(Envelope(g.v), box.v), bbox # <<>>
      PROVE  LET here == bboxGeoShape(item, bbox) = "T" IN
             /\ (bboxWhere(item, geom, bbox) = "T") <=> here
             /\ Answered(item, BBoxPolygon(bbox)) => (intersectsBBox(item, bbox) <=> here)
             /\ here /\ item.bbox # Nil => intersectsBBox(item, bbox)
  <2> DEFINE meets == Range(g.v) \intersect BBoxPolygon(bbox) # {}
             over  == box.v[1] <= bbox[2] /\ box.v[2] >= bbox[1]
  <2>1. meets => over
    <3> SUFFICES ASSUME NEW x \in Range(g.v), x \in bbox[1]..bbox[2]
                 PROVE  over
      BY DEF BBoxPolygon
    <3>1. x \in Int /\ bbox[1] <= x /\ x <= bbox[2]
      BY <1>2, <1>6
    <3>2. box.v[1] <= bbox[2] /\ bbox[1] <= box.v[2]
      BY <1>1, <1>2, <1>5, <1>6, <3>1, SharedCell
    <3> QED
      BY <1>2, <1>5, <1>6, <3>2
  <2>2. bboxWhere(item, geom, bbox) = SqlAnd({SqlIs(over), SqlIs(meets)})
    BY <1>1, <1>5, <1>6 DEF bboxWhere, SqlIs, box
  <2>3. Answered(item, BBoxPolygon(bbox)) => (intersectsBBox(item, bbox) <=> meets)
    BY DEF intersectsBBox
  <2>4. bboxGeoShape(item, bbox) = "T" <=> meets
    BY <1>1, <1>6 DEF bboxGeoShape, DslIs
  <2>5. over /\ item.bbox # Nil => bboxOverlaps(item, bbox)
    BY <1>1, <1>2, <1>4, <1>6 DEF bboxOverlaps, Overlaps
  <2>6. meets /\ item.bbox # Nil => intersectsBBox(item, bbox)
    BY <2>1, <2>5 DEF intersectsBBox
  <2> HIDE DEF meets, over
  <2>7. bboxWhere(item, geom, bbox) = "T" <=> over /\ meets
    BY <2>2 DEF SqlAnd, SqlIs
  <2> QED
    BY <2>1, <2>3, <2>4, <2>6, <2>7
<1>7. ASSUME Parses(g), Within(Envelope(g.v), box.v), intersects # <<>>
      PROVE  LET here == geometryShape(item, intersects) = "T" IN
             /\ (intersectsWhere(geom, intersects) = "T") <=> here
             /\ Answered(item, Range(intersects)) => (intersectsGeometry(item, intersects) <=> here)
             /\ here => intersectsGeometry(item, intersects)
  <2> DEFINE meets == Range(g.v) \intersect Range(intersects) # {}
             around == Envelope(intersects)
  <2>1. geom = g /\ g # Nil
    BY <1>1, <1>7
  <2>2. intersectsWhere(geom, intersects) = "T" <=> meets
    BY <2>1 DEF intersectsWhere, SqlIs
  <2>3. geometryShape(item, intersects) = "T" <=> meets
    BY <2>1 DEF geometryShape, DslIs
  <2>4. Answered(item, Range(intersects)) => (intersectsGeometry(item, intersects) <=> meets)
    BY DEF intersectsGeometry
  <2>5. ASSUME meets PROVE Overlaps(box.v, around)
    <3>1. PICK x \in Range(g.v) : x \in Range(intersects)
      BY <2>5
    <3>2. /\ around[1] \in Int /\ around[2] \in Int
          /\ x \in Int /\ around[1] <= x /\ x <= around[2]
      BY <1>3, <1>7, <3>1, EnvelopeCovers
    <3> HIDE DEF around
    <3>3. box.v[1] <= around[2] /\ around[1] <= box.v[2]
      BY <1>1, <1>5, <1>7, <3>2, SharedCell
    <3> QED
      BY <1>5, <1>7, <3>2, <3>3 DEF Overlaps
  <2>6. meets => intersectsGeometry(item, intersects)
    <3>1. item.bbox # Nil => box.v = item.bbox.v
      BY <1>4, <1>7
    <3>2. item.bbox = Nil => box.v = Envelope(g.v)
      BY <1>4, <1>7 DEF Value
    <3> QED
      BY <2>5, <3>1, <3>2 DEF intersectsGeometry, bboxOverlaps
  <2> QED
    BY <2>2, <2>3, <2>4, <2>6
<1>8. ASSUME ~Parses(g), bbox # <<>>
      PROVE  /\ bboxWhere(item, geom, bbox) = "T" => intersectsBBox(item, bbox)
             /\ geom = Nil /\ intersectsBBox(item, bbox) => bboxWhere(item, geom, bbox) = "T"
  <2> DEFINE meets == geom = Nil \/ Range(geom.v) \intersect BBoxPolygon(bbox) # {}
  <2>1. box = item.bbox
    <3>1. item.bbox # Nil => box = item.bbox
      BY DEF itemBBox, box
    <3>2. item.bbox = Nil => box = Nil
      BY <1>8 DEF itemBBox, box
    <3> QED
      BY <3>1, <3>2
  <2>2. intersectsBBox(item, bbox) <=> bboxOverlaps(item, bbox)
    BY <1>8 DEF intersectsBBox, Answered
  <2>3. CASE item.bbox = Nil
    <3>1. bboxWhere(item, geom, bbox) = SqlAnd({"N", SqlIs(meets)})
      BY <2>1, <2>3 DEF bboxWhere, SqlIs, box
    <3> HIDE DEF meets
    <3> QED
      BY <2>2, <2>3, <3>1 DEF bboxOverlaps, SqlAnd
  <2>4. CASE item.bbox # Nil
    <3> DEFINE over == box.v[1] <= bbox[2] /\ box.v[2] >= bbox[1]
    <3>1. bboxWhere(item, geom, bbox) = SqlAnd({SqlIs(over), SqlIs(meets)})
      BY <2>1, <2>4 DEF bboxWhere, SqlIs, box
    <3>2. bboxOverlaps(item, bbox) <=> over
      BY <1>1, <1>2, <1>8, <2>1, <2>4 DEF bboxOverlaps, Overlaps
    <3>3. geom = Nil => meets
      OBVIOUS
    <3> HIDE DEF meets, over
    <3> QED
      BY <2>2, <3>1, <3>2, <3>3 DEF SqlAnd, SqlIs
  <2> QED
    BY <2>3, <2>4
<1> QED
  BY <1>6, <1>7, <1>8, Zenon DEF SpatialParameters, box

(* SpatialParameters, for any items and requests, after any upserts.       *)
THEOREM SearchSpatial == SearchSpec => []SpatialParameters
  BY SearchRow, RowSpatial, PTL

----------------------------------------------------------------------------
(* Conditions                                                              *)

Truths == {Bool(TRUE), Bool(FALSE)}

(* Bool makes two values of what is true or not.                           *)
LEMMA TruthValues ==
  /\ \A b \in BOOLEAN : Bool(b) \in Truths /\ Bool(b).kind = "bool" /\ (True(Bool(b)) <=> b)
  /\ \A v \in Truths : v.kind = "bool" /\ (v = Bool(TRUE) <=> True(v)) /\ (v = Bool(FALSE) <=> ~True(v))
<1>1. Bool(TRUE) # Bool(FALSE) /\ Bool(TRUE).kind = "bool" /\ Bool(FALSE).kind = "bool"
  BY DEF Bool, Value
<1>2. True(Bool(TRUE)) /\ ~True(Bool(FALSE))
  BY <1>1, Zenon DEF True
<1>3. ASSUME NEW b \in BOOLEAN
      PROVE  Bool(b) \in Truths /\ Bool(b).kind = "bool" /\ (True(Bool(b)) <=> b)
  <2>1. CASE b = TRUE
    BY <1>1, <1>2, <2>1, Zenon DEF Truths
  <2>2. CASE b = FALSE
    BY <1>1, <1>2, <2>2, Zenon DEF Truths
  <2> QED
    BY <2>1, <2>2
<1>4. ASSUME NEW v \in Truths
      PROVE  v.kind = "bool" /\ (v = Bool(TRUE) <=> True(v)) /\ (v = Bool(FALSE) <=> ~True(v))
  <2>1. CASE v = Bool(TRUE)
    BY <1>1, <1>2, <2>1, Zenon
  <2>2. CASE v = Bool(FALSE)
    BY <1>1, <1>2, <2>2, Zenon
  <2> QED
    BY <2>1, <2>2, Zenon DEF Truths
<1> QED
  BY <1>3, <1>4, Zenon

(* ... whatever stands for the truth.                                      *)
LEMMA TruthOf ==
  ASSUME NEW b
  PROVE  Bool(b) \in Truths /\ (True(Bool(b)) <=> b)
<1>1. CASE b
  <2>1. Bool(b) = Bool(TRUE)
    BY <1>1 DEF Bool
  <2> QED
    BY <1>1, <2>1, TruthValues DEF Truths
<1>2. CASE ~b
  <2>1. Bool(b) = Bool(FALSE)
    BY <1>2 DEF Bool
  <2> QED
    BY <1>2, <2>1, TruthValues DEF Truths
<1> QED
  BY <1>1, <1>2

(* Every operator with the arguments the parser requires.                  *)
WellFormed(e) ==
  /\ Len(e.args) \in Nat /\ DOMAIN e.args = 1..Len(e.args)
  /\ CASE e.op \in {"not", "isNull"} -> Len(e.args) = 1
       [] e.op \in {"and", "or"}      -> Len(e.args) >= 1
       [] e.op = "in"                 -> Len(e.args) >= 2
       [] e.op = "between"            -> Len(e.args) = 3
       [] e.op = "function"           -> TRUE
       [] OTHER                       -> Len(e.args) = 2

Values(e) == [i \in DOMAIN e.args |-> evalLeaf(e.args[i], item)]
Where(e)  == evalSpatial(e.op, Cells(Values(e)[1], item), Cells(Values(e)[2], item))
Holds(e)  == IF e.op \in Spatial THEN True(Where(e)) ELSE evalCondition(e.op, Values(e))

(* spatialite answers a condition as inmem does, but where the property is *)
(* missing: then it may not answer, which finds nothing, like inmem.       *)
SqlAgrees(e) ==
  LET answer == sqlCondition(e, itemRow) IN
  /\ answer \in {"T", "F", "N"}
  /\ answer = "T" => Holds(e)
  /\ answer = "F" => ~Holds(e)
  /\ answer = "N" => ~Holds(e) /\ ~Present(e)

(* opensearch answers it as inmem does.                                    *)
DslAgrees(e) == dslCondition(e, item) = IF Holds(e) THEN "T" ELSE "F"

(* A property of an item that can be compared, as the backends see it.     *)
LEMMA PlainColumns ==
  ASSUME IsItem(item), NEW name, KindOf(name) \in Equatable
  PROVE  /\ resolveProperty(item, name) = item[name]
         /\ field(name, item) = item[name] /\ mapping(name) = KindOf(name)
         /\ KindOf(name) = "time" <=> name \in TimeNames
         /\ item[name] # Nil =>
              /\ item[name].kind = IF KindOf(name) = "time" THEN "str" ELSE KindOf(name)
              /\ item[name] = Value(item[name].kind, item[name].v)
         /\ mapColumn(name, itemRow) = CASE name = "datetime" -> pickDatetime(item[name])
                                      [] name = "b" /\ item[name] # Nil -> Value("num", item[name].v)
                                      [] OTHER -> item[name]
<1>1. name \in {"n", "s", "b"} \union TimeNames
  BY DEF KindOf, Equatable, TimeNames
<1>2. name \in DOMAIN item /\ name # "geometry"
  BY <1>1 DEF IsItem, TimeNames
<1>3. Unqualified(name) = name
  BY <1>1 DEF Unqualified, TimeNames
<1>4. KindOf(name) = "time" <=> name \in TimeNames
  BY <1>1 DEF KindOf, TimeNames
<1>5. item[name] # Nil =>
        /\ item[name].kind = IF KindOf(name) = "time" THEN "str" ELSE KindOf(name)
        /\ item[name] = Value(item[name].kind, item[name].v)
  <2>1. CASE name \in TimeNames
    <3>1. item[name] # Nil => item[name] = Value("str", item[name].v) /\ item[name].kind = "str"
      BY <2>1, ItemTimes
    <3> QED
      BY <2>1, <3>1, <1>4
  <2>2. CASE name = "n"
    BY <2>2 DEF IsItem, IsValue, Value, KindOf
  <2>3. CASE name = "s"
    BY <2>3 DEF IsItem, IsValue, Value, KindOf
  <2>4. CASE name = "b"
    BY <2>4 DEF IsItem, IsValue, Value, KindOf
  <2> QED
    BY <1>1, <2>1, <2>2, <2>3, <2>4
<1>6. Nil.kind = "nil"
  BY DEF Nil, Value
<1>7. item[name].kind = "bool" <=> name = "b" /\ item[name] # Nil
  <2>1. KindOf(name) = "bool" <=> name = "b"
    BY <1>1 DEF KindOf, TimeNames
  <2> QED
    BY <1>5, <1>6, <2>1
<1>8. mapColumn(name, itemRow) = CASE name = "datetime" -> pickDatetime(item[name])
                                   [] name = "b" /\ item[name] # Nil -> Value("num", item[name].v)
                                   [] OTHER -> item[name]
  <2>1. name \in DOMAIN itemRow /\ itemRow[name] = item[name]
    BY <1>2 DEF itemRow
  <2> QED
    BY <1>3, <1>7, <2>1 DEF mapColumn
<1> QED
  BY <1>2, <1>3, <1>4, <1>5, <1>8 DEF resolveProperty, field, mapping

(* A property compared with a literal of its kind, on each backend.        *)
Comparison(p, e, op) ==
  LET x     == item[p.name]
      col   == mapColumn(p.name, itemRow)
      lit   == literalValue(e)
      holds == compare(op, evalLeaf(p, item), evalLeaf(e, item))
  IN /\ lit # Nil /\ lit.kind # "interval" /\ (col = Nil <=> x = Nil)
     /\ x = Nil => /\ holds <=> op = "<>"
                   /\ SqlCompare(op, col, lit) = "N"
                   /\ op # "<>" => DslCompare(op, p.name, field(p.name, item), e) = "F"
     /\ x # Nil => /\ SqlCompare(op, col, lit) = SqlIs(holds)
                   /\ op # "<>" => DslCompare(op, p.name, field(p.name, item), e) = DslIs(holds)

(* ... a time with a timestamp.                                            *)
LEMMA CompareTime ==
  ASSUME IsItem(item), PlainTimes, NEW p, NEW e, NEW op \in Equality \union Ordering,
         Typed(p, e, {"time"})
  PROVE  Comparison(p, e, op)
<1> DEFINE name == p.name
           x    == item[name]
           col  == mapColumn(name, itemRow)
           lit  == literalValue(e)
<1>1. p.op = "prop" /\ e.op = "time" /\ KindOf(name) = "time" /\ WholeSeconds(e.v)
  BY DEF Typed
<1>2. KindOf(name) \in Equatable /\ name \in TimeNames /\ name # "b"
  <2>1. KindOf(name) \in Equatable
    BY <1>1 DEF Equatable
  <2>2. name \in TimeNames
    BY <1>1, <2>1, PlainColumns
  <2> QED
    BY <2>1, <2>2 DEF TimeNames
<1>3. x # Nil => /\ x.kind = "str" /\ IsRFC3339(x.v) /\ WholeSeconds(x.v)
                 /\ x = Value("str", x.v) /\ FormatSeconds(x.v) = x.v
  BY <1>2, ItemTimes
<1>4. lit = Value("str", FormatSeconds(e.v)) /\ lit # Nil /\ lit.kind = "str"
  BY <1>1 DEF literalValue, Value, Nil
<1>5. col = IF x = Nil THEN Nil ELSE Value("str", FormatSeconds(x.v))
  <2>1. col = IF name = "datetime" THEN pickDatetime(x) ELSE x
    BY <1>2, PlainColumns
  <2>2. x = Nil => pickDatetime(x) = Nil
    BY DEF pickDatetime, Nil, Value
  <2>3. x # Nil => pickDatetime(x) = Value("str", FormatSeconds(x.v))
    BY <1>3 DEF pickDatetime
  <2> QED
    BY <1>3, <2>1, <2>2, <2>3
<1>6. evalLeaf(p, item) = x /\ field(name, item) = x
  BY <1>1, <1>2, PlainColumns DEF evalLeaf
<1>7. evalLeaf(e, item) = Value("time", <<Instant(e.v)>>)
  BY <1>1 DEF evalLeaf, evalLiteral
<1> DEFINE r == Value("time", <<Instant(e.v)>>)
<1>8. r # Nil /\ r.kind = "time" /\ HasTime(r) /\ toTime(r) = Instant(e.v)
  BY DEF Value, Nil, HasTime, toTime
<1> HIDE DEF x, col, lit, r
<1>9. CASE x = Nil
  <2>1. compare(op, x, r) <=> op = "<>"
    BY <1>8, <1>9 DEF compare, Equality, Ordering
  <2>2. col = Nil /\ SqlCompare(op, col, lit) = "N"
    <3>1. Nil.kind = "nil"
      BY DEF Nil, Value
    <3> QED
      BY <1>4, <1>5, <1>9, <3>1 DEF SqlCompare
  <2>3. op # "<>" => DslCompare(op, name, x, e) = DslIs(FALSE)
    <3>1. op # "<>" => op \in {"=", "<", "<=", ">", ">="}
      BY DEF Equality, Ordering
    <3>2. op # "<>" => DslCompare(op, name, x, e) = DslIs(x # Nil /\ InOrder(op, x.v, e.v))
      BY <1>1, <1>2, <1>9, <3>1, DslTime
    <3> QED
      BY <1>9, <3>2 DEF DslIs
  <2> QED
    BY <1>4, <1>6, <1>7, <1>9, <2>1, <2>2, <2>3 DEF Comparison, x, col, lit, r, DslIs
<1>10. CASE x # Nil
  <2>1. HasTime(x) /\ toTime(x) = Instant(x.v)
    BY <1>3, <1>10 DEF HasTime, toTime, IsRFC3339
  <2>2. compare(op, x, r) <=> InOrder(op, x.v, e.v)
    BY <1>3, <1>8, <1>10, <2>1 DEF compare, InOrder
  <2>3. SqlCompare(op, col, lit) = SqlIs(InOrder(op, x.v, e.v)) /\ col # Nil
    <3>1. col # Nil
      BY <1>5, <1>10 DEF Value, Nil
    <3> QED
      BY <1>1, <1>3, <1>4, <1>5, <1>10, <3>1, SqlTime DEF Equality, Ordering
  <2>4. op # "<>" => DslCompare(op, name, x, e) = DslIs(InOrder(op, x.v, e.v))
    <3>1. op # "<>" => op \in {"=", "<", "<=", ">", ">="}
      BY DEF Equality, Ordering
    <3>2. op # "<>" => DslCompare(op, name, x, e) = DslIs(x # Nil /\ InOrder(op, x.v, e.v))
      BY <1>1, <1>2, <1>3, <3>1, DslTime
    <3> QED
      BY <1>10, <3>2 DEF DslIs
  <2> QED
    BY <1>4, <1>6, <1>7, <1>10, <2>2, <2>3, <2>4 DEF Comparison, x, col, lit, r, DslIs, SqlIs
<1> QED
  BY <1>9, <1>10

(* ... a number, a text or a Boolean with its like.                        *)
LEMMA CompareValue ==
  ASSUME IsItem(item), NEW p, NEW e, NEW op \in Equality \union Ordering,
         Typed(p, e, {"num", "str", "bool"}), op \in Equality \/ e.op # "bool"
  PROVE  Comparison(p, e, op)
<1> DEFINE name == p.name
           x    == item[name]
           col  == mapColumn(name, itemRow)
           lit  == literalValue(e)
           r    == Value(e.op, e.v)
           less == Less(x.v, e.v)
           same == x.v = e.v
<1>1. p.op = "prop" /\ e.op = KindOf(name) /\ e.op \in {"num", "str", "bool"}
  BY DEF Typed
<1>2. KindOf(name) \in Equatable /\ name \notin TimeNames
  BY <1>1, PlainColumns DEF Equatable
<1>3. x # Nil => x.kind = e.op /\ x = Value(e.op, x.v)
  BY <1>1, <1>2, PlainColumns
<1>4. col = IF x = Nil THEN Nil ELSE IF e.op = "bool" THEN Value("num", x.v) ELSE x
  <2>1. name = "b" <=> e.op = "bool"
    BY <1>1, <1>2 DEF KindOf, TimeNames
  <2>2. name # "datetime"
    BY <1>2 DEF TimeNames
  <2> QED
    BY <1>2, <2>1, <2>2, PlainColumns
<1>5. lit = Value(IF e.op = "bool" THEN "num" ELSE e.op, e.v)
  BY <1>1 DEF literalValue
<1>6. /\ lit # Nil /\ lit.kind \in {"num", "str"} /\ lit.v = e.v
      /\ r # Nil /\ r.kind = e.op /\ r.v = e.v /\ Nil.kind = "nil"
  BY <1>1, <1>5 DEF Value, Nil
<1>7. evalLeaf(p, item) = x /\ field(name, item) = x /\ mapping(name) = e.op
  BY <1>1, <1>2, PlainColumns DEF evalLeaf
<1>8. evalLeaf(e, item) = r
  BY <1>1 DEF evalLeaf, evalLiteral
<1>9. /\ op \in {"=", "<>", "<", "<=", ">", ">="}
      /\ e.op = "bool" => op \in {"=", "<>"}
  BY DEF Equality, Ordering
<1> HIDE DEF x, col, lit, r
<1>10. CASE x = Nil
  <2>1. compare(op, x, r) <=> op = "<>"
    BY <1>6, <1>9, <1>10 DEF compare
  <2>2. col = Nil /\ SqlCompare(op, col, lit) = "N"
    BY <1>4, <1>6, <1>10 DEF SqlCompare
  <2>3. op # "<>" => DslCompare(op, name, x, e) = DslIs(FALSE)
    BY <1>1, <1>7, <1>10 DEF DslCompare, DslIs
  <2> QED
    BY <1>6, <1>7, <1>8, <1>10, <2>1, <2>2, <2>3 DEF Comparison, x, col, lit, r, DslIs
<1>11. CASE x # Nil
  <2>1. x = r <=> same
    BY <1>3, <1>11 DEF r, Value
  <2>2. compare(op, x, r) <=> applyOrder(op, less, same)
    <3>1. CASE e.op = "bool"
      <4>1. ~HasTime(x) /\ x.kind = "bool"
        BY <1>3, <1>11, <3>1 DEF HasTime
      <4>2. compare(op, x, r) <=> (op = "=" /\ x = r) \/ (op = "<>" /\ x # r)
        BY <1>6, <1>11, <4>1 DEF compare
      <4> QED
        BY <1>9, <2>1, <3>1, <4>2 DEF applyOrder
    <3>2. CASE e.op # "bool"
      <4>1. x.kind = r.kind /\ x.kind \in {"num", "str"}
        BY <1>1, <1>3, <1>6, <1>11, <3>2
      <4>2. compare(op, x, r) <=> applyOrder(op, Less(x.v, r.v), x.v = r.v)
        BY <1>6, <1>11, <4>1 DEF compare
      <4> QED
        BY <1>6, <4>2
    <3> QED
      BY <3>1, <3>2
  <2>3. SqlCompare(op, col, lit) = SqlIs(applyOrder(op, less, same)) /\ col # Nil
    <3>1. col.v = x.v /\ col.kind = lit.kind /\ col.kind # "interval" /\ col # Nil
      BY <1>1, <1>3, <1>4, <1>5, <1>6, <1>11 DEF Value
    <3>2. col = lit <=> same
      BY <1>3, <1>4, <1>5, <1>11 DEF Value
    <3>3. SqlCompare(op, col, lit) = SqlIs(applyOrder(op, Less(col.v, lit.v), col = lit))
      BY <1>6, <3>1 DEF SqlCompare
    <3>4. applyOrder(op, Less(col.v, lit.v), col = lit) <=> applyOrder(op, less, same)
      BY <1>6, <3>1, <3>2, Zenon DEF applyOrder
    <3> QED
      BY <3>1, <3>3, <3>4, Zenon DEF SqlIs
  <2>4. DslCompare(op, name, x, e) = DslIs(applyOrder(op, less, same))
    BY <1>1, <1>7, <1>11 DEF DslCompare, DslIs
  <2> HIDE DEF less, same
  <2> QED
    BY <1>6, <1>7, <1>8, <1>11, <2>2, <2>3, <2>4 DEF Comparison, x, col, lit, r, DslIs, SqlIs
<1> QED
  BY <1>10, <1>11

(* What a property may be compared with, and its equality is symmetric.    *)
LEMMA Compared ==
  ASSUME IsItem(item), PlainTimes, NEW p, NEW e, NEW op,
         \/ op \in Equality /\ Typed(p, e, Equatable)
         \/ op \in Ordering /\ Typed(p, e, Orderable)
  PROVE  /\ Comparison(p, e, op)
         /\ op \in Equality =>
              (compare(op, evalLeaf(e, item), evalLeaf(p, item))
                 <=> compare(op, evalLeaf(p, item), evalLeaf(e, item)))
<1>1. op \in Equality \union Ordering /\ (op \in Equality \/ e.op # "bool")
  BY DEF Typed, Orderable
<1>2. Typed(p, e, {"time"}) \/ Typed(p, e, {"num", "str", "bool"})
  BY DEF Typed, Equatable, Orderable
<1>3. Comparison(p, e, op)
  BY <1>1, <1>2, CompareTime, CompareValue
<1>4. ASSUME op \in Equality, NEW l, NEW r
      PROVE  compare(op, l, r) <=> compare(op, r, l)
  BY <1>4 DEF compare, applyOrder, Equality
<1> QED
  BY <1>3, <1>4

(* = and <>, with the property on either side.                             *)
LEMMA EqualityCondition ==
  ASSUME IsItem(item), PlainTimes, NEW e, WellFormed(e), e.op \in Equality,
         NEW i \in 1..2, Typed(e.args[i], e.args[3 - i], Equatable)
  PROVE  SqlAgrees(e) /\ DslAgrees(e)
<1> DEFINE p == e.args[i]
           l == e.args[3 - i]
           x == item[p.name]
           col == mapColumn(p.name, itemRow)
           lit == literalValue(l)
           eq(op) == compare(op, evalLeaf(p, item), evalLeaf(l, item))
<1>1. 1 \in DOMAIN e.args /\ 2 \in DOMAIN e.args /\ e.op \in {"=", "<>"}
  BY DEF WellFormed, Equality
<1>2. Holds(e) <=> eq(e.op)
  <2>1. Holds(e) <=> compare(e.op, evalLeaf(e.args[1], item), evalLeaf(e.args[2], item))
    BY <1>1 DEF Holds, Values, evalCondition, Equality, Ordering, Spatial, Temporal
  <2>2. compare(e.op, evalLeaf(l, item), evalLeaf(p, item)) <=> eq(e.op)
    BY Compared
  <2>3. CASE i = 1
    BY <2>1, <2>3
  <2>4. CASE i = 2
    BY <2>1, <2>2, <2>4
  <2> QED
    BY <2>3, <2>4
<1>3. p.op = "prop" /\ l.op # "prop"
  BY DEF Typed, Equatable
<1>4. /\ lit # Nil /\ lit.kind # "interval" /\ (col = Nil <=> x = Nil)
      /\ x = Nil => /\ SqlCompare("=", col, lit) = "N"
                    /\ DslCompare("=", p.name, field(p.name, item), l) = "F"
                    /\ ~eq("=") /\ eq("<>")
      /\ x # Nil => /\ SqlCompare("=", col, lit) = SqlIs(eq("="))
                    /\ SqlCompare("<>", col, lit) = SqlIs(eq("<>"))
                    /\ DslCompare("=", p.name, field(p.name, item), l) = DslIs(eq("="))
  <2>1. Comparison(p, l, "=") /\ Comparison(p, l, "<>")
    BY Compared DEF Equality
  <2> QED
    BY <2>1, Zenon DEF Comparison
<1>5. eq("<>") <=> ~eq("=")
  BY DEF compare, applyOrder
<1>6. sqlCondition(e, itemRow) = translateEquality(e.op, col, lit)
  <2>1. propAndLiteral(e.args).name = p.name /\ propAndLiteral(e.args).lit = l
    <3>1. CASE i = 1
      BY <1>3, <3>1 DEF propAndLiteral
    <3>2. CASE i = 2
      BY <1>3, <3>2 DEF propAndLiteral
    <3> QED
      BY <3>1, <3>2
  <2> QED
    BY <1>1, <2>1 DEF sqlCondition, Equality, Ordering, Spatial, Temporal
<1>7. dslCondition(e, item) = IF e.op = "<>" THEN termNot(p.name, field(p.name, item), l)
                              ELSE DslCompare(e.op, p.name, field(p.name, item), l)
  <2>1. CASE i = 1
    BY <1>1, <1>3, <2>1 DEF dslCondition, Equality, Ordering, Spatial, Temporal
  <2>2. CASE i = 2
    BY <1>1, <1>3, <2>2 DEF dslCondition, Equality, Ordering, Spatial, Temporal
  <2> QED
    BY <2>1, <2>2
<1>8. x = Nil => ~Present(e)
  BY <1>1, <1>3 DEF Present
<1> HIDE DEF eq, col, lit, x, p, l
<1>9. SqlAgrees(e)
  BY <1>1, <1>2, <1>4, <1>5, <1>6, <1>8 DEF SqlAgrees, translateEquality, SqlIs
<1>10. DslAgrees(e)
  BY <1>1, <1>2, <1>4, <1>5, <1>7 DEF DslAgrees, termNot, mustNot, DslIs
<1> QED
  BY <1>9, <1>10

(* The orders, with the property first.                                    *)
LEMMA OrderingCondition ==
  ASSUME IsItem(item), PlainTimes, NEW e, WellFormed(e), e.op \in Ordering,
         Typed(e.args[1], e.args[2], Orderable)
  PROVE  SqlAgrees(e) /\ DslAgrees(e)
<1> DEFINE p == e.args[1]
           l == e.args[2]
           x == item[p.name]
<1>1. /\ 1 \in DOMAIN e.args /\ 2 \in DOMAIN e.args
      /\ e.op \in {"<", "<=", ">", ">="} /\ e.op \notin Equality
  BY DEF WellFormed, Ordering, Equality
<1>2. p.op = "prop"
  BY DEF Typed
<1>3. Holds(e) <=> compare(e.op, evalLeaf(p, item), evalLeaf(l, item))
  BY <1>1 DEF Holds, Values, evalCondition, Equality, Ordering, Spatial, Temporal
<1>4. sqlCondition(e, itemRow) = SqlCompare(e.op, mapColumn(p.name, itemRow), literalValue(l))
  BY <1>1, <1>2 DEF sqlCondition, propAndLiteral, Equality, Ordering, Spatial, Temporal
<1>5. dslCondition(e, item) = DslCompare(e.op, p.name, field(p.name, item), l)
  BY <1>1, <1>2 DEF dslCondition, Equality, Ordering, Spatial, Temporal
<1>6. Comparison(p, l, e.op)
  BY Compared
<1>7. x = Nil => ~Present(e)
  BY <1>1, <1>2 DEF Present
<1>8. SqlAgrees(e)
  BY <1>1, <1>3, <1>4, <1>6, <1>7 DEF SqlAgrees, SqlIs, Comparison
<1>9. DslAgrees(e)
  BY <1>1, <1>3, <1>5, <1>6 DEF DslAgrees, DslIs, Comparison
<1> QED
  BY <1>8, <1>9

(* BETWEEN.                                                                *)
LEMMA BetweenCondition ==
  ASSUME IsItem(item), PlainTimes, NEW e, WellFormed(e), e.op = "between",
         \A i \in 2..3 : Typed(e.args[1], e.args[i], Orderable)
  PROVE  SqlAgrees(e) /\ DslAgrees(e)
<1> DEFINE p == e.args[1]
           x == item[p.name]
           above == compare(">=", evalLeaf(p, item), evalLeaf(e.args[2], item))
           below == compare("<=", evalLeaf(p, item), evalLeaf(e.args[3], item))
           sqlAbove == SqlCompare(">=", mapColumn(p.name, itemRow), literalValue(e.args[2]))
           sqlBelow == SqlCompare("<=", mapColumn(p.name, itemRow), literalValue(e.args[3]))
           dslAbove == DslCompare(">=", p.name, field(p.name, item), e.args[2])
           dslBelow == DslCompare("<=", p.name, field(p.name, item), e.args[3])
<1>1. 1 \in DOMAIN e.args /\ 2 \in DOMAIN e.args /\ 3 \in DOMAIN e.args
  BY DEF WellFormed
<1>2. e.op \notin Equality \union Ordering /\ p.op = "prop"
  BY DEF Equality, Ordering, Typed
<1>3. Holds(e) <=> above /\ below
  BY <1>1, <1>2 DEF Holds, Values, evalCondition, Equality, Ordering, Spatial, Temporal
<1>4. sqlCondition(e, itemRow) = SqlAnd({sqlAbove, sqlBelow})
  BY <1>2 DEF sqlCondition, Equality, Ordering, Spatial, Temporal
<1>5. dslCondition(e, item) = DslAnd({dslAbove, dslBelow})
  BY <1>2 DEF dslCondition, Equality, Ordering, Spatial, Temporal
<1>6. Comparison(p, e.args[2], ">=") /\ Comparison(p, e.args[3], "<=")
  BY Compared DEF Ordering
<1>7. /\ x = Nil => /\ ~above /\ ~below /\ sqlAbove = "N" /\ sqlBelow = "N"
                    /\ dslAbove = "F" /\ dslBelow = "F"
      /\ x # Nil => /\ sqlAbove = SqlIs(above) /\ sqlBelow = SqlIs(below)
                    /\ dslAbove = DslIs(above) /\ dslBelow = DslIs(below)
  BY <1>6, Zenon DEF Comparison
<1>8. x = Nil => ~Present(e)
  BY <1>1, <1>2 DEF Present
<1> HIDE DEF x, above, below, sqlAbove, sqlBelow, dslAbove, dslBelow
<1>9. SqlAgrees(e)
  BY <1>3, <1>4, <1>7, <1>8 DEF SqlAgrees, SqlIs, SqlAnd
<1>10. DslAgrees(e)
  BY <1>3, <1>5, <1>7 DEF DslAgrees, DslIs, DslAnd
<1> QED
  BY <1>9, <1>10

(* IN a list of literals.                                                  *)
LEMMA InCondition ==
  ASSUME IsItem(item), PlainTimes, NEW e, WellFormed(e), e.op = "in",
         e.args[1].op = "prop",
         \A i \in 2..Len(e.args) : Typed(e.args[1], e.args[i], Equatable)
  PROVE  SqlAgrees(e) /\ DslAgrees(e)
<1> DEFINE p == e.args[1]
           x == item[p.name]
           I == 2..Len(e.args)
           is(i)  == compare("=", evalLeaf(p, item), evalLeaf(e.args[i], item))
           sql(i) == SqlCompare("=", mapColumn(p.name, itemRow), literalValue(e.args[i]))
           dsl(i) == DslCompare("=", p.name, field(p.name, item), e.args[i])
<1>1. 1 \in DOMAIN e.args /\ Len(e.args) \in Nat /\ DOMAIN e.args = 1..Len(e.args)
      /\ Len(e.args) >= 2
  BY DEF WellFormed
<1>2. e.op \notin Equality \union Ordering
  BY DEF Equality, Ordering
<1>3. Holds(e) <=> \E i \in I : is(i)
  <2>1. Len(Values(e)) = Len(e.args)
    BY <1>1 DEF Values
  <2>2. \A i \in I : Values(e)[i] = evalLeaf(e.args[i], item)
    BY <1>1 DEF Values
  <2>3. Values(e)[1] = evalLeaf(p, item)
    BY <1>1 DEF Values
  <2> QED
    BY <1>2, <2>1, <2>2, <2>3 DEF Holds, evalCondition, Equality, Ordering, Spatial, Temporal
<1>4. sqlCondition(e, itemRow) = SqlOr({sql(i) : i \in I})
  BY <1>2 DEF sqlCondition, Equality, Ordering, Spatial, Temporal
<1>5. dslCondition(e, item) = DslOr({dsl(i) : i \in I})
  BY <1>2 DEF dslCondition, Equality, Ordering, Spatial, Temporal
<1>6. ASSUME NEW i \in I
      PROVE  /\ x = Nil => ~is(i) /\ sql(i) = "N" /\ dsl(i) = "F"
             /\ x # Nil => sql(i) = SqlIs(is(i)) /\ dsl(i) = DslIs(is(i))
  <2>1. Comparison(p, e.args[i], "=")
    BY Compared DEF Equality
  <2> QED
    BY <2>1, Zenon DEF Comparison
<1>7. x = Nil => ~Present(e)
  BY <1>1 DEF Present
<1> HIDE DEF x, I, is, sql, dsl
<1>8. SqlAgrees(e)
  BY <1>3, <1>4, <1>6, <1>7 DEF SqlAgrees, SqlIs, SqlOr
<1>9. DslAgrees(e)
  BY <1>3, <1>5, <1>6 DEF DslAgrees, DslIs, DslOr
<1> QED
  BY <1>8, <1>9

(* What is Nil is so on every backend.                                     *)
LEMMA NilColumn ==
  ASSUME IsItem(item), PlainTimes, NEW name, KindOf(name) \in Equatable
  PROVE  mapColumn(name, itemRow) = Nil <=> item[name] = Nil
<1>1. name \in TimeNames => pickDatetime(item[name]) = Nil <=> item[name] = Nil
  <2>1. ASSUME name \in TimeNames, item[name] # Nil
        PROVE  pickDatetime(item[name]) # Nil
    <3>1. item[name].kind = "str" /\ IsRFC3339(item[name].v)
      BY <2>1, ItemTimes
    <3> QED
      BY <3>1 DEF pickDatetime, Value, Nil
  <2>2. pickDatetime(Nil) = Nil
    BY DEF pickDatetime, Nil, Value
  <2> QED
    BY <2>1, <2>2
<1>2. Value("num", item[name].v) # Nil
  BY DEF Value, Nil
<1> QED
  BY <1>1, <1>2, PlainColumns DEF TimeNames

(* IS NULL, and a null literal, which spatialite alone takes.              *)
LEMMA NullCondition ==
  ASSUME IsItem(item), PlainTimes, NEW e, WellFormed(e),
         e.args[1].op = "prop", KindOf(e.args[1].name) \in Equatable
  PROVE  /\ e.op = "isNull" => SqlAgrees(e) /\ DslAgrees(e)
         /\ e.op \in Equality /\ e.args[2].op = "null" => SqlAgrees(e)
<1> DEFINE p == e.args[1]
           x == item[p.name]
           col == mapColumn(p.name, itemRow)
<1>1. e.op \in {"isNull"} \union Equality =>
        1 \in DOMAIN e.args /\ (e.op # "isNull" => 2 \in DOMAIN e.args)
  <2>1. e.op = "isNull" => Len(e.args) = 1
    BY DEF WellFormed
  <2>2. e.op \in Equality => Len(e.args) = 2 /\ e.op # "isNull"
    BY DEF WellFormed, Equality
  <2>3. DOMAIN e.args = 1..Len(e.args)
    BY DEF WellFormed
  <2> QED
    BY <2>1, <2>2, <2>3
<1>2. evalLeaf(p, item) = x /\ field(p.name, item) = x /\ (col = Nil <=> x = Nil)
  BY PlainColumns, NilColumn DEF evalLeaf
<1>3. ASSUME e.op = "isNull" PROVE SqlAgrees(e) /\ DslAgrees(e)
  <2>1. Holds(e) <=> x = Nil
    BY <1>1, <1>2, <1>3 DEF Holds, Values, evalCondition, Equality, Ordering, Spatial, Temporal
  <2>2. sqlCondition(e, itemRow) = SqlIs(col = Nil)
    BY <1>3 DEF sqlCondition, Equality, Ordering, Spatial, Temporal
  <2>3. dslCondition(e, item) = DslIs(x = Nil)
    BY <1>2, <1>3 DEF dslCondition, Equality, Ordering, Spatial, Temporal
  <2> QED
    BY <1>2, <2>1, <2>2, <2>3 DEF SqlAgrees, DslAgrees, SqlIs, DslIs
<1>4. ASSUME e.op \in Equality, e.args[2].op = "null" PROVE SqlAgrees(e)
  <2>1. 2 \in DOMAIN e.args /\ e.op \in {"=", "<>"}
    BY <1>1, <1>4 DEF Equality
  <2>2. evalLeaf(e.args[2], item) = Nil /\ literalValue(e.args[2]) = Nil
    BY <1>4 DEF evalLeaf, evalLiteral, literalValue
  <2>3. Holds(e) <=> compare(e.op, x, Nil)
    BY <1>1, <1>2, <2>1, <2>2 DEF Holds, Values, evalCondition, Equality, Ordering, Spatial, Temporal
  <2>4. sqlCondition(e, itemRow) = translateEquality(e.op, col, Nil)
    <3>1. propAndLiteral(e.args).name = p.name /\ propAndLiteral(e.args).lit = e.args[2]
      BY DEF propAndLiteral
    <3> QED
      BY <2>1, <2>2, <3>1 DEF sqlCondition, Equality, Ordering, Spatial, Temporal
  <2>5. translateEquality(e.op, col, Nil) = SqlIs((x = Nil) <=> (e.op = "="))
    BY <1>2 DEF translateEquality, SqlIs
  <2> QED
    BY <2>1, <2>3, <2>4, <2>5 DEF SqlAgrees, SqlIs, compare
<1> QED
  BY <1>3, <1>4

(* Any property stands for the item's geometry in a spatial operator.      *)
LEMMA PropertyCells ==
  ASSUME IsItem(item), NEW p, p.op = "prop"
  PROVE  Cells(evalLeaf(p, item), item) = Range(item.geometry.v)
<1> DEFINE x == resolveProperty(item, p.name)
<1>1. evalLeaf(p, item) = x
  BY DEF evalLeaf
<1>2. Nil.kind = "nil" /\ Nil.v = <<>>
  BY DEF Nil, Value
<1>3. CASE p.name # "geometry"
  <2>1. x.kind # "geom"
    <3>1. CASE p.name \in DOMAIN item
      BY <1>2, <1>3, <3>1 DEF IsItem, IsValue, Value, resolveProperty
    <3>2. CASE p.name \notin DOMAIN item
      BY <1>2, <3>2 DEF resolveProperty
    <3> QED
      BY <3>1, <3>2
  <2> QED
    BY <1>1, <2>1 DEF Cells
<1>4. CASE p.name = "geometry" /\ item.geometry = Nil
  <2>1. x = Value("geom", <<>>)
    BY <1>4 DEF resolveProperty, IsItem
  <2>2. x.kind = "geom" /\ x.v = <<>>
    BY <2>1 DEF Value
  <2> QED
    BY <1>1, <1>2, <1>4, <2>2 DEF Cells
<1>5. CASE p.name = "geometry" /\ item.geometry # Nil
  <2>1. x = item.geometry
    BY <1>5 DEF resolveProperty, IsItem
  <2> QED
    BY <1>1, <2>1 DEF Cells
<1> QED
  BY <1>3, <1>4, <1>5

(* What a spatial operator is asked about, and that it has a value.        *)
LEMMA SpatialValue ==
  ASSUME IsItem(item), NEW e, e.args[1].op = "prop", e.args[2].op = "geom"
  PROVE  /\ Cells(evalLeaf(e.args[1], item), item) = Range(item.geometry.v)
         /\ Cells(evalLeaf(e.args[2], item), item) = Range(e.args[2].v)
         /\ e.op \in Spatial /\ Handled(e) =>
              evalSpatial(e.op, Range(item.geometry.v), Range(e.args[2].v)) \in Truths
<1>1. evalLeaf(e.args[2], item) = Value("geom", e.args[2].v)
  BY DEF evalLeaf, evalLiteral
<1>2. Cells(evalLeaf(e.args[2], item), item) = Range(e.args[2].v)
  BY <1>1 DEF Cells, Value
<1>3. ASSUME e.op \in Spatial, Handled(e)
      PROVE  evalSpatial(e.op, Range(item.geometry.v), Range(e.args[2].v)) \in Truths
  BY <1>3, Zenon DEF Handled, evalSpatial, Bool, Truths
<1> QED
  BY <1>2, <1>3, PropertyCells

(* The spatial operators, on the item's geometry and that of its row.      *)
LEMMA SpatialCondition ==
  ASSUME IsItem(item), NEW e, WellFormed(e), e.op \in Spatial,
         Typed(e.args[1], e.args[2], {"geom"}), Handled(e)
  PROVE  /\ OwnGeometry /\ Placed(e) => SqlAgrees(e)
         /\ Indexed => DslAgrees(e)
<1> DEFINE p == e.args[1]
           l == e.args[2]
           g == item.geometry
           a == Range(g.v)
           b == Range(l.v)
<1>1. 1 \in DOMAIN e.args /\ 2 \in DOMAIN e.args
  BY DEF WellFormed, Spatial
<1>2. p.op = "prop" /\ l.op = "geom" /\ p.name = "geometry" /\ b # {}
  BY DEF Typed, KindOf
<1>3. /\ "geometry" \in DOMAIN item
      /\ Parses(g) => g # Nil /\ g.kind = "geom" /\ a # {}
      /\ ~Parses(g) => a = {}
  <2>1. "geometry" \in DOMAIN item /\ (g # Nil => g = Value("geom", g.v) /\ g.v \in Seq(Int))
    BY DEF IsItem, IsValue
  <2>2. Parses(g) => Range(g.v) # {}
    <3>1. Parses(g) => Range(g.v) = {Head(g.v)} \union Range(Tail(g.v))
      BY <2>1, RangeTail DEF Parses
    <3> QED
      BY <3>1
  <2>3. ~Parses(g) => g.v = <<>>
    BY DEF Parses, Nil, Value
  <2> QED
    BY <2>1, <2>2, <2>3, RangeEmpty DEF Value, Parses
<1> DEFINE holds == CASE e.op = "s_intersects" -> a \intersect b # {}
                      [] e.op = "s_disjoint"   -> a \intersect b = {}
                      [] e.op = "s_within"     -> a \subseteq b
                      [] e.op = "s_contains"   -> b \subseteq a
<1>4. Holds(e) <=> Parses(g) /\ holds
  <2>1. Where(e) = evalSpatial(e.op, a, b)
    BY <1>1, <1>2, SpatialValue DEF Where, Values
  <2>2. evalSpatial(e.op, a, b) = Bool(a # {} /\ b # {} /\ holds)
    BY Zenon DEF Handled, evalSpatial
  <2>3. True(Bool(a # {} /\ b # {} /\ holds)) <=> a # {} /\ b # {} /\ holds
    BY TruthOf
  <2> QED
    BY <1>2, <1>3, <2>1, <2>2, <2>3 DEF Holds
<1>5. ASSUME OwnGeometry, Placed(e) PROVE SqlAgrees(e)
  <2>1. geom = IF Parses(g) THEN g ELSE Nil
    BY <1>5 DEF OwnGeometry, Placed
  <2>2. Nil.kind = "nil"
    BY DEF Nil, Value
  <2>3. "geometry" \in DOMAIN itemRow /\ itemRow["geometry"] = geom
    BY <1>3 DEF itemRow
  <2>4. mapColumn("geometry", itemRow) = geom
    BY <1>3, <2>1, <2>2, <2>3 DEF mapColumn, Unqualified
  <2>5. sqlCondition(e, itemRow) = translateSpatial(e.op, geom, b)
    BY <1>2, <2>4 DEF sqlCondition, Equality, Ordering, Spatial, Temporal
  <2>6. ~Parses(g) => translateSpatial(e.op, geom, b) = "F"
    BY <2>1, <2>2 DEF translateSpatial
  <2>7. Parses(g) => translateSpatial(e.op, geom, b) = SqlIs(holds)
    BY <1>3, <2>1, Zenon DEF translateSpatial
  <2> HIDE DEF holds
  <2> QED
    BY <1>4, <2>5, <2>6, <2>7 DEF SqlAgrees, SqlIs
<1>6. ASSUME Indexed PROVE DslAgrees(e)
  <2>1. field("geometry", item) = g
    BY <1>3 DEF field, Unqualified
  <2>2. dslCondition(e, item) = geoShape(e.op, g, b)
    BY <1>2, <2>1 DEF dslCondition, Equality, Ordering, Spatial, Temporal
  <2>3. geoShape(e.op, g, b) = DslIs(g # Nil /\ holds)
    BY Zenon DEF geoShape
  <2>4. g # Nil <=> Parses(g)
    BY <1>6 DEF Indexed, Parses
  <2> HIDE DEF holds
  <2> QED
    BY <1>4, <2>2, <2>3, <2>4 DEF DslAgrees, DslIs
<1> QED
  BY <1>5, <1>6

(* A property compared with instants: what the operators do with it.       *)
LEMMA InstantOf ==
  ASSUME IsItem(item), PlainTimes, NEW p, p.op = "prop", KindOf(p.name) = "time"
  PROVE  LET x == item[p.name] IN
         /\ evalLeaf(p, item) = x /\ field(p.name, item) = x
         /\ x = Nil => ~HasTime(x) /\ x.kind # "interval"
         /\ x # Nil => /\ HasTime(x) /\ x.kind # "interval" /\ WholeSeconds(x.v)
                       /\ toTime(x) = Instant(x.v) /\ Instant(x.v) \in Nat
<1> DEFINE x == item[p.name]
<1>1. KindOf(p.name) \in Equatable
  BY DEF Equatable
<1>2. /\ resolveProperty(item, p.name) = x /\ field(p.name, item) = x
      /\ p.name \in TimeNames
  BY <1>1, PlainColumns
<1>3. x = Nil => x.kind = "nil" /\ ~HasTime(x)
  BY DEF Nil, Value, HasTime
<1>4. x # Nil => x.kind = "str" /\ IsRFC3339(x.v) /\ WholeSeconds(x.v)
  BY <1>2, ItemTimes
<1>5. x # Nil => HasTime(x) /\ toTime(x) = Instant(x.v) /\ Instant(x.v) \in Nat
  BY <1>4, SecondsOrder DEF HasTime, toTime, IsRFC3339
<1> QED
  BY <1>2, <1>3, <1>4, <1>5 DEF evalLeaf

(* ... and with a timestamp, in the orders the translators use.            *)
LEMMA InstantCompared ==
  ASSUME IsItem(item), PlainTimes, NEW p, NEW e, Typed(p, e, {"time"}),
         NEW op \in {"=", "<", "<=", ">", ">="}
  PROVE  LET x   == item[p.name]
             sql == SqlCompare(op, mapColumn(p.name, itemRow), literalValue(e))
             dsl == DslCompare(op, p.name, field(p.name, item), e)
         IN /\ x = Nil => sql = "N" /\ dsl = "F"
            /\ x # Nil => sql = SqlIs(InOrder(op, x.v, e.v)) /\ dsl = DslIs(InOrder(op, x.v, e.v))
<1> DEFINE x == item[p.name]
           r == evalLeaf(e, item)
<1>1. op \in Equality \union Ordering /\ op # "<>"
  BY DEF Equality, Ordering
<1>2. Comparison(p, e, op)
  BY <1>1, CompareTime
<1>3. r = Value("time", <<Instant(e.v)>>)
  BY DEF evalLeaf, evalLiteral, Typed
<1>4. r # Nil /\ r.kind = "time" /\ HasTime(r) /\ toTime(r) = Instant(e.v)
  BY <1>3 DEF Value, Nil, HasTime, toTime
<1>5. x # Nil => /\ HasTime(x) /\ toTime(x) = Instant(x.v) /\ x.kind = "str"
                 /\ evalLeaf(p, item) = x
  <2>1. p.op = "prop" /\ KindOf(p.name) = "time" /\ KindOf(p.name) \in Equatable
    BY DEF Typed, Equatable
  <2> QED
    BY <2>1, InstantOf, PlainColumns
<1> HIDE DEF x, r
<1>6. x # Nil => (compare(op, x, r) <=> InOrder(op, x.v, e.v))
  BY <1>4, <1>5 DEF compare, InOrder
<1> QED
  BY <1>1, <1>2, <1>5, <1>6, Zenon DEF Comparison, SqlIs, DslIs, x, r

(* After, before, equals: an instant with another.                         *)
LEMMA InstantCondition ==
  ASSUME IsItem(item), PlainTimes, NEW e, WellFormed(e),
         e.op \in Temporal, Typed(e.args[1], e.args[2], {"time"})
  PROVE  /\ SqlAgrees(e)
         /\ e.op \in {"t_after", "t_before", "t_equals"} => DslAgrees(e)
<1> DEFINE p == e.args[1]
           l == e.args[2]
           x == item[p.name]
           op == CASE e.op = "t_after" -> ">" [] e.op = "t_before" -> "<" [] OTHER -> "="
<1>1. 1 \in DOMAIN e.args /\ 2 \in DOMAIN e.args
  BY DEF WellFormed, Temporal
<1>2. /\ p.op = "prop" /\ l.op = "time" /\ KindOf(p.name) = "time"
      /\ WholeSeconds(l.v) /\ Instant(l.v) \in Nat
  BY SecondsOrder DEF Typed
<1>3. /\ evalLeaf(p, item) = x
      /\ x = Nil => ~HasTime(x) /\ x.kind # "interval"
      /\ x # Nil => /\ HasTime(x) /\ x.kind # "interval"
                    /\ toTime(x) = Instant(x.v) /\ Instant(x.v) \in Nat
  BY <1>2, InstantOf
<1> DEFINE r == evalLeaf(l, item)
<1>4. r.kind = "time" /\ HasTime(r) /\ toTime(r) = Instant(l.v)
  BY <1>2 DEF evalLeaf, evalLiteral, Value, HasTime, toTime
<1>5. e.op \in {"t_after", "t_before", "t_during", "t_intersects", "t_equals"}
  BY DEF Temporal
<1>6. op \in {"=", "<", ">"}
  BY <1>5
<1> HIDE DEF x, r
<1>7. Holds(e) <=> evalTemporal(e.op, x, r)
  BY <1>1, <1>3 DEF Holds, Values, evalCondition, Equality, Ordering, Spatial, Temporal, r
<1>8. x = Nil => ~evalTemporal(e.op, x, r)
  BY <1>3 DEF evalTemporal
<1>9. x # Nil => (evalTemporal(e.op, x, r) <=> InOrder(op, x.v, l.v))
  <2> SUFFICES ASSUME x # Nil PROVE evalTemporal(e.op, x, r) <=> InOrder(op, x.v, l.v)
    OBVIOUS
  <2> DEFINE s == Instant(x.v)
             t == Instant(l.v)
  <2>1. asInterval(x) = <<s, s>> /\ asInterval(r) = <<t, t>>
    BY <1>3, <1>4 DEF asInterval
  <2>2. s \in Nat /\ t \in Nat /\ s # Open /\ t # Open
    BY <1>2, <1>3 DEF Open
  <2> HIDE DEF s, t
  <2>3. CASE e.op = "t_after"
    BY <1>3, <1>4, <2>1, <2>2, <2>3 DEF evalTemporal, InOrder, applyOrder, s, t
  <2>4. CASE e.op = "t_before"
    BY <1>3, <1>4, <2>1, <2>2, <2>4 DEF evalTemporal, InOrder, applyOrder, s, t
  <2>5. CASE e.op = "t_during"
    BY <1>3, <1>4, <2>1, <2>2, <2>5 DEF evalTemporal, InOrder, applyOrder, s, t
  <2>6. CASE e.op = "t_intersects"
    BY <1>3, <1>4, <2>1, <2>2, <2>6 DEF evalTemporal, InOrder, applyOrder, s, t
  <2>7. CASE e.op = "t_equals"
    BY <1>3, <1>4, <2>1, <2>2, <2>7 DEF evalTemporal, InOrder, applyOrder, s, t
  <2> QED
    BY <1>5, <2>3, <2>4, <2>5, <2>6, <2>7
<1>10. sqlCondition(e, itemRow) = SqlCompare(op, mapColumn(p.name, itemRow), literalValue(l))
  <2>1. sqlCondition(e, itemRow) = translateTemporal(e, itemRow)
    BY DEF sqlCondition, Equality, Ordering, Spatial, Temporal
  <2> QED
    BY <1>2, <1>5, <2>1 DEF translateTemporal
<1>11. e.op \in {"t_after", "t_before", "t_equals"} =>
         dslCondition(e, item) = DslCompare(op, p.name, field(p.name, item), l)
  <2>1. dslCondition(e, item) = temporalQuery(e, item)
    BY DEF dslCondition, Equality, Ordering, Spatial, Temporal
  <2> QED
    BY <1>2, <2>1 DEF temporalQuery
<1>12. /\ x = Nil => /\ SqlCompare(op, mapColumn(p.name, itemRow), literalValue(l)) = "N"
                     /\ DslCompare(op, p.name, field(p.name, item), l) = "F"
       /\ x # Nil => /\ SqlCompare(op, mapColumn(p.name, itemRow), literalValue(l))
                          = SqlIs(InOrder(op, x.v, l.v))
                     /\ DslCompare(op, p.name, field(p.name, item), l)
                          = DslIs(InOrder(op, x.v, l.v))
  <2>1. op \in {"=", "<", "<=", ">", ">="}
    BY <1>6
  <2> HIDE DEF op
  <2> QED
    BY <2>1, InstantCompared DEF x
<1>13. x = Nil => ~Present(e)
  BY <1>1, <1>2 DEF Present, x
<1> HIDE DEF op, p, l
<1> QED
  BY <1>7, <1>8, <1>9, <1>10, <1>11, <1>12, <1>13 DEF SqlAgrees, DslAgrees, SqlIs, DslIs

(* During, intersects: an instant with an interval that is open on one     *)
(* side at most.                                                           *)
LEMMA IntervalCondition ==
  ASSUME IsItem(item), PlainTimes, NEW e, WellFormed(e),
         e.op \in {"t_during", "t_intersects"},
         e.args[1].op = "prop", KindOf(e.args[1].name) = "time",
         e.args[2].op = "interval",
         \A i \in 1..2 : Endpoint(e.args[2].args[i]),
         \E i \in 1..2 : e.args[2].args[i].op # "open"
  PROVE  SqlAgrees(e) /\ DslAgrees(e)
<1> DEFINE p == e.args[1]
           l == e.args[2]
           from == l.args[1]
           to == l.args[2]
           x == item[p.name]
           col == mapColumn(p.name, itemRow)
           r == evalLeaf(l, item)
           s == Instant(x.v)
           above == from.op = "time" => InOrder(">=", x.v, from.v)
           below == to.op = "time" => InOrder("<=", x.v, to.v)
<1>1. 1 \in DOMAIN e.args /\ 2 \in DOMAIN e.args
  BY DEF WellFormed
<1>2. /\ from.op \in {"open", "time"} /\ to.op \in {"open", "time"}
      /\ from.op = "time" => WholeSeconds(from.v) /\ Instant(from.v) \in Nat
      /\ to.op = "time" => WholeSeconds(to.v) /\ Instant(to.v) \in Nat
      /\ from.op = "time" \/ to.op = "time"
  <2>1. Endpoint(from) /\ Endpoint(to)
    OBVIOUS
  <2>2. from.op # "open" \/ to.op # "open"
    OBVIOUS
  <2> HIDE DEF from, to
  <2> QED
    BY <2>1, <2>2, SecondsOrder DEF Endpoint
<1>3. /\ evalLeaf(p, item) = x /\ field(p.name, item) = x
      /\ x = Nil => ~HasTime(x) /\ x.kind # "interval"
      /\ x # Nil => /\ HasTime(x) /\ x.kind # "interval"
                    /\ toTime(x) = s /\ s \in Nat
  BY InstantOf
<1>4. /\ r.kind = "interval"
      /\ r.v = <<intervalEndpoint(from, item), intervalEndpoint(to, item)>>
  BY DEF evalLeaf, evalLiteral, Value
<1>5. /\ intervalEndpoint(from, item) = IF from.op = "time" THEN Instant(from.v) ELSE Open
      /\ intervalEndpoint(to, item) = IF to.op = "time" THEN Instant(to.v) ELSE Open
  <2> HIDE DEF from, to
  <2> QED
    BY <1>2 DEF intervalEndpoint
<1>6. Holds(e) <=> evalTemporal(e.op, x, r)
  <2> HIDE DEF x, r
  <2> QED
    BY <1>1, <1>3 DEF Holds, Values, evalCondition, Equality, Ordering, Spatial, Temporal, r
<1> HIDE DEF from, to, x, r, s
<1>7. evalTemporal(e.op, x, r) <=> x # Nil /\ above /\ below
  <2>1. CASE x = Nil
    BY <1>3, <2>1 DEF evalTemporal
  <2>2. CASE x # Nil
    <3>1. asInterval(x) = <<s, s>> /\ asInterval(r) = r.v
      BY <1>3, <1>4, <2>2 DEF asInterval
    <3>2. s \in Nat /\ s # Open
      BY <1>3, <2>2 DEF Open
    <3> DEFINE a == intervalEndpoint(from, item)
               b == intervalEndpoint(to, item)
    <3>3. evalTemporal(e.op, x, r) <=>
            ~(s # Open /\ a # Open /\ s < a) /\ ~(b # Open /\ s # Open /\ b < s)
      <4> HIDE DEF a, b
      <4>1. r.v[1] = a /\ r.v[2] = b
        BY <1>4 DEF a, b
      <4>2. CASE e.op = "t_during"
        BY <1>3, <1>4, <2>2, <3>1, <4>1, <4>2 DEF evalTemporal
      <4>3. CASE e.op = "t_intersects"
        BY <1>3, <1>4, <2>2, <3>1, <4>1, <4>3 DEF evalTemporal
      <4> QED
        BY <4>2, <4>3
    <3>4. from.op = "time" => (InOrder(">=", x.v, from.v) <=> ~(s < a)) /\ a # Open
      BY <1>2, <1>5, <3>2 DEF InOrder, applyOrder, Open, s
    <3>5. to.op = "time" => (InOrder("<=", x.v, to.v) <=> ~(b < s)) /\ b # Open
      BY <1>2, <1>5, <3>2 DEF InOrder, applyOrder, Open, s
    <3>6. (from.op # "time" => a = Open) /\ (to.op # "time" => b = Open)
      BY <1>5
    <3> HIDE DEF a, b
    <3> QED
      BY <2>2, <3>2, <3>3, <3>4, <3>5, <3>6
  <2> QED
    BY <2>1, <2>2
<1> DEFINE sqlFrom == SqlCompare(">=", col, literalValue(from))
           sqlTo   == SqlCompare("<=", col, literalValue(to))
           dslFrom == DslCompare(">=", p.name, field(p.name, item), from)
           dslTo   == DslCompare("<=", p.name, field(p.name, item), to)
<1>8. ASSUME NEW q, Endpoint(q), q.op = "time" PROVE Typed(p, q, {"time"})
  BY <1>8 DEF Typed, Endpoint
<1>9. from.op = "time" =>
        /\ x = Nil => sqlFrom = "N" /\ dslFrom = "F"
        /\ x # Nil => sqlFrom = SqlIs(above) /\ dslFrom = DslIs(above)
  <2> SUFFICES ASSUME from.op = "time"
               PROVE  /\ x = Nil => sqlFrom = "N" /\ dslFrom = "F"
                      /\ x # Nil => sqlFrom = SqlIs(above) /\ dslFrom = DslIs(above)
    OBVIOUS
  <2>1. Typed(p, from, {"time"})
    BY <1>2, <1>8 DEF Endpoint
  <2>2. /\ x = Nil => sqlFrom = "N" /\ dslFrom = "F"
        /\ x # Nil => /\ sqlFrom = SqlIs(InOrder(">=", x.v, from.v))
                      /\ dslFrom = DslIs(InOrder(">=", x.v, from.v))
    BY <2>1, InstantCompared DEF x
  <2> HIDE DEF sqlFrom, dslFrom
  <2> QED
    BY <2>2 DEF SqlIs, DslIs
<1>10. to.op = "time" =>
        /\ x = Nil => sqlTo = "N" /\ dslTo = "F"
        /\ x # Nil => sqlTo = SqlIs(below) /\ dslTo = DslIs(below)
  <2> SUFFICES ASSUME to.op = "time"
               PROVE  /\ x = Nil => sqlTo = "N" /\ dslTo = "F"
                      /\ x # Nil => sqlTo = SqlIs(below) /\ dslTo = DslIs(below)
    OBVIOUS
  <2>1. Typed(p, to, {"time"})
    BY <1>2, <1>8 DEF Endpoint
  <2>2. /\ x = Nil => sqlTo = "N" /\ dslTo = "F"
        /\ x # Nil => /\ sqlTo = SqlIs(InOrder("<=", x.v, to.v))
                      /\ dslTo = DslIs(InOrder("<=", x.v, to.v))
    BY <2>1, InstantCompared DEF x
  <2> HIDE DEF sqlTo, dslTo
  <2> QED
    BY <2>2 DEF SqlIs, DslIs
<1> DEFINE part(q, y) == IF q.op = "time" THEN {y} ELSE {}
<1>11. sqlCondition(e, itemRow) = SqlAnd(part(from, sqlFrom) \union part(to, sqlTo))
  <2>1. sqlCondition(e, itemRow) = translateTemporal(e, itemRow)
    BY DEF sqlCondition, Equality, Ordering, Spatial, Temporal
  <2>2. /\ endpoint(from) = IF from.op = "time" THEN literalValue(from) ELSE Nil
        /\ endpoint(to) = IF to.op = "time" THEN literalValue(to) ELSE Nil
    BY DEF endpoint
  <2>3. /\ from.op = "time" => literalValue(from) # Nil
        /\ to.op = "time" => literalValue(to) # Nil
    BY DEF literalValue, Value, Nil
  <2> DEFINE bound(op, b) == IF endpoint(b) = Nil THEN {} ELSE {SqlCompare(op, col, endpoint(b))}
  <2>4. bound(">=", from) = part(from, sqlFrom) /\ bound("<=", to) = part(to, sqlTo)
    BY <2>2, <2>3
  <2>5. translateTemporal(e, itemRow) = SqlAnd(bound(">=", from) \union bound("<=", to))
    BY DEF translateTemporal, from, to
  <2> HIDE DEF bound
  <2> QED
    BY <2>1, <2>4, <2>5
<1>12. dslCondition(e, item)
         = DslAnd({DslIs(x # Nil)} \union part(from, dslFrom) \union part(to, dslTo))
  <2>1. dslCondition(e, item) = temporalQuery(e, item)
    BY DEF dslCondition, Equality, Ordering, Spatial, Temporal
  <2> QED
    BY <1>3, <2>1 DEF temporalQuery, from, to
<1>13. x = Nil => ~Present(e)
  BY <1>1 DEF Present, x
<1>14. (from.op # "time" => above) /\ (to.op # "time" => below)
  OBVIOUS
<1> HIDE DEF above, below, sqlFrom, sqlTo, dslFrom, dslTo
<1>15. SqlAgrees(e)
  BY <1>2, <1>6, <1>7, <1>9, <1>10, <1>11, <1>13, <1>14 DEF SqlAgrees, SqlIs, SqlAnd
<1>16. DslAgrees(e)
  BY <1>2, <1>6, <1>7, <1>9, <1>10, <1>12, <1>14 DEF DslAgrees, DslIs, DslAnd
<1> QED
  BY <1>15, <1>16

(* Every condition but LIKE that the backends may be asked, whatever the   *)
(* item: the leaves of SpatialiteFilters and OpenSearchFilters.            *)
LEMMA ConditionAgrees ==
  ASSUME IsItem(item), PlainTimes, NEW e, WellFormed(e), e.op # "like", Handled(e)
  PROVE  /\ OwnGeometry /\ PlainSql(e) /\ Placed(e) => SqlAgrees(e)
         /\ Plain(e) /\ Indexed => DslAgrees(e)
<1> DEFINE p == e.args[1]
<1>1. ASSUME e.op \in Equality, NEW i \in 1..2, Typed(e.args[i], e.args[3 - i], Equatable)
      PROVE  SqlAgrees(e) /\ DslAgrees(e)
  BY <1>1, EqualityCondition
<1>2. ASSUME e.op \in Ordering, Typed(p, e.args[2], Orderable)
      PROVE  SqlAgrees(e) /\ DslAgrees(e)
  BY <1>2, OrderingCondition
<1>3. ASSUME e.op \in Spatial, Typed(p, e.args[2], {"geom"})
      PROVE  (OwnGeometry /\ Placed(e) => SqlAgrees(e)) /\ (Indexed => DslAgrees(e))
  BY <1>3, SpatialCondition
<1>4. ASSUME e.op = "between", \A i \in 2..3 : Typed(p, e.args[i], Orderable)
      PROVE  SqlAgrees(e) /\ DslAgrees(e)
  BY <1>4, BetweenCondition
<1>5. ASSUME e.op = "in", p.op = "prop", \A i \in 2..Len(e.args) : Typed(p, e.args[i], Equatable)
      PROVE  SqlAgrees(e) /\ DslAgrees(e)
  BY <1>5, InCondition
<1>6. ASSUME p.op = "prop", KindOf(p.name) \in Equatable
      PROVE  /\ e.op = "isNull" => SqlAgrees(e) /\ DslAgrees(e)
             /\ e.op \in Equality /\ e.args[2].op = "null" => SqlAgrees(e)
  BY <1>6, NullCondition
<1>7. ASSUME e.op \in Temporal, Typed(p, e.args[2], {"time"})
      PROVE  /\ SqlAgrees(e)
             /\ e.op \in {"t_after", "t_before", "t_equals"} => DslAgrees(e)
  BY <1>7, InstantCondition
<1>8. ASSUME e.op \in {"t_during", "t_intersects"}, p.op = "prop", KindOf(p.name) = "time",
             e.args[2].op = "interval", \A i \in 1..2 : Endpoint(e.args[2].args[i]),
             \E i \in 1..2 : e.args[2].args[i].op # "open"
      PROVE  SqlAgrees(e) /\ DslAgrees(e)
  BY <1>8, IntervalCondition
<1> HIDE DEF p
<1>9. ASSUME Plain(e) PROVE (OwnGeometry /\ Placed(e) => SqlAgrees(e)) /\ (Indexed => DslAgrees(e))
  <2>1. e.op \in {"t_after", "t_before", "t_equals"} => e.op \in Temporal
    BY DEF Temporal
  <2> QED
    BY <1>1, <1>2, <1>3, <1>4, <1>5, <1>6, <1>7, <1>8, <1>9, <2>1, Zenon DEF Plain, p
<1>10. ASSUME OwnGeometry, PlainSql(e), Placed(e) PROVE SqlAgrees(e)
  <2>1. e.op \in {"t_during", "t_intersects"} => e.op \in Temporal
    BY DEF Temporal
  <2> QED
    BY <1>6, <1>7, <1>9, <1>10, <2>1, Zenon DEF PlainSql, p
<1> QED
  BY <1>9, <1>10

(* At any time, a condition finds in spatialite's row and in opensearch's  *)
(* document what it finds on inmem, unless it asks for a place where they  *)
(* differ (Handled, Placed, Indexed).                                      *)
Conditions ==
  PlainTimes =>
    \A e : WellFormed(e) /\ e.op # "like" /\ Handled(e) =>
      /\ PlainSql(e) /\ Placed(e) => SqlAgrees(e)
      /\ Plain(e) /\ Indexed => DslAgrees(e)

(* The conditions a filter is made of agree, for any item and any literal. *)
THEOREM SearchConditions == SearchSpec => []Conditions
<1>1. RowInv => Conditions
  BY ItemsAssumption, ConditionAgrees, Zenon DEF RowInv, Conditions
<1> QED
  BY <1>1, SearchRow, PTL

----------------------------------------------------------------------------
(* Filters                                                                 *)

(* A filter is the set T of its parts that have an operator, each above    *)
(* its arguments in rank; the answers for them are functions on T that     *)
(* satisfy the equations of eval, Rows and Hits: each is what the operator *)
(* makes of the answers for its arguments, or the answer to a condition.   *)
(* Those to LIKE, which the theorems take as they are, are like ones to a  *)
(* condition.                                                              *)
Filter(T, rank) ==
  /\ rank \in [T -> Nat]
  /\ \A e \in T :
       /\ e = Apply(e.op, e.args) /\ e.op \notin Atoms /\ WellFormed(e)
       /\ \A i \in DOMAIN e.args : e.args[i].op \notin Atoms =>
            e.args[i] \in T /\ rank[e.args[i]] < rank[e]

Joins(e) == e.op \in Logical /\ \A i \in DOMAIN e.args : e.args[i].op \notin Atoms
Of(e, answers) == [i \in DOMAIN e.args |-> answers[e.args[i]]]

Args(e, value) ==
  [i \in DOMAIN e.args |-> IF e.args[i].op \in Atoms THEN evalLeaf(e.args[i], item)
                           ELSE value[e.args[i]]]
Evaluated(T, value) ==
  \A e \in T : e.op # "like" => value[e] = evalOp(e.op, Args(e, value), item)

InSql(T, rows) ==
  \A e \in T : e.op # "like" =>
    rows[e] = IF e.op \in Logical THEN sqlLogical(e.op, Of(e, rows)) ELSE sqlCondition(e, itemRow)

InDsl(T, hits) ==
  \A e \in T : e.op # "like" =>
    hits[e] = IF e.op \in Logical THEN dslLogical(e.op, Of(e, hits)) ELSE dslCondition(e, item)

(* What holds of every part whose arguments it holds of, holds of all: no  *)
(* part has the least rank of those it does not hold of.                   *)
LEMMA ByRank ==
  ASSUME NEW T, NEW rank, Filter(T, rank), NEW Good,
         \A e \in T : (\A i \in DOMAIN e.args : e.args[i].op \notin Atoms => e.args[i] \in Good)
                     => e \in Good
  PROVE  T \subseteq Good
<1> DEFINE Bad == {rank[e] : e \in T \ Good}
<1>1. Bad \subseteq Nat
  BY DEF Filter
<1>2. ASSUME Bad # {} PROVE FALSE
  <2>1. PICK k \in Bad : \A m \in Bad : k <= m
    <3> HIDE DEF Bad
    <3> QED
      BY <1>1, <1>2, LeastNatural
  <2>2. PICK e \in T \ Good : rank[e] = k
    BY <2>1
  <2>3. PICK i \in DOMAIN e.args : e.args[i].op \notin Atoms /\ e.args[i] \notin Good
    BY <2>2
  <2>4. e.args[i] \in T /\ rank[e.args[i]] < rank[e]
    BY <2>2, <2>3 DEF Filter
  <2>5. rank[e.args[i]] \in Bad
    BY <2>3, <2>4
  <2> HIDE DEF Bad
  <2>6. k <= rank[e.args[i]] /\ rank[e.args[i]] \in Nat /\ k \in Nat
    BY <1>1, <2>1, <2>5
  <2> QED
    BY <2>2, <2>4, <2>6
<1> QED
  BY <1>2

(* A definite answer is right; where nothing is negated, NULL stands for   *)
(* what inmem refuses.                                                     *)
Sound(answer, value) ==
  /\ answer \in {"T", "F", "N"} /\ value \in Truths
  /\ answer = "T" => True(value)
  /\ answer = "F" => ~True(value)
Refuses(answer, value) == answer = "N" => ~True(value)

LikeInSql(e, answer, value) ==
  Sound(answer, value) /\ Refuses(answer, value) /\ (Present(e) => answer # "N")
LikeInDsl(answer, value) == value \in Truths /\ answer = DslIs(True(value))

(* Where every argument is a Boolean, to stop at the first that decides is *)
(* to look at all of them.                                                 *)
LEMMA Connective ==
  ASSUME NEW op \in Logical, NEW n \in Nat \ {0}, NEW args \in [1..n -> Truths]
  PROVE  /\ evalLogical(op, args) \in Truths
         /\ True(evalLogical(op, args)) <=>
              CASE op = "and" -> \A i \in 1..n : True(args[i])
                [] op = "or"  -> \E i \in 1..n : True(args[i])
                [] op = "not" -> ~True(args[1])
<1> DEFINE goesOn  == Bool(op = "and")
           decides == {i \in 1..n : args[i] # goesOn}
<1>1. op \in {"and", "or", "not"} /\ DOMAIN args = 1..n /\ 1 \in 1..n
  BY DEF Logical
<1>2. CASE op = "not"
  <2>1. args[1] \in Truths /\ args[1].kind = "bool"
    BY <1>1, TruthValues
  <2>2. evalLogical(op, args) = Bool(~True(args[1]))
    BY <1>2, <2>1 DEF evalLogical
  <2>3. (~True(args[1])) \in BOOLEAN
    OBVIOUS
  <2>4. Bool(~True(args[1])) \in Truths /\ (True(Bool(~True(args[1]))) <=> ~True(args[1]))
    BY <2>3, TruthValues
  <2> QED
    BY <1>2, <2>2, <2>4
<1>3. CASE op # "not"
  <2>1. (op = "and") \in BOOLEAN
    OBVIOUS
  <2>2. goesOn \in Truths /\ (True(goesOn) <=> op = "and")
    BY <2>1, TruthValues
  <2>3. \A i \in 1..n : args[i] # goesOn <=> (True(args[i]) <=> op # "and")
    BY <2>2, TruthValues
  <2>4. CASE decides = {}
    <3>1. evalLogical(op, args) = goesOn
      BY <1>1, <1>3, <2>4 DEF evalLogical
    <3>2. \A i \in 1..n : True(args[i]) <=> op = "and"
      BY <2>3, <2>4
    <3> HIDE DEF goesOn
    <3> QED
      BY <1>1, <1>3, <2>2, <3>1, <3>2
  <2>5. CASE decides # {}
    <3>1. Min(decides) \in decides
      <4>1. decides \subseteq Nat
        OBVIOUS
      <4>2. \E x \in decides : \A y \in decides : x <= y
        <5> HIDE DEF decides
        <5> QED
          BY <2>5, <4>1, LeastNatural
      <4> QED
        BY <4>2 DEF Min
    <3> DEFINE v == args[Min(decides)]
    <3>2. v \in Truths /\ v.kind = "bool" /\ (True(v) <=> op # "and")
      BY <2>3, <3>1, TruthValues
    <3>3. evalLogical(op, args) = v
      BY <1>1, <1>3, <2>5, <3>2 DEF evalLogical
    <3>4. PICK i \in 1..n : True(args[i]) <=> op # "and"
      BY <2>3, <3>1
    <3> HIDE DEF v
    <3> QED
      BY <1>1, <1>3, <3>2, <3>3, <3>4
  <2> QED
    BY <2>4, <2>5
<1> QED
  BY <1>2, <1>3

(* The logical operators of SQL keep what Sound and Refuses say.           *)
LEMMA SqlConnective ==
  ASSUME NEW op \in Logical, NEW n \in Nat \ {0}, NEW args, NEW answers,
         DOMAIN args = 1..n, DOMAIN answers = 1..n, args \in [1..n -> Truths],
         \A i \in 1..n : Sound(answers[i], args[i])
  PROVE  /\ Sound(sqlLogical(op, answers), evalLogical(op, args))
         /\ op # "not" /\ (\A i \in 1..n : Refuses(answers[i], args[i])) =>
              Refuses(sqlLogical(op, answers), evalLogical(op, args))
         /\ (\A i \in 1..n : answers[i] # "N") => sqlLogical(op, answers) # "N"
<1> DEFINE value == evalLogical(op, args)
           xs == {answers[i] : i \in 1..n}
<1>1. /\ value \in Truths
      /\ op = "and" => (True(value) <=> \A i \in 1..n : True(args[i]))
      /\ op = "or"  => (True(value) <=> \E i \in 1..n : True(args[i]))
      /\ op = "not" => (True(value) <=> ~True(args[1]))
  BY Connective
<1>2. op \in {"and", "or", "not"} /\ xs \subseteq {"T", "F", "N"} /\ 1 \in 1..n
      /\ Range(answers) = xs
  BY DEF Logical, Sound, Range
<1> HIDE DEF value
<1>3. CASE op = "and"
  <2>1. sqlLogical(op, answers) = SqlAnd(xs)
    BY <1>2, <1>3 DEF sqlLogical
  <2> QED
    BY <1>1, <1>2, <1>3, <2>1 DEF Sound, Refuses, SqlAnd, value
<1>4. CASE op = "or"
  <2>1. sqlLogical(op, answers) = SqlOr(xs)
    BY <1>2, <1>4 DEF sqlLogical
  <2> QED
    BY <1>1, <1>2, <1>4, <2>1 DEF Sound, Refuses, SqlOr, value
<1>5. CASE op = "not"
  <2>1. sqlLogical(op, answers) = SqlNot(answers[1])
    BY <1>5 DEF sqlLogical
  <2> QED
    BY <1>1, <1>2, <1>5, <2>1 DEF Sound, Refuses, SqlNot, value
<1> QED
  BY <1>2, <1>3, <1>4, <1>5

(* must, should and must_not are the logical operators.                    *)
LEMMA DslConnective ==
  ASSUME NEW op \in Logical, NEW n \in Nat \ {0}, NEW args, NEW answers,
         DOMAIN args = 1..n, DOMAIN answers = 1..n, args \in [1..n -> Truths],
         \A i \in 1..n : answers[i] = DslIs(True(args[i]))
  PROVE  /\ evalLogical(op, args) \in Truths
         /\ dslLogical(op, answers) = DslIs(True(evalLogical(op, args)))
<1> DEFINE value == evalLogical(op, args)
           xs == {answers[i] : i \in 1..n}
<1>1. /\ value \in Truths
      /\ op = "and" => (True(value) <=> \A i \in 1..n : True(args[i]))
      /\ op = "or"  => (True(value) <=> \E i \in 1..n : True(args[i]))
      /\ op = "not" => (True(value) <=> ~True(args[1]))
  BY Connective
<1>2. op \in {"and", "or", "not"} /\ 1 \in 1..n /\ Range(answers) = xs
  BY DEF Logical, Range
<1> HIDE DEF value
<1>3. CASE op = "and"
  <2>1. dslLogical(op, answers) = DslAnd(xs)
    BY <1>2, <1>3 DEF dslLogical
  <2> QED
    BY <1>1, <1>3, <2>1 DEF DslIs, DslAnd, value
<1>4. CASE op = "or"
  <2>1. dslLogical(op, answers) = DslOr(xs)
    BY <1>2, <1>4 DEF dslLogical
  <2> QED
    BY <1>1, <1>4, <2>1 DEF DslIs, DslOr, value
<1>5. CASE op = "not"
  <2>1. dslLogical(op, answers) = mustNot(answers[1])
    BY <1>5 DEF dslLogical
  <2> QED
    BY <1>1, <1>2, <1>5, <2>1 DEF DslIs, mustNot, value
<1> QED
  BY <1>2, <1>3, <1>4, <1>5

(* A property and a literal always have a value.                           *)
LEMMA AtomHasValue ==
  ASSUME IsItem(item), NEW a, a.op \in Atoms
  PROVE  evalLeaf(a, item) # Error
<1>1. Error.kind = "error" /\ Nil.kind = "nil"
  BY DEF Error, Nil, Value
<1>2. CASE a.op = "prop"
  <2>1. \A name \in DOMAIN item : item[name].kind # "error"
    BY <1>1 DEF IsItem, IsValue, Value
  <2>2. resolveProperty(item, a.name).kind # "error"
    BY <1>1, <2>1 DEF resolveProperty, Value
  <2> QED
    BY <1>1, <1>2, <2>2 DEF evalLeaf
<1>3. CASE a.op # "prop"
  <2>1. evalLiteral(a, item).kind \in {"nil", "time", "interval", a.op}
    BY <1>1 DEF evalLiteral, Value
  <2> QED
    BY <1>1, <1>3, <2>1 DEF evalLeaf, Atoms, Literals
<1> QED
  BY <1>2, <1>3

(* The conditions every backend takes are about properties and literals,   *)
(* so that they have a value.                                              *)
LEMMA PlainHasValue ==
  ASSUME IsItem(item), NEW e, WellFormed(e), e.op # "like", PlainSql(e), Handled(e), NEW value
  PROVE  /\ evalOp(e.op, Args(e, value), item) = Bool(Holds(e))
         /\ e.op \notin Logical
<1> DEFINE p == e.args[1]
<1>1. \A q, l, kinds : Typed(q, l, kinds) => q.op = "prop" /\ l.op \in kinds
  BY DEF Typed
<1>2. Equatable \subseteq Atoms /\ Orderable \subseteq Atoms /\ {"geom"} \subseteq Atoms
      /\ "prop" \in Atoms /\ "null" \in Atoms /\ "interval" \in Atoms
  BY DEF Equatable, Orderable, Atoms, Literals
<1> HIDE DEF p
<1>3. ASSUME Plain(e)
      PROVE  (\A i \in DOMAIN e.args : e.args[i].op \in Atoms) /\ e.op \notin Logical \union {"function"}
  <2>1. CASE e.op \in Equality /\ \E i \in 1..2 : Typed(e.args[i], e.args[3 - i], Equatable)
    BY <1>1, <1>2, <2>1 DEF WellFormed, Equality, Logical
  <2>2. CASE e.op \in Ordering /\ Typed(p, e.args[2], Orderable)
    BY <1>1, <1>2, <2>2 DEF WellFormed, Ordering, Logical, p
  <2>3. CASE e.op \in Spatial /\ Typed(p, e.args[2], {"geom"})
    BY <1>1, <1>2, <2>3 DEF WellFormed, Spatial, Logical, p
  <2>4. CASE e.op = "between" /\ \A i \in 2..3 : Typed(p, e.args[i], Orderable)
    BY <1>1, <1>2, <2>4 DEF WellFormed, Logical, p
  <2>5. CASE e.op = "in" /\ p.op = "prop" /\ \A i \in 2..Len(e.args) : Typed(p, e.args[i], Equatable)
    <3>1. \A i \in 1..Len(e.args) : i = 1 \/ i \in 2..Len(e.args)
      BY DEF WellFormed
    <3> QED
      BY <1>1, <1>2, <2>5, <3>1 DEF WellFormed, Logical, p
  <2>6. CASE e.op = "isNull" /\ p.op = "prop"
    BY <1>2, <2>6 DEF WellFormed, Logical, p
  <2>7. CASE e.op \in {"t_after", "t_before", "t_equals"} /\ Typed(p, e.args[2], {"time"})
    BY <1>1, <1>2, <2>7 DEF WellFormed, Logical, p, Equatable
  <2>8. CASE /\ e.op \in {"t_during", "t_intersects"} /\ p.op = "prop"
             /\ e.args[2].op = "interval"
    BY <1>2, <2>8 DEF WellFormed, Logical, p
  <2> QED
    BY <1>3, <2>1, <2>2, <2>3, <2>4, <2>5, <2>6, <2>7, <2>8, Zenon DEF Plain, p
<1>4. (\A i \in DOMAIN e.args : e.args[i].op \in Atoms) /\ e.op \notin Logical \union {"function"}
  <2>1. CASE e.op \in Equality /\ p.op = "prop" /\ e.args[2].op = "null"
    BY <1>2, <2>1 DEF WellFormed, Equality, Logical, p
  <2>2. CASE e.op \in {"t_during", "t_intersects"} /\ Typed(p, e.args[2], {"time"})
    BY <1>1, <1>2, <2>2 DEF WellFormed, Logical, p, Equatable
  <2> QED
    BY <1>3, <2>1, <2>2, Zenon DEF PlainSql, p
<1>5. Args(e, value) = Values(e) /\ \A i \in DOMAIN Values(e) : Values(e)[i] # Error
  BY <1>4, AtomHasValue DEF Args, Values
<1>6. ~Fails(e.op, Values(e))
  BY <1>5 DEF Fails
<1>7. CASE e.op \in Spatial
  <2>1. Typed(p, e.args[2], {"geom"})
    BY <1>7, Zenon DEF PlainSql, Plain, Spatial, Equality, Ordering, p
  <2>2. p.op = "prop" /\ e.args[2].op = "geom" /\ DOMAIN e.args = 1..2
    <3>1. p.op = "prop" /\ e.args[2].op \in {"geom"}
      BY <1>1, <2>1, Zenon
    <3>2. Len(e.args) = 2 /\ DOMAIN e.args = 1..Len(e.args)
      BY <1>7 DEF WellFormed, Spatial
    <3> QED
      BY <3>1, <3>2
  <2>3. Where(e) \in Truths
    BY <1>7, <2>2, SpatialValue DEF Where, Values, p
  <2>4. Where(e) = Bool(True(Where(e)))
    BY <2>3, TruthValues DEF Bool
  <2>5. evalOp(e.op, Values(e), item) = Where(e)
    BY <1>4, <1>6, <1>7 DEF evalOp, Where
  <2> QED
    BY <1>4, <1>5, <1>7, <2>4, <2>5 DEF Holds
<1>8. CASE e.op \notin Spatial
  BY <1>4, <1>5, <1>6, <1>8 DEF evalOp, Holds
<1> QED
  BY <1>7, <1>8

(* What inmem makes of a logical operator over Booleans.                   *)
LEMMA JoinedValue ==
  ASSUME NEW e, WellFormed(e), Joins(e), NEW value
  PROVE  /\ Len(e.args) \in Nat \ {0}
         /\ Args(e, value) = Of(e, value)
         /\ evalOp(e.op, Of(e, value), item) = evalLogical(e.op, Of(e, value))
         /\ e.op # "like"
<1>1. Len(e.args) \in Nat \ {0} /\ e.op \notin {"like", "function"}
  BY DEF WellFormed, Joins, Logical
<1>2. Args(e, value) = Of(e, value)
  BY DEF Args, Of, Joins
<1> QED
  BY <1>1, <1>2 DEF evalOp, Joins

(* A filter the translators accept, over arguments that are properties,    *)
(* literals or accepted themselves, inmem answers, unless the geometry     *)
(* library fails at one of its parts: OracleAnswers, for filters of any    *)
(* size.                                                                   *)
THEOREM FiltersAnswer ==
  ASSUME NEW T, NEW rank, Filter(T, rank), IsItem(item),
         NEW value, Evaluated(T, value),
         \A e \in T : e.op = "like" => value[e] \in Truths,
         \A e \in T : Joins(e) \/ (AcceptedCondition(e) /\ Handled(e))
  PROVE  \A e \in T : value[e] \in Truths
<1> DEFINE Good == {e \in T : value[e] \in Truths}
<1>1. ASSUME NEW e \in T,
             \A i \in DOMAIN e.args : e.args[i].op \notin Atoms => e.args[i] \in Good
      PROVE  value[e] \in Truths
  <2>1. WellFormed(e)
    BY DEF Filter
  <2>2. CASE e.op = "like"
    BY <2>2
  <2>3. CASE Joins(e)
    <3> DEFINE args == Of(e, value)
    <3>1. Len(e.args) \in Nat \ {0} /\ value[e] = evalLogical(e.op, args) /\ e.op \in Logical
      BY <2>1, <2>3, JoinedValue DEF Evaluated, Joins
    <3>2. args \in [1..Len(e.args) -> Truths]
      BY <1>1, <2>1, <2>3 DEF Of, Joins, WellFormed
    <3> HIDE DEF args
    <3>3. evalLogical(e.op, args) \in Truths
      BY <3>1, <3>2, Connective
    <3> QED
      BY <3>1, <3>3
  <2>4. CASE e.op # "like" /\ AcceptedCondition(e) /\ Handled(e)
    <3> DEFINE args == Args(e, value)
    <3>1. e.op \notin Logical \union {"function"}
      BY <2>4 DEF AcceptedCondition, Equality, Ordering, Spatial, Temporal, Logical
    <3>2. \A v \in Truths : v # Error
      <4>1. Error.kind # "bool"
        BY DEF Error, Value
      <4> QED
        BY <4>1, TruthValues
    <3>3. \A i \in DOMAIN args : args[i] # Error
      BY <1>1, <3>2, AtomHasValue DEF Args
    <3>4. ~Fails(e.op, args)
      BY <3>3 DEF Fails
    <3>5. CASE e.op \in Spatial
      <4>1. e.args[1].op = "prop" /\ e.args[2].op = "geom" /\ DOMAIN e.args = 1..2
        BY <2>1, <2>4, <3>5, Zenon DEF AcceptedCondition, WellFormed, Spatial, Equality, Ordering, Temporal
      <4>2. args[1] = evalLeaf(e.args[1], item) /\ args[2] = evalLeaf(e.args[2], item)
        BY <4>1 DEF Args, Atoms
      <4>3. value[e] = evalSpatial(e.op, Cells(args[1], item), Cells(args[2], item))
        BY <2>4, <3>1, <3>4, <3>5 DEF Evaluated, evalOp
      <4> QED
        BY <2>4, <3>5, <4>1, <4>2, <4>3, SpatialValue
    <3>6. CASE e.op \notin Spatial
      <4>1. value[e] = Bool(evalCondition(e.op, args))
        BY <2>4, <3>1, <3>4, <3>6 DEF Evaluated, evalOp
      <4> QED
        BY <4>1 DEF Bool, Truths
    <3> QED
      BY <3>5, <3>6
  <2> QED
    BY <2>2, <2>3, <2>4
<1>2. T \subseteq Good
  <2>1. \A e \in T : (\A i \in DOMAIN e.args : e.args[i].op \notin Atoms => e.args[i] \in Good)
                     => e \in Good
    BY <1>1
  <2> HIDE DEF Good
  <2> QED
    BY <2>1, ByRank
<1> QED
  BY <1>2

(* A filter of the conditions every backend takes, and of LIKE where that  *)
(* agrees: a row spatialite finds is one inmem finds, and it misses one    *)
(* only to a missing property below a NOT.  SpatialiteFilters, for filters *)
(* of any size.                                                            *)
THEOREM FiltersInSql ==
  ASSUME NEW T, NEW rank, Filter(T, rank), IsItem(item), PlainTimes,
         OwnGeometry,
         NEW value, Evaluated(T, value), NEW rows, InSql(T, rows),
         \A e \in T : \/ Joins(e)
                      \/ e.op = "like" /\ LikeInSql(e, rows[e], value[e])
                      \/ e.op # "like" /\ PlainSql(e) /\ Handled(e) /\ Placed(e)
  PROVE  \A e \in T :
           /\ rows[e] = "T" => True(value[e])
           /\ (\/ \A f \in T : f.op # "not"
               \/ \A f \in T : f.op \notin Logical => Present(f))
             => (rows[e] = "T" <=> True(value[e]))
<1> DEFINE free    == \A f \in T : f.op # "not"
           present == \A f \in T : f.op \notin Logical => Present(f)
           Agree(e) == /\ Sound(rows[e], value[e])
                       /\ free => Refuses(rows[e], value[e])
                       /\ present => rows[e] # "N"
           Good == {e \in T : Agree(e)}
<1>1. ASSUME NEW e \in T, e.op = "like", LikeInSql(e, rows[e], value[e]) PROVE Agree(e)
  BY <1>1 DEF LikeInSql, Logical
<1>2. ASSUME NEW e \in T, e.op # "like", PlainSql(e), Handled(e), Placed(e) PROVE Agree(e)
  <2>1. WellFormed(e)
    BY DEF Filter
  <2>2. e.op \notin Logical /\ rows[e] = sqlCondition(e, itemRow) /\ value[e] = Bool(Holds(e))
    BY <1>2, <2>1, PlainHasValue DEF InSql, Evaluated
  <2>3. SqlAgrees(e)
    BY <1>2, <2>1, ConditionAgrees
  <2>4. value[e] \in Truths /\ (True(value[e]) <=> Holds(e))
    BY <2>2, TruthOf
  <2> QED
    BY <2>2, <2>3, <2>4 DEF SqlAgrees, Sound, Refuses
<1>3. ASSUME NEW e \in T, Joins(e), \A i \in DOMAIN e.args : Agree(e.args[i])
      PROVE  Agree(e)
  <2> DEFINE n == Len(e.args)
             args == Of(e, value)
             answers == Of(e, rows)
  <2>1. WellFormed(e)
    BY DEF Filter
  <2>2. /\ n \in Nat \ {0} /\ DOMAIN e.args = 1..n /\ e.op \in Logical
        /\ rows[e] = sqlLogical(e.op, answers) /\ value[e] = evalLogical(e.op, args)
    BY <1>3, <2>1, JoinedValue DEF InSql, Evaluated, Joins, WellFormed
  <2>3. /\ DOMAIN answers = 1..n /\ DOMAIN args = 1..n
        /\ \A i \in 1..n : Sound(answers[i], args[i])
        /\ free => \A i \in 1..n : Refuses(answers[i], args[i])
        /\ present => \A i \in 1..n : answers[i] # "N"
    BY <1>3, <2>2 DEF Of
  <2>4. args \in [1..n -> Truths]
    <3>1. \A i \in 1..n : args[i] \in Truths
      BY <2>3 DEF Sound
    <3> QED
      BY <2>2, <3>1 DEF Of
  <2>5. free => e.op # "not"
    OBVIOUS
  <2> HIDE DEF n, args, answers, free, present
  <2>6. /\ Sound(sqlLogical(e.op, answers), evalLogical(e.op, args))
        /\ e.op # "not" /\ (\A i \in 1..n : Refuses(answers[i], args[i])) =>
             Refuses(sqlLogical(e.op, answers), evalLogical(e.op, args))
        /\ (\A i \in 1..n : answers[i] # "N") => sqlLogical(e.op, answers) # "N"
    BY <2>2, <2>3, <2>4, SqlConnective
  <2> QED
    BY <2>2, <2>3, <2>5, <2>6
<1> HIDE DEF Agree
<1>4. \A e \in T : (\A i \in DOMAIN e.args : e.args[i].op \notin Atoms => e.args[i] \in Good)
                   => e \in Good
  BY <1>1, <1>2, <1>3 DEF Joins
<1>5. T \subseteq Good
  <2> HIDE DEF Good
  <2> QED
    BY <1>4, ByRank
<1> QED
  BY <1>5 DEF Agree, Sound, Refuses

(* ... and opensearch finds exactly what inmem finds: OpenSearchFilters,   *)
(* for filters of any size.                                                *)
THEOREM FiltersInDsl ==
  ASSUME NEW T, NEW rank, Filter(T, rank), IsItem(item), PlainTimes, Indexed,
         NEW value, Evaluated(T, value), NEW hits, InDsl(T, hits),
         \A e \in T : \/ Joins(e)
                      \/ e.op = "like" /\ LikeInDsl(hits[e], value[e])
                      \/ e.op # "like" /\ Plain(e) /\ Handled(e)
  PROVE  \A e \in T : hits[e] = IF True(value[e]) THEN "T" ELSE "F"
<1> DEFINE Good == {e \in T : LikeInDsl(hits[e], value[e])}
<1>1. ASSUME NEW e \in T, e.op # "like", Plain(e), Handled(e) PROVE LikeInDsl(hits[e], value[e])
  <2>1. WellFormed(e) /\ PlainSql(e)
    BY <1>1 DEF Filter, PlainSql
  <2>2. e.op \notin Logical /\ hits[e] = dslCondition(e, item) /\ value[e] = Bool(Holds(e))
    BY <1>1, <2>1, PlainHasValue DEF InDsl, Evaluated
  <2>3. DslAgrees(e)
    BY <1>1, <2>1, ConditionAgrees
  <2>4. value[e] \in Truths /\ (True(value[e]) <=> Holds(e))
    BY <2>2, TruthOf
  <2> QED
    BY <2>2, <2>3, <2>4 DEF DslAgrees, LikeInDsl, DslIs
<1>2. ASSUME NEW e \in T, Joins(e), \A i \in DOMAIN e.args : LikeInDsl(hits[e.args[i]], value[e.args[i]])
      PROVE  LikeInDsl(hits[e], value[e])
  <2> DEFINE n == Len(e.args)
             args == Of(e, value)
             answers == Of(e, hits)
  <2>1. WellFormed(e)
    BY DEF Filter
  <2>2. /\ n \in Nat \ {0} /\ DOMAIN e.args = 1..n /\ e.op \in Logical
        /\ hits[e] = dslLogical(e.op, answers) /\ value[e] = evalLogical(e.op, args)
    BY <1>2, <2>1, JoinedValue DEF InDsl, Evaluated, Joins, WellFormed
  <2>3. /\ DOMAIN answers = 1..n /\ DOMAIN args = 1..n
        /\ \A i \in 1..n : args[i] \in Truths /\ answers[i] = DslIs(True(args[i]))
    BY <1>2, <2>2 DEF Of, LikeInDsl
  <2>4. args \in [1..n -> Truths]
    BY <2>2, <2>3 DEF Of
  <2> HIDE DEF n, args, answers
  <2> QED
    BY <2>2, <2>3, <2>4, DslConnective DEF LikeInDsl
<1>3. \A e \in T : (\A i \in DOMAIN e.args : e.args[i].op \notin Atoms => e.args[i] \in Good)
                   => e \in Good
  BY <1>1, <1>2 DEF Joins
<1>4. T \subseteq Good
  <2> HIDE DEF Good
  <2> QED
    BY <1>3, ByRank
<1> QED
  BY <1>4 DEF LikeInDsl, DslIs

(* "and" has no value if its first argument has none.                      *)
LEMMA ErrorFirst ==
  ASSUME NEW x
  PROVE  evalLogical("and", <<Error, x>>) = Error
<1> DEFINE args == <<Error, x>>
           decides == {i \in DOMAIN args : args[i] # Bool("and" = "and")}
<1>1. Error.kind # "bool" /\ Error # Bool("and" = "and")
  BY DEF Error, Bool, Value
<1>2. DOMAIN args = 1..2 /\ args[1] = Error
  OBVIOUS
<1>3. 1 \in decides /\ decides \subseteq 1..2
  BY <1>1, <1>2
<1> HIDE DEF args
<1>4. Min(decides) = 1
  <2> HIDE DEF decides
  <2>1. \E m \in decides : \A y \in decides : m <= y
    BY <1>3
  <2> DEFINE m == Min(decides)
  <2>2. m \in decides /\ \A y \in decides : m <= y
    BY <2>1 DEF Min
  <2> HIDE DEF m
  <2>3. m \in 1..2 /\ m <= 1
    BY <1>3, <2>2
  <2>4. m = 1
    BY <2>3
  <2> QED
    BY <2>4 DEF m
<1>5. evalLogical("and", args) = Error
  BY <1>1, <1>2, <1>3, <1>4 DEF evalLogical
<1> QED
  BY <1>5 DEF args

(* The values of two arguments, and what an ordering makes of them.        *)
LEMMA PairArgs ==
  ASSUME NEW e, NEW x, NEW y, e.args = <<x, y>>, NEW value
  PROVE  Args(e, value) = <<IF x.op \in Atoms THEN evalLeaf(x, item) ELSE value[x],
                            IF y.op \in Atoms THEN evalLeaf(y, item) ELSE value[y]>>
<1>1. DOMAIN e.args = 1..2 /\ e.args[1] = x /\ e.args[2] = y
  OBVIOUS
<1>2. DOMAIN Args(e, value) = 1..2
  BY <1>1 DEF Args
<1>3. /\ Args(e, value)[1] = IF x.op \in Atoms THEN evalLeaf(x, item) ELSE value[x]
      /\ Args(e, value)[2] = IF y.op \in Atoms THEN evalLeaf(y, item) ELSE value[y]
  BY <1>1 DEF Args
<1>4. Args(e, value) = [i \in 1..2 |-> Args(e, value)[i]]
  BY <1>1 DEF Args
<1> QED
  BY <1>2, <1>3, <1>4

(* An ordering has a value if both its arguments have one.                 *)
LEMMA OrderingValue ==
  ASSUME NEW op \in Ordering, NEW x, NEW y
  PROVE  evalOp(op, <<x, y>>, item) = IF Error \in {x, y} THEN Error ELSE Bool(compare(op, x, y))
<1> DEFINE args == <<x, y>>
<1>1. DOMAIN args = 1..2 /\ args[1] = x /\ args[2] = y
  OBVIOUS
<1>2. op \notin Logical \union Spatial /\ op \notin {"function", "in"}
  BY DEF Ordering, Logical, Spatial
<1> HIDE DEF args
<1>3. Fails(op, args) <=> Error \in {x, y}
  BY <1>1, <1>2 DEF Fails
<1>4. evalCondition(op, args) <=> compare(op, x, y)
  BY <1>1 DEF evalCondition, Equality, Ordering, Temporal, Spatial
<1>5. Bool(evalCondition(op, args)) = Bool(compare(op, x, y))
  BY <1>4 DEF Bool
<1>6. evalOp(op, args, item) = IF Error \in {x, y} THEN Error ELSE Bool(compare(op, x, y))
  BY <1>2, <1>3, <1>5 DEF evalOp
<1> QED
  BY <1>6 DEF args

(* An operator with other arguments.                                       *)
LEMMA NewArgs ==
  ASSUME NEW op, NEW args, NEW new
  PROVE  [Apply(op, args) EXCEPT !.args = new] = Apply(op, new)
<1> DEFINE D == {"op", "name", "v", "args"}
           old == Apply(op, args)
           left == [old EXCEPT !.args = new]
           right == Apply(op, new)
<1>1. /\ DOMAIN old = D /\ DOMAIN right = D /\ right = [f \in D |-> right[f]]
      /\ \A f \in D \ {"args"} : right[f] = old[f]
      /\ right["args"] = new
  <2>1. DOMAIN old = D
    BY DEF Apply
  <2>2. DOMAIN right = D
    BY DEF Apply
  <2>3. right = [f \in D |-> right[f]]
    BY DEF Apply
  <2>4. right["op"] = old["op"] /\ right["name"] = old["name"] /\ right["v"] = old["v"]
    BY DEF Apply
  <2>5. right["args"] = new
    BY DEF Apply
  <2> QED
    BY <2>1, <2>2, <2>3, <2>4, <2>5
<1> HIDE DEF old, right
<1>2. left = [f \in D |-> IF f = "args" THEN new ELSE old[f]]
  BY <1>1
<1>3. [f \in D |-> IF f = "args" THEN new ELSE old[f]] = [f \in D |-> right[f]]
  BY <1>1
<1> QED
  BY <1>1, <1>2, <1>3, Zenon DEF old, right

(* encodeFilter: every part is rewritten after its arguments; properties   *)
(* and literals stay as they are.                                          *)
Encoded(T, encoded) ==
  /\ encoded \in [T -> T]
  /\ \A e \in T :
       encoded[e] = rewriteBetween([e EXCEPT !.args =
                      [i \in DOMAIN e.args |-> IF e.args[i].op \in Atoms THEN e.args[i]
                                               ELSE encoded[e.args[i]]]])

(* The filter pgstac gets means what the client's does: RewriteKeepsMeaning, *)
(* for filters of any size, where the upper end of a BETWEEN has a value:  *)
(* the rewritten one need not look at it.  LIKE may be any function of the *)
(* values of its arguments.                                                *)
THEOREM RewriteMeansTheSame ==
  ASSUME NEW T, NEW rank, Filter(T, rank), NEW value, Evaluated(T, value),
         \A e, f \in T : e.op = "like" /\ f.op = "like" /\ Args(e, value) = Args(f, value) =>
           value[e] = value[f],
         \A e \in T : e.op = "between" => Args(e, value)[3] # Error,
         NEW encoded, Encoded(T, encoded)
  PROVE  \A e \in T : value[encoded[e]] = value[e]
<1> DEFINE Good == {e \in T : value[encoded[e]] = value[e]}
<1>1. ASSUME NEW e \in T,
             \A i \in DOMAIN e.args : e.args[i].op \notin Atoms => e.args[i] \in Good
      PROVE  value[encoded[e]] = value[e]
  <2> DEFINE A == [i \in DOMAIN e.args |-> IF e.args[i].op \in Atoms THEN e.args[i]
                                           ELSE encoded[e.args[i]]]
             ValueOf(a) == IF a.op \in Atoms THEN evalLeaf(a, item) ELSE value[a]
             a == Args(e, value)
             rewritten == Apply(e.op, A)
  <2>1. /\ e = Apply(e.op, e.args) /\ WellFormed(e) /\ e.op \notin Atoms
        /\ \A i \in DOMAIN e.args : e.args[i].op \notin Atoms => e.args[i] \in T
    BY DEF Filter
  <2>2. encoded[e] \in T /\ encoded[e] = rewriteBetween(rewritten)
    <3>1. [e EXCEPT !.args = A] = rewritten
      <4> HIDE DEF A
      <4>1. [Apply(e.op, e.args) EXCEPT !.args = A] = Apply(e.op, A)
        BY NewArgs
      <4> QED
        BY <2>1, <4>1, Zenon
    <3> QED
      BY <3>1 DEF Encoded
  <2>3. \A i \in DOMAIN e.args : ValueOf(A[i]) = a[i]
    <3>1. ASSUME NEW i \in DOMAIN e.args, e.args[i].op \notin Atoms
          PROVE  A[i].op \notin Atoms /\ value[A[i]] = value[e.args[i]]
      <4>1. A[i] = encoded[e.args[i]] /\ e.args[i] \in T /\ encoded[e.args[i]] \in T
        BY <2>1, <3>1 DEF Encoded
      <4> QED
        BY <1>1, <3>1, <4>1 DEF Filter
    <3> QED
      BY <3>1 DEF Args
  <2>4. DOMAIN A = DOMAIN e.args /\ DOMAIN a = DOMAIN e.args
    BY DEF Args
  <2>5. rewritten.op = e.op /\ rewritten.args = A
    BY DEF Apply
  <2>6. \A p \in T : Args(p, value) = [i \in DOMAIN p.args |-> ValueOf(p.args[i])]
    BY DEF Args
  <2> HIDE DEF A, a, rewritten, ValueOf
  <2>7. CASE e.op # "between"
    <3>1. encoded[e] = rewritten
      BY <2>2, <2>5, <2>7 DEF rewriteBetween
    <3>2. Args(rewritten, value) = a
      <4>1. a = [i \in DOMAIN e.args |-> a[i]]
        BY DEF a, Args
      <4>2. Args(rewritten, value) = [i \in DOMAIN e.args |-> ValueOf(A[i])]
        BY <2>2, <2>4, <2>5, <2>6, <3>1
      <4>3. [i \in DOMAIN e.args |-> ValueOf(A[i])] = [i \in DOMAIN e.args |-> a[i]]
        BY <2>3
      <4> QED
        BY <4>1, <4>2, <4>3, Zenon
    <3>3. CASE e.op = "like"
      BY <2>2, <2>5, <3>1, <3>2, <3>3 DEF a
    <3>4. CASE e.op # "like"
      BY <2>2, <2>5, <3>1, <3>2, <3>4 DEF Evaluated, a
    <3> QED
      BY <3>1, <3>3, <3>4
  <2>8. CASE e.op = "between"
    <3> DEFINE lower == Apply(">=", <<A[1], A[2]>>)
               upper == Apply("<=", <<A[1], A[3]>>)
               both  == Apply("and", <<lower, upper>>)
               x == compare(">=", a[1], a[2])
               y == compare("<=", a[1], a[3])
    <3>1. DOMAIN e.args = 1..3
      BY <2>1, <2>8 DEF WellFormed
    <3>2. encoded[e] = both
      BY <2>2, <2>5, <2>8 DEF rewriteBetween
    <3>3. /\ lower.op = ">=" /\ lower.args = <<A[1], A[2]>>
          /\ upper.op = "<=" /\ upper.args = <<A[1], A[3]>>
          /\ both.op = "and" /\ both.args = <<lower, upper>>
      BY DEF Apply
    <3> HIDE DEF lower, upper, both
    <3>4. lower \in T /\ upper \in T /\ both \in T
      <4>1. ">=" \notin Atoms /\ "<=" \notin Atoms
        BY DEF Atoms, Literals
      <4>2. both.args[1] = lower /\ both.args[2] = upper /\ DOMAIN both.args = 1..2
        BY <3>3
      <4> QED
        BY <2>2, <3>2, <3>3, <4>1, <4>2 DEF Filter
    <3>5. /\ Args(lower, value) = <<a[1], a[2]>> /\ Args(upper, value) = <<a[1], a[3]>>
          /\ Args(both, value) = <<value[lower], value[upper]>>
      <4>1. ValueOf(lower) = value[lower] /\ ValueOf(upper) = value[upper]
        BY <3>4 DEF Filter, ValueOf
      <4>2. ValueOf(A[1]) = a[1] /\ ValueOf(A[2]) = a[2] /\ ValueOf(A[3]) = a[3]
        BY <2>3, <3>1
      <4> QED
        BY <3>3, <4>1, <4>2, PairArgs DEF ValueOf
    <3>6. value[lower] = IF Error \in {a[1], a[2]} THEN Error ELSE Bool(x)
      <4>1. value[lower] = evalOp(">=", <<a[1], a[2]>>, item)
        BY <3>3, <3>4, <3>5 DEF Evaluated
      <4> QED
        BY <4>1, OrderingValue DEF Ordering
    <3>7. value[upper] = IF Error \in {a[1], a[3]} THEN Error ELSE Bool(y)
      <4>1. value[upper] = evalOp("<=", <<a[1], a[3]>>, item)
        BY <3>3, <3>4, <3>5 DEF Evaluated
      <4> QED
        BY <4>1, OrderingValue DEF Ordering
    <3>8. value[both] = evalLogical("and", <<value[lower], value[upper]>>)
      <4>1. value[both] = evalOp("and", <<value[lower], value[upper]>>, item)
        BY <3>3, <3>4, <3>5 DEF Evaluated
      <4> QED
        BY <4>1 DEF evalOp, Logical
    <3>9. value[e] = IF Error \in {a[1], a[2]} THEN Error ELSE Bool(x /\ y)
      <4>1. value[e] = evalOp("between", a, item) /\ a[3] # Error
        BY <2>8 DEF Evaluated, a
      <4>2. Fails("between", a) <=> Error \in {a[1], a[2]}
        BY <2>4, <3>1, <4>1 DEF Fails
      <4>3. evalCondition("between", a) <=> x /\ y
        BY DEF evalCondition, Equality, Ordering, Temporal, Spatial
      <4>4. Bool(evalCondition("between", a)) = Bool(x /\ y)
        BY <4>3 DEF Bool
      <4> HIDE DEF x, y
      <4> QED
        BY <4>1, <4>2, <4>4 DEF evalOp, Logical, Spatial
    <3>10. a[3] # Error
      BY <2>8 DEF a
    <3> HIDE DEF x, y
    <3>11. CASE Error \in {a[1], a[2]}
      BY <3>2, <3>6, <3>8, <3>9, <3>11, ErrorFirst
    <3>12. CASE Error \notin {a[1], a[2]}
      <4> DEFINE args == <<Bool(x), Bool(y)>>
      <4>1. args \in [1..2 -> Truths] /\ args[1] = Bool(x) /\ args[2] = Bool(y)
        BY TruthOf
      <4>2. value[both] = evalLogical("and", args)
        BY <3>6, <3>7, <3>8, <3>10, <3>12
      <4> HIDE DEF args
      <4>3. /\ evalLogical("and", args) \in Truths
            /\ True(evalLogical("and", args)) <=> \A i \in 1..2 : True(args[i])
        <5>1. "and" \in Logical /\ 2 \in Nat \ {0}
          BY DEF Logical
        <5> QED
          BY <4>1, <5>1, Connective
      <4>4. True(evalLogical("and", args)) <=> x /\ y
        BY <4>1, <4>3, TruthOf
      <4>5. value[e] = Bool(x /\ y) /\ value[e] \in Truths /\ (True(value[e]) <=> x /\ y)
        BY <3>9, <3>12, TruthOf
      <4> QED
        BY <3>2, <4>2, <4>3, <4>4, <4>5, TruthValues DEF Truths
    <3> QED
      BY <3>11, <3>12
  <2> QED
    BY <2>7, <2>8
<1>2. T \subseteq Good
  <2>1. \A e \in T : (\A i \in DOMAIN e.args : e.args[i].op \notin Atoms => e.args[i] \in Good)
                     => e \in Good
    BY <1>1
  <2> HIDE DEF Good
  <2> QED
    BY <2>1, ByRank
<1> QED
  BY <1>2
=============================================================================
