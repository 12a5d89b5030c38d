-------------------------------- MODULE Cql2 --------------------------------
(***************************************************************************)
(* CQL2 expressions and the items they are about, as the evaluator and the *)
(* translators see them.  A text is the sequence of its characters, in     *)
(* their order; the text of a time is shortened to what orders it and what *)
(* the code looks at:                                                      *)
(*   <<day>>                     2024-01-01                                *)
(*   <<day, second, Z>>          2024-01-01T00:00:00Z                      *)
(*   <<day, second, Dot, 5, Z>>  2024-01-01T00:00:00.5Z                    *)
(* Times are in UTC, characters are ASCII.  A geometry is the sequence of  *)
(* the cells it covers, which lie on a line; a bbox is its first and its   *)
(* last cell.                                                              *)
(***************************************************************************)
EXTENDS Integers, Sequences, Functions, FiniteSetsExt

CONSTANT Unhandled   \* <<predicate, cells, cells>>: where a predicate of the
                     \* geometry library of inmem answers with an error

(* Characters by their codes; days and seconds are below all of them.      *)
Percent    == 37
Dot        == 46
Z          == 90
Underscore == 95

(* An expression: a literal of a kind, a property, or an operator and its  *)
(* arguments; "function" stands for the calls and the arithmetic, which     *)
(* neither the evaluator nor a translator knows.  The arguments of an      *)
(* interval are its two endpoints, those of "in" a property and the        *)
(* members of the list.                                                    *)
Lit(kind, v)   == [op |-> kind, name |-> "", v |-> v, args |-> <<>>]
Prop(name)     == [op |-> "prop", name |-> name, v |-> <<>>, args |-> <<>>]
Apply(o, args) == [op |-> o, name |-> "", v |-> <<>>, args |-> args]

Logical   == {"and", "or", "not"}
Equality  == {"=", "<>"}
Ordering  == {"<", "<=", ">", ">="}
Temporal  == {"t_after", "t_before", "t_during", "t_intersects", "t_equals"}
Spatial   == {"s_intersects", "s_within", "s_contains", "s_disjoint"}
Literals  == {"num", "str", "bool", "null", "time", "date", "interval"}
Atoms     == Literals \union {"prop", "geom"}   \* what has no operator

(* The properties of the modelled items, with the kind of their values; a  *)
(* time is a text in the item.                                             *)
KindOf(name) == CASE name = "n" -> "num" [] name = "s" -> "str" [] name = "b" -> "bool"
                  [] name \in {"datetime", "start_datetime", "end_datetime"} -> "time"
                  [] name = "geometry" -> "geom"
                  [] OTHER -> "none"

(* The value of a property, a column or a literal.                         *)
Value(kind, v) == [kind |-> kind, v |-> v]
Nil == Value("nil", <<>>)

IsValue(x, kind) == x = Nil \/ x = Value(kind, x.v)
IsItem(i) ==
  /\ DOMAIN i = {"n", "s", "b", "datetime", "start_datetime", "end_datetime",
                 "geometry", "bbox"}
  /\ IsValue(i.n, "num") /\ IsValue(i.s, "str") /\ IsValue(i.b, "bool")
  /\ \A name \in {"datetime", "start_datetime", "end_datetime"} :
       IsValue(i[name], "str") /\ (i[name] # Nil => i[name].v \in Seq(Nat))
  /\ IsValue(i.geometry, "geom")
  /\ i.geometry # Nil => i.geometry.v \in Seq(Int)
  /\ IsValue(i.bbox, "box")
  /\ i.bbox # Nil => i.bbox.v[1] \in Int /\ i.bbox.v[2] \in Int

(* The order of texts, and of numbers, which are sequences of one.         *)
Less(a, b) ==
  \E i \in DOMAIN b :
    /\ \A j \in 1..(i - 1) : j <= Len(a) /\ a[j] = b[j]
    /\ i > Len(a) \/ a[i] < b[i]

(* An operator of Equality or Ordering, from whether the left side is less *)
(* and whether it is equal.                                                *)
applyOrder(op, less, equal) ==
  CASE op = "="  -> equal
    [] op = "<>" -> ~equal
    [] op = "<"  -> less
    [] op = "<=" -> less \/ equal
    [] op = ">"  -> ~less /\ ~equal
    [] op = ">=" -> ~less

----------------------------------------------------------------------------
(* Times                                                                   *)

IsTime(t)    == t # <<>> /\ t[1] < Percent
IsRFC3339(t) == IsTime(t) /\ Len(t) > 1

(* Instants are counted in half seconds, and a day of the model has four.  *)
SecondsPerDay == 2
Instant(t) == 2 * (SecondsPerDay * t[1] + (IF Len(t) > 1 THEN t[2] ELSE 0))
              + (IF Len(t) = 5 THEN 1 ELSE 0)

(* time.Format(time.RFC3339) drops what is below a second.                 *)
FormatSeconds(t) == <<t[1], t[2], Z>>

----------------------------------------------------------------------------
(* Geometries                                                              *)

(* The geometry of an item is what the client sent; one that no library    *)
(* can parse covers nothing.                                               *)
Parses(x) == x # Nil /\ x.v # <<>>

BBoxPolygon(bb) == bb[1]..bb[2]
Overlaps(bb, other) == ~(bb[2] < other[1] \/ bb[1] > other[2])

(* The bbox of a geometry.                                                 *)
Envelope(g) == <<Min(Range(g)), Max(Range(g))>>

----------------------------------------------------------------------------
(* Translation                                                             *)

(* "properties." in front of a name changes nothing.                       *)
Unqualified(name) == IF name = "properties.n" THEN "n" ELSE name

(* translateFilter of spatialite and of opensearch accept the same shapes, *)
(* anything else is answered with status 400.                              *)
PropertyAndLiteral(args) ==
  \/ args[1].op = "prop" /\ args[2].op \in Literals
  \/ args[2].op = "prop" /\ args[1].op \in Literals

AcceptedCondition(e) ==
  \/ e.op \in Equality \union Ordering /\ PropertyAndLiteral(e.args)
  \/ /\ e.op \in {"between", "in", "isNull"}
     /\ e.args[1].op = "prop"
     /\ \A i \in 2..Len(e.args) : e.args[i].op \in Literals
  \/ e.op = "like" /\ e.args[1].op = "prop" /\ e.args[2].op = "str"
  \/ e.op \in Spatial /\ e.args[1].op = "prop" /\ e.args[2].op = "geom"
  \/ e.op \in Temporal /\ e.args[2].op \in Literals

(* pgstac gets the filter back as CQL2 JSON, without "between".            *)

rewriteBetweenStrictly(e) ==   \* mutant: the bounds are left out
  IF e.op # "between" THEN e
  ELSE Apply("and", <<Apply(">", <<e.args[1], e.args[2]>>),
                      Apply("<", <<e.args[1], e.args[3]>>)>>)

rewriteBetween(e) ==
  IF e.op # "between" THEN e
  ELSE Apply("and", <<Apply(">=", <<e.args[1], e.args[2]>>),
                      Apply("<=", <<e.args[1], e.args[3]>>)>>)
=============================================================================
