------------------------------- MODULE Cql2Dsl -------------------------------
(***************************************************************************)
(* What the documents answer to the query that opensearch translates a     *)
(* filter to: "T", "F", or "error" for a query the cluster rejects.        *)
(* Numbers are mapped as numbers, texts as keywords, datetime as a date,   *)
(* and the cluster's part is what its documentation says of the queries.   *)
(***************************************************************************)
EXTENDS Cql2

DslIs(b) == IF b THEN "T" ELSE "F"

(* mapField, and the field of the document.                                *)
field(name, item) ==
  LET n == Unqualified(name) IN IF n \in DOMAIN item THEN item[n] ELSE Nil
mapping(name) == KindOf(Unqualified(name))

(* A date in a query covers the instants of its day, or of its second if   *)
(* it has no fraction.                                                     *)
first(t) == Instant(t)
last(t)  == Instant(t) + (CASE Len(t) = 1 -> 2 * SecondsPerDay - 1
                            [] Len(t) = 3 -> 1
                            [] Len(t) = 5 -> 0)

textOf(e) == IF e.op = "time" THEN FormatSeconds(e.v) ELSE e.v

(* A term or range query on one field.  A bound that is null is no bound.  *)
(* A keyword would also take a number for its digits, and a date one for   *)
(* its milliseconds; no filter of the instances compares them.             *)
DslCompare(op, name, x, e) ==
  IF e.op = "null" THEN IF op = "=" THEN "error" ELSE DslIs(x # Nil)
  ELSE IF mapping(name) = "time" THEN
    IF e.op \notin {"time", "date", "str"} \/ ~IsTime(e.v) THEN "error"
    ELSE DslIs(/\ x # Nil
               /\ LET t == Instant(x.v)
                      low == first(textOf(e))
                      high == last(textOf(e))
                  IN CASE op = "="  -> low <= t /\ t <= high
                       [] op = "<"  -> t < low
                       [] op = "<=" -> t <= high
                       [] op = ">"  -> t > high
                       [] op = ">=" -> t >= low)
  ELSE IF e.op # mapping(name) THEN "error"
  ELSE DslIs(x # Nil /\ applyOrder(op, Less(x.v, e.v), x.v = e.v))

DslAnd(xs) == IF "error" \in xs THEN "error" ELSE DslIs("F" \notin xs)
DslOr(xs)  == IF "error" \in xs THEN "error" ELSE DslIs("T" \in xs)
mustNot(x) == IF x = "error" THEN x ELSE DslIs(x = "F")
dslLogical(op, answers) ==
  CASE op = "and" -> DslAnd(Range(answers))
    [] op = "or"  -> DslOr(Range(answers))
    [] op = "not" -> mustNot(answers[1])

(* Mutant: a document without the field does not differ either.            *)
termNotExisting(name, x, e) ==
  IF x = Nil THEN "F" ELSE mustNot(DslCompare("=", name, x, e))

(* "<>": must_not around a term.                                           *)
termNot(name, x, e) == mustNot(DslCompare("=", name, x, e))

geoShape(op, x, cells) ==
  LET own == Range(x.v) IN
  DslIs(/\ x # Nil
        /\ CASE op = "s_intersects" -> own \intersect cells # {}
             [] op = "s_disjoint"   -> own \intersect cells = {}
             [] op = "s_within"     -> own \subseteq cells
             [] op = "s_contains"   -> cells \subseteq own)

(* A first argument that is no property stands for the datetime, and of an *)
(* interval only timestamps count.                                         *)
temporalQuery(e, item) ==
  LET name == IF e.args[1].op = "prop" THEN e.args[1].name ELSE "datetime"
      x    == field(name, item)
      y    == e.args[2]
      bound(op, b) == IF b.op = "time" THEN {DslCompare(op, name, x, b)} ELSE {}
  IN CASE e.op = "t_after"  -> DslCompare(">", name, x, y)
       [] e.op = "t_before" -> DslCompare("<", name, x, y)
       [] e.op = "t_equals" -> DslCompare("=", name, x, y)
       [] OTHER ->   \* t_during and t_intersects
            IF y.op = "interval"
            THEN DslAnd({DslIs(x # Nil)} \union bound(">=", y.args[1]) \union bound("<=", y.args[2]))
            ELSE DslCompare(">=", name, x, y)

(* A condition, but for LIKE.                                              *)
dslCondition(e, item) ==
  LET name == e.args[1].name
      x    == field(name, item)
  IN CASE e.op \in Equality \union Ordering ->
            LET swapped == e.args[1].op # "prop"
                n == e.args[IF swapped THEN 2 ELSE 1].name
                y == e.args[IF swapped THEN 1 ELSE 2]
            IN IF e.op = "<>" THEN termNot(n, field(n, item), y)
               ELSE DslCompare(e.op, n, field(n, item), y)
       [] e.op = "between" -> DslAnd({DslCompare(">=", name, x, e.args[2]),
                                      DslCompare("<=", name, x, e.args[3])})
       [] e.op = "in" -> DslOr({DslCompare("=", name, x, e.args[i]) : i \in 2..Len(e.args)})
       [] e.op = "isNull" -> DslIs(x = Nil)
       [] e.op \in Spatial -> geoShape(e.op, x, Range(e.args[2].v))
       [] e.op \in Temporal -> temporalQuery(e, item)

----------------------------------------------------------------------------
(* The datetime parameter.                                                 *)
datetimeRange(item, start, end) ==
  LET bound(op, t) == IF t = <<>> THEN {}
                      ELSE {DslCompare(op, "datetime", item.datetime,
                                       Lit("time", t))}
  IN DslAnd(bound(">=", start) \union bound("<=", end))

(* The spatial parameters: a document without geometry is nowhere.         *)
bboxGeoShape(item, bb) ==
  DslIs(item.geometry # Nil /\ Range(item.geometry.v) \intersect BBoxPolygon(bb) # {})
geometryShape(item, g) ==
  DslIs(item.geometry # Nil /\ Range(item.geometry.v) \intersect Range(g) # {})
=============================================================================
