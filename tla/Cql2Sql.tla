------------------------------- MODULE Cql2Sql -------------------------------
(***************************************************************************)
(* What the rows answer to the SQL that spatialite translates a filter to. *)
(* A condition is "T", "F" or, where a NULL decides it, "N"; "error" is a  *)
(* statement that cannot be executed.  A WHERE keeps the rows with "T".    *)
(* A row has the columns of its item, but its own geometry.                *)
(***************************************************************************)
EXTENDS Cql2

SqlIs(b) == IF b THEN "T" ELSE "F"

(* SQL's connectives.                                                      *)
SqlAnd(xs) == IF "error" \in xs THEN "error" ELSE IF "F" \in xs THEN "F"
              ELSE IF "N" \in xs THEN "N" ELSE "T"
SqlOr(xs)  == IF "error" \in xs THEN "error" ELSE IF "T" \in xs THEN "T"
              ELSE IF "N" \in xs THEN "N" ELSE "F"
SqlNot(x)  == CASE x = "T" -> "F" [] x = "F" -> "T" [] OTHER -> x
sqlLogical(op, answers) ==
  CASE op = "and" -> SqlAnd(Range(answers))
    [] op = "or"  -> SqlOr(Range(answers))
    [] op = "not" -> SqlNot(answers[1])

(* The column a time is kept in.                                           *)
pickDatetime(x) ==
  IF x.kind = "nil" THEN Nil
  ELSE IF IsRFC3339(x.v) THEN Value("str", FormatSeconds(x.v)) ELSE x

(* json_extract and SQLite know no booleans: they are 1 and 0.             *)
mapColumn(name, row) ==
  LET n == Unqualified(name)
      x == IF n \in DOMAIN row THEN row[n] ELSE Nil
  IN IF n = "datetime" THEN pickDatetime(x)
     ELSE IF x.kind = "bool" THEN Value("num", x.v) ELSE x

literalValue(e) ==
  CASE e.op = "null" -> Nil
    [] e.op = "bool" -> Value("num", e.v)
    [] e.op = "time" -> Value("str", FormatSeconds(e.v))
    [] e.op = "date" -> Value("str", e.v)
    [] OTHER -> Value(e.op, e.v)

(* One end of an interval: only a timestamp counts.                        *)
endpoint(e) == IF e.op = "time" THEN literalValue(e) ELSE Nil

(* SQLite's comparison: numbers come before texts.  An interval is a value *)
(* that cannot be bound.                                                   *)
SqlCompare(op, x, y) ==
  IF "interval" \in {x.kind, y.kind} THEN "error"
  ELSE IF Nil \in {x, y} THEN "N"
  ELSE IF x.kind = y.kind THEN SqlIs(applyOrder(op, Less(x.v, y.v), x = y))
  ELSE SqlIs(applyOrder(op, x.kind = "num", FALSE))

(* Mutant: <> instead of IS NOT.                                           *)
translateEqualityByValue(op, x, y) ==
  IF y = Nil THEN SqlIs((x = Nil) <=> (op = "="))
  ELSE SqlCompare(op, x, y)

(* "IS NULL" and "IS NOT NULL" for a null literal, "IS NOT ?" for "<>".    *)
translateEquality(op, x, y) ==
  IF y = Nil THEN SqlIs((x = Nil) <=> (op = "="))
  ELSE IF op = "<>" /\ x = Nil /\ y.kind # "interval" THEN "T"
  ELSE SqlCompare(op, x, y)

(* SQLite's LIKE takes a letter for its other case; LIKE is modelled for   *)
(* columns of texts.                                                       *)
Fold(t) == [i \in DOMAIN t |-> IF t[i] \in 65..90 THEN t[i] + 32 ELSE t[i]]

(* SpatiaLite's predicates answer -1, which is not 1, for what is no       *)
(* geometry.                                                               *)
translateSpatial(op, x, cells) ==
  LET own == Range(x.v) IN
  IF x.kind # "geom" THEN "F"
  ELSE SqlIs(CASE op = "s_intersects" -> own \intersect cells # {}
               [] op = "s_disjoint"   -> own \intersect cells = {}
               [] op = "s_within"     -> own \subseteq cells
               [] op = "s_contains"   -> cells \subseteq own)

(* A first argument that is no property stands for the datetime.           *)
translateTemporal(e, row) ==
  LET x == mapColumn(IF e.args[1].op = "prop" THEN e.args[1].name ELSE "datetime", row)
      y == e.args[2]
      bound(op, b) == IF endpoint(b) = Nil THEN {} ELSE {SqlCompare(op, x, endpoint(b))}
  IN CASE e.op = "t_after"  -> SqlCompare(">", x, literalValue(y))
       [] e.op = "t_before" -> SqlCompare("<", x, literalValue(y))
       [] e.op = "t_equals" -> SqlCompare("=", x, literalValue(y))
       [] OTHER ->   \* t_during and t_intersects
            IF y.op = "interval"
            THEN SqlAnd(bound(">=", y.args[1]) \union bound("<=", y.args[2]))
            ELSE SqlCompare("=", x, literalValue(y))

(* Either order of property and literal, with the operator as it stands.   *)
propAndLiteral(args) ==
  IF args[1].op = "prop" THEN [name |-> args[1].name, lit |-> args[2]]
  ELSE [name |-> args[2].name, lit |-> args[1]]

(* A condition, but for LIKE.                                              *)
sqlCondition(e, row) ==
  LET col    == mapColumn(e.args[1].name, row)
      lit(i) == literalValue(e.args[i])
  IN CASE e.op \in Equality \union Ordering ->
            LET pl == propAndLiteral(e.args)
                x  == mapColumn(pl.name, row)
                y  == literalValue(pl.lit)
            IN IF e.op \in Equality THEN translateEquality(e.op, x, y)
               ELSE SqlCompare(e.op, x, y)
       [] e.op = "between" -> SqlAnd({SqlCompare(">=", col, lit(2)), SqlCompare("<=", col, lit(3))})
       [] e.op = "in" -> SqlOr({SqlCompare("=", col, lit(i)) : i \in 2..Len(e.args)})
       [] e.op = "isNull" -> SqlIs(col = Nil)
       [] e.op \in Spatial -> translateSpatial(e.op, col, Range(e.args[2].v))
       [] e.op \in Temporal -> translateTemporal(e, row)

----------------------------------------------------------------------------
(* Mutant: both columns must reach the end.                                *)
datetimeWhereBoth(item, start, end) ==
  LET column(name) == pickDatetime(item[name])
      both(op, names, t) ==
        IF t = <<>> THEN "T"
        ELSE SqlAnd({SqlCompare(op, column(n), Value("str", FormatSeconds(t))) : n \in names})
  IN SqlAnd({both(">=", {"datetime", "end_datetime"}, start),
             both("<=", {"datetime", "start_datetime"}, end)})

(* The datetime parameter: the columns datetime and end_dt must reach its  *)
(* start, datetime and start_dt its end.                                   *)
datetimeWhere(item, start, end) ==
  LET column(name) == pickDatetime(item[name])
      either(op, names, t) ==
        IF t = <<>> THEN "T"
        ELSE SqlOr({SqlCompare(op, column(n), Value("str", FormatSeconds(t))) : n \in names})
  IN SqlAnd({either(">=", {"datetime", "end_datetime"}, start),
             either("<=", {"datetime", "start_datetime"}, end)})

----------------------------------------------------------------------------
(* The bbox columns of a row, and its geometry, which is not always that   *)
(* of the item.                                                            *)

itemBBox(item) ==
  CASE item.bbox # Nil -> item.bbox
    [] item.bbox = Nil /\ Parses(item.geometry) -> Value("box", Envelope(item.geometry.v))
    [] OTHER -> Nil

(* Mutant: the geometry is not among the columns a conflict updates.       *)
upsertGeomOnce(old, item) ==
  IF old = Nil /\ Parses(item.geometry) THEN item.geometry ELSE old

(* The geometry column after an upsert over a row with the geometry old: a *)
(* statement for an item without one that parses does not name the column. *)
upsertGeom(old, item) == IF Parses(item.geometry) THEN item.geometry ELSE old

(* The bbox parameter: the columns must overlap it and so must the         *)
(* geometry, if there is one.                                              *)
bboxWhere(item, geom, bb) ==
  LET box == itemBBox(item) IN
  SqlAnd({IF box = Nil THEN "N" ELSE SqlIs(box.v[1] <= bb[2] /\ box.v[2] >= bb[1]),
          SqlIs(geom = Nil \/ Range(geom.v) \intersect BBoxPolygon(bb) # {})})

intersectsWhere(geom, g) ==
  IF geom = Nil THEN "N" ELSE SqlIs(Range(geom.v) \intersect Range(g) # {})
=============================================================================
