------------------------------ MODULE Cql2Eval ------------------------------
(***************************************************************************)
(* The evaluator of pkg/cql2/eval, which the inmem backend filters with,   *)
(* and matchItem's test of the datetime parameter.                         *)
(***************************************************************************)
EXTENDS Cql2

Bool(b) == Value("bool", IF b THEN <<1>> ELSE <<0>>)
Error   == Value("error", <<>>)
True(x) == x = Bool(TRUE)

(* A missing geometry is a nil pointer in an interface that is not nil.    *)
resolveProperty(item, name) ==
  IF name \notin DOMAIN item THEN Nil
  ELSE IF name = "geometry" /\ item[name] = Nil THEN Value("geom", <<>>)
  ELSE item[name]

HasTime(x) == x.kind = "time" \/ (x.kind = "str" /\ IsTime(x.v))
toTime(x)  == IF x.kind = "time" THEN x.v[1] ELSE Instant(x.v)

compare(op, l, r) ==
  IF l = Nil \/ r = Nil THEN
    \/ op = "=" /\ l = r
    \/ op = "<>" /\ l # r
  ELSE IF l.kind = r.kind /\ l.kind \in {"num", "str"} THEN
    applyOrder(op, Less(l.v, r.v), l.v = r.v)
  ELSE IF HasTime(l) /\ HasTime(r) THEN
    applyOrder(op, toTime(l) < toTime(r), toTime(l) = toTime(r))
  ELSE
    \/ op = "=" /\ l = r
    \/ op = "<>" /\ l # r

(* Intervals have the instants they start and end at, or Open.             *)
Open == -1
intervalEndpoint(e, item) ==
  IF e.op \in {"time", "date"} THEN Instant(e.v)
  ELSE IF e.op = "prop" /\ HasTime(resolveProperty(item, e.name))
  THEN toTime(resolveProperty(item, e.name))
  ELSE Open
asInterval(x) == IF x.kind = "interval" THEN x.v ELSE <<toTime(x), toTime(x)>>

evalTemporal(op, l, r) ==
  LET a == asInterval(l)
      b == asInterval(r)
      Before(x, y) == x # Open /\ y # Open /\ x < y
  IN /\ l.kind = "interval" \/ HasTime(l)
     /\ r.kind = "interval" \/ HasTime(r)
     /\ CASE op = "t_after"  -> Before(b[2], a[1])
          [] op = "t_before" -> Before(a[2], b[1])
          [] op = "t_during" -> ~Before(a[1], b[1]) /\ ~Before(b[2], a[2])
          [] op = "t_intersects" -> ~Before(a[2], b[1]) /\ ~Before(b[2], a[1])
          [] op = "t_equals" -> a = b

(* The cells of an argument; what is no geometry stands for the item's.    *)
Cells(x, item) == Range(IF x.kind = "geom" THEN x.v ELSE item.geometry.v)

(* The library answers for two geometries that parse, or with an error.    *)
Asked(op) == IF op = "s_disjoint" THEN "s_intersects" ELSE op
Errs(op, a, b) == a # {} /\ b # {} /\ <<Asked(op), a, b>> \in Unhandled

(* Mutant: what does not parse is an error, too.                           *)
evalSpatialOfBoth(op, a, b) ==
  IF a = {} \/ b = {} \/ Errs(op, a, b) THEN Error
  ELSE Bool(CASE op = "s_intersects" -> a \intersect b # {}
              [] op = "s_disjoint"   -> a \intersect b = {}
              [] op = "s_within"     -> a \subseteq b
              [] op = "s_contains"   -> b \subseteq a)

evalSpatial(op, a, b) ==
  IF Errs(op, a, b) THEN Error
  ELSE Bool(/\ a # {} /\ b # {}
            /\ CASE op = "s_intersects" -> a \intersect b # {}
                 [] op = "s_disjoint"   -> a \intersect b = {}
                 [] op = "s_within"     -> a \subseteq b
                 [] op = "s_contains"   -> b \subseteq a)

evalLiteral(e, item) ==
  CASE e.op = "null" -> Nil
    [] e.op \in {"time", "date"} -> Value("time", <<Instant(e.v)>>)
    [] e.op = "interval" -> Value("interval", <<intervalEndpoint(e.args[1], item),
                                                intervalEndpoint(e.args[2], item)>>)
    [] OTHER -> Value(e.op, e.v)

(* The value of a property or a literal.                                   *)
evalLeaf(e, item) ==
  IF e.op = "prop" THEN resolveProperty(item, e.name) ELSE evalLiteral(e, item)

(* The operators but for the logical and the spatial ones and LIKE, on the *)
(* values of their arguments.                                              *)
evalCondition(op, args) ==
  CASE op \in Equality \union Ordering -> compare(op, args[1], args[2])
    [] op = "between" -> compare(">=", args[1], args[2]) /\ compare("<=", args[1], args[3])
    [] op = "in" -> \E i \in 2..Len(args) : compare("=", args[1], args[i])
    [] op = "isNull" -> args[1] = Nil
    [] op \in Temporal -> evalTemporal(op, args[1], args[2])

(* The logical ones: "and" and "or" stop at the first argument that        *)
(* decides them or is no Boolean.                                          *)
evalLogical(op, args) ==
  LET goesOn  == Bool(op = "and")
      decides == {i \in DOMAIN args : args[i] # goesOn}
      last    == IF op = "not" THEN args[1] ELSE args[Min(decides)]
  IN IF op # "not" /\ decides = {} THEN goesOn
     ELSE IF last.kind # "bool" THEN Error
     ELSE IF op = "not" THEN Bool(~True(last)) ELSE last

(* An argument without a value leaves the condition without one: "in" has  *)
(* one if it meets the member it looks for before.                         *)
Fails(op, args) ==
  \E i \in DOMAIN args :
    /\ args[i] = Error
    /\ op = "in" => ~\E j \in 2..(i - 1) : compare("=", args[1], args[j])

(* Any operator but LIKE.                                                  *)
evalOp(op, args, item) ==
  CASE op = "function" -> Error
    [] op \in Logical -> evalLogical(op, args)
    [] OTHER -> IF Fails(op, args) THEN Error
                ELSE IF op \in Spatial
                THEN evalSpatial(op, Cells(args[1], item), Cells(args[2], item))
                ELSE Bool(evalCondition(op, args))

----------------------------------------------------------------------------
(* The datetime parameter: the texts of both ends, <<>> for an open one.   *)
datetimeMatches(item, start, end) ==
  /\ item.datetime.kind = "str" /\ IsRFC3339(item.datetime.v)
  /\ start # <<>> => Instant(item.datetime.v) >= Instant(start)
  /\ end # <<>>   => Instant(item.datetime.v) <= Instant(end)

(* The spatial parameters: an item is where its geometry is, if that       *)
(* parses and the library answers, or else where its bbox is.              *)
Answered(item, cells) ==
  Parses(item.geometry) /\ ~Errs("s_intersects", Range(item.geometry.v), cells)

bboxOverlaps(item, bb) == item.bbox # Nil /\ Overlaps(item.bbox.v, bb)

intersectsBBox(item, bb) ==
  IF Answered(item, BBoxPolygon(bb))
  THEN Range(item.geometry.v) \intersect BBoxPolygon(bb) # {}
  ELSE bboxOverlaps(item, bb)

(* Without a bbox it is where that of its geometry is, or else anywhere.   *)
intersectsGeometry(item, g) ==
  IF Answered(item, Range(g)) THEN Range(item.geometry.v) \intersect Range(g) # {}
  ELSE IF item.bbox # Nil THEN bboxOverlaps(item, Envelope(g))
  ELSE Parses(item.geometry) => Overlaps(Envelope(item.geometry.v), Envelope(g))
=============================================================================
