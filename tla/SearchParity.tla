---------------------------- MODULE SearchParity ----------------------------
(***************************************************************************)
(* What one search asks of one item, on three backends, as far as no       *)
(* recursion over a filter is needed: the parameters for time and place,   *)
(* and the conditions a filter is made of.  A step upserts another version *)
(* of the item.                                                            *)
(***************************************************************************)
EXTENDS Cql2Eval, Cql2Sql, Cql2Dsl

CONSTANTS
  Items,      \* records: a Value for each property, Nil for a missing one
  Requests    \* [filter, datetime, bbox, intersects]: the filters to start from,
              \* each with its parameters, <<>> for none: the texts of both
              \* ends, a bbox, a geometry

ASSUME ItemsAssumption == \A i \in Items : IsItem(i)
ASSUME RequestsAssumption ==
  \A r \in Requests :
    /\ r.datetime \in {<<>>} \union (Seq(Nat) \X Seq(Nat))
    /\ r.bbox \in {<<>>} \union (Int \X Int)
    /\ r.intersects \in Seq(Int)

VARIABLES
  item,       \* the item, a record of Items
  geom,       \* the geometry in its spatialite row
  datetime, bbox, intersects   \* the parameters of the request
params == <<datetime, bbox, intersects>>
searchVars == <<item, geom, params>>

(* The row of the item: its columns, and the geometry of the row.          *)
itemRow == [item EXCEPT !.geometry = geom]

(* UpsertItem, of a new item.                                              *)
Inserted == item \in Items /\ geom = upsertGeom(Nil, item)

AsksFor(r) ==
  /\ datetime = r.datetime /\ bbox = r.bbox /\ intersects = r.intersects

SearchInit == Inserted /\ \E r \in Requests : AsksFor(r)

(* UpsertItem, of one that is there.                                       *)
Upsert(new) ==
  /\ item' = new
  /\ geom' = upsertGeom(geom, new)
  /\ UNCHANGED params

SearchSpec == SearchInit /\ [][\E i \in Items : Upsert(i)]_searchVars

----------------------------------------------------------------------------
(* What the backends may be asked                                          *)

WholeSeconds(t) ==
  /\ Len(t) = 3 /\ t[1] \in 0..(Percent - 1) /\ t[2] \in 0..(SecondsPerDay - 1)
  /\ t[3] = Z

Equatable == {"num", "str", "bool", "time"}
Orderable == {"num", "str", "time"}

(* A property, and a literal of its kind, which is one of the given kinds. *)
Typed(p, e, kinds) ==
  /\ p.op = "prop" /\ e.op = KindOf(p.name) /\ e.op \in kinds
  /\ e.op = "time" => WholeSeconds(e.v)
  /\ e.op = "geom" => Range(e.v) # {}
Endpoint(e) == e.op = "open" \/ (e.op = "time" /\ WholeSeconds(e.v))

(* A condition that every backend takes for what it says: one property on  *)
(* the left, by its plain name (on either side of = and <>), compared with *)
(* literals of its kind; only numbers, texts and times are ordered; a      *)
(* pattern asks for a character; times are timestamps of whole seconds;    *)
(* "during" and "intersects" get an interval, the others an instant.       *)
Plain(e) ==
  LET p == e.args[1] IN
  \/ e.op \in Equality /\ \E i \in 1..2 : Typed(e.args[i], e.args[3 - i], Equatable)
  \/ e.op \in Ordering /\ Typed(p, e.args[2], Orderable)
  \/ e.op \in Spatial /\ Typed(p, e.args[2], {"geom"})
  \/ e.op = "between" /\ \A i \in 2..3 : Typed(p, e.args[i], Orderable)
  \/ e.op = "in" /\ p.op = "prop" /\ \A i \in 2..Len(e.args) : Typed(p, e.args[i], Equatable)
  \/ /\ e.op = "like" /\ Typed(p, e.args[2], {"str"})
     /\ \E c \in Range(e.args[2].v) : c # Percent
  \/ e.op = "isNull" /\ p.op = "prop" /\ KindOf(p.name) \in Equatable
  \/ e.op \in {"t_after", "t_before", "t_equals"} /\ Typed(p, e.args[2], {"time"})
  \/ /\ e.op \in {"t_during", "t_intersects"} /\ p.op = "prop" /\ KindOf(p.name) = "time"
     /\ e.args[2].op = "interval" /\ \A i \in 1..2 : Endpoint(e.args[2].args[i])
     /\ \E i \in 1..2 : e.args[2].args[i].op # "open"

(* spatialite also takes a null literal, and an instant for an interval.   *)
PlainSql(e) ==
  LET p == e.args[1] IN
  \/ Plain(e)
  \/ /\ e.op \in Equality /\ p.op = "prop" /\ KindOf(p.name) \in Equatable
     /\ e.args[2].op = "null"
  \/ e.op \in {"t_during", "t_intersects"} /\ Typed(p, e.args[2], {"time"})

(* The times of the item are such that every backend reads them alike.     *)
PlainTimes == \A name \in {"datetime", "start_datetime", "end_datetime"} :
                item[name] # Nil => WholeSeconds(item[name].v)

(* Every backend knows where the item is: its geometry, if it has one,     *)
(* parses (opensearch would not index the document else), the row has no   *)
(* other than that, and the predicate a condition asks has an answer.      *)
Indexed    == item.geometry = Nil \/ Parses(item.geometry)
Placed(e)  == e.op \in Spatial => Parses(item.geometry) \/ geom = Nil
Handled(e) == e.op \in Spatial =>
                ~Errs(e.op, Range(item.geometry.v), Range(e.args[2].v))

Present(e) == \A i \in DOMAIN e.args : e.args[i].op = "prop" => item[e.args[i].name] # Nil

Within(inner, outer) == outer[1] <= inner[1] /\ inner[2] <= outer[2]

----------------------------------------------------------------------------
(* Properties                                                              *)

(* The datetime parameter, with one end at least, in whole seconds:        *)
(* opensearch finds what inmem finds, and so does spatialite, which finds  *)
(* more only if the item has a start or an end of its own.                 *)
DatetimeParameter ==
  LET start == datetime[1]
      end   == datetime[2]
      found == datetimeMatches(item, start, end)
  IN (/\ \E i \in DOMAIN datetime : datetime[i] # <<>>
      /\ \A i \in DOMAIN datetime : datetime[i] = <<>> \/ WholeSeconds(datetime[i])
      /\ PlainTimes)
     => /\ (datetimeRange(item, start, end) = "T") <=> found
        /\ found => datetimeWhere(item, start, end) = "T"
        /\ item.start_datetime = Nil /\ item.end_datetime = Nil =>
             (datetimeWhere(item, start, end) = "T" <=> found)

(* The parameters bbox and intersects.  An item with a geometry that       *)
(* parses, and a bbox around it if any, is found by spatialite and by      *)
(* opensearch in the same places, wherever earlier versions of the item    *)
(* were, and by inmem there and nowhere else; where its library has no     *)
(* answer inmem finds it there too, unless the parameter is a bbox and the *)
(* item has none.  Without such a geometry spatialite finds it by its bbox *)
(* like inmem, unless an earlier version left one in the row, and then     *)
(* never where its bbox is not.                                            *)
SpatialParameters ==
  /\ Parses(item.geometry) /\ Within(Envelope(item.geometry.v), itemBBox(item).v) =>
       /\ bbox # <<>> =>
            LET here == bboxGeoShape(item, bbox) = "T" IN
            /\ (bboxWhere(item, geom, bbox) = "T") <=> here
            /\ Answered(item, BBoxPolygon(bbox)) => (intersectsBBox(item, bbox) <=> here)
            /\ here /\ item.bbox # Nil => intersectsBBox(item, bbox)
       /\ intersects # <<>> =>
            LET here == geometryShape(item, intersects) = "T" IN
            /\ (intersectsWhere(geom, intersects) = "T") <=> here
            /\ Answered(item, Range(intersects)) => (intersectsGeometry(item, intersects) <=> here)
            /\ here => intersectsGeometry(item, intersects)
  /\ ~Parses(item.geometry) /\ bbox # <<>> =>
       /\ bboxWhere(item, geom, bbox) = "T" => intersectsBBox(item, bbox)
       /\ geom = Nil /\ intersectsBBox(item, bbox) => bboxWhere(item, geom, bbox) = "T"
=============================================================================
