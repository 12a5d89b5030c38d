---------------------------- MODULE MCSearchWalk ----------------------------
(* Instances of SearchWalk for TLC.                                        *)
EXTENDS SearchWalk

CONSTANTS c1, c2

(* Three items of one collection and one of another with an id in common.  *)
FourKeys == [col : {c1}, id : 1..3] \union [col : {c2}, id : {2}]

(* Two items and one write; on inmem also two deletions: with pages of     *)
(* one, that is what it takes to leave an offset past the end.             *)
AllBounds ==
  LET AnyBackend == {"inmem", "spatialite", "opensearch"} IN
       [backend : AnyBackend, items : {2}, upserts : {1}, deletes : {0}]
  \union [backend : AnyBackend \ {"inmem"}, items : {2}, upserts : {0}, deletes : {1}]
  \union [backend : {"inmem"}, items : {2}, upserts : {0}, deletes : {2}]
StillSpatialite ==
  [backend : {"spatialite"}, items : {3}, upserts : {0}, deletes : {0}]

(* The default, which is datetime DESC where there is a keyset, and every  *)
(* other clause on id, on datetime and on a property.                      *)
AllSorts == {[field |-> f, desc |-> FALSE] : f \in {"default", "datetime"}}
            \union [field : {"id", "other"}, desc : BOOLEAN]
=============================================================================
