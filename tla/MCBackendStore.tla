--------------------------- MODULE MCBackendStore ---------------------------
(* Instances of BackendStore for TLC.                                      *)
EXTENDS BackendStore, TLC

CONSTANTS c1, c2, i1, k1, k2, v1, v2

AllBackends == {"inmem", "spatialite", "opensearch"}

(* Two collections with one index; a collection with an index of its own is *)
(* the case where nothing is asked of the other.  The set is closed under   *)
(* the permutations of the collections.                                     *)
OneIndex == {[c \in Cols |-> c1], [c \in Cols |-> c2]}

Symmetry ==
  Permutations({k1, k2}) \union Permutations({c1, c2}) \union Permutations({v1, v2})
=============================================================================
