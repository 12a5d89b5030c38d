---------------------------- MODULE FilterParity ----------------------------
(***************************************************************************)
(* One search, with a filter and parameters for time and place, on three   *)
(* backends: is an item found?  A step composes the filter with another,   *)
(* as CQL2 allows, so that the states enumerate the filters up to MaxOps   *)
(* and/or/not over the given ones, or upserts another version of the item. *)
(***************************************************************************)
EXTENDS SearchParity, Cql2Trees

CONSTANTS
  Joined,     \* the filters to join them with
  MaxOps      \* bound: and, or, not in a filter

VARIABLES filter, ops
vars == <<searchVars, filter, ops>>

Init ==
  /\ Inserted
  /\ \E r \in Requests : AsksFor(r) /\ filter = r.filter
  /\ ops = 0

(* A parameter is joined to the filter by AND on every backend: filters    *)
(* are composed where there is none.                                       *)
Compose(e) ==
  /\ params = <<<<>>, <<>>, <<>>>> /\ ops < MaxOps
  /\ filter' = e
  /\ ops' = ops + 1
  /\ UNCHANGED <<item, geom, params>>

(* The item is upserted, where the request asks for a place.               *)
Upserts(new) ==
  /\ bbox # <<>> \/ intersects # <<>> \/ filter.op \in Spatial
  /\ Upsert(new)
  /\ UNCHANGED <<filter, ops>>

Next ==
  \/ \E i \in Items : Upserts(i)
  \/ Compose(Apply("not", <<filter>>))
  \/ \E e \in Joined : Compose(Apply("and", <<filter, e>>))
  \/ \E e \in Joined : Compose(Apply("or", <<e, filter>>))

Spec == Init /\ [][Next]_vars

----------------------------------------------------------------------------
(* The filter as pgstac gets it                                            *)

RECURSIVE encodeFilter(_)
encodeFilter(e) ==
  rewriteBetween([e EXCEPT !.args = [i \in DOMAIN e.args |-> encodeFilter(e.args[i])]])

----------------------------------------------------------------------------
(* What the backends may be asked                                          *)

RECURSIVE Leaves(_)
Leaves(e) == IF e.op \in Logical THEN UNION {Leaves(e.args[i]) : i \in DOMAIN e.args} ELSE {e}

RECURSIVE NegationFree(_)
NegationFree(e) == e.op \in Logical => e.op # "not" /\ \A i \in DOMAIN e.args : NegationFree(e.args[i])

(* The texts of the item that every backend reads alike: no % and, for     *)
(* SQLite's LIKE, one case.                                                *)
PlainItem  == PlainTimes /\ (item.s # Nil => Percent \notin Range(item.s.v))
OneCase(e) == e.op = "like" => Fold(e.args[2].v) = e.args[2].v /\ Fold(item.s.v) = item.s.v

----------------------------------------------------------------------------
(* Properties                                                              *)

(* What a translator accepts fails on inmem for two reasons only, whatever *)
(* the item: a condition has a function where the translators look at      *)
(* nothing, on the left of a temporal operator, or the geometry library    *)
(* has no answer for one.                                                  *)
OracleAnswers ==
  Accepted(filter) /\ Match(filter, item) = "error" =>
    \E e \in Leaves(filter) :
      ~Handled(e) \/ \E i \in DOMAIN e.args : e.args[i].op = "function"

(* spatialite finds no item that Match refuses, although its conditions    *)
(* are three-valued, and loses one only to a NULL below a NOT.  Wherever   *)
(* earlier versions of the item were, unless the filter asks for a place   *)
(* and one of them left its geometry to an item without.                   *)
SpatialiteFilters ==
  PlainItem /\ (\A e \in Leaves(filter) : PlainSql(e) /\ OneCase(e) /\ Handled(e) /\ Placed(e)) =>
    /\ Rows(filter, itemRow) = "T" => Match(filter, item) = "T"
    /\ NegationFree(filter) \/ (\A e \in Leaves(filter) : Present(e)) =>
         (Rows(filter, itemRow) = "T" <=> Match(filter, item) = "T")

(* opensearch finds what Match accepts, missing properties or not.         *)
OpenSearchFilters ==
  PlainItem /\ Indexed /\ (\A e \in Leaves(filter) : Plain(e) /\ Handled(e)) =>
    Hits(filter, item) = Match(filter, item)

(* The filter pgstac gets means what the client's filter does.             *)
RewriteKeepsMeaning == Match(encodeFilter(filter), item) = Match(filter, item)

(* Documented: a comparison may have its literal first, "either order is   *)
(* accepted", and Match is the truth a translated filter is compared with. *)
EitherOrder ==
  filter.op \in Equality \union Ordering /\ Typed(filter.args[2], filter.args[1], Orderable) =>
    /\ Rows(filter, itemRow) = "T" <=> Match(filter, item) = "T"
    /\ Hits(filter, item) = "T" <=> Match(filter, item) = "T"
=============================================================================
