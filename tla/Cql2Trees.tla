----------------------------- MODULE Cql2Trees ------------------------------
(***************************************************************************)
(* Filters as trees: LIKE, which shapes are accepted, and what a filter    *)
(* answers for an item in the evaluator, in spatialite and in opensearch,  *)
(* by recursion over its expressions.  Cql2Eval, Cql2Sql and Cql2Dsl are   *)
(* the conditions at the leaves.                                           *)
(***************************************************************************)
EXTENDS Cql2Eval, Cql2Sql, Cql2Dsl, SequencesExt

(* What CQL2 says of LIKE: % stands for any run and _ for one character.   *)
RECURSIVE Fits(_, _)
Fits(s, p) ==
  IF p = <<>> THEN s = <<>>
  ELSE IF Head(p) = Percent
  THEN Fits(s, Tail(p)) \/ (s # <<>> /\ Fits(Tail(s), p))
  ELSE s # <<>> /\ Head(p) \in {Underscore, Head(s)} /\ Fits(Tail(s), Tail(p))

----------------------------------------------------------------------------
(* The filters the translators accept.                                     *)

RECURSIVE Accepted(_)
Accepted(e) ==
  \/ e.op \in Logical /\ \A i \in DOMAIN e.args : Accepted(e.args[i])
  \/ AcceptedCondition(e)

----------------------------------------------------------------------------
(* pkg/cql2/eval                                                           *)

(* The loop of likeWalk, over bytes, which for ASCII are characters; star  *)
(* is where the last % was, match how far it reached.  A character of the  *)
(* text that equals the pattern's goes first.                              *)
RECURSIVE likeLoop(_, _, _, _, _, _)
likeLoop(s, p, si, pi, star, match) ==
  IF si > Len(s)
  THEN \A i \in pi..Len(p) : p[i] = Percent
  ELSE IF pi <= Len(p) /\ p[pi] \in {Underscore, s[si]}
  THEN likeLoop(s, p, si + 1, pi + 1, star, match)
  ELSE IF pi <= Len(p) /\ p[pi] = Percent
  THEN likeLoop(s, p, si, pi + 1, pi, si)
  ELSE /\ star # 0
       /\ likeLoop(s, p, match + 1, star + 1, star, match + 1)
likeWalk(s, p) == likeLoop(s, p, 1, 1, 0, 0)

(* LIKE on the values of its arguments.                                    *)
likeMatch(args) ==
  LET text(x) == IF x.kind = "str" THEN x.v ELSE <<>> IN
  IF Fails("like", args) THEN Error
  ELSE Bool(likeWalk(text(args[1]), text(args[2])))

(* The value of an expression.                                             *)
RECURSIVE eval(_, _)
eval(e, item) ==
  LET args == [i \in DOMAIN e.args |-> eval(e.args[i], item)] IN
  CASE e.op \in Atoms -> evalLeaf(e, item)
    [] e.op = "like" -> likeMatch(args)
    [] OTHER -> evalOp(e.op, args, item)

(* "T", "F" or "error".                                                    *)
Match(e, item) ==
  LET x == eval(e, item) IN
  IF x.kind # "bool" THEN "error" ELSE IF True(x) THEN "T" ELSE "F"

----------------------------------------------------------------------------
(* The SQL of spatialite, and the query of opensearch                      *)

RECURSIVE Rows(_, _)
Rows(e, row) ==
  LET text == mapColumn(e.args[1].name, row) IN
  CASE e.op \in Logical -> sqlLogical(e.op, [i \in DOMAIN e.args |-> Rows(e.args[i], row)])
    [] e.op = "like" -> IF text = Nil THEN "N"
                        ELSE SqlIs(Fits(Fold(text.v), Fold(e.args[2].v)))
    [] OTHER -> sqlCondition(e, row)

RECURSIVE Hits(_, _)
Hits(e, item) ==
  LET x == field(e.args[1].name, item) IN
  CASE e.op \in Logical -> dslLogical(e.op, [i \in DOMAIN e.args |-> Hits(e.args[i], item)])
    [] e.op = "like" -> DslIs(x # Nil /\ Fits(x.v, e.args[2].v))
    [] OTHER -> dslCondition(e, item)
=============================================================================
