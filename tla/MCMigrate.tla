----------------------------- MODULE MCMigrate -----------------------------
(* Instances of Migrate for TLC.                                           *)
EXTENDS Migrate, TLC

(* PagesResume: a collection of several pages and one of a single page.    *)
(* PagesLong: enough pages for two workers, a full channel and one more.   *)
PagesResume == <<3, 1>>
PagesLong   == <<5>>

(* The first collection's source hands out a token after its last page.    *)
Trailing == {1}
NoCols   == {}

Symmetry == Permutations(Workers)
=============================================================================
