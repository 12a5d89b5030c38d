---------------------------- MODULE CopyContract ----------------------------
(***************************************************************************)
(* What one run of `polystac migrate` promises, without its workers,       *)
(* channel, cursors or sidecar (internal/migrate/migrate.go, Run).         *)
(*                                                                         *)
(* A run picks collections up, each at some page; it gives up on those     *)
(* whose metadata it cannot copy; pages after the pick-up are accepted by  *)
(* the destination in any order.  The run may fail at any time, and it may *)
(* succeed only when, for every collection it was asked to copy and did    *)
(* not give up on, every page from the pick-up on was accepted.            *)
(***************************************************************************)
EXTENDS Naturals

CONSTANTS Cols,    \* the source's collections
          NPages,  \* pages of each collection
          Asked    \* the collections of the run

VARIABLES stage, from, dropped, accepted

contractVars == <<stage, from, dropped, accepted>>

Stages == {"idle", "running", "succeeded", "failed"}

Init ==
  /\ stage = "idle"
  /\ from = [c \in Cols |-> 0]
  /\ dropped = {}
  /\ accepted = [c \in Cols |-> {}]

Begin ==
  /\ stage # "running"
  /\ stage' = "running"
  /\ from' = [c \in Cols |-> 0]
  /\ dropped' = {}
  /\ accepted' = [c \in Cols |-> {}]

(* A collection is picked up before any of its pages is accepted.          *)
PickUp(c) ==
  /\ stage = "running" /\ c \in Asked \ dropped /\ accepted[c] = {}
  /\ from'[c] \in Nat
  /\ from' = [from EXCEPT ![c] = from'[c]]
  /\ UNCHANGED <<stage, dropped, accepted>>

GiveUp(c) ==
  /\ stage = "running" /\ c \in Asked /\ accepted[c] = {}
  /\ dropped' = dropped \union {c}
  /\ UNCHANGED <<stage, from, accepted>>

Accept(c) ==
  /\ stage = "running" /\ c \in Asked \ dropped
  /\ \E p \in from[c] + 1 .. NPages[c] :
       accepted' = [accepted EXCEPT ![c] = @ \union {p}]
  /\ UNCHANGED <<stage, from, dropped>>

Complete == \A c \in Asked \ dropped : from[c] + 1 .. NPages[c] \subseteq accepted[c]

Succeed ==
  /\ stage = "running" /\ Complete
  /\ stage' = "succeeded"
  /\ UNCHANGED <<from, dropped, accepted>>

Fail ==
  /\ stage = "running"
  /\ stage' = "failed"
  /\ UNCHANGED <<from, dropped, accepted>>

Next == \/ Begin \/ Succeed \/ Fail
        \/ \E c \in Cols : PickUp(c) \/ GiveUp(c) \/ Accept(c)

Spec == Init /\ [][Next]_contractVars
=============================================================================
