--------------------------- MODULE SendingBudget ---------------------------
(***************************************************************************)
(* What the policy daemon promises about daily sending limits, without the *)
(* commands and coroutines it is made of: every key has a budget, a        *)
(* message takes one unit of it, and from time to time the budget is set   *)
(* back to the limit.  Messages handled together may overdraw a budget, by *)
(* at most Slack units.                                                    *)
(***************************************************************************)
EXTENDS Integers

CONSTANTS Keys, Limits, None, Slack

VARIABLES budget, limit

vars == <<budget, limit>>

Init ==
  /\ limit \in [Keys -> Limits \cup {None}]
  /\ budget = limit

Charge(k) ==
  /\ budget[k] # None
  /\ budget[k] > -Slack
  /\ budget' = [budget EXCEPT ![k] = @ - 1]
  /\ UNCHANGED limit

Refill(k) ==
  /\ limit[k] # None
  /\ budget' = [budget EXCEPT ![k] = limit[k]]
  /\ UNCHANGED limit

Next == \E k \in Keys : Charge(k) \/ Refill(k)

Spec == Init /\ [][Next]_vars

(* Every budget that has been drawn on is refilled in the end.             *)
FairSpec == Spec /\ \A k \in Keys : WF_vars(Refill(k))
=============================================================================
