--------------------------- MODULE MCMessageLimits ---------------------------
(* Model-checking instance of MessageLimits: domains with one account each. *)
EXTENDS MessageLimits, TLC

CONSTANTS c1, w1, w2, d1, d2, u1, u2, p1, p2, p3, p4

MCDomainOf == [a \in Accounts |-> IF a = u1 THEN d1 ELSE d2]
MCLocalOf == [a \in Accounts |-> "user"]
Symmetry == Permutations(Workers)
=============================================================================
