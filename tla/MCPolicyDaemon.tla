--------------------------- MODULE MCPolicyDaemon ---------------------------
(* Model-checking instance of PolicyDaemon: one domain with one account.   *)
EXTENDS PolicyDaemon, TLC

CONSTANTS c1, c2, dom, user

MCDomainOf == [a \in {user} |-> dom]
Symmetry == Permutations(Conns)
=============================================================================
