------------------------- MODULE MCMailboxOperations -------------------------
(* Model-checking instance of MailboxOperations.                           *)
EXTENDS MailboxOperations

CONSTANTS m1, m2, m3, l1, l2, l3, d1, d2

=============================================================================
