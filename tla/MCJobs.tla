------------------------------- MODULE MCJobs -------------------------------
(* Model-checking instance of two background jobs that have nothing to do   *)
(* with each other: in each behaviour one of them is followed.              *)
EXTENDS MailboxOperations, ScheduledMessages

CONSTANTS m1, m2, l1, l2, l3, d1, s1, s2, w1, q1

VARIABLE part \* which job is followed

jVars == <<vars, smVars, part>>

JobsInit == part \in {"orders", "scheduled"} /\ Init /\ SMInit

OrdersPart(A) == part = "orders" /\ A /\ UNCHANGED <<smVars, part>>
ScheduledPart(A) == part = "scheduled" /\ A /\ UNCHANGED <<vars, part>>

JobsNext == OrdersPart(Next) \/ ScheduledPart(SMNext)

(* The fairness of the two specifications.                                  *)
JobsSpec ==
  /\ JobsInit /\ [][JobsNext]_jVars
  /\ WF_jVars(OrdersPart(JobStep))
  /\ WF_jVars(ScheduledPart(MinutePasses))
  /\ \A q \in Clients : WF_jVars(ScheduledPart(RequestStep(q)))
  /\ \A w \in Workers : WF_jVars(ScheduledPart(WorkerStep(w)))
=============================================================================
