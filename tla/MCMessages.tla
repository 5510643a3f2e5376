----------------------------- MODULE MCMessages -----------------------------
(* Model-checking instance of the life of messages: the attachments of one  *)
(* being written, scheduled ones, the log of those that Postfix handled,    *)
(* those in quarantine, the filters of those received, the folders they are *)
(* in, and the reports about those that others received.  The seven share   *)
(* no state: in each behaviour one of them runs.  Browsers, recipients,     *)
(* editors, requests and imports are the same model values, so that one     *)
(* symmetry serves all; queue identifiers are alike too, and tabs and the   *)
(* domains of reports.                                                      *)
EXTENDS ScheduledMessages, ComposeSessions, MailLog, Quarantine, SieveScripts,
        WebmailFolders, DmarcReports, TLC

CONSTANTS m1, m2, w1, q1, f1, f2, f3, b1, b2, d1, i1, i2, r1, t1, t2, u1, u2, s1, s2,
  g1, a1, a2

VARIABLE part \* which component runs

mVars == <<smVars, csVars, mlogVars, quVars, svVars, wfVars, dmVars, part>>

MessagesInit ==
  /\ part \in {"scheduled", "session", "log", "quarantine", "filters", "folders", "reports"}
  /\ SMInit /\ CSInit /\ MLogInit /\ QuInit /\ SvInit /\ WFInit /\ DMInit
  /\ part # "quarantine" => conf.release /\ conf.cleanup
  /\ part # "filters" => \A u \in Owners : active[u] = DefaultScript
  /\ part # "reports" => local = {}

MessagesNext ==
  \/ part = "scheduled" /\ SMNext
     /\ UNCHANGED <<csVars, mlogVars, quVars, svVars, wfVars, dmVars, part>>
  \/ part = "session" /\ CSNext
     /\ UNCHANGED <<smVars, mlogVars, quVars, svVars, wfVars, dmVars, part>>
  \/ part = "log" /\ MLogNext
     /\ UNCHANGED <<smVars, csVars, quVars, svVars, wfVars, dmVars, part>>
  \/ part = "quarantine" /\ QuNext
     /\ UNCHANGED <<smVars, csVars, mlogVars, svVars, wfVars, dmVars, part>>
  \/ part = "filters" /\ SvNext
     /\ UNCHANGED <<smVars, csVars, mlogVars, quVars, wfVars, dmVars, part>>
  \/ part = "folders" /\ WFNext
     /\ UNCHANGED <<smVars, csVars, mlogVars, quVars, svVars, dmVars, part>>
  \/ part = "reports" /\ DMNext
     /\ UNCHANGED <<smVars, csVars, mlogVars, quVars, svVars, wfVars, part>>

MessagesSpec == MessagesInit /\ [][MessagesNext]_mVars

Symmetry == Permutations(Browsers) \cup Permutations(Tabs) \cup Permutations(QueueIds)

MCReports == {<<a1>>, <<Garbled, a2>>, <<Hollow, a2, a1>>}
MCPeriod == (a1 :> <<11, 12>> @@ a2 :> <<13, 14>>)

(* Of what is recorded about mail: the log of ours, the reports of others.  *)
RecordsExact == LogExact /\ DmarcInv
=============================================================================
