----------------------------- MODULE Quarantine -----------------------------
(***************************************************************************)
(* Messages in the quarantine of amavis (modoboa/amavis).                  *)
(*                                                                         *)
(* One row per recipient holds a status.  Requests read, delete, release   *)
(* and mark messages, one row after the other; a job teaches SpamAssassin; *)
(* the command qcleanup removes what nobody keeps.  None of them locks a   *)
(* row or looks at the status that it overwrites.                          *)
(***************************************************************************)
EXTENDS Naturals, FiniteSets, Sequences

CONSTANTS
  Mails,      \* quarantined messages, each addressed to all the recipients
  Recipients, \* addresses, each of a user of its own
  Admin,      \* an administrator of the recipients' domain
  Tabs,       \* requests that may be in progress together
  MaxAsks     \* bound: requests ever made

ASSUME QuarantineAssumption == Admin \notin Recipients /\ MaxAsks \in Nat

VARIABLES
  conf,      \* the parameters user_can_release and released_msgs_cleanup
  held,      \* the messages with rows in msgs, msgrcpt and quarantine
  rs,        \* the status of each recipient's row; "new" stands for " "
  aged,      \* the messages older than max_messages_age
  ask,       \* what each request has still to do
  lessons,   \* jobs manual_learning that wait
  learner,   \* the one that runs
  sweep,     \* the run of qcleanup
  forwarded, \* rows that amavis has sent on to their recipients
  ordered,   \* history: rows that administrators have ordered to release
  taught,    \* history: what SpamAssassin was taught from each row
  over,      \* history: rows that have had a status that qcleanup removes
  asks       \* history: the number of requests

quStored == <<conf, held, rs, aged, forwarded>>
quVars == <<quStored, ask, lessons, learner, sweep, ordered, taught, over, asks>>

NoTask == [pc |-> "none"]
Items == Mails \X Recipients
Flags == {"D"} \cup (IF conf.cleanup THEN {"R"} ELSE {})

QuInit ==
  /\ conf \in [release : BOOLEAN, cleanup : BOOLEAN]
  /\ held = Mails
  /\ rs = [i \in Items |-> "new"]
  /\ aged = {}
  /\ ask = [t \in Tabs |-> NoTask]
  /\ lessons = <<>> /\ learner = NoTask /\ sweep = NoTask
  /\ forwarded = {} /\ ordered = {} /\ taught = {} /\ over = {}
  /\ asks = 0

-----------------------------------------------------------------------------
(* _check_message_access: users see their own rows, this administrator all  *)
(* of them.                                                                 *)
Accessible(u) == {i \in Items : i[1] \in held /\ u \in {Admin, i[2]}}

(* set_msgrcpt_status: the UPDATE of a row that is gone changes nothing.    *)
set_msgrcpt_status(i, s) ==
  /\ rs' = IF i[1] \in held THEN [rs EXCEPT ![i] = s] ELSE rs
  /\ over' = IF i[1] \in held /\ s \in Flags THEN over \cup {i} ELSE over

Ask(t, r) ==
  /\ asks < MaxAsks
  /\ ask[t] = NoTask
  /\ asks' = asks + 1
  /\ ask' = [ask EXCEPT ![t] = r]

(* The request has dealt with the row i: it goes on with the rest.          *)
Rest(t, i, pc) ==
  LET left == ask[t].left \ {i}
  IN  IF left = {} THEN NoTask ELSE [pc |-> pc, left |-> left]
Continue(t, i) == ask' = [ask EXCEPT ![t] = Rest(t, i, @.pc)]
GiveUp(t) == ask' = [ask EXCEPT ![t] = NoTask]

(* retrieve: the user's own row becomes "V", whatever it was.               *)
Retrieve(i) ==
  /\ asks < MaxAsks
  /\ i[1] \in held
  /\ set_msgrcpt_status(i, "V")
  /\ asks' = asks + 1
  /\ UNCHANGED <<conf, held, aged, forwarded, ask, lessons, learner, sweep, ordered, taught>>

(* release and release_selection: every row is looked up first.  A user who *)
(* may not release only leaves requests.                                    *)
MayRelease(u) == u = Admin \/ conf.release
ReleaseSelection(t, u, sel) ==
  /\ sel \subseteq Accessible(u)
  /\ Ask(t, [pc |-> IF MayRelease(u) THEN "send" ELSE "pend", left |-> sel])
  /\ ordered' = IF u = Admin THEN ordered \cup sel ELSE ordered
  /\ UNCHANGED <<quStored, lessons, learner, sweep, taught, over>>

LeavePending(t, i) ==
  /\ ask[t].pc = "pend" /\ i \in ask[t].left
  /\ set_msgrcpt_status(i, "p")
  /\ Continue(t, i)
  /\ UNCHANGED <<conf, held, aged, forwarded, lessons, learner, sweep, ordered, taught, asks>>

(* sendreq, if the message is still there: amavis sends it on.              *)
SendRequest(t, i) ==
  /\ ask[t].pc = "send" /\ i \in ask[t].left
  /\ i[1] \in held
  /\ forwarded' = forwarded \cup {i}
  /\ ask' = [ask EXCEPT ![t] = [pc |-> "sent", left |-> @.left, row |-> i]]
  /\ UNCHANGED <<conf, held, rs, aged, lessons, learner, sweep, ordered, taught, over, asks>>

(* The message is gone, or amavis refuses: the rest is left as it is.       *)
SendFails(t, i) ==
  /\ ask[t].pc = "send" /\ i \in ask[t].left
  /\ GiveUp(t)
  /\ UNCHANGED <<quStored, lessons, learner, sweep, ordered, taught, over, asks>>

SetReleased(t) ==
  /\ ask[t].pc = "sent"
  /\ set_msgrcpt_status(ask[t].row, "R")
  /\ ask' = [ask EXCEPT ![t] = Rest(t, @.row, "send")]
  /\ UNCHANGED <<conf, held, aged, forwarded, lessons, learner, sweep, ordered, taught, asks>>

(* delete and delete_selection: row after row, until one is missing.        *)
DeleteSelection(t, u, sel) ==
  /\ sel \subseteq Accessible(u)
  /\ Ask(t, [pc |-> "delete", left |-> sel])
  /\ UNCHANGED <<quStored, lessons, learner, sweep, ordered, taught, over>>

DeleteNext(t, i) ==
  /\ ask[t].pc = "delete" /\ i \in ask[t].left
  /\ set_msgrcpt_status(i, "D")
  /\ IF i[1] \in held THEN Continue(t, i) ELSE GiveUp(t)
  /\ UNCHANGED <<conf, held, aged, forwarded, lessons, learner, sweep, ordered, taught, asks>>

(* mark_selection: a job is enqueued.                                       *)
MarkSelection(u, sel, type) ==
  /\ asks < MaxAsks
  /\ sel \subseteq Accessible(u)
  /\ lessons' = Append(lessons, [type |-> type, left |-> sel])
  /\ asks' = asks + 1
  /\ UNCHANGED <<quStored, ask, learner, sweep, ordered, taught, over>>

-----------------------------------------------------------------------------
(* manual_learning: the worker takes one job after the other.               *)
StartLesson ==
  /\ learner = NoTask /\ lessons # <<>>
  /\ learner' = [pc |-> "learn", type |-> Head(lessons).type, left |-> Head(lessons).left]
  /\ lessons' = Tail(lessons)
  /\ UNCHANGED <<quStored, ask, sweep, ordered, taught, over, asks>>

(* learn_spam, learn_ham; of a message that is gone the text is empty.      *)
Learn(i) ==
  /\ learner.pc = "learn" /\ i \in learner.left
  /\ learner' = [pc |-> "label", type |-> learner.type, left |-> learner.left, row |-> i]
  /\ taught' = IF i[1] \in held THEN taught \cup {<<i, learner.type>>} ELSE taught
  /\ UNCHANGED <<quStored, ask, lessons, sweep, ordered, over, asks>>

SetLabel ==
  /\ learner.pc = "label"
  /\ set_msgrcpt_status(learner.row, learner.type)
  /\ LET left == learner.left \ {learner.row}
     IN  learner' = IF left = {} THEN NoTask
                    ELSE [pc |-> "learn", type |-> learner.type, left |-> left]
  /\ UNCHANGED <<conf, held, aged, forwarded, ask, lessons, sweep, ordered, taught, asks>>

(* SpamAssassin fails, or the worker is killed: the rest of the job is lost. *)
LessonEnds ==
  /\ learner # NoTask
  /\ learner' = NoTask
  /\ UNCHANGED <<quStored, ask, lessons, sweep, ordered, taught, over, asks>>

-----------------------------------------------------------------------------
(* qcleanup: messages with a row to remove are listed, and each is looked   *)
(* at again, on its own, before it is deleted.                              *)
StartSweep ==
  /\ sweep = NoTask
  /\ sweep' = [pc |-> "check", left |-> {m \in held : \E r \in Recipients : rs[<<m, r>>] \in Flags}]
  /\ UNCHANGED <<quStored, ask, lessons, learner, ordered, taught, over, asks>>

(* Mutant: one recipient is enough.                                         *)
SomebodyDrops(m) == \E r \in Recipients : rs[<<m, r>>] \in Flags

NobodyKeeps(m) == \A r \in Recipients : rs[<<m, r>>] \in Flags

CheckMessage(m) ==
  /\ sweep.pc = "check" /\ m \in sweep.left
  /\ sweep' = IF NobodyKeeps(m) THEN [pc |-> "delete", left |-> sweep.left \ {m}, mail |-> m]
              ELSE [pc |-> "check", left |-> sweep.left \ {m}]
  /\ UNCHANGED <<quStored, ask, lessons, learner, ordered, taught, over, asks>>

DeleteMessage ==
  /\ sweep.pc = "delete"
  /\ held' = held \ {sweep.mail}
  /\ sweep' = [pc |-> "check", left |-> sweep.left]
  /\ UNCHANGED <<conf, rs, aged, forwarded, ask, lessons, learner, ordered, taught, over, asks>>

(* ... and those older than max_messages_age, whatever their rows say.      *)
DeleteOld ==
  /\ sweep.pc = "check" /\ sweep.left = {}
  /\ held' = held \ aged
  /\ sweep' = NoTask
  /\ UNCHANGED <<conf, rs, aged, forwarded, ask, lessons, learner, ordered, taught, over, asks>>

SweepKilled ==
  /\ sweep # NoTask
  /\ sweep' = NoTask
  /\ UNCHANGED <<quStored, ask, lessons, learner, ordered, taught, over, asks>>

Age(m) ==
  /\ aged' = aged \cup {m}
  /\ UNCHANGED <<conf, held, rs, forwarded, ask, lessons, learner, sweep, ordered, taught, over, asks>>

-----------------------------------------------------------------------------
Selects(u, sel) ==
  \/ \E t \in Tabs : ReleaseSelection(t, u, sel) \/ DeleteSelection(t, u, sel)
  \/ \E type \in {"S", "H"} : MarkSelection(u, sel, type)

TabStep(t, i) ==
  LeavePending(t, i) \/ SendRequest(t, i) \/ SendFails(t, i) \/ DeleteNext(t, i)

QuNext ==
  \/ \E u \in Recipients \cup {Admin} : \E sel \in (SUBSET Items) \ {{}} : Selects(u, sel)
  \/ \E i \in Items : Retrieve(i) \/ Learn(i) \/ \E t \in Tabs : TabStep(t, i)
  \/ \E t \in Tabs : SetReleased(t)
  \/ StartLesson \/ SetLabel \/ LessonEnds
  \/ StartSweep \/ DeleteMessage \/ DeleteOld \/ SweepKilled
  \/ \E m \in Mails : CheckMessage(m) \/ Age(m)

QuSpec == QuInit /\ [][QuNext]_quVars

-----------------------------------------------------------------------------
RowStatuses == {"new", "p", "V", "D", "R", "S", "H"}

QuTypeOK ==
  /\ held \subseteq Mails /\ aged \subseteq Mails
  /\ rs \in [Items -> RowStatuses]
  /\ forwarded \cup ordered \cup over \subseteq Items
  /\ taught \subseteq Items \X {"S", "H"}
  /\ asks \in 0..MaxAsks

(* A row is "R" only if its recipient has got the message: requests that    *)
(* amavis refuses, and rows changed meanwhile, do not make it so.           *)
ReleasedWasSent == \A i \in Items : rs[i] = "R" => i \in forwarded

(* A row is labelled as spam or ham only if SpamAssassin was taught so,     *)
(* whatever happens to the message between the request and the job.         *)
LabelledWasTaught == \A i \in Items : rs[i] \in {"S", "H"} => <<i, rs[i]>> \in taught

(* Where users may not release messages, a recipient gets one only after an *)
(* administrator has ordered it, for this very recipient.                   *)
OnlyByOrder == ~conf.release => forwarded \subseteq ordered

(* A message that is not too old is removed only when every recipient's row *)
(* has been deleted or, if the parameter says so, released.                 *)
RemovedAsWished == \A m \in Mails \ held : m \in aged \/ \A r \in Recipients : <<m, r>> \in over

(* The four together, with the types.                                       *)
QuarantineInv ==
  QuTypeOK /\ ReleasedWasSent /\ LabelledWasTaught /\ OnlyByOrder /\ RemovedAsWished

(* A request to release a message stays until an administrator answers it.  *)
(* Not what the code does: README.md, Known deviations.                     *)
RequestStays == [][\A i \in Items : rs[i] = "p" /\ rs'[i] # "p" => rs'[i] \in {"R", "D"}]_quVars
=============================================================================
