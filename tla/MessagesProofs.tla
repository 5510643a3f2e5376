--------------------------- MODULE MessagesProofs ---------------------------
(* For every value of the constants: the quarantine, compose sessions,       *)
(* filters, the folders of the webmail, the log of Postfix and the reports   *)
(* of others, each with the inductive invariant that carries it.             *)
(* ScheduledMessagesProofs has scheduled messages.                           *)
EXTENDS MCMessages, FiniteSetTheorems, TLAPS

-----------------------------------------------------------------------------
(* The quarantine (Quarantine).  What a request, the job or the command has *)
(* already done, and will only record in its next step, is what the         *)
(* invariant must remember of it.                                           *)

(* What the tasks in progress may be.                                        *)
TasksOK ==
  /\ ask \in [Tabs -> {NoTask}
                \cup [pc : {"send", "pend", "delete"}, left : SUBSET Items]
                \cup [pc : {"sent"}, left : SUBSET Items, row : Items]]
  /\ lessons \in Seq([type : {"S", "H"}, left : SUBSET Items])
  /\ learner \in {NoTask}
       \cup [pc : {"learn"}, type : {"S", "H"}, left : SUBSET Items]
       \cup [pc : {"label"}, type : {"S", "H"}, left : SUBSET Items, row : Items]
  /\ sweep \in {NoTask}
       \cup [pc : {"check"}, left : SUBSET Mails]
       \cup [pc : {"delete"}, left : SUBSET Mails, mail : Mails]
  /\ conf \in [release : BOOLEAN, cleanup : BOOLEAN]

(* A request about to set "R" has been answered by amavis.                   *)
SentIsForwarded == \A t \in Tabs : ask[t].pc = "sent" => ask[t].row \in forwarded

(* What is still to be sent has been ordered by an administrator.            *)
OnlyOrderedLeft ==
  ~conf.release => \A t \in Tabs : ask[t].pc \in {"send", "sent"} => ask[t].left \subseteq ordered

(* The label about to be set has been taught, if there is a row to set.      *)
LabelIsTaught ==
  learner.pc = "label" => learner.row[1] \notin held \/ <<learner.row, learner.type>> \in taught

(* The command has seen the status of every recipient's row.                 *)
FlagsAreOver == \A i \in Items : rs[i] \in Flags => i \in over
SweepHasSeen == sweep.pc = "delete" => \A r \in Recipients : <<sweep.mail, r>> \in over

Released == ReleasedWasSent /\ SentIsForwarded
Ordered == OnlyByOrder /\ OnlyOrderedLeft
Taught == LabelledWasTaught /\ LabelIsTaught
Removed == RemovedAsWished /\ FlagsAreOver /\ SweepHasSeen
Typed == QuTypeOK /\ TasksOK
QuIndInv == Typed /\ Released /\ Ordered /\ Taught /\ Removed

(* Nothing is quarantined at first.                                          *)
LEMMA Initially == ASSUME QuInit PROVE QuIndInv
<1> USE QuarantineAssumption DEF QuInit, NoTask
<1>1. Typed
  BY DEF Typed, QuTypeOK, TasksOK, RowStatuses
<1>2. Released /\ Ordered /\ Taught
  BY DEF Released, ReleasedWasSent, SentIsForwarded, Ordered, OnlyByOrder, OnlyOrderedLeft,
         Taught, LabelledWasTaught, LabelIsTaught
<1>3. Removed
  BY DEF Removed, RemovedAsWished, FlagsAreOver, SweepHasSeen, Flags
<1> QED BY <1>1, <1>2, <1>3 DEF QuIndInv

(* A row that is read becomes neither released nor labelled.                 *)
LEMMA RetrieveStep ==
  ASSUME QuIndInv, NEW i \in Items, Retrieve(i)
  PROVE  QuIndInv'
<1> USE DEF QuIndInv, Typed, QuTypeOK, TasksOK, Retrieve, set_msgrcpt_status
<1>1. Typed'
  BY QuarantineAssumption DEF RowStatuses
<1>2. Released'
  BY DEF Released, ReleasedWasSent, SentIsForwarded
<1>3. Ordered'
  BY DEF Ordered, OnlyByOrder, OnlyOrderedLeft
<1>4. Taught'
  BY DEF Taught, LabelledWasTaught, LabelIsTaught
<1>5. Removed'
  BY DEF Removed, RemovedAsWished, FlagsAreOver, SweepHasSeen, Flags
<1> QED BY <1>1, <1>2, <1>3, <1>4, <1>5

(* What an administrator wants to release is ordered; what others want is    *)
(* sent only if they may.                                                    *)
LEMMA ReleaseStep ==
  ASSUME QuIndInv, NEW t \in Tabs, NEW u \in Recipients \cup {Admin},
         NEW sel \in SUBSET Items, ReleaseSelection(t, u, sel)
  PROVE  QuIndInv'
<1> USE DEF QuIndInv, Typed, QuTypeOK, TasksOK, ReleaseSelection, Ask, MayRelease, NoTask, quStored
<1>1. Typed'
  BY QuarantineAssumption DEF RowStatuses
<1>2. Released'
  BY DEF Released, ReleasedWasSent, SentIsForwarded
<1>3. Ordered'
  BY DEF Ordered, OnlyByOrder, OnlyOrderedLeft
<1>4. Taught'
  BY DEF Taught, LabelledWasTaught, LabelIsTaught
<1>5. Removed'
  BY DEF Removed, RemovedAsWished, FlagsAreOver, SweepHasSeen, Flags
<1> QED BY <1>1, <1>2, <1>3, <1>4, <1>5

(* Requests are left to administrators.                                      *)
LEMMA PendingStep ==
  ASSUME QuIndInv, NEW t \in Tabs, NEW i \in Items, LeavePending(t, i)
  PROVE  QuIndInv'
<1> USE DEF QuIndInv, Typed, QuTypeOK, TasksOK, LeavePending, set_msgrcpt_status,
            Continue, Rest, NoTask
<1>1. Typed'
  BY QuarantineAssumption DEF RowStatuses
<1>2. Released'
  BY DEF Released, ReleasedWasSent, SentIsForwarded
<1>3. Ordered'
  BY DEF Ordered, OnlyByOrder, OnlyOrderedLeft
<1>4. Taught'
  BY DEF Taught, LabelledWasTaught, LabelIsTaught
<1>5. Removed'
  BY DEF Removed, RemovedAsWished, FlagsAreOver, SweepHasSeen, Flags
<1> QED BY <1>1, <1>2, <1>3, <1>4, <1>5

(* amavis sends on what was ordered, and the request remembers that it did.  *)
LEMMA SendStep ==
  ASSUME QuIndInv, NEW t \in Tabs, NEW i \in Items, SendRequest(t, i)
  PROVE  QuIndInv'
<1> USE DEF QuIndInv, Typed, QuTypeOK, TasksOK, SendRequest, NoTask
<1>1. Typed'
  BY QuarantineAssumption DEF RowStatuses
<1>2. Released'
  BY DEF Released, ReleasedWasSent, SentIsForwarded
<1>3. Ordered'
  BY DEF Ordered, OnlyByOrder, OnlyOrderedLeft
<1>4. Taught'
  BY DEF Taught, LabelledWasTaught, LabelIsTaught
<1>5. Removed'
  BY DEF Removed, RemovedAsWished, FlagsAreOver, SweepHasSeen, Flags
<1> QED BY <1>1, <1>2, <1>3, <1>4, <1>5

(* A request that fails is over.                                             *)
LEMMA SendFailsStep ==
  ASSUME QuIndInv, NEW t \in Tabs, NEW i \in Items, SendFails(t, i)
  PROVE  QuIndInv'
<1> USE DEF QuIndInv, Typed, QuTypeOK, TasksOK, SendFails, GiveUp, NoTask, quStored
<1>1. Typed'
  BY QuarantineAssumption DEF RowStatuses
<1>2. Released'
  BY DEF Released, ReleasedWasSent, SentIsForwarded
<1>3. Ordered'
  BY DEF Ordered, OnlyByOrder, OnlyOrderedLeft
<1>4. Taught'
  BY DEF Taught, LabelledWasTaught, LabelIsTaught
<1>5. Removed'
  BY DEF Removed, RemovedAsWished, FlagsAreOver, SweepHasSeen, Flags
<1> QED BY <1>1, <1>2, <1>3, <1>4, <1>5

(* The row is released after its message has been sent on.                   *)
LEMMA ReleasedStep ==
  ASSUME QuIndInv, NEW t \in Tabs, SetReleased(t)
  PROVE  QuIndInv'
<1> USE DEF QuIndInv, Typed, QuTypeOK, TasksOK, SetReleased, set_msgrcpt_status, Rest, NoTask
<1>1. Typed'
  BY QuarantineAssumption DEF RowStatuses
<1>2. Released'
  BY DEF Released, ReleasedWasSent, SentIsForwarded
<1>3. Ordered'
  BY DEF Ordered, OnlyByOrder, OnlyOrderedLeft
<1>4. Taught'
  BY DEF Taught, LabelledWasTaught, LabelIsTaught
<1>5. Removed'
  BY DEF Removed, RemovedAsWished, FlagsAreOver, SweepHasSeen, Flags
<1> QED BY <1>1, <1>2, <1>3, <1>4, <1>5

(* A request to delete.                                                      *)
LEMMA DeleteStep ==
  ASSUME QuIndInv, NEW t \in Tabs, NEW u \in Recipients \cup {Admin},
         NEW sel \in SUBSET Items, DeleteSelection(t, u, sel)
  PROVE  QuIndInv'
<1> USE DEF QuIndInv, Typed, QuTypeOK, TasksOK, DeleteSelection, Ask, NoTask, quStored
<1>1. Typed'
  BY QuarantineAssumption DEF RowStatuses
<1>2. Released'
  BY DEF Released, ReleasedWasSent, SentIsForwarded
<1>3. Ordered'
  BY DEF Ordered, OnlyByOrder, OnlyOrderedLeft
<1>4. Taught'
  BY DEF Taught, LabelledWasTaught, LabelIsTaught
<1>5. Removed'
  BY DEF Removed, RemovedAsWished, FlagsAreOver, SweepHasSeen, Flags
<1> QED BY <1>1, <1>2, <1>3, <1>4, <1>5

(* A row becomes one that the command removes, and the history remembers.    *)
LEMMA DeleteNextStep ==
  ASSUME QuIndInv, NEW t \in Tabs, NEW i \in Items, DeleteNext(t, i)
  PROVE  QuIndInv'
<1> USE DEF QuIndInv, Typed, QuTypeOK, TasksOK, DeleteNext, set_msgrcpt_status,
            Continue, GiveUp, Rest, NoTask
<1>1. Typed'
  <2>1. rs' \in [Items -> RowStatuses] /\ over' \subseteq Items
    BY DEF RowStatuses
  <2>2. ask[t].left \ {i} \in SUBSET Items /\ Rest(t, i, ask[t].pc) \in
          {NoTask} \cup [pc : {"delete"}, left : SUBSET Items]
    OBVIOUS
  <2>3. ask' = [ask EXCEPT ![t] = Rest(t, i, ask[t].pc)] \/ ask' = [ask EXCEPT ![t] = NoTask]
    OBVIOUS
  <2> HIDE DEF Rest
  <2>4. ask' \in [Tabs -> {NoTask}
                    \cup [pc : {"send", "pend", "delete"}, left : SUBSET Items]
                    \cup [pc : {"sent"}, left : SUBSET Items, row : Items]]
    BY <2>2, <2>3
  <2> QED BY <2>1, <2>4
<1>2. Released'
  BY DEF Released, ReleasedWasSent, SentIsForwarded
<1>3. Ordered'
  BY DEF Ordered, OnlyByOrder, OnlyOrderedLeft
<1>4. Taught'
  BY DEF Taught, LabelledWasTaught, LabelIsTaught
<1>5. Removed'
  BY DEF Removed, RemovedAsWished, FlagsAreOver, SweepHasSeen, Flags
<1> QED BY <1>1, <1>2, <1>3, <1>4, <1>5

(* A lesson is enqueued.                                                     *)
LEMMA MarkStep ==
  ASSUME QuIndInv, NEW u \in Recipients \cup {Admin},
         NEW sel \in SUBSET Items, 
         NEW type \in {"S", "H"}, MarkSelection(u, sel, type)
  PROVE  QuIndInv'
<1> USE DEF QuIndInv, Typed, QuTypeOK, TasksOK, MarkSelection, quStored
<1>1. Typed'
  BY QuarantineAssumption DEF RowStatuses
<1>2. Released'
  BY DEF Released, ReleasedWasSent, SentIsForwarded
<1>3. Ordered'
  BY DEF Ordered, OnlyByOrder, OnlyOrderedLeft
<1>4. Taught'
  BY DEF Taught, LabelledWasTaught, LabelIsTaught
<1>5. Removed'
  BY DEF Removed, RemovedAsWished, FlagsAreOver, SweepHasSeen, Flags
<1> QED BY <1>1, <1>2, <1>3, <1>4, <1>5

(* What stays in a queue after its head is taken was in it.                  *)
LEMMA HeadAndTail ==
  ASSUME NEW S, NEW s \in Seq(S), s # <<>>
  PROVE  Head(s) \in S /\ Tail(s) \in Seq(S)
OBVIOUS

(* The job takes the first lesson.                                           *)
LEMMA StartLessonStep ==
  ASSUME QuIndInv, StartLesson
  PROVE  QuIndInv'
<1> DEFINE Lesson == [type : {"S", "H"}, left : SUBSET Items]
<1>a. lessons \in Seq(Lesson) /\ lessons # <<>>
  BY DEF QuIndInv, Typed, TasksOK, StartLesson
<1>b. Head(lessons) \in Lesson /\ Tail(lessons) \in Seq(Lesson)
  BY <1>a, HeadAndTail
<1> USE DEF QuIndInv, Typed, QuTypeOK, TasksOK, StartLesson, NoTask, quStored
<1>1. Typed'
  BY <1>b, QuarantineAssumption DEF RowStatuses
<1>2. Released'
  BY DEF Released, ReleasedWasSent, SentIsForwarded
<1>3. Ordered'
  BY DEF Ordered, OnlyByOrder, OnlyOrderedLeft
<1>4. Taught'
  BY DEF Taught, LabelledWasTaught, LabelIsTaught
<1>5. Removed'
  BY DEF Removed, RemovedAsWished, FlagsAreOver, SweepHasSeen, Flags
<1> QED BY <1>1, <1>2, <1>3, <1>4, <1>5

(* SpamAssassin is taught what is still there; what is gone gets no label.   *)
LEMMA LearnStep ==
  ASSUME QuIndInv, NEW i \in Items, Learn(i)
  PROVE  QuIndInv'
<1> USE DEF QuIndInv, Typed, QuTypeOK, TasksOK, Learn, NoTask, quStored, Items
<1>1. Typed'
  BY QuarantineAssumption DEF RowStatuses
<1>2. Released'
  BY DEF Released, ReleasedWasSent, SentIsForwarded
<1>3. Ordered'
  BY DEF Ordered, OnlyByOrder, OnlyOrderedLeft
<1>4. Taught'
  BY DEF Taught, LabelledWasTaught, LabelIsTaught
<1>5. Removed'
  BY DEF Removed, RemovedAsWished, FlagsAreOver, SweepHasSeen, Flags
<1> QED BY <1>1, <1>2, <1>3, <1>4, <1>5

(* A label is set only on a row that is still there, hence was when it was   *)
(* taught.                                                                   *)
LEMMA LabelStep ==
  ASSUME QuIndInv, SetLabel
  PROVE  QuIndInv'
<1> USE DEF QuIndInv, Typed, QuTypeOK, TasksOK, SetLabel, set_msgrcpt_status, NoTask
<1>1. Typed'
  BY QuarantineAssumption DEF RowStatuses
<1>2. Released'
  BY DEF Released, ReleasedWasSent, SentIsForwarded
<1>3. Ordered'
  BY DEF Ordered, OnlyByOrder, OnlyOrderedLeft
<1>4. Taught'
  BY DEF Taught, LabelledWasTaught, LabelIsTaught
<1>5. Removed'
  BY DEF Removed, RemovedAsWished, FlagsAreOver, SweepHasSeen, Flags
<1> QED BY <1>1, <1>2, <1>3, <1>4, <1>5

(* The job ends.                                                             *)
LEMMA LessonEndsStep ==
  ASSUME QuIndInv, LessonEnds
  PROVE  QuIndInv'
<1> USE DEF QuIndInv, Typed, QuTypeOK, TasksOK, LessonEnds, NoTask, quStored
<1>1. Typed'
  BY QuarantineAssumption DEF RowStatuses
<1>2. Released'
  BY DEF Released, ReleasedWasSent, SentIsForwarded
<1>3. Ordered'
  BY DEF Ordered, OnlyByOrder, OnlyOrderedLeft
<1>4. Taught'
  BY DEF Taught, LabelledWasTaught, LabelIsTaught
<1>5. Removed'
  BY DEF Removed, RemovedAsWished, FlagsAreOver, SweepHasSeen, Flags
<1> QED BY <1>1, <1>2, <1>3, <1>4, <1>5

(* The command starts.                                                       *)
LEMMA StartSweepStep ==
  ASSUME QuIndInv, StartSweep
  PROVE  QuIndInv'
<1> USE DEF QuIndInv, Typed, QuTypeOK, TasksOK, StartSweep, NoTask, quStored
<1>1. Typed'
  BY QuarantineAssumption DEF RowStatuses
<1>2. Released'
  BY DEF Released, ReleasedWasSent, SentIsForwarded
<1>3. Ordered'
  BY DEF Ordered, OnlyByOrder, OnlyOrderedLeft
<1>4. Taught'
  BY DEF Taught, LabelledWasTaught, LabelIsTaught
<1>5. Removed'
  BY DEF Removed, RemovedAsWished, FlagsAreOver, SweepHasSeen, Flags
<1> QED BY <1>1, <1>2, <1>3, <1>4, <1>5

(* It deletes a message after it has seen the status of all its rows.        *)
LEMMA CheckStep ==
  ASSUME QuIndInv, NEW m \in Mails, CheckMessage(m)
  PROVE  QuIndInv'
<1> USE DEF QuIndInv, Typed, QuTypeOK, TasksOK, CheckMessage, NobodyKeeps, NoTask, quStored, Items
<1>1. Typed'
  BY QuarantineAssumption DEF RowStatuses
<1>2. Released'
  BY DEF Released, ReleasedWasSent, SentIsForwarded
<1>3. Ordered'
  BY DEF Ordered, OnlyByOrder, OnlyOrderedLeft
<1>4. Taught'
  BY DEF Taught, LabelledWasTaught, LabelIsTaught
<1>5. Removed'
  BY DEF Removed, RemovedAsWished, FlagsAreOver, SweepHasSeen, Flags
<1> QED BY <1>1, <1>2, <1>3, <1>4, <1>5

(* What statuses have become since does not matter.                          *)
LEMMA DeleteMessageStep ==
  ASSUME QuIndInv, DeleteMessage
  PROVE  QuIndInv'
<1> USE DEF QuIndInv, Typed, QuTypeOK, TasksOK, DeleteMessage, NoTask
<1>1. Typed'
  BY QuarantineAssumption DEF RowStatuses
<1>2. Released'
  BY DEF Released, ReleasedWasSent, SentIsForwarded
<1>3. Ordered'
  BY DEF Ordered, OnlyByOrder, OnlyOrderedLeft
<1>4. Taught'
  BY DEF Taught, LabelledWasTaught, LabelIsTaught
<1>5. Removed'
  BY DEF Removed, RemovedAsWished, FlagsAreOver, SweepHasSeen, Flags
<1> QED BY <1>1, <1>2, <1>3, <1>4, <1>5

(* Old messages go.                                                          *)
LEMMA DeleteOldStep ==
  ASSUME QuIndInv, DeleteOld
  PROVE  QuIndInv'
<1> USE DEF QuIndInv, Typed, QuTypeOK, TasksOK, DeleteOld, NoTask
<1>1. Typed'
  BY QuarantineAssumption DEF RowStatuses
<1>2. Released'
  BY DEF Released, ReleasedWasSent, SentIsForwarded
<1>3. Ordered'
  BY DEF Ordered, OnlyByOrder, OnlyOrderedLeft
<1>4. Taught'
  BY DEF Taught, LabelledWasTaught, LabelIsTaught
<1>5. Removed'
  BY DEF Removed, RemovedAsWished, FlagsAreOver, SweepHasSeen, Flags
<1> QED BY <1>1, <1>2, <1>3, <1>4, <1>5

(* A command that was killed deletes nothing.                                *)
LEMMA KilledStep ==
  ASSUME QuIndInv, SweepKilled
  PROVE  QuIndInv'
<1> USE DEF QuIndInv, Typed, QuTypeOK, TasksOK, SweepKilled, NoTask, quStored
<1>1. Typed'
  BY QuarantineAssumption DEF RowStatuses
<1>2. Released'
  BY DEF Released, ReleasedWasSent, SentIsForwarded
<1>3. Ordered'
  BY DEF Ordered, OnlyByOrder, OnlyOrderedLeft
<1>4. Taught'
  BY DEF Taught, LabelledWasTaught, LabelIsTaught
<1>5. Removed'
  BY DEF Removed, RemovedAsWished, FlagsAreOver, SweepHasSeen, Flags
<1> QED BY <1>1, <1>2, <1>3, <1>4, <1>5

(* Messages grow old.                                                        *)
LEMMA AgeStep ==
  ASSUME QuIndInv, NEW m \in Mails, Age(m)
  PROVE  QuIndInv'
<1> USE DEF QuIndInv, Typed, QuTypeOK, TasksOK, Age
<1>1. Typed'
  BY QuarantineAssumption DEF RowStatuses
<1>2. Released'
  BY DEF Released, ReleasedWasSent, SentIsForwarded
<1>3. Ordered'
  BY DEF Ordered, OnlyByOrder, OnlyOrderedLeft
<1>4. Taught'
  BY DEF Taught, LabelledWasTaught, LabelIsTaught
<1>5. Removed'
  BY DEF Removed, RemovedAsWished, FlagsAreOver, SweepHasSeen, Flags
<1> QED BY <1>1, <1>2, <1>3, <1>4, <1>5

(* Every step of every specification preserves the invariant.                *)
LEMMA Step == ASSUME QuIndInv, [QuNext]_quVars PROVE QuIndInv'
<1>1. CASE UNCHANGED quVars
  BY <1>1 DEF QuIndInv, Typed, QuTypeOK, TasksOK, Released, ReleasedWasSent, SentIsForwarded,
              Ordered, OnlyByOrder, OnlyOrderedLeft, Taught, LabelledWasTaught, LabelIsTaught,
              Removed, RemovedAsWished, FlagsAreOver, SweepHasSeen, Flags, quVars, quStored
<1>2. CASE QuNext
  <2>1. ASSUME NEW u \in Recipients \cup {Admin}, NEW sel \in SUBSET Items, Selects(u, sel)
        PROVE  QuIndInv'
    BY <2>1, ReleaseStep, DeleteStep, MarkStep DEF Selects
  <2>2. ASSUME NEW t \in Tabs, NEW i \in Items, TabStep(t, i)
        PROVE  QuIndInv'
    BY <2>2, PendingStep, SendStep, SendFailsStep, DeleteNextStep DEF TabStep
  <2>3. ASSUME NEW i \in Items, Retrieve(i) \/ Learn(i)
        PROVE  QuIndInv'
    BY <2>3, RetrieveStep, LearnStep
  <2>4. ASSUME NEW m \in Mails, CheckMessage(m) \/ Age(m)
        PROVE  QuIndInv'
    BY <2>4, CheckStep, AgeStep
  <2> QED
    BY <1>2, <2>1, <2>2, <2>3, <2>4, ReleasedStep, StartLessonStep, LabelStep, LessonEndsStep,
       StartSweepStep, DeleteMessageStep, DeleteOldStep, KilledStep DEF QuNext
<1> QED BY <1>1, <1>2

(* Requests, the job and the command never lock a row, and overwrite each    *)
(* other's statuses; still a row says released or labelled only when that    *)
(* has happened, nobody gets mail that no administrator ordered to release   *)
(* where users may not, and no recipient's message goes before he let it go. *)
THEOREM QuarantineIsSafe == QuSpec => []QuarantineInv
<1>1. QuIndInv => QuarantineInv
  BY DEF QuIndInv, Typed, Released, Ordered, Taught, Removed, QuarantineInv
<1> QED BY Initially, Step, <1>1, PTL DEF QuSpec

-----------------------------------------------------------------------------
(* Compose sessions (ComposeSessions).  A request that has read the list of *)
(* attachments holds no more than what has been uploaded since, and at most *)
(* one of them is about to write it.                                        *)

(* What the session's list and the requests in progress may hold.            *)
UploadsKnown ==
  /\ listed \subseteq confirmed /\ confirmed \subseteq Files
  /\ \A b \in Browsers :
       /\ visit[b].pc \in {"append", "remove"} => visit[b].read \subseteq confirmed
       /\ visit[b].pc = "remove" => visit[b].file \in confirmed \ disk
       /\ visit[b].pc \in {"upload", "append"} =>
            /\ visit[b].file \notin confirmed
            /\ \A c \in Browsers \ {b} :
                 visit[c].pc \in {"upload", "append"} => visit[c].file # visit[b].file

(* The list and the directory while request b is the only one that writes.   *)
Halfway(b) ==
  /\ visit[b].pc \in {"upload", "append", "remove"} => exists /\ listed = confirmed \ withdrawn
  /\ visit[b].pc \in {"append", "remove"} => visit[b].read = listed
  /\ visit[b].pc \in {"upload", "append"} => disk = listed \cup {visit[b].file}
  /\ visit[b].pc = "remove" => disk = listed \ {visit[b].file}
  /\ visit[b].pc = "cleanup" => disk = listed /\ (exists => listed = confirmed \ withdrawn)

OneWriter ==
  ~overlapped => \A b \in Writers : Halfway(b) /\ \A c \in Writers : c = b

CSIndInv == SessionExact /\ UploadsKnown /\ OneWriter

(* The sweep that is not running is at its start.                            *)
LEMMA NoVisit == Idle.pc = "idle" /\ Idle \in [pc : {"idle", "cleanup"}]
  BY DEF Idle

(* The file is stored before the list knows it.                              *)
LEMMA StoreFileStep ==
  ASSUME CSIndInv, NEW b \in Browsers, NEW f \in Files, StoreFile(b, f) PROVE CSIndInv'
<1> USE ComposeAssumption, NoVisit DEF CSIndInv, Writers, StoreFile, Begins
<1>1. CSTypeOK'
  BY DEF SessionExact, CSTypeOK, UploadsKnown
<1>2. UploadsKnown'
  BY DEF SessionExact, CSTypeOK, UploadsKnown
<1>3. ASSUME ~overlapped' PROVE Writers' \subseteq {b}
  BY <1>3 DEF SessionExact, CSTypeOK, OneWriter
<1>4. ASSUME ~overlapped', b \in Writers' PROVE Halfway(b)'
  BY <1>4, ZenonT(60) DEF SessionExact, CSTypeOK, InventoryExact, UploadsKnown, OneWriter, Halfway
<1>5. OneWriter'
  BY <1>3, <1>4 DEF OneWriter
<1>6. RemovedNotSent'
  BY DEF SessionExact, CSTypeOK, RemovedNotSent
<1>7. InventoryExact'
  BY DEF SessionExact, CSTypeOK, InventoryExact, UploadsKnown, OneWriter, Halfway
<1>8. SentOnce'
  BY DEF SessionExact, CSTypeOK, SentOnce, OneWriter, Halfway
<1> QED BY <1>1, <1>2, <1>5, <1>6, <1>7, <1>8 DEF SessionExact

(* Alone, an upload finds its session.                                       *)
LEMMA ReadListStep == ASSUME CSIndInv, NEW b \in Browsers, ReadList(b) PROVE CSIndInv'
<1> USE ComposeAssumption, NoVisit DEF CSIndInv, Writers, ReadList, Goes, Ends
<1>1. CSTypeOK'
  BY DEF SessionExact, CSTypeOK, UploadsKnown
<1>2. UploadsKnown'
  BY DEF SessionExact, CSTypeOK, UploadsKnown
<1>3. ASSUME ~overlapped' PROVE Writers' \subseteq {b}
  BY <1>3 DEF SessionExact, CSTypeOK, OneWriter
<1>4. ASSUME ~overlapped', b \in Writers' PROVE Halfway(b)'
  BY <1>4 DEF SessionExact, CSTypeOK, InventoryExact, UploadsKnown, OneWriter, Halfway
<1>5. OneWriter'
  BY <1>3, <1>4 DEF OneWriter
<1>6. RemovedNotSent'
  BY DEF SessionExact, CSTypeOK, RemovedNotSent
<1>7. InventoryExact'
  BY DEF SessionExact, CSTypeOK, InventoryExact, UploadsKnown, OneWriter, Halfway
<1>8. SentOnce'
  BY DEF SessionExact, CSTypeOK, SentOnce, OneWriter, Halfway
<1> QED BY <1>1, <1>2, <1>5, <1>6, <1>7, <1>8 DEF SessionExact

(* Alone, what was read is what is listed still.                             *)
LEMMA WriteListStep == ASSUME CSIndInv, NEW b \in Browsers, WriteList(b) PROVE CSIndInv'
<1> USE ComposeAssumption, NoVisit DEF CSIndInv, Writers, WriteList, Goes, Ends, Appended
<1>1. CSTypeOK'
  BY DEF SessionExact, CSTypeOK, UploadsKnown
<1>2. UploadsKnown'
  BY DEF SessionExact, CSTypeOK, UploadsKnown
<1>3. ASSUME ~overlapped' PROVE Writers' \subseteq {b}
  BY <1>3 DEF SessionExact, CSTypeOK, OneWriter
<1>4. ASSUME ~overlapped', b \in Writers' PROVE Halfway(b)'
  BY <1>4 DEF SessionExact, CSTypeOK, InventoryExact, UploadsKnown, OneWriter, Halfway
<1>5. OneWriter'
  BY <1>3, <1>4 DEF OneWriter
<1>6. RemovedNotSent'
  BY DEF SessionExact, CSTypeOK, RemovedNotSent
<1>7. InventoryExact'
  BY DEF SessionExact, CSTypeOK, InventoryExact, UploadsKnown, OneWriter, Halfway
<1>8. SentOnce'
  BY DEF SessionExact, CSTypeOK, SentOnce, OneWriter, Halfway
<1> QED BY <1>1, <1>2, <1>5, <1>6, <1>7, <1>8 DEF SessionExact

(* The file goes before the list forgets it, and never comes back.           *)
LEMMA RemoveFileStep ==
  ASSUME CSIndInv, NEW b \in Browsers, NEW f \in Files, RemoveFile(b, f) PROVE CSIndInv'
<1> USE ComposeAssumption, NoVisit DEF CSIndInv, Writers, RemoveFile, Begins, DropFile
<1>1. CSTypeOK'
  BY DEF SessionExact, CSTypeOK, UploadsKnown
<1>2. UploadsKnown'
  BY DEF SessionExact, CSTypeOK, UploadsKnown
<1>3. ASSUME ~overlapped' PROVE Writers' \subseteq {b}
  BY <1>3 DEF SessionExact, CSTypeOK, OneWriter
<1>4. ASSUME ~overlapped', b \in Writers' PROVE Halfway(b)'
  <2>1. visit'[b].pc = "remove" /\ visit'[b].file = f /\ visit'[b].read = listed
    BY DEF SessionExact, CSTypeOK
  <2>2. Writers = {} /\ ~overlapped
    BY <1>4
  <2> QED BY <2>1, <2>2 DEF SessionExact, CSTypeOK, InventoryExact, UploadsKnown, OneWriter, Halfway
<1>5. OneWriter'
  BY <1>3, <1>4 DEF OneWriter
<1>6. RemovedNotSent'
  BY DEF SessionExact, CSTypeOK, RemovedNotSent
<1>7. InventoryExact'
  BY DEF SessionExact, CSTypeOK, InventoryExact, UploadsKnown, OneWriter, Halfway
<1>8. SentOnce'
  BY DEF SessionExact, CSTypeOK, SentOnce, OneWriter, Halfway
<1> QED BY <1>1, <1>2, <1>5, <1>6, <1>7, <1>8 DEF SessionExact

(* The list forgets it.                                                      *)
LEMMA RemoveFromListStep == ASSUME CSIndInv, NEW b \in Browsers, RemoveFromList(b) PROVE CSIndInv'
<1> USE ComposeAssumption, NoVisit DEF CSIndInv, Writers, RemoveFromList, Goes, Ends
<1>1. CSTypeOK'
  BY DEF SessionExact, CSTypeOK, UploadsKnown
<1>2. UploadsKnown'
  BY DEF SessionExact, CSTypeOK, UploadsKnown
<1>3. ASSUME ~overlapped' PROVE Writers' \subseteq {b}
  BY <1>3 DEF SessionExact, CSTypeOK, OneWriter
<1>4. ASSUME ~overlapped', b \in Writers' PROVE Halfway(b)'
  BY <1>4 DEF SessionExact, CSTypeOK, InventoryExact, UploadsKnown, OneWriter, Halfway
<1>5. OneWriter'
  BY <1>3, <1>4 DEF OneWriter
<1>6. RemovedNotSent'
  BY DEF SessionExact, CSTypeOK, RemovedNotSent
<1>7. InventoryExact'
  BY DEF SessionExact, CSTypeOK, InventoryExact, UploadsKnown, OneWriter, Halfway
<1>8. SentOnce'
  BY DEF SessionExact, CSTypeOK, SentOnce, OneWriter, Halfway
<1> QED BY <1>1, <1>2, <1>5, <1>6, <1>7, <1>8 DEF SessionExact

(* All that is sent can be read, and has not been removed.                   *)
LEMMA ComposeSendStep == ASSUME CSIndInv, NEW b \in Browsers, Send(b) PROVE CSIndInv'
<1> USE ComposeAssumption, NoVisit DEF CSIndInv, Writers, Send, Begins, Readable
<1>1. CSTypeOK'
  BY DEF SessionExact, CSTypeOK, UploadsKnown
<1>2. UploadsKnown'
  BY DEF SessionExact, CSTypeOK, UploadsKnown
<1>3. ASSUME ~overlapped' PROVE Writers' \subseteq {b}
  BY <1>3 DEF SessionExact, CSTypeOK, OneWriter
<1>4. ASSUME ~overlapped', b \in Writers' PROVE Halfway(b)'
  BY <1>4, ZenonT(60) DEF SessionExact, CSTypeOK, InventoryExact, UploadsKnown, OneWriter, Halfway
<1>5. OneWriter'
  BY <1>3, <1>4 DEF OneWriter
<1>6. RemovedNotSent'
  BY DEF SessionExact, CSTypeOK, RemovedNotSent
<1>7. InventoryExact'
  BY DEF SessionExact, CSTypeOK, InventoryExact, UploadsKnown, OneWriter, Halfway
<1>8. SentOnce'
  BY DEF SessionExact, CSTypeOK, SentOnce, OneWriter, Halfway
<1> QED BY <1>1, <1>2, <1>5, <1>6, <1>7, <1>8 DEF SessionExact

(* Everything is left as it was.                                             *)
LEMMA CopyFailsStep == ASSUME CSIndInv, NEW b \in Browsers, CopyFails(b) PROVE CSIndInv'
<1> USE ComposeAssumption, NoVisit DEF CSIndInv, Writers, CopyFails, Goes, Ends
<1>1. CSTypeOK'
  BY DEF SessionExact, CSTypeOK, UploadsKnown
<1>2. UploadsKnown'
  BY DEF SessionExact, CSTypeOK, UploadsKnown
<1>3. ASSUME ~overlapped' PROVE Writers' \subseteq {b}
  BY <1>3 DEF SessionExact, CSTypeOK, OneWriter
<1>4. ASSUME ~overlapped', b \in Writers' PROVE Halfway(b)'
  BY <1>4 DEF SessionExact, CSTypeOK, InventoryExact, UploadsKnown, OneWriter, Halfway
<1>5. OneWriter'
  BY <1>3, <1>4 DEF OneWriter
<1>6. RemovedNotSent'
  BY DEF SessionExact, CSTypeOK, RemovedNotSent
<1>7. InventoryExact'
  BY DEF SessionExact, CSTypeOK, InventoryExact, UploadsKnown, OneWriter, Halfway
<1>8. SentOnce'
  BY DEF SessionExact, CSTypeOK, SentOnce, OneWriter, Halfway
<1> QED BY <1>1, <1>2, <1>5, <1>6, <1>7, <1>8 DEF SessionExact

(* The session goes with all that it lists.                                  *)
LEMMA CleanupStep == ASSUME CSIndInv, NEW b \in Browsers, Cleanup(b) PROVE CSIndInv'
<1> USE ComposeAssumption, NoVisit DEF CSIndInv, Writers, Cleanup, Goes, Ends, SessionAfterSend
<1>1. CSTypeOK'
  BY DEF SessionExact, CSTypeOK, UploadsKnown
<1>2. UploadsKnown'
  BY DEF SessionExact, CSTypeOK, UploadsKnown
<1>3. ASSUME ~overlapped' PROVE Writers' \subseteq {b}
  BY <1>3 DEF SessionExact, CSTypeOK, OneWriter
<1>4. ASSUME ~overlapped', b \in Writers' PROVE Halfway(b)'
  BY <1>4 DEF SessionExact, CSTypeOK, InventoryExact, UploadsKnown, OneWriter, Halfway
<1>5. OneWriter'
  BY <1>3, <1>4 DEF OneWriter
<1>6. RemovedNotSent'
  BY DEF SessionExact, CSTypeOK, RemovedNotSent
<1>7. InventoryExact'
  BY DEF SessionExact, CSTypeOK, InventoryExact, UploadsKnown, OneWriter, Halfway
<1>8. SentOnce'
  BY DEF SessionExact, CSTypeOK, SentOnce, OneWriter, Halfway
<1> QED BY <1>1, <1>2, <1>5, <1>6, <1>7, <1>8 DEF SessionExact

(* Nothing but a name is shared.                                             *)
LEMMA ScheduleWithStep == ASSUME CSIndInv, NEW b \in Browsers, ScheduleWith(b) PROVE CSIndInv'
<1> USE ComposeAssumption, NoVisit DEF CSIndInv, Writers, ScheduleWith
<1>1. CSTypeOK'
  BY DEF SessionExact, CSTypeOK, UploadsKnown
<1>2. UploadsKnown'
  BY DEF SessionExact, CSTypeOK, UploadsKnown
<1>3. OneWriter'
  BY DEF SessionExact, CSTypeOK, InventoryExact, UploadsKnown, OneWriter, Halfway
<1>6. RemovedNotSent'
  BY DEF SessionExact, CSTypeOK, RemovedNotSent
<1>7. InventoryExact'
  BY DEF SessionExact, CSTypeOK, InventoryExact, UploadsKnown, OneWriter, Halfway
<1>8. SentOnce'
  BY DEF SessionExact, CSTypeOK, SentOnce, OneWriter, Halfway
<1> QED BY <1>1, <1>2, <1>3, <1>6, <1>7, <1>8 DEF SessionExact

(* All that is sent can be read, and has not been removed.                   *)
LEMMA SendScheduledStep == ASSUME CSIndInv, NEW m \in scheduled, SendScheduled(m) PROVE CSIndInv'
<1> USE ComposeAssumption, NoVisit DEF CSIndInv, Writers, SendScheduled, Readable
<1>1. CSTypeOK'
  BY DEF SessionExact, CSTypeOK, UploadsKnown
<1>2. UploadsKnown'
  BY DEF SessionExact, CSTypeOK, UploadsKnown
<1>3. OneWriter'
  BY DEF SessionExact, CSTypeOK, InventoryExact, UploadsKnown, OneWriter, Halfway
<1>6. RemovedNotSent'
  BY DEF SessionExact, CSTypeOK, RemovedNotSent
<1>7. InventoryExact'
  BY DEF SessionExact, CSTypeOK, InventoryExact, UploadsKnown, OneWriter, Halfway
<1>8. SentOnce'
  BY DEF SessionExact, CSTypeOK, SentOnce, OneWriter, Halfway
<1> QED BY <1>1, <1>2, <1>3, <1>6, <1>7, <1>8 DEF SessionExact

(* Its files are left.                                                       *)
LEMMA CancelScheduledStep ==
  ASSUME CSIndInv, NEW m \in scheduled, CancelScheduled(m) PROVE CSIndInv'
<1> USE ComposeAssumption, NoVisit DEF CSIndInv, Writers, CancelScheduled
<1>1. CSTypeOK'
  BY DEF SessionExact, CSTypeOK, UploadsKnown
<1>2. UploadsKnown'
  BY DEF SessionExact, CSTypeOK, UploadsKnown
<1>3. OneWriter'
  BY DEF SessionExact, CSTypeOK, InventoryExact, UploadsKnown, OneWriter, Halfway
<1>6. RemovedNotSent'
  BY DEF SessionExact, CSTypeOK, RemovedNotSent
<1>7. InventoryExact'
  BY DEF SessionExact, CSTypeOK, InventoryExact, UploadsKnown, OneWriter, Halfway
<1>8. SentOnce'
  BY DEF SessionExact, CSTypeOK, SentOnce, OneWriter, Halfway
<1> QED BY <1>1, <1>2, <1>3, <1>6, <1>7, <1>8 DEF SessionExact

(* Every request keeps the session exact, alone, and what is removed removed. *)
LEMMA CSStepKeeps == ASSUME CSIndInv, [CSNext]_csVars PROVE CSIndInv'
<1>1. CASE UNCHANGED csVars
  BY <1>1 DEF csVars, CSIndInv, SessionExact, CSTypeOK, RemovedNotSent, InventoryExact, SentOnce,
       UploadsKnown, OneWriter, Halfway, Writers
<1>2. ASSUME CSNext PROVE CSIndInv'
  BY <1>2, StoreFileStep, ReadListStep, WriteListStep, RemoveFileStep, RemoveFromListStep,
       ComposeSendStep, CopyFailsStep, CleanupStep, ScheduleWithStep, SendScheduledStep,
       CancelScheduledStep DEF CSNext, BrowserStep
<1> QED BY <1>1, <1>2

(* save_attachment, remove_attachment and remove_attachments_and_session      *)
(* (webmail/lib/attachments.py): what was removed is not sent, whatever       *)
(* overlaps; and when nothing does, list and directory are exact, and a      *)
(* message that was sent cannot be sent again.                               *)
THEOREM SessionsAreExact == CSSpec => []SessionExact
<1>1. ASSUME CSInit PROVE CSIndInv
  <2> USE <1>1, ComposeAssumption, NoVisit DEF CSInit
  <2>1. CSTypeOK
    <3>1. visit \in [Browsers -> [pc : {"idle", "cleanup"}]]
      OBVIOUS
    <3>2. {exists, finished, overlapped} \subseteq BOOLEAN
      OBVIOUS
    <3>3. sends \in 0 .. MaxSends
      OBVIOUS
    <3> QED BY <3>1, <3>2, <3>3 DEF CSTypeOK
  <2>2. RemovedNotSent /\ InventoryExact /\ SentOnce
    BY DEF RemovedNotSent, InventoryExact, SentOnce
  <2>3. UploadsKnown /\ OneWriter
    BY DEF UploadsKnown, OneWriter, Writers
  <2> QED BY <2>1, <2>2, <2>3 DEF CSIndInv, SessionExact
<1>2. CSIndInv /\ [CSNext]_csVars => CSIndInv'
  BY CSStepKeeps
<1>3. CSIndInv => SessionExact
  BY DEF CSIndInv
<1> QED BY <1>1, <1>2, <1>3, PTL DEF CSSpec

-----------------------------------------------------------------------------
(* Sieve scripts (SieveScripts).  A request that was overtaken counts as    *)
(* apart; of the others the invariant remembers what they have read.        *)

(* What a request in progress has read.                                      *)
EditOK(r) ==
  \/ r.pc = "apart"
  \/ /\ r.pc = "push"
     /\ r.user \in Owners /\ r.set \in ScriptNames /\ r.filter \in AllFilters /\ r.op \in Ops
     /\ r.read \in Contents
  \/ r.pc = "list" /\ r.user \in Owners /\ r.of \in Owners /\ r.state \in {"on", "off"}
  \/ /\ r.pc = "rule"
     /\ r.user \in Owners /\ r.of \in Owners /\ r.state \in {"on", "off"}
     /\ r.set \in ScriptNames /\ r.read \in Contents

EditsOK == /\ DOMAIN edit = Editors /\ edit = [v \in Editors |-> edit[v]]
           /\ \A v \in Editors : EditOK(edit[v])

(* The active script exists.                                                 *)
ActiveExists == \A u \in Owners : active[u] # Missing => script[u][active[u]] \in Contents

SvIndInv == SieveInv /\ EditsOK /\ ActiveExists

(* The editor that is not in step with the server says so.                   *)
LEMMA ApartIsApart == Apart.pc = "apart"
  BY DEF Apart

(* A script without rules is one of the contents.                            *)
LEMMA EmptyIsContents == Empty \in Contents
  BY DEF Empty, Contents

(* One script of one user is stored.                                         *)
LEMMA PutTyped ==
  ASSUME SvTypeOK, NEW u \in Owners, NEW s \in ScriptNames, NEW c \in Contents \cup {Missing},
         Put(u, s, c)
  PROVE  /\ script' \in [Owners -> [ScriptNames -> Contents \cup {Missing}]]
         /\ script'[u][s] = c
         /\ \A x \in Owners, t \in ScriptNames : x # u \/ t # s => script'[x][t] = script[x][t]
  BY DEF SvTypeOK, Put

(* Every change of a script's copy is a script again, and those of another   *)
(* filter than the reply's leave the reply's alone.                          *)
LEMMA ChangedTyped ==
  ASSUME NEW c \in Contents, NEW op \in Ops, NEW f \in AllFilters
  PROVE  /\ Changed(c, op, f) \in Contents
         /\ f # Reply => Changed(c, op, f)[Reply] = c[Reply]
<1>1. CASE op \in {"add", "enable"}
  <2>1. Changed(c, op, f) = [c EXCEPT ![f] = "on"]
    BY <1>1 DEF Changed
  <2> QED BY <2>1 DEF Contents, AllFilters
<1>2. CASE op = "disable"
  <2>1. Changed(c, op, f) = [c EXCEPT ![f] = "off"]
    BY <1>2 DEF Changed
  <2> QED BY <2>1 DEF Contents, AllFilters
<1>3. CASE op = "remove"
  <2>1. Changed(c, op, f) = [c EXCEPT ![f] = "none"]
    BY <1>3 DEF Changed
  <2> QED BY <2>1 DEF Contents, AllFilters
<1>4. CASE op \in {"update", "move"}
  <2>1. Changed(c, op, f) = c
    BY <1>4 DEF Changed
  <2> QED BY <2>1
<1> QED BY <1>1, <1>2, <1>3, <1>4 DEF Ops

(* The script that update_sieve_rule writes has the reply's filter when the  *)
(* reply is enabled, and only then.                                          *)
LEMMA WithRuleTyped ==
  ASSUME NEW c \in Contents, NEW state \in {"on", "off"}
  PROVE  /\ WithRule(c, state) \in Contents
         /\ state = "on" <=> WithRule(c, state)[Reply] # "none"
  BY DEF WithRule, Contents, AllFilters

(* A script is created, perhaps as the active one.                           *)
LEMMA CreateSetStep ==
  ASSUME SvIndInv, NEW u \in Owners, NEW s \in ScriptNames, NEW activate \in BOOLEAN,
         CreateSet(u, s, activate)
  PROVE  SvIndInv'
<1> USE SieveAssumption, ApartIsApart, EmptyIsContents DEF SvIndInv, SieveInv, CreateSet
<1>p. /\ script' \in [Owners -> [ScriptNames -> Contents \cup {Missing}]]
      /\ script'[u][s] = Empty
      /\ \A x \in Owners, n \in ScriptNames : x # u \/ n # s => script'[x][n] = script[x][n]
  BY PutTyped
<1>1. SvTypeOK'
  <2>1. active' \in [Owners -> ScriptNames \cup {Missing}]
       /\ reply' \in [Owners -> {"none", "on", "off"}]
    BY DEF SvTypeOK
  <2>2. steady' \in [Owners -> BOOLEAN]
    BY DEF SvTypeOK, Unsteady, UpToDate
  <2> QED BY <1>p, <2>1, <2>2 DEF SvTypeOK
<1>2. RuleFollows'
  BY <1>p, SMTT(20) DEF SvTypeOK, RuleFollows, ActiveExists, Unsteady
<1>3. EditsOK'
  BY DEF EditsOK, EditOK, Enters, Leaves
<1>4. ActiveExists'
  BY <1>p, SMTT(20) DEF SvTypeOK, ActiveExists
<1> QED BY <1>1, <1>2, <1>3, <1>4

(* A script is stored as a whole.                                            *)
LEMMA UpdateSetStep ==
  ASSUME SvIndInv, NEW u \in Owners, NEW s \in ScriptNames, NEW c \in Contents, UpdateSet(u, s, c)
  PROVE  SvIndInv'
<1> USE SieveAssumption, ApartIsApart, EmptyIsContents DEF SvIndInv, SieveInv, UpdateSet
<1>p. /\ script' \in [Owners -> [ScriptNames -> Contents \cup {Missing}]]
      /\ script'[u][s] = c
      /\ \A x \in Owners, n \in ScriptNames : x # u \/ n # s => script'[x][n] = script[x][n]
  BY PutTyped
<1>1. SvTypeOK'
  <2>1. active' \in [Owners -> ScriptNames \cup {Missing}]
       /\ reply' \in [Owners -> {"none", "on", "off"}]
    BY DEF SvTypeOK
  <2>2. steady' \in [Owners -> BOOLEAN]
    BY DEF SvTypeOK, Unsteady, UpToDate
  <2> QED BY <1>p, <2>1, <2>2 DEF SvTypeOK
<1>2. RuleFollows'
  BY <1>p, SMTT(20) DEF SvTypeOK, RuleFollows, ActiveExists, Unsteady
<1>3. EditsOK'
  BY DEF EditsOK, EditOK, Enters, Leaves
<1>4. ActiveExists'
  BY <1>p, SMTT(20) DEF SvTypeOK, ActiveExists
<1> QED BY <1>1, <1>2, <1>3, <1>4

(* Another script becomes active.                                            *)
LEMMA ActivateSetStep ==
  ASSUME SvIndInv, NEW u \in Owners, NEW s \in ScriptNames, ActivateSet(u, s) PROVE SvIndInv'
<1> USE SieveAssumption, ApartIsApart, EmptyIsContents DEF SvIndInv, SieveInv, ActivateSet
<1>1. SvTypeOK'
  BY DEF SvTypeOK, Unsteady
<1>2. RuleFollows'
  BY SMTT(20) DEF SvTypeOK, RuleFollows, ActiveExists, Unsteady
<1>3. EditsOK'
  BY DEF EditsOK, EditOK, Enters, Leaves
<1>4. ActiveExists'
  BY SMTT(20) DEF SvTypeOK, ActiveExists
<1> QED BY <1>1, <1>2, <1>3, <1>4

(* No script is active.                                                      *)
LEMMA DeactivateActiveStep == ASSUME SvIndInv, NEW u \in Owners, DeactivateActive(u) PROVE SvIndInv'
<1> USE SieveAssumption, ApartIsApart, EmptyIsContents DEF SvIndInv, SieveInv, DeactivateActive
<1>1. SvTypeOK'
  BY DEF SvTypeOK, Unsteady
<1>2. RuleFollows'
  BY SMTT(20) DEF SvTypeOK, RuleFollows, ActiveExists, Unsteady
<1>3. EditsOK'
  BY DEF EditsOK, EditOK, Enters, Leaves
<1>4. ActiveExists'
  BY SMTT(20) DEF SvTypeOK, ActiveExists
<1> QED BY <1>1, <1>2, <1>3, <1>4

(* The active script cannot be deleted.                                      *)
LEMMA DestroySetStep ==
  ASSUME SvIndInv, NEW u \in Owners, NEW s \in ScriptNames, DestroySet(u, s) PROVE SvIndInv'
<1> USE SieveAssumption, ApartIsApart, EmptyIsContents DEF SvIndInv, SieveInv, DestroySet
<1>p. /\ script' \in [Owners -> [ScriptNames -> Contents \cup {Missing}]]
      /\ script'[u][s] = Missing
      /\ \A x \in Owners, n \in ScriptNames : x # u \/ n # s => script'[x][n] = script[x][n]
  BY PutTyped
<1>1. SvTypeOK'
  <2>1. active' \in [Owners -> ScriptNames \cup {Missing}]
       /\ reply' \in [Owners -> {"none", "on", "off"}]
    BY DEF SvTypeOK
  <2>2. steady' \in [Owners -> BOOLEAN]
    BY DEF SvTypeOK, Unsteady, UpToDate
  <2> QED BY <1>p, <2>1, <2>2 DEF SvTypeOK
<1>2. RuleFollows'
  BY <1>p, SMTT(20) DEF SvTypeOK, RuleFollows, ActiveExists, Unsteady
<1>3. EditsOK'
  BY DEF EditsOK, EditOK, Enters, Leaves
<1>4. ActiveExists'
  BY <1>p, SMTT(20) DEF SvTypeOK, ActiveExists
<1> QED BY <1>1, <1>2, <1>3, <1>4

(* The script that was read exists.                                          *)
LEMMA ReadScriptStep ==
  ASSUME SvIndInv, NEW v \in Editors, NEW u \in Owners, NEW s \in ScriptNames, NEW op \in Ops,
         NEW f \in AllFilters, ReadScript(v, u, s, op, f)
  PROVE  SvIndInv'
<1> USE SieveAssumption, ApartIsApart, EmptyIsContents DEF SvIndInv, SieveInv, ReadScript
<1>1. SvTypeOK'
  BY DEF SvTypeOK, Unsteady
<1>2. RuleFollows'
  BY SMTT(20) DEF SvTypeOK, RuleFollows, ActiveExists, Unsteady
<1>3. EditsOK'
  <2>1. script[u][s] \in Contents
    BY DEF SvTypeOK
  <2> QED BY <2>1 DEF EditsOK, EditOK, Enters
<1>4. ActiveExists'
  BY SMTT(20) DEF SvTypeOK, ActiveExists
<1> QED BY <1>1, <1>2, <1>3, <1>4

(* Without the reply's filter, and over nothing newer, the rule stays.       *)
LEMMA StoreScriptStep == ASSUME SvIndInv, NEW v \in Editors, StoreScript(v) PROVE SvIndInv'
<1> USE SieveAssumption, ApartIsApart, EmptyIsContents DEF SvIndInv, SieveInv, StoreScript
<1>o. /\ edit[v].user \in Owners /\ edit[v].set \in ScriptNames /\ edit[v].read \in Contents
      /\ edit[v].filter \in AllFilters /\ edit[v].op \in Ops
  BY DEF EditsOK, EditOK
<1>c. /\ Changed(edit[v].read, edit[v].op, edit[v].filter) \in Contents
      /\ edit[v].filter # Reply =>
           Changed(edit[v].read, edit[v].op, edit[v].filter)[Reply] = edit[v].read[Reply]
  BY <1>o, ChangedTyped
<1>p. /\ script' \in [Owners -> [ScriptNames -> Contents \cup {Missing}]]
      /\ script'[edit[v].user][edit[v].set] = Changed(edit[v].read, edit[v].op, edit[v].filter)
      /\ \A x \in Owners, n \in ScriptNames : x # edit[v].user \/ n # edit[v].set =>
           script'[x][n] = script[x][n]
  BY <1>o, <1>c, PutTyped
<1>1. SvTypeOK'
  <2>1. active' \in [Owners -> ScriptNames \cup {Missing}]
       /\ reply' \in [Owners -> {"none", "on", "off"}]
    BY <1>o DEF SvTypeOK
  <2>2. steady' \in [Owners -> BOOLEAN]
    BY <1>o DEF SvTypeOK, Unsteady, UpToDate
  <2> QED BY <1>p, <2>1, <2>2 DEF SvTypeOK
<1>2. RuleFollows'
  BY <1>o, <1>c, <1>p, SMTT(60) DEF SvTypeOK, RuleFollows, ActiveExists, Unsteady
<1>3. EditsOK'
  BY DEF EditsOK, EditOK, Enters, Leaves
<1>4. ActiveExists'
  BY <1>o, <1>c, <1>p, SMTT(20) DEF SvTypeOK, ActiveExists
<1> QED BY <1>1, <1>2, <1>3, <1>4

(* The row is saved; its filter will follow.                                 *)
LEMMA SaveReplyStep ==
  ASSUME SvIndInv, NEW v \in Editors, NEW u \in Owners, NEW of \in Owners, NEW state \in {"on",
         "off"}, SaveReply(v, u, of, state)
  PROVE  SvIndInv'
<1> USE SieveAssumption, ApartIsApart, EmptyIsContents DEF SvIndInv, SieveInv, SaveReply
<1>1. SvTypeOK'
  BY DEF SvTypeOK, Unsteady
<1>2. RuleFollows'
  BY SMTT(20) DEF SvTypeOK, RuleFollows, ActiveExists, Unsteady
<1>3. EditsOK'
  BY DEF EditsOK, EditOK, Enters, Leaves
<1>4. ActiveExists'
  BY SMTT(20) DEF SvTypeOK, ActiveExists
<1> QED BY <1>1, <1>2, <1>3, <1>4

(* Nothing is steady without an active script; otherwise nothing changes.    *)
LEMMA OpenActiveStep == ASSUME SvIndInv, NEW v \in Editors, OpenActive(v) PROVE SvIndInv'
<1> USE SieveAssumption, ApartIsApart, EmptyIsContents DEF SvIndInv, SieveInv, OpenActive
<1> DEFINE o == edit[v].user
           t == IF active[o] = Missing THEN DefaultScript ELSE active[o]
           k == IF active[o] = Missing THEN Empty ELSE script[o][t]
<1>o. o \in Owners /\ t \in ScriptNames
  BY DEF EditsOK, EditOK, SvTypeOK
<1>c. /\ k \in Contents
      /\ active[o] # Missing => t = active[o] /\ k = script[o][t]
  BY <1>o DEF ActiveExists, SvTypeOK
<1>a. /\ active' = [active EXCEPT ![o] = t] /\ Put(o, t, k)
      /\ UNCHANGED <<reply, edits, steady>>
  OBVIOUS
<1>e. /\ edit' = [edit EXCEPT ![v] = [pc |-> "rule", user |-> o, of |-> edit[v].of,
                                     state |-> edit[v].state, set |-> t, read |-> k]]
      /\ edit[v].of \in Owners /\ edit[v].state \in {"on", "off"}
  BY DEF EditsOK, EditOK
<1> HIDE DEF o, t, k, OpenActive
<1>p. /\ script' \in [Owners -> [ScriptNames -> Contents \cup {Missing}]]
      /\ script'[o][t] = k
      /\ \A x \in Owners, n \in ScriptNames : x # o \/ n # t => script'[x][n] = script[x][n]
  BY <1>o, <1>c, <1>a, PutTyped
<1>1. SvTypeOK'
  <2>1. active' \in [Owners -> ScriptNames \cup {Missing}]
       /\ reply' \in [Owners -> {"none", "on", "off"}]
    BY <1>o, <1>a DEF SvTypeOK
  <2>2. steady' \in [Owners -> BOOLEAN]
    BY <1>o, <1>a DEF SvTypeOK, Unsteady, UpToDate
  <2> QED BY <1>p, <2>1, <2>2 DEF SvTypeOK
<1>2. RuleFollows'
  BY <1>o, <1>c, <1>a, <1>p, SMTT(20) DEF SvTypeOK, RuleFollows, ActiveExists, Unsteady
<1>3. EditsOK'
  BY <1>o, <1>c, <1>e DEF EditsOK, EditOK
<1>4. ActiveExists'
  BY <1>o, <1>c, <1>a, <1>p, SMTT(20) DEF SvTypeOK, ActiveExists
<1> QED BY <1>1, <1>2, <1>3, <1>4

(* Saved by the user himself, with nothing changed behind his back.          *)
LEMMA WriteRuleStep == ASSUME SvIndInv, NEW v \in Editors, WriteRule(v) PROVE SvIndInv'
<1> USE SieveAssumption, ApartIsApart, EmptyIsContents DEF SvIndInv, SieveInv, WriteRule
<1>o. /\ edit[v].user \in Owners /\ edit[v].set \in ScriptNames /\ edit[v].read \in Contents
      /\ edit[v].state \in {"on", "off"} /\ edit[v].of \in Owners
  BY DEF EditsOK, EditOK
<1>c. /\ WithRule(edit[v].read, edit[v].state) \in Contents
      /\ edit[v].state = "on" <=> WithRule(edit[v].read, edit[v].state)[Reply] # "none"
  BY <1>o, WithRuleTyped
<1>p. /\ script' \in [Owners -> [ScriptNames -> Contents \cup {Missing}]]
      /\ script'[edit[v].user][edit[v].set] = WithRule(edit[v].read, edit[v].state)
      /\ \A x \in Owners, n \in ScriptNames : x # edit[v].user \/ n # edit[v].set =>
           script'[x][n] = script[x][n]
  BY <1>o, <1>c, PutTyped
<1>1. SvTypeOK'
  <2>1. active' \in [Owners -> ScriptNames \cup {Missing}]
       /\ reply' \in [Owners -> {"none", "on", "off"}]
    BY <1>o DEF SvTypeOK
  <2>2. steady' \in [Owners -> BOOLEAN]
    BY <1>o DEF SvTypeOK, UpToDate, UpToDate
  <2> QED BY <1>p, <2>1, <2>2 DEF SvTypeOK
<1>2. RuleFollows'
  BY <1>o, <1>c, <1>p, SMTT(20) DEF SvTypeOK, RuleFollows, ActiveExists, UpToDate
<1>3. EditsOK'
  BY DEF EditsOK, EditOK, Enters, Leaves
<1>4. ActiveExists'
  BY <1>o, <1>c, <1>p, SMTT(20) DEF SvTypeOK, ActiveExists
<1> QED BY <1>1, <1>2, <1>3, <1>4

(* The row or the script stays as it was left.                               *)
LEMMA EditFailsStep == ASSUME SvIndInv, NEW v \in Editors, EditFails(v) PROVE SvIndInv'
<1> USE SieveAssumption, ApartIsApart, EmptyIsContents DEF SvIndInv, SieveInv, EditFails
<1>1. SvTypeOK'
  BY DEF SvTypeOK, Unsteady
<1>2. RuleFollows'
  BY SMTT(20) DEF SvTypeOK, RuleFollows, ActiveExists, Unsteady
<1>3. EditsOK'
  BY DEF EditsOK, EditOK, Enters, Leaves
<1>4. ActiveExists'
  BY SMTT(20) DEF SvTypeOK, ActiveExists
<1> QED BY <1>1, <1>2, <1>3, <1>4

(* Every request keeps the filter of the reply and its row together.         *)
LEMMA SvStepKeeps == ASSUME SvIndInv, [SvNext]_svVars PROVE SvIndInv'
<1>1. CASE UNCHANGED svVars
  BY <1>1 DEF svVars, SvIndInv, SieveInv, SvTypeOK, RuleFollows, EditsOK, EditOK, ActiveExists
<1>2. ASSUME SvNext PROVE SvIndInv'
  BY <1>2, CreateSetStep, UpdateSetStep, ActivateSetStep, DeactivateActiveStep, DestroySetStep,
     ReadScriptStep, StoreScriptStep, SaveReplyStep, OpenActiveStep, WriteRuleStep, EditFailsStep
     DEF SvNext, SetRequest
<1> QED BY <1>1, <1>2

(* manage_sieve_rule and update_sieve_rule (sievefilters, autoreply): what a  *)
(* user saved last of his reply is what the active script does, until        *)
(* somebody changes the script, the filter or the row behind his back.       *)
THEOREM RepliesFollow == SvSpec => []SieveInv
<1>1. ASSUME SvInit PROVE SvIndInv
  <2> USE <1>1, SieveAssumption, ApartIsApart, EmptyIsContents DEF SvInit
  <2>1. SvTypeOK
    BY DEF SvTypeOK
  <2>2. RuleFollows /\ ActiveExists
    BY DEF RuleFollows, ActiveExists
  <2>3. EditsOK
    BY DEF EditsOK, EditOK
  <2> QED BY <2>1, <2>2, <2>3 DEF SvIndInv, SieveInv
<1>2. SvIndInv /\ [SvNext]_svVars => SvIndInv'
  BY SvStepKeeps
<1>3. SvIndInv => SieveInv
  BY DEF SvIndInv
<1> QED BY <1>1, <1>2, <1>3, PTL DEF SvSpec

-----------------------------------------------------------------------------
(* Folders of the webmail (WebmailFolders).  A command in the hands of a    *)
(* request names mail by what it has read; the invariant says which copy it *)
(* meant.                                                                   *)

(* The settings of the user do not name his inbox as the folder of drafts.   *)
DraftsApart == Inbox # Drafts

CopyOK == [uid : Nat, msg : Letters \cup Nat, dead : BOOLEAN]

(* Letters are never among the drafts, and nothing else is anywhere else.    *)
Boxes ==
  /\ box \in [Folders -> SUBSET CopyOK]
  /\ uid \in 0..MaxCopy /\ saves \in 0..MaxSaves
  /\ mailid \in 0..uid /\ answered \in 0..saves
  /\ torn \subseteq Letters \cup 1..saves
  /\ \A f \in Folders : \A x \in box[f] :
       /\ x.uid \in 1..uid
       /\ f = Drafts => x.msg \in 1..saves
       /\ f # Drafts => x.msg \in Letters

(* An identifier is never given twice.                                       *)
UidsUnique ==
  \A f, g \in Folders : \A x \in box[f], y \in box[g] : x.uid = y.uid => f = g /\ x = y

(* What each request remembers is true of the folders.                       *)
HandOK(h) ==
  /\ hand[h].at \in {"idle", "copy", "store", "drop", "expunge", "push", "flag", "compact"}
  /\ hand[h].at = "copy" => /\ hand[h].from \in Folders \ {Drafts}
                            /\ hand[h].to \in Folders \ {Drafts}
  /\ hand[h].at = "store" =>
       /\ hand[h].from \in Folders \ {Drafts} /\ hand[h].uid \in 1..uid
       /\ hand[h].msg \in Letters
       /\ \A f \in Folders : \A x \in box[f] : x.uid = hand[h].uid => f = hand[h].from
  /\ hand[h].at \in {"drop", "expunge"} =>
       /\ hand[h] \in [at : {"drop", "expunge"}, uid : Nat \ {0}, msg : Nat]
       /\ hand[h].msg \in 1..saves
  /\ hand[h].at = "push" => hand[h].msg \in 1..saves
  /\ hand[h].at = "compact" => hand[h].folder \in Folders

HandsOK == DOMAIN hand = Hands /\ hand = [h \in Hands |-> hand[h]] /\ \A h \in Hands : HandOK(h)

(* A letter that was ever in a folder has a copy that is seen and that no    *)
(* move is about to flag, or the user has discarded it.                      *)
EverHere(m) == (\E f \in Folders : \E x \in box[f] : x.msg = m) \/ m \in torn \/ Moving(m) # {}
Spared(u) == \A h \in Hands : hand[h].at = "store" => hand[h].uid # u
Safe(m) == \E f \in Folders : \E x \in box[f] : x.msg = m /\ ~x.dead /\ Spared(x.uid)
LettersSafe == \A m \in Letters : EverHere(m) => Safe(m) \/ m \in discarded

(* Of the copies that no move is about to flag one at most is seen, unless   *)
(* the moves of the letter were cut off or overlapped.                       *)
LettersOnce ==
  \A m \in Letters : m \notin torn =>
    /\ \A h, k \in Moving(m) : h = k
    /\ \A f, g \in Folders : \A x \in box[f], y \in box[g] :
         /\ x.msg = m /\ ~x.dead /\ (\A h \in Moving(m) : hand[h].uid # x.uid)
         /\ y.msg = m /\ ~y.dead /\ (\A h \in Moving(m) : hand[h].uid # y.uid)
         => x = y

WFIndInv == Boxes /\ UidsUnique /\ HandsOK /\ LettersSafe /\ LettersOnce /\ DraftKept

-----------------------------------------------------------------------------
(* The client that is asking nothing is idle.                                *)
LEMMA RestingIsIdle == Resting.at = "idle"
  BY DEF Resting

(* What flagging and expunging leave: nothing comes back, nothing else goes. *)
Thins(f, us) ==
  /\ box' \in [Folders -> SUBSET CopyOK]
  /\ \A g \in Folders : \A y \in box'[g] : \E x \in box[g] :
       x.uid = y.uid /\ x.msg = y.msg /\ (~y.dead => x = y /\ ~(g = f /\ x.uid \in us))
  /\ \A g \in Folders : \A x \in box[g] : ~x.dead /\ ~(g = f /\ x.uid \in us) => x \in box'[g]
  /\ UidsUnique'

Flagged(x, us) == IF x.uid \in us THEN [x EXCEPT !.dead = TRUE] ELSE x

(* A folder with a flag set on one of its messages.                          *)
LEMMA FlaggedIs ==
  ASSUME NEW x \in CopyOK, NEW us
  PROVE  /\ Flagged(x, us) \in CopyOK
         /\ Flagged(x, us).uid = x.uid /\ Flagged(x, us).msg = x.msg
         /\ x.uid \in us => Flagged(x, us).dead
         /\ x.uid \notin us => Flagged(x, us) = x
  BY DEF Flagged, CopyOK

(* A flag takes no message away.                                             *)
LEMMA FlagThins ==
  ASSUME Boxes, UidsUnique, NEW f \in Folders, NEW us, Flag(f, us)
  PROVE  Thins(f, us)
<1>1. box' = [box EXCEPT ![f] = {Flagged(x, us) : x \in box[f]}]
  BY DEF Flag, Flagged
<1>2. box'[f] = {Flagged(x, us) : x \in box[f]} /\ \A g \in Folders \ {f} : box'[g] = box[g]
  BY <1>1 DEF Boxes
<1>3. \A x \in box[f] : /\ Flagged(x, us) \in CopyOK
                        /\ Flagged(x, us).uid = x.uid /\ Flagged(x, us).msg = x.msg
                        /\ x.uid \in us => Flagged(x, us).dead
                        /\ x.uid \notin us => Flagged(x, us) = x
  BY FlaggedIs DEF Boxes
<1>4. box' \in [Folders -> SUBSET CopyOK]
  BY <1>1, <1>3 DEF Boxes
<1>5. ASSUME NEW g \in Folders, NEW y \in box'[g]
      PROVE \E x \in box[g] : x.uid = y.uid /\ x.msg = y.msg
                              /\ (~y.dead => x = y /\ ~(g = f /\ x.uid \in us))
  <2>1. CASE g = f
    <3>1. PICK x \in box[f] : y = Flagged(x, us)
      BY <1>2, <2>1
    <3> QED BY <1>3, <2>1, <3>1
  <2>2. CASE g # f
    BY <1>2, <2>2
  <2> QED BY <2>1, <2>2
<1>6. ASSUME NEW g \in Folders, NEW x \in box[g], ~(g = f /\ x.uid \in us) PROVE x \in box'[g]
  <2>1. CASE g = f
    BY <1>2, <1>3, <1>6, <2>1
  <2>2. CASE g # f
    BY <1>2, <2>2
  <2> QED BY <2>1, <2>2
<1>7. ASSUME NEW g \in Folders, NEW y \in box'[g]
      PROVE  \E x \in box[g] : x.uid = y.uid /\ y = (IF g = f THEN Flagged(x, us) ELSE x)
  BY <1>2, <1>3
<1>8. UidsUnique'
  BY <1>7 DEF UidsUnique
<1> QED BY <1>4, <1>5, <1>6, <1>8 DEF Thins

(* An expunge of one folder takes messages of that folder alone.             *)
LEMMA ExpungeThins ==
  ASSUME Boxes, UidsUnique, NEW f \in Folders, Expunge(f)
  PROVE  Thins(f, {})
<1>1. box'[f] = Seen(f) /\ \A g \in Folders \ {f} : box'[g] = box[g]
  BY DEF Expunge, Boxes
<1>2. box' \in [Folders -> SUBSET CopyOK]
  BY DEF Expunge, Boxes, Seen
<1>3. \A g \in Folders : \A y \in box'[g] : y \in box[g]
  BY <1>1 DEF Seen
<1>4. \A g \in Folders : \A x \in box[g] : ~x.dead => x \in box'[g]
  BY <1>1 DEF Seen
<1>5. UidsUnique'
  BY <1>3 DEF UidsUnique
<1> QED BY <1>2, <1>3, <1>4, <1>5 DEF Thins

(* What the folders, the moves and the drafts keep when copies only go.      *)
LEMMA ThinBoxes ==
  ASSUME Boxes, NEW f, NEW us, Thins(f, us), UNCHANGED <<uid, saves>>,
         mailid' = mailid, answered' = answered, torn' = torn
  PROVE  Boxes'
<1>1. ASSUME NEW g \in Folders, NEW y \in box'[g]
      PROVE y.uid \in 1..uid /\ (g = Drafts => y.msg \in 1..saves)
                  /\ (g # Drafts => y.msg \in Letters)
  <2>1. PICK x \in box[g] : x.uid = y.uid /\ x.msg = y.msg
    BY DEF Thins
  <2> QED BY <2>1 DEF Boxes
<1> QED BY <1>1 DEF Boxes, Thins

(* A folder that was thinned holds no copy that was not there before.        *)
LEMMA ThinHand ==
  ASSUME NEW f, NEW us, Thins(f, us), NEW h \in Hands, HandOK(h), UNCHANGED <<uid, saves>>,
         hand'[h] = hand[h]
  PROVE  HandOK(h)'
<1>1. \A g \in Folders : \A y \in box'[g] : \E x \in box[g] : x.uid = y.uid
  BY DEF Thins
<1> QED BY <1>1 DEF HandOK

(* Any number of moves may end, of copies that have been flagged.            *)
LEMMA ThinSafe ==
  ASSUME Boxes, LettersSafe, NEW f \in Folders, NEW us, Thins(f, us), torn' = torn,
         discarded \subseteq discarded',
         \A m \in Letters : Moving(m)' \subseteq Moving(m),
         \A u : Spared(u) => Spared(u)',
         \A x \in box[f] : x.msg \in Letters /\ ~x.dead /\ x.uid \in us /\ Spared(x.uid) =>
              x.msg \in discarded'
  PROVE  LettersSafe'
<1> SUFFICES ASSUME NEW m \in Letters, EverHere(m)', m \notin discarded' PROVE Safe(m)'
  BY DEF LettersSafe
<1>1. EverHere(m)
  BY DEF EverHere, Thins
<1>2. PICK g \in Folders : \E x \in box[g] : x.msg = m /\ ~x.dead /\ Spared(x.uid)
  BY <1>1 DEF LettersSafe, Safe
<1>3. PICK x \in box[g] : x.msg = m /\ ~x.dead /\ Spared(x.uid)
  BY <1>2
<1>4. x \in box'[g]
  BY <1>3 DEF Thins
<1> QED BY <1>3, <1>4 DEF Safe

(* A letter that is in one place is in one place after a folder was          *)
(* thinned.                                                                  *)
LEMMA ThinOnce ==
  ASSUME Boxes, LettersOnce, NEW f \in Folders, NEW us, Thins(f, us), torn \subseteq torn',
         \A m \in Letters \ torn' : Moving(m)' \subseteq Moving(m),
         \A h \in Hands : hand[h].at = "store" /\ hand'[h].at = "store" => hand'[h] = hand[h],
         \A m \in Letters \ torn' : \A h \in Moving(m) : h \notin Moving(m)' =>
           \A g \in Folders : \A x \in box'[g] : x.uid = hand[h].uid => x.dead
  PROVE  LettersOnce'
<1> SUFFICES ASSUME NEW m \in Letters, m \notin torn'
             PROVE /\ \A h, k \in Moving(m)' : h = k
                   /\ \A g, e \in Folders : \A x \in box'[g], y \in box'[e] :
                        /\ x.msg = m /\ ~x.dead /\ (\A h \in Moving(m)' : hand'[h].uid # x.uid)
                        /\ y.msg = m /\ ~y.dead /\ (\A h \in Moving(m)' : hand'[h].uid # y.uid)
                        => x = y
  BY DEF LettersOnce
<1>1. \A h, k \in Moving(m)' : h = k
  BY DEF LettersOnce
<1>2. ASSUME NEW g \in Folders, NEW x \in box'[g], ~x.dead, x.msg = m,
             \A h \in Moving(m)' : hand'[h].uid # x.uid
      PROVE  x \in box[g] /\ \A h \in Moving(m) : hand[h].uid # x.uid
  <2>1. x \in box[g]
    BY <1>2 DEF Thins
  <2>2. ASSUME NEW h \in Moving(m), hand[h].uid = x.uid PROVE FALSE
    <3>1. CASE h \in Moving(m)'
      <4>1. hand'[h] = hand[h]
        BY <3>1 DEF Moving
      <4> QED BY <1>2, <2>2, <3>1, <4>1
    <3>2. CASE h \notin Moving(m)'
      BY <1>2, <2>2, <3>2
    <3> QED BY <3>1, <3>2
  <2> QED BY <2>1, <2>2
<1>3. ASSUME NEW g \in Folders, NEW e \in Folders, NEW x \in box'[g], NEW y \in box'[e],
             x.msg = m, ~x.dead, \A h \in Moving(m)' : hand'[h].uid # x.uid,
             y.msg = m, ~y.dead, \A h \in Moving(m)' : hand'[h].uid # y.uid
      PROVE  x = y
  <2>1. x \in box[g] /\ \A h \in Moving(m) : hand[h].uid # x.uid
    BY <1>2, <1>3
  <2>2. y \in box[e] /\ \A h \in Moving(m) : hand[h].uid # y.uid
    BY <1>2, <1>3
  <2> QED BY <1>3, <2>1, <2>2 DEF LettersOnce
<1> QED BY <1>1, <1>3

(* A seen copy of the last answered version remains where it is.             *)
LEMMA ThinDraft ==
  ASSUME Boxes, DraftKept, WFAssumption, NEW f \in Folders, NEW us, Thins(f, us),
         answered' = answered,
         discarded \subseteq discarded',
         dropped => dropped',
         f = Drafts => \/ us = {}
                       \/ \E h \in Hands : hand'[h].at \in {"expunge", "push"} /\ hand'[h].uid # 0
                       \/ \A x \in box[f] : ~x.dead /\ x.uid \in us => x.msg \in discarded',
         \A h \in Hands : hand[h].at \in {"expunge", "push"} /\ hand[h].uid # 0 =>
           hand'[h].at \in {"expunge", "push"} /\ hand'[h].uid # 0
  PROVE  DraftKept'
<1>1. CASE \E x \in Seen(Drafts) : x.msg = answered
  <2>1. PICK x \in box[Drafts] : ~x.dead /\ x.msg = answered
    BY <1>1 DEF Seen
  <2>2. CASE x \in box'[Drafts]
    BY <2>1, <2>2 DEF DraftKept, Seen
  <2>3. CASE f = Drafts /\ x.uid \in us
    BY <2>1, <2>3 DEF DraftKept
  <2> QED BY <2>1, <2>2, <2>3, WFAssumption DEF Thins
<1>2. CASE ~\E x \in Seen(Drafts) : x.msg = answered
  BY <1>2 DEF DraftKept
<1> QED BY <1>1, <1>2

(* What a new copy adds.                                                     *)
Adds(f, z) ==
  /\ box' \in [Folders -> SUBSET CopyOK]
  /\ uid' = uid + 1 /\ uid' \in 1..MaxCopy
  /\ z.uid = uid + 1
  /\ z \in box'[f]
  /\ \A g \in Folders : \A x \in box[g] : x \in box'[g]
  /\ \A g \in Folders : \A y \in box'[g] : y \in box[g] \/ (g = f /\ y = z)
  /\ UidsUnique'

New(m, d) == [uid |-> uid + 1, msg |-> m, dead |-> d]
(* A copy goes into its folder and nowhere else.                             *)
LEMMA AddCopyAdds ==
  ASSUME Boxes, UidsUnique, WFAssumption, NEW f \in Folders, NEW m \in Letters \cup Nat,
         NEW d \in BOOLEAN,
         AddCopy(f, m, d)
  PROVE  \E z : z.msg = m /\ z.dead = d /\ Adds(f, z)
<1>1. New(m, d) \in CopyOK /\ New(m, d).uid = uid + 1 /\ New(m, d).msg = m /\ New(m, d).dead = d
  BY DEF New, CopyOK, Boxes
<1>2. box' = [box EXCEPT ![f] = box[f] \cup {New(m, d)}] /\ uid' = uid + 1 /\ uid < MaxCopy
  BY DEF AddCopy, New
<1>3. /\ box' \in [Folders -> SUBSET CopyOK]
      /\ box'[f] = box[f] \cup {New(m, d)}
      /\ \A g \in Folders \ {f} : box'[g] = box[g]
  BY <1>1, <1>2 DEF Boxes
<1>4. \A g \in Folders : \A x \in box[g] : x.uid \in 1..uid
  BY DEF Boxes
<1>5. uid \in Nat /\ MaxCopy \in Nat
  BY WFAssumption DEF Boxes
<1>6. UidsUnique'
  BY <1>1, <1>3, <1>4, <1>5 DEF UidsUnique
<1>7. uid + 1 \in 1..MaxCopy
  BY <1>2, <1>5
<1> DEFINE n == New(m, d)
<1>8. n.uid = uid + 1 /\ n.msg = m /\ n.dead = d /\ box'[f] = box[f] \cup {n}
  BY <1>1, <1>3
<1> HIDE DEF n
<1>9. \A g \in Folders : \A y \in box'[g] : y \in box[g] \/ (g = f /\ y = n)
  BY <1>3, <1>8
<1>10. \A g \in Folders : \A x \in box[g] : x \in box'[g]
  BY <1>3, <1>8
<1>11. Adds(f, n)
  BY <1>2, <1>3, <1>6, <1>7, <1>8, <1>9, <1>10 DEF Adds
<1> QED BY <1>8, <1>11

-----------------------------------------------------------------------------
(* A move begins: nothing is copied yet.                                     *)
LEMMA StartMoveStep ==
  ASSUME DraftsApart, WFIndInv, NEW h \in Hands, NEW f \in Folders, NEW g \in Folders,
         NEW x \in box[f], StartMove(h, f, x, g)
  PROVE  WFIndInv'
<1> USE DraftsApart, WFAssumption, RestingIsIdle DEF WFIndInv, DraftsApart, StartMove, Proceeds
<1>1. Boxes'
  BY DEF Boxes
<1>2. UidsUnique'
  BY DEF UidsUnique
<1>3. HandsOK'
  BY DEF HandsOK, HandOK, Boxes
<1>a. \A m \in Letters : Moving(m)' = Moving(m)
  BY DEF Moving, HandsOK
<1>b. \A k \in Hands : hand[k].at = "store" \/ hand'[k].at = "store" => hand'[k] = hand[k]
  BY DEF HandsOK
<1>c. UNCHANGED <<box, torn, discarded, answered, dropped>>
  OBVIOUS
<1>4. LettersSafe'
  BY ONLY <1>a, <1>b, <1>c, LettersSafe DEF LettersSafe, EverHere, Safe, Spared
<1>5. LettersOnce'
  <2>1. \A m \in Letters : \A k \in Moving(m) : hand'[k] = hand[k]
    BY <1>b DEF Moving
  <2> QED BY ONLY <1>a, <1>c, <2>1, LettersOnce DEF LettersOnce
<1>6. DraftKept'
  BY DEF DraftKept, Seen, HandsOK
<1> QED BY <1>1, <1>2, <1>3, <1>4, <1>5, <1>6

(* A save begins: nothing is removed yet.                                    *)
LEMMA SaveDraftStep == ASSUME DraftsApart, WFIndInv, NEW h \in Hands, SaveDraft(h) PROVE WFIndInv'
<1> USE DraftsApart, WFAssumption, RestingIsIdle DEF WFIndInv, DraftsApart, SaveDraft, Proceeds
<1>1. Boxes'
  BY DEF Boxes
<1>2. UidsUnique'
  BY DEF UidsUnique
<1>3. HandsOK'
  BY DEF HandsOK, HandOK, Boxes
<1>a. \A m \in Letters : Moving(m)' = Moving(m)
  BY DEF Moving, HandsOK
<1>b. \A k \in Hands : hand[k].at = "store" \/ hand'[k].at = "store" => hand'[k] = hand[k]
  BY DEF HandsOK
<1>c. UNCHANGED <<box, torn, discarded, answered, dropped>>
  OBVIOUS
<1>4. LettersSafe'
  BY ONLY <1>a, <1>b, <1>c, LettersSafe DEF LettersSafe, EverHere, Safe, Spared
<1>5. LettersOnce'
  <2>1. \A m \in Letters : \A k \in Moving(m) : hand'[k] = hand[k]
    BY <1>b DEF Moving
  <2> QED BY ONLY <1>a, <1>c, <2>1, LettersOnce DEF LettersOnce
<1>6. DraftKept'
  BY DEF DraftKept, Seen, HandsOK
<1> QED BY <1>1, <1>2, <1>3, <1>4, <1>5, <1>6

(* The trash is searched.                                                    *)
LEMMA SearchTrashStep ==
  ASSUME DraftsApart, WFIndInv, NEW h \in Hands, SearchTrash(h) PROVE WFIndInv'
<1> USE DraftsApart, WFAssumption, RestingIsIdle DEF WFIndInv, DraftsApart, SearchTrash, Proceeds
<1>1. Boxes'
  BY DEF Boxes
<1>2. UidsUnique'
  BY DEF UidsUnique
<1>3. HandsOK'
  BY ZenonT(60) DEF HandsOK, HandOK, Boxes
<1>a. \A m \in Letters : Moving(m)' = Moving(m)
  BY DEF Moving, HandsOK
<1>b. \A k \in Hands : hand[k].at = "store" \/ hand'[k].at = "store" => hand'[k] = hand[k]
  BY DEF HandsOK
<1>c. UNCHANGED <<box, torn, discarded, answered, dropped>>
  OBVIOUS
<1>4. LettersSafe'
  BY ONLY <1>a, <1>b, <1>c, LettersSafe DEF LettersSafe, EverHere, Safe, Spared
<1>5. LettersOnce'
  <2>1. \A m \in Letters : \A k \in Moving(m) : hand'[k] = hand[k]
    BY <1>b DEF Moving
  <2> QED BY ONLY <1>a, <1>c, <2>1, LettersOnce DEF LettersOnce
<1>6. DraftKept'
  BY DEF DraftKept, Seen, HandsOK
<1> QED BY <1>1, <1>2, <1>3, <1>4, <1>5, <1>6

(* A compaction begins.                                                      *)
LEMMA StartCompactStep ==
  ASSUME DraftsApart, WFIndInv, NEW h \in Hands, NEW f \in Folders, StartCompact(h, f)
  PROVE  WFIndInv'
<1> USE DraftsApart, WFAssumption, RestingIsIdle DEF WFIndInv, DraftsApart, StartCompact, Proceeds
<1>1. Boxes'
  BY DEF Boxes
<1>2. UidsUnique'
  BY DEF UidsUnique
<1>3. HandsOK'
  BY DEF HandsOK, HandOK, Boxes
<1>a. \A m \in Letters : Moving(m)' = Moving(m)
  BY DEF Moving, HandsOK
<1>b. \A k \in Hands : hand[k].at = "store" \/ hand'[k].at = "store" => hand'[k] = hand[k]
  BY DEF HandsOK
<1>c. UNCHANGED <<box, torn, discarded, answered, dropped>>
  OBVIOUS
<1>4. LettersSafe'
  BY ONLY <1>a, <1>b, <1>c, LettersSafe DEF LettersSafe, EverHere, Safe, Spared
<1>5. LettersOnce'
  <2>1. \A m \in Letters : \A k \in Moving(m) : hand'[k] = hand[k]
    BY <1>b DEF Moving
  <2> QED BY ONLY <1>a, <1>c, <2>1, LettersOnce DEF LettersOnce
<1>6. DraftKept'
  BY DEF DraftKept, Seen, HandsOK
<1> QED BY <1>1, <1>2, <1>3, <1>4, <1>5, <1>6

(* The form is opened.                                                       *)
LEMMA OpenFormStep == ASSUME DraftsApart, WFIndInv,  OpenForm PROVE WFIndInv'
<1> USE DraftsApart, WFAssumption, RestingIsIdle DEF WFIndInv, DraftsApart, OpenForm
<1>1. Boxes'
  BY DEF Boxes, Seen
<1>2. UidsUnique'
  BY DEF UidsUnique
<1>3. HandsOK'
  BY DEF HandsOK, HandOK, Boxes
<1>a. \A m \in Letters : Moving(m)' = Moving(m)
  BY DEF Moving, HandsOK
<1>b. \A k \in Hands : hand[k].at = "store" \/ hand'[k].at = "store" => hand'[k] = hand[k]
  BY DEF HandsOK
<1>c. UNCHANGED <<box, torn, discarded, answered, dropped>>
  OBVIOUS
<1>4. LettersSafe'
  BY ONLY <1>a, <1>b, <1>c, LettersSafe DEF LettersSafe, EverHere, Safe, Spared
<1>5. LettersOnce'
  <2>1. \A m \in Letters : \A k \in Moving(m) : hand'[k] = hand[k]
    BY <1>b DEF Moving
  <2> QED BY ONLY <1>a, <1>c, <2>1, LettersOnce DEF LettersOnce
<1>6. DraftKept'
  BY DEF DraftKept, Seen, HandsOK
<1> QED BY <1>1, <1>2, <1>3, <1>4, <1>5, <1>6

(* What is flagged was being moved: no copy that was safe.                   *)
LEMMA FlagMovedStep == ASSUME DraftsApart, WFIndInv, NEW h \in Hands, FlagMoved(h) PROVE WFIndInv'
<1> USE DraftsApart, WFAssumption, RestingIsIdle DEF WFIndInv, DraftsApart, FlagMoved, Proceeds
<1>u. hand[h].from \in Folders
  BY DEF HandsOK, HandOK
<1>t. Thins(hand[h].from, {hand[h].uid})
  BY <1>u, FlagThins
<1>f. UNCHANGED <<uid, saves, mailid, answered, torn, discarded, dropped>>
  OBVIOUS
<1>h. /\ DOMAIN hand' = Hands /\ hand' = [k \in Hands |-> hand'[k]]
      /\ \A k \in Hands \ {h} : hand'[k] = hand[k]
      /\ hand[h].at = "store" /\ hand'[h].at = "idle"
  BY DEF HandsOK, HandOK
<1> HIDE DEF FlagMoved, Proceeds
<1>m. \A m \in Letters : Moving(m)' \subseteq Moving(m)
  BY <1>h DEF Moving
<1>s. \A v : Spared(v) => Spared(v)'
  BY <1>h DEF Spared
<1>o. \A k \in Hands : hand[k].at = "store" /\ hand'[k].at = "store" => hand'[k] = hand[k]
  BY <1>h
<1>x. \A x \in box[hand[h].from] : x.uid \in {hand[h].uid} => ~Spared(x.uid)
  BY <1>h DEF Spared
<1>n. \A m \in Letters : \A k \in Moving(m) : k \notin Moving(m)' =>
        \A g \in Folders : \A x \in box'[g] : x.uid = hand[k].uid => x.dead
  <2> SUFFICES ASSUME NEW m \in Letters, NEW k \in Moving(m), k \notin Moving(m)',
                      NEW g \in Folders, NEW y \in box'[g], y.uid = hand[k].uid, ~y.dead
               PROVE  FALSE
    OBVIOUS
  <2>1. k = h
    BY <1>h DEF Moving
  <2>2. y \in box[g] /\ ~(g = hand[h].from /\ y.uid \in {hand[h].uid})
    BY <1>t DEF Thins
  <2> QED BY <1>h, <2>1, <2>2 DEF HandsOK, HandOK
<1>1. Boxes'
  BY <1>t, <1>f, ThinBoxes
<1>2. UidsUnique'
  BY <1>t DEF Thins
<1>3. HandsOK'
  <2>1. \A k \in Hands \ {h} : HandOK(k)'
    BY <1>t, <1>f, <1>h, ThinHand DEF HandsOK
  <2>2. HandOK(h)'
    BY <1>h, <1>f, <1>u DEF HandsOK, HandOK
  <2> QED BY <1>h, <2>1, <2>2 DEF HandsOK
<1>4. LettersSafe'
  BY <1>t, <1>f, <1>m, <1>s, <1>u, <1>x, ThinSafe
<1>5. LettersOnce'
  BY <1>t, <1>f, <1>m, <1>o, <1>u, <1>n, ThinOnce
<1>d. hand[h].from # Drafts
  BY <1>h DEF HandsOK, HandOK
<1>6. DraftKept'
  BY <1>t, <1>f, <1>h, <1>u, <1>d, ThinDraft DEF HandsOK
<1> QED BY <1>1, <1>2, <1>3, <1>4, <1>5, <1>6

(* The draft goes, and the request knows that it must store one.             *)
LEMMA DropDraftStep == ASSUME DraftsApart, WFIndInv, NEW h \in Hands, DropDraft(h) PROVE WFIndInv'
<1> USE DraftsApart, WFAssumption, RestingIsIdle DEF WFIndInv, DraftsApart, DropDraft, Proceeds
<1>u. Drafts \in Folders
  BY DEF HandsOK, HandOK
<1>t. Thins(Drafts, {hand[h].uid})
  BY <1>u, FlagThins
<1>f. UNCHANGED <<uid, saves, mailid, answered, torn, discarded, dropped>>
  OBVIOUS
<1>h. /\ DOMAIN hand' = Hands /\ hand' = [k \in Hands |-> hand'[k]]
      /\ \A k \in Hands \ {h} : hand'[k] = hand[k]
      /\ hand[h].at = "drop" /\ hand'[h].at = "expunge" /\ hand'[h].uid = hand[h].uid
      /\ hand'[h].uid # 0 /\ hand'[h].msg = hand[h].msg
      /\ hand'[h] \in [at : {"drop", "expunge"}, uid : Nat \ {0}, msg : Nat]
  BY DEF HandsOK, HandOK
<1> HIDE DEF DropDraft, Proceeds
<1>m. \A m \in Letters : Moving(m)' \subseteq Moving(m)
  BY <1>h DEF Moving
<1>s. \A v : Spared(v) => Spared(v)'
  BY <1>h DEF Spared
<1>o. \A k \in Hands : hand[k].at = "store" /\ hand'[k].at = "store" => hand'[k] = hand[k]
  BY <1>h
<1>n. \A m \in Letters : \A k \in Moving(m) : k \in Moving(m)'
  BY <1>h DEF Moving
<1>x. \A x \in box[Drafts] : x.msg \notin Letters
  BY DEF Boxes
<1>1. Boxes'
  BY <1>t, <1>f, ThinBoxes
<1>2. UidsUnique'
  BY <1>t DEF Thins
<1>3. HandsOK'
  <2>1. \A k \in Hands \ {h} : HandOK(k)'
    BY <1>t, <1>f, <1>h, ThinHand DEF HandsOK
  <2>2. HandOK(h)'
    BY <1>h, <1>f, <1>u DEF HandsOK, HandOK
  <2> QED BY <1>h, <2>1, <2>2 DEF HandsOK
<1>4. LettersSafe'
  BY <1>t, <1>f, <1>m, <1>s, <1>u, <1>x, ThinSafe
<1>5. LettersOnce'
  BY <1>t, <1>f, <1>m, <1>o, <1>u, <1>n, ThinOnce
<1>6. DraftKept'
  BY <1>t, <1>f, <1>h, <1>u, ThinDraft DEF HandsOK
<1> QED BY <1>1, <1>2, <1>3, <1>4, <1>5, <1>6

(* Only what is flagged goes.                                                *)
LEMMA ExpungeDraftsStep ==
  ASSUME DraftsApart, WFIndInv, NEW h \in Hands, ExpungeDrafts(h) PROVE WFIndInv'
<1> USE DraftsApart, WFAssumption, RestingIsIdle DEF WFIndInv, DraftsApart, ExpungeDrafts, Proceeds
<1>u. Drafts \in Folders
  BY DEF HandsOK, HandOK
<1>t. Thins(Drafts, {})
  BY <1>u, ExpungeThins
<1>f. UNCHANGED <<uid, saves, mailid, answered, torn, discarded, dropped>>
  OBVIOUS
<1>h. /\ DOMAIN hand' = Hands /\ hand' = [k \in Hands |-> hand'[k]]
      /\ \A k \in Hands \ {h} : hand'[k] = hand[k]
      /\ hand[h].at = "expunge" /\ hand'[h].at = "push" /\ hand'[h].uid = hand[h].uid
      /\ hand'[h].uid # 0 /\ hand'[h].msg = hand[h].msg
  BY DEF HandsOK, HandOK
<1> HIDE DEF ExpungeDrafts, Proceeds
<1>m. \A m \in Letters : Moving(m)' \subseteq Moving(m)
  BY <1>h DEF Moving
<1>s. \A v : Spared(v) => Spared(v)'
  BY <1>h DEF Spared
<1>o. \A k \in Hands : hand[k].at = "store" /\ hand'[k].at = "store" => hand'[k] = hand[k]
  BY <1>h
<1>n. \A m \in Letters : \A k \in Moving(m) : k \in Moving(m)'
  BY <1>h DEF Moving
<1>1. Boxes'
  BY <1>t, <1>f, ThinBoxes
<1>2. UidsUnique'
  BY <1>t DEF Thins
<1>3. HandsOK'
  <2>1. \A k \in Hands \ {h} : HandOK(k)'
    BY <1>t, <1>f, <1>h, ThinHand DEF HandsOK
  <2>2. HandOK(h)'
    BY <1>h, <1>f, <1>u DEF HandsOK, HandOK
  <2> QED BY <1>h, <2>1, <2>2 DEF HandsOK
<1>4. LettersSafe'
  BY <1>t, <1>f, <1>m, <1>s, <1>u, ThinSafe
<1>5. LettersOnce'
  BY <1>t, <1>f, <1>m, <1>o, <1>u, <1>n, ThinOnce
<1>6. DraftKept'
  BY <1>t, <1>f, <1>h, <1>u, ThinDraft DEF HandsOK
<1> QED BY <1>1, <1>2, <1>3, <1>4, <1>5, <1>6

(* What is flagged is discarded.                                             *)
LEMMA FlagTrashStep == ASSUME DraftsApart, WFIndInv, NEW h \in Hands, FlagTrash(h) PROVE WFIndInv'
<1> USE DraftsApart, WFAssumption, RestingIsIdle DEF WFIndInv, DraftsApart, FlagTrash, Proceeds
<1>u. Trash \in Folders
  BY DEF HandsOK, HandOK
<1>t. Thins(Trash, hand[h].uids)
  BY <1>u, FlagThins
<1>f. UNCHANGED <<uid, saves, mailid, answered, torn, dropped>> /\ discarded \subseteq discarded'
  OBVIOUS
<1>h. /\ DOMAIN hand' = Hands /\ hand' = [k \in Hands |-> hand'[k]]
      /\ \A k \in Hands \ {h} : hand'[k] = hand[k]
      /\ hand[h].at = "flag" /\ hand'[h].at = "compact" /\ hand'[h].folder = Trash
  BY DEF HandsOK, HandOK
<1>x. \A x \in box[Trash] : x.uid \in hand[h].uids => x.msg \in discarded'
  BY DEF Copies
<1> HIDE DEF FlagTrash, Proceeds
<1>m. \A m \in Letters : Moving(m)' \subseteq Moving(m)
  BY <1>h DEF Moving
<1>s. \A v : Spared(v) => Spared(v)'
  BY <1>h DEF Spared
<1>o. \A k \in Hands : hand[k].at = "store" /\ hand'[k].at = "store" => hand'[k] = hand[k]
  BY <1>h
<1>n. \A m \in Letters : \A k \in Moving(m) : k \in Moving(m)'
  BY <1>h DEF Moving
<1>1. Boxes'
  BY <1>t, <1>f, ThinBoxes
<1>2. UidsUnique'
  BY <1>t DEF Thins
<1>3. HandsOK'
  <2>1. \A k \in Hands \ {h} : HandOK(k)'
    BY <1>t, <1>f, <1>h, ThinHand DEF HandsOK
  <2>2. HandOK(h)'
    BY <1>h, <1>f, <1>u DEF HandsOK, HandOK
  <2> QED BY <1>h, <2>1, <2>2 DEF HandsOK
<1>4. LettersSafe'
  BY <1>t, <1>f, <1>m, <1>s, <1>u, <1>x, ThinSafe
<1>5. LettersOnce'
  BY <1>t, <1>f, <1>m, <1>o, <1>u, <1>n, ThinOnce
<1>6. DraftKept'
  BY <1>t, <1>f, <1>h, <1>u, <1>x, ThinDraft DEF HandsOK
<1> QED BY <1>1, <1>2, <1>3, <1>4, <1>5, <1>6

(* Only what is flagged goes.                                                *)
LEMMA CompactStep == ASSUME DraftsApart, WFIndInv, NEW h \in Hands, Compact(h) PROVE WFIndInv'
<1> USE DraftsApart, WFAssumption, RestingIsIdle DEF WFIndInv, DraftsApart, Compact, Proceeds
<1>u. hand[h].folder \in Folders
  BY DEF HandsOK, HandOK
<1>t. Thins(hand[h].folder, {})
  BY <1>u, ExpungeThins
<1>f. UNCHANGED <<uid, saves, mailid, answered, torn, discarded, dropped>>
  OBVIOUS
<1>h. /\ DOMAIN hand' = Hands /\ hand' = [k \in Hands |-> hand'[k]]
      /\ \A k \in Hands \ {h} : hand'[k] = hand[k]
      /\ hand[h].at = "compact" /\ hand'[h].at = "idle"
  BY DEF HandsOK, HandOK
<1> HIDE DEF Compact, Proceeds
<1>m. \A m \in Letters : Moving(m)' \subseteq Moving(m)
  BY <1>h DEF Moving
<1>s. \A v : Spared(v) => Spared(v)'
  BY <1>h DEF Spared
<1>o. \A k \in Hands : hand[k].at = "store" /\ hand'[k].at = "store" => hand'[k] = hand[k]
  BY <1>h
<1>n. \A m \in Letters : \A k \in Moving(m) : k \in Moving(m)'
  BY <1>h DEF Moving
<1>1. Boxes'
  BY <1>t, <1>f, ThinBoxes
<1>2. UidsUnique'
  BY <1>t DEF Thins
<1>3. HandsOK'
  <2>1. \A k \in Hands \ {h} : HandOK(k)'
    BY <1>t, <1>f, <1>h, ThinHand DEF HandsOK
  <2>2. HandOK(h)'
    BY <1>h, <1>f, <1>u DEF HandsOK, HandOK
  <2> QED BY <1>h, <2>1, <2>2 DEF HandsOK
<1>4. LettersSafe'
  BY <1>t, <1>f, <1>m, <1>s, <1>u, ThinSafe
<1>5. LettersOnce'
  BY <1>t, <1>f, <1>m, <1>o, <1>u, <1>n, ThinOnce
<1>6. DraftKept'
  BY <1>t, <1>f, <1>h, <1>u, ThinDraft DEF HandsOK
<1> QED BY <1>1, <1>2, <1>3, <1>4, <1>5, <1>6

(* A move cut off has copied and not flagged; a save cut off is remembered.  *)
LEMMA CutOffStep == ASSUME DraftsApart, WFIndInv, NEW h \in Hands, CutOff(h) PROVE WFIndInv'
<1> USE DraftsApart, WFAssumption, RestingIsIdle DEF WFIndInv, DraftsApart, CutOff, Proceeds
<1>h. /\ DOMAIN hand' = Hands /\ hand' = [k \in Hands |-> hand'[k]]
      /\ \A k \in Hands \ {h} : hand'[k] = hand[k]
      /\ hand'[h].at = "idle"
  BY DEF HandsOK
<1>c. UNCHANGED <<box, uid, saves, discarded, answered, mailid>>
  OBVIOUS
<1>d. /\ torn' = IF hand[h].at = "store" THEN torn \cup {hand[h].msg} ELSE torn
      /\ dropped' = (dropped \/ (hand[h].at \in {"expunge", "push"} /\ hand[h].uid # 0))
  OBVIOUS
<1>e. hand[h].at = "store" => hand[h].msg \in Letters
  BY DEF HandsOK, HandOK
<1> HIDE DEF CutOff, Proceeds
<1>1. Boxes'
  BY <1>c, <1>d, <1>e DEF Boxes
<1>2. UidsUnique'
  BY <1>c DEF UidsUnique
<1>3. HandsOK'
  BY <1>c, <1>h DEF HandsOK, HandOK
<1>a. \A m \in Letters : m \in torn' => m \in torn \/ Moving(m) # {}
  BY <1>d DEF Moving
<1>m. \A m \in Letters : Moving(m)' \subseteq Moving(m)
  BY <1>h DEF Moving
<1>s. \A v : Spared(v) => Spared(v)'
  BY <1>h DEF Spared
<1>4. LettersSafe'
  BY <1>a, <1>m, <1>s, <1>c DEF LettersSafe, EverHere, Safe
<1>5. LettersOnce'
  <2> SUFFICES ASSUME NEW m \in Letters, m \notin torn'
               PROVE  m \notin torn /\ Moving(m)' = Moving(m)
                           /\ \A k \in Moving(m) : hand'[k] = hand[k]
    BY <1>c DEF LettersOnce
  <2>1. hand[h].at = "store" => hand[h].msg # m
    BY <1>d
  <2>2. h \notin Moving(m)
    BY <2>1 DEF Moving
  <2> QED BY <1>d, <1>h, <2>2 DEF Moving
<1>6. DraftKept'
  BY <1>c, <1>d, <1>h DEF DraftKept, Seen
<1> QED BY <1>1, <1>2, <1>3, <1>4, <1>5, <1>6

(* A move copies: the copy is as safe as what it copies was.                 *)
LEMMA CopyOneStep ==
  ASSUME DraftsApart, WFIndInv, NEW h \in Hands, hand[h].at = "copy",
         NEW x \in Copies(hand[h].from, {hand[h].uid}), AddCopy(hand[h].to, x.msg, x.dead),
         Proceeds(h, [at |-> "store", from |-> hand[h].from, uid |-> x.uid, msg |-> x.msg]),
         torn' = IF Moving(x.msg) # {} THEN torn \cup {x.msg} ELSE torn,
         UNCHANGED <<mailid, saves, answered, discarded, dropped>>
  PROVE  WFIndInv'
<1> USE DraftsApart, WFAssumption DEF WFIndInv
<1>x. /\ hand[h].from \in Folders \ {Drafts} /\ hand[h].to \in Folders \ {Drafts}
      /\ x \in box[hand[h].from] /\ x \in CopyOK /\ x.dead \in BOOLEAN
      /\ x.msg \in Letters /\ x.uid \in 1..uid
  BY DEF HandsOK, HandOK, Copies, Boxes, CopyOK
<1>v. PICK z : z.msg = x.msg /\ z.dead = x.dead /\ Adds(hand[h].to, z)
  BY <1>x, AddCopyAdds
<1>w. /\ box' \in [Folders -> SUBSET CopyOK]
      /\ uid' = uid + 1 /\ uid' \in 1..MaxCopy
      /\ z.uid = uid + 1 /\ z.msg = x.msg /\ z.dead = x.dead
      /\ z \in box'[hand[h].to]
      /\ \A e \in Folders : \A y \in box[e] : y \in box'[e]
      /\ \A e \in Folders : \A y \in box'[e] : y \in box[e] \/ (e = hand[h].to /\ y = z)
      /\ UidsUnique'
  BY <1>v DEF Adds
<1>h. /\ DOMAIN hand' = Hands /\ hand' = [k \in Hands |-> hand'[k]]
      /\ \A k \in Hands \ {h} : hand'[k] = hand[k]
      /\ hand'[h].at = "store" /\ hand'[h].from = hand[h].from
      /\ hand'[h].uid = x.uid /\ hand'[h].msg = x.msg
  BY DEF HandsOK, Proceeds
<1>b. \A e \in Folders : \A y \in box[e] : y.uid \in 1..uid
  BY DEF Boxes
<1>n. uid \in Nat
  BY DEF Boxes
<1>t. torn \subseteq torn' /\ torn' \subseteq torn \cup {x.msg}
  OBVIOUS
<1>1. Boxes'
  <2>1. \A e \in Folders : \A y \in box'[e] :
          y.uid \in 1..uid' /\ (e = Drafts => y.msg \in 1..saves)
               /\ (e # Drafts => y.msg \in Letters)
    BY <1>w, <1>x, <1>n DEF Boxes
  <2> QED BY <1>w, <1>x, <1>n, <1>t, <2>1 DEF Boxes
<1>2. UidsUnique'
  BY <1>w
<1>3. HandsOK'
  <2>1. ASSUME NEW k \in Hands \ {h} PROVE HandOK(k)'
    <3>1. HandOK(k) /\ hand'[k] = hand[k]
      BY <1>h DEF HandsOK
    <3>2. hand[k].at = "store" => \A e \in Folders : \A y \in box'[e] : y.uid = hand[k].uid =>
         e = hand[k].from
      BY <1>w, <1>n, <3>1 DEF HandOK
    <3>3. 1..uid \subseteq 1..uid'
      BY <1>w, <1>n
    <3> QED BY <3>1, <3>2, <3>3 DEF HandOK
  <2>2. \A e \in Folders : \A y \in box'[e] : y.uid = x.uid => e = hand[h].from
    BY <1>w, <1>x, <1>n DEF UidsUnique
  <2>3. HandOK(h)'
    BY <1>h, <1>x, <1>w, <1>n, <2>2 DEF HandOK
  <2> QED BY <1>h, <2>1, <2>3 DEF HandsOK
<1>m. /\ \A m \in Letters \ {x.msg} : Moving(m)' = Moving(m)
      /\ Moving(x.msg)' = Moving(x.msg) \cup {h}
  BY <1>h DEF Moving
<1>4. LettersSafe'
  <2> SUFFICES ASSUME NEW m \in Letters, EverHere(m)', m \notin discarded PROVE Safe(m)'
    BY DEF LettersSafe
  <2>1. EverHere(m)
    BY <1>w, <1>m, <1>t, <1>x DEF EverHere
  <2>2. PICK e \in Folders : \E y \in box[e] : y.msg = m /\ ~y.dead /\ Spared(y.uid)
    BY <2>1 DEF LettersSafe, Safe
  <2>3. PICK y \in box[e] : y.msg = m /\ ~y.dead /\ Spared(y.uid)
    BY <2>2
  <2>4. CASE y.uid # x.uid
    <3>1. Spared(y.uid)'
      BY <1>h, <2>3, <2>4 DEF Spared
    <3> QED BY <1>w, <2>3, <3>1 DEF Safe
  <2>5. CASE y.uid = x.uid
    <3>1. y = x
      BY <1>x, <2>5 DEF UidsUnique
    <3>2. Spared(z.uid)'
      <4>1. \A k \in Hands : hand[k].at = "store" => hand[k].uid \in 1..uid
        BY DEF HandsOK, HandOK
      <4> QED BY <1>h, <1>x, <1>w, <1>n, <4>1 DEF Spared
    <3> QED BY <1>w, <1>x, <1>n, <2>3, <3>1, <3>2 DEF Safe
  <2> QED BY <2>4, <2>5
<1>5. LettersOnce'
  <2> SUFFICES ASSUME NEW m \in Letters, m \notin torn'
               PROVE /\ \A j, k \in Moving(m)' : j = k
                     /\ \A f, g \in Folders : \A y \in box'[f], e \in box'[g] :
                          /\ y.msg = m /\ ~y.dead /\ (\A k \in Moving(m)' : hand'[k].uid # y.uid)
                          /\ e.msg = m /\ ~e.dead /\ (\A k \in Moving(m)' : hand'[k].uid # e.uid)
                          => y = e
    BY DEF LettersOnce
  <2>1. CASE m # x.msg
    <3>1. Moving(m)' = Moving(m) /\ \A k \in Moving(m) : hand'[k] = hand[k]
      BY <1>h, <1>x, <1>m, <2>1 DEF Moving
    <3>2. \A g \in Folders : \A y \in box'[g] : y.msg = m => y \in box[g]
      BY <1>w, <2>1
    <3> QED BY <1>t, <3>1, <3>2 DEF LettersOnce
  <2>2. CASE m = x.msg
    <3>1. Moving(m) = {} /\ Moving(m)' = {h}
      BY <1>m, <2>2
    <3>2. ASSUME NEW f \in Folders, NEW y \in box'[f], y.msg = m, ~y.dead, y.uid # x.uid
          PROVE  IF x.dead THEN y \in box[f] ELSE y = z
      <4>1. CASE x.dead
        BY <1>w, <3>2, <4>1
      <4>2. CASE ~x.dead
        <5>1. y \in box[f] => y = x
          BY <1>x, <1>t, <2>2, <3>1, <3>2, <4>2 DEF LettersOnce
        <5> QED BY <1>w, <3>2, <4>2, <5>1
      <4> QED BY <4>1, <4>2
    <3>3. ASSUME NEW f \in Folders, NEW g \in Folders, NEW y \in box'[f], NEW e \in box'[g],
                 y.msg = m, ~y.dead, y.uid # x.uid, e.msg = m, ~e.dead, e.uid # x.uid
          PROVE  y = e
      <4>1. CASE x.dead
        <5>1. y \in box[f] /\ e \in box[g]
          BY <3>2, <3>3, <4>1
        <5> QED BY <1>t, <3>1, <3>3, <5>1 DEF LettersOnce
      <4>2. CASE ~x.dead
        BY <3>2, <3>3, <4>2
      <4> QED BY <4>1, <4>2
    <3> QED BY <1>h, <3>1, <3>3
  <2> QED BY <2>1, <2>2
<1>6. DraftKept'
  <2>1. \A y \in Seen(Drafts) : y \in Seen(Drafts)'
    BY <1>w DEF Seen
  <2>2. \A k \in Hands : hand[k].at \in {"expunge", "push"} => hand'[k] = hand[k]
    BY <1>h
  <2> QED BY <2>1, <2>2 DEF DraftKept
<1> QED BY <1>1, <1>2, <1>3, <1>4, <1>5, <1>6

(* A move goes on, or ends because its message is gone.                      *)
LEMMA CopyMailStep == ASSUME DraftsApart, WFIndInv, NEW h \in Hands, CopyMail(h) PROVE WFIndInv'
<1>1. CASE Proceeds(h, Resting) /\ UNCHANGED <<box, uid, torn>>
  <2> USE <1>1, RestingIsIdle DEF CopyMail
  <2> USE DEF WFIndInv
  <2> USE DraftsApart, WFAssumption, RestingIsIdle DEF WFIndInv, DraftsApart
  <2>1. Boxes'
    BY DEF Boxes
  <2>2. UidsUnique'
    BY DEF UidsUnique
  <2>3. HandsOK'
    BY DEF HandsOK, HandOK, Boxes, Proceeds
  <2>a. \A m \in Letters : Moving(m)' = Moving(m)
    BY DEF Moving, HandsOK, Proceeds
  <2>b. \A k \in Hands : hand[k].at = "store" \/ hand'[k].at = "store" => hand'[k] = hand[k]
    BY DEF HandsOK, Proceeds
  <2>c. UNCHANGED <<box, torn, discarded, answered, dropped>>
    OBVIOUS
  <2>4. LettersSafe'
    BY ONLY <2>a, <2>b, <2>c, LettersSafe DEF LettersSafe, EverHere, Safe, Spared
  <2>5. LettersOnce'
    <3>1. \A m \in Letters : \A k \in Moving(m) : hand'[k] = hand[k]
      BY <2>b DEF Moving
    <3> QED BY ONLY <2>a, <2>c, <3>1, LettersOnce DEF LettersOnce
  <2>6. DraftKept'
    BY DEF DraftKept, Seen, HandsOK, Proceeds
  <2> QED BY <2>1, <2>2, <2>3, <2>4, <2>5, <2>6
<1>2. CASE ~(Proceeds(h, Resting) /\ UNCHANGED <<box, uid, torn>>)
  BY <1>2, CopyOneStep DEF CopyMail
<1> QED BY <1>1, <1>2

(* A letter that nobody has seen arrives.                                    *)
LEMMA DeliverLetterStep ==
  ASSUME DraftsApart, WFIndInv, NEW m \in Letters, DeliverLetter(m) PROVE WFIndInv'
<1> USE DraftsApart, WFAssumption, RestingIsIdle DEF WFIndInv, DraftsApart, DeliverLetter
<1>x. m \in Letters /\ Inbox \in Folders
  BY DEF HandsOK, HandOK
<1>n. uid \in Nat /\ saves \in Nat
  BY DEF Boxes
<1>k. m \in Letters \cup Nat /\ FALSE \in BOOLEAN
  BY <1>x, <1>n
<1>v. PICK z : z.msg = m /\ z.dead = FALSE /\ Adds(Inbox, z)
  BY <1>x, <1>k, AddCopyAdds
<1>w. /\ box' \in [Folders -> SUBSET CopyOK]
      /\ uid' = uid + 1 /\ uid' \in 1..MaxCopy
      /\ z.uid = uid + 1 /\ z.msg = m /\ z.dead = FALSE
      /\ z \in box'[Inbox]
      /\ \A e \in Folders : \A y \in box[e] : y \in box'[e]
      /\ \A e \in Folders : \A y \in box'[e] : y \in box[e] \/ (e = Inbox /\ y = z)
      /\ UidsUnique'
  BY <1>v DEF Adds
<1>c. UNCHANGED <<saves, mailid, answered, torn, discarded, dropped>>
  OBVIOUS
<1>h. /\ DOMAIN hand' = Hands /\ hand' = [k \in Hands |-> hand'[k]]
      /\ UNCHANGED hand
  BY DEF HandsOK
<1>y. \A f \in Folders : \A x \in box[f] : x.msg # m
  OBVIOUS
<1> HIDE DEF DeliverLetter
<1>1. Boxes'
  <2>1. \A e \in Folders : \A y \in box'[e] :
          y.uid \in 1..uid' /\ (e = Drafts => y.msg \in 1..saves)
               /\ (e # Drafts => y.msg \in Letters)
    BY <1>w, <1>x, <1>n DEF Boxes
  <2> QED BY <1>w, <1>x, <1>n, <1>c, <2>1 DEF Boxes
<1>2. UidsUnique'
  BY <1>w
<1>s. \A k \in Hands : hand'[k].at = "store" \/ hand[k].at = "store" => hand'[k] = hand[k]
  BY <1>h
<1>3. HandsOK'
  <2>1. ASSUME NEW k \in Hands, hand'[k] = hand[k] PROVE HandOK(k)'
    <3>1. HandOK(k)
      BY DEF HandsOK
    <3>2. hand[k].at = "store" => \A e \in Folders : \A y \in box'[e] : y.uid = hand[k].uid =>
         e = hand[k].from
      BY <1>w, <1>n, <3>1 DEF HandOK
    <3>3. 1..uid \subseteq 1..uid'
      BY <1>w, <1>n
    <3> QED BY <1>c, <2>1, <3>1, <3>2, <3>3 DEF HandOK
  <2> QED BY <1>h, <2>1 DEF HandsOK, HandOK
<1>m. \A v \in Letters : Moving(v)' = Moving(v)
  BY <1>s, <1>h DEF Moving
<1>p. \A v : Spared(v)' <=> Spared(v)
  BY <1>s DEF Spared
<1>q. Spared(uid + 1)
  BY <1>n DEF Spared, HandsOK, HandOK
<1>4. LettersSafe'
  <2> SUFFICES ASSUME NEW v \in Letters, EverHere(v)', v \notin discarded PROVE Safe(v)'
    BY <1>c DEF LettersSafe
  <2>1. CASE EverHere(v)
    <3>1. Safe(v)
      BY <2>1 DEF LettersSafe
    <3> QED BY <1>w, <1>p, <3>1 DEF Safe
  <2>2. CASE ~EverHere(v)
    <3>1. v = m /\ z.msg = v
      BY <1>w, <1>m, <1>c, <2>2 DEF EverHere
    <3> QED BY <1>w, <1>x, <1>p, <1>q, <3>1 DEF Safe
  <2> QED BY <2>1, <2>2
<1>5. LettersOnce'
  <2>1. \A g \in Folders : \A y \in box'[g] : y.msg = m => y = z
    BY <1>w, <1>y
  <2>2. \A g \in Folders : \A y \in box'[g] : y.msg # m => y \in box[g]
    BY <1>w
  <2> QED BY <1>c, <1>h, <1>m, <2>1, <2>2 DEF LettersOnce
<1>6. DraftKept'
  <2>1. \A y \in Seen(Drafts) : y \in Seen(Drafts)'
    BY <1>w DEF Seen
  <2> QED BY <1>c, <1>h, <2>1 DEF DraftKept
<1> QED BY <1>1, <1>2, <1>3, <1>4, <1>5, <1>6

(* The version that is answered is there.                                    *)
LEMMA PushDraftStep == ASSUME DraftsApart, WFIndInv, NEW h \in Hands, PushDraft(h) PROVE WFIndInv'
<1> USE DraftsApart, WFAssumption, RestingIsIdle DEF WFIndInv, DraftsApart, PushDraft, Proceeds
<1>x. hand[h].msg \in 1..saves /\ Drafts \in Folders
  BY DEF HandsOK, HandOK
<1>n. uid \in Nat /\ saves \in Nat
  BY DEF Boxes
<1>k. hand[h].msg \in Letters \cup Nat /\ FALSE \in BOOLEAN
  BY <1>x, <1>n
<1>v. PICK z : z.msg = hand[h].msg /\ z.dead = FALSE /\ Adds(Drafts, z)
  BY <1>x, <1>k, AddCopyAdds
<1>w. /\ box' \in [Folders -> SUBSET CopyOK]
      /\ uid' = uid + 1 /\ uid' \in 1..MaxCopy
      /\ z.uid = uid + 1 /\ z.msg = hand[h].msg /\ z.dead = FALSE
      /\ z \in box'[Drafts]
      /\ \A e \in Folders : \A y \in box[e] : y \in box'[e]
      /\ \A e \in Folders : \A y \in box'[e] : y \in box[e] \/ (e = Drafts /\ y = z)
      /\ UidsUnique'
  BY <1>v DEF Adds
<1>c. UNCHANGED <<saves, mailid, torn, discarded, dropped>> /\ answered' = hand[h].msg
  OBVIOUS
<1>h. /\ DOMAIN hand' = Hands /\ hand' = [k \in Hands |-> hand'[k]]
      /\ (\A k \in Hands \ {h} : hand'[k] = hand[k])
      /\ hand[h].at = "push" /\ hand'[h].at = "idle"
  BY DEF HandsOK
<1> HIDE DEF PushDraft, Proceeds
<1>1. Boxes'
  <2>1. \A e \in Folders : \A y \in box'[e] :
          y.uid \in 1..uid' /\ (e = Drafts => y.msg \in 1..saves)
               /\ (e # Drafts => y.msg \in Letters)
    BY <1>w, <1>x, <1>n DEF Boxes
  <2> QED BY <1>w, <1>x, <1>n, <1>c, <2>1 DEF Boxes
<1>2. UidsUnique'
  BY <1>w
<1>s. \A k \in Hands : hand'[k].at = "store" \/ hand[k].at = "store" => hand'[k] = hand[k]
  BY <1>h
<1>3. HandsOK'
  <2>1. ASSUME NEW k \in Hands, hand'[k] = hand[k] PROVE HandOK(k)'
    <3>1. HandOK(k)
      BY DEF HandsOK
    <3>2. hand[k].at = "store" => \A e \in Folders : \A y \in box'[e] : y.uid = hand[k].uid =>
         e = hand[k].from
      BY <1>w, <1>n, <3>1 DEF HandOK
    <3>3. 1..uid \subseteq 1..uid'
      BY <1>w, <1>n
    <3> QED BY <1>c, <2>1, <3>1, <3>2, <3>3 DEF HandOK
  <2> QED BY <1>h, <2>1 DEF HandsOK, HandOK
<1>m. \A v \in Letters : Moving(v)' = Moving(v)
  BY <1>s, <1>h DEF Moving
<1>p. \A v : Spared(v)' <=> Spared(v)
  BY <1>s DEF Spared
<1>q. Spared(uid + 1)
  BY <1>n DEF Spared, HandsOK, HandOK
<1>4. LettersSafe'
  <2> SUFFICES ASSUME NEW v \in Letters, EverHere(v)', v \notin discarded PROVE Safe(v)'
    BY <1>c DEF LettersSafe
  <2>1. CASE EverHere(v)
    <3>1. Safe(v)
      BY <2>1 DEF LettersSafe
    <3> QED BY <1>w, <1>p, <3>1 DEF Safe
  <2>2. CASE ~EverHere(v)
    <3>1. v = hand[h].msg /\ z.msg = v
      BY <1>w, <1>m, <1>c, <2>2 DEF EverHere
    <3> QED BY <1>w, <1>x, <1>p, <1>q, <3>1 DEF Safe
  <2> QED BY <2>1, <2>2
<1>5. LettersOnce'
  <2>1. \A g \in Folders : \A y \in box'[g] : y.msg \in Letters => y \in box[g]
    BY <1>w, <1>x
  <2>2. \A m \in Letters : \A k \in Moving(m) : hand'[k] = hand[k]
    BY <1>s DEF Moving
  <2> QED BY <1>c, <1>m, <2>1, <2>2 DEF LettersOnce
<1>6. DraftKept'
  BY <1>w, <1>c DEF DraftKept, Seen
<1> QED BY <1>1, <1>2, <1>3, <1>4, <1>5, <1>6

(* The mail client flags a copy: the letter is discarded.                    *)
LEMMA ClientFlagsOneStep ==
  ASSUME DraftsApart, WFIndInv, NEW f \in Folders, NEW x \in box[f], ClientFlags(f, x), ~x.dead
  PROVE  WFIndInv'
<1> USE WFAssumption DEF WFIndInv
<1>x. x \in CopyOK /\ ~x.dead
  BY DEF Boxes
<1> DEFINE w == [x EXCEPT !.dead = TRUE]
<1>y. w \in CopyOK /\ w.uid = x.uid /\ w.msg = x.msg /\ w.dead
  BY <1>x DEF CopyOK
<1>b. /\ box' \in [Folders -> SUBSET CopyOK]
      /\ box'[f] = (box[f] \ {x}) \cup {w}
      /\ \A g \in Folders \ {f} : box'[g] = box[g]
  <2>1. [x EXCEPT !.dead = ~@] = w
    BY <1>x DEF CopyOK
  <2>2. box' = [box EXCEPT ![f] = (box[f] \ {x}) \cup {w}]
    BY <2>1 DEF ClientFlags
  <2> QED BY <1>y, <2>2 DEF Boxes
<1>c. /\ UNCHANGED <<uid, hand, mailid, saves, answered, dropped, torn>>
      /\ discarded' = discarded \cup {x.msg}
  BY DEF ClientFlags
<1> HIDE DEF w
<1>d. \A g \in Folders : \A y \in box'[g] : (y \in box[g] /\ y # x) \/ (g = f /\ y = w)
  <2>1. \A g \in Folders : x \in box[g] => g = f
    BY DEF UidsUnique
  <2> QED BY <1>b, <2>1
<1>t. Thins(f, {x.uid})
  <2>1. ASSUME NEW g \in Folders, NEW y \in box'[g]
        PROVE  \E z \in box[g] : z.uid = y.uid /\ z.msg = y.msg
                                 /\ (~y.dead => z = y /\ ~(g = f /\ z.uid \in {x.uid}))
    <3>1. CASE y \in box[g] /\ y # x
      BY <3>1 DEF UidsUnique
    <3>2. CASE g = f /\ y = w
      BY <1>y, <3>2
    <3> QED BY <1>d, <3>1, <3>2
  <2>2. \A g \in Folders : \A z \in box[g] : ~z.dead /\ ~(g = f /\ z.uid \in {x.uid}) =>
       z \in box'[g]
    BY <1>b
  <2>3. UidsUnique'
    BY <1>d, <1>y DEF UidsUnique
  <2> QED BY <1>b, <2>1, <2>2, <2>3 DEF Thins
<1>m. (\A m \in Letters : Moving(m)' = Moving(m)) /\ (\A v : Spared(v)' <=> Spared(v))
  BY <1>c DEF Moving, Spared
<1>u. \A y \in box[f] : y.uid \in {x.uid} => y.msg \in discarded'
  BY <1>c DEF UidsUnique
<1>1. Boxes'
  BY <1>t, <1>c, ThinBoxes
<1>2. UidsUnique'
  BY <1>t DEF Thins
<1>3. HandsOK'
  <2>1. \A k \in Hands : HandOK(k)'
    BY <1>t, <1>c, ThinHand DEF HandsOK
  <2> QED BY <1>c, <2>1 DEF HandsOK
<1>4. LettersSafe'
  BY <1>t, <1>c, <1>m, <1>u, ThinSafe
<1>5. LettersOnce'
  BY <1>t, <1>c, <1>m, ThinOnce
<1>6. DraftKept'
  BY <1>t, <1>c, <1>u, ThinDraft
<1> QED BY <1>1, <1>2, <1>3, <1>4, <1>5, <1>6

(* ... or takes the flag away again.                                         *)
LEMMA ClientUnflagsStep ==
  ASSUME DraftsApart, WFIndInv, NEW f \in Folders, NEW x \in box[f], ClientFlags(f, x), x.dead
  PROVE  WFIndInv'
<1> USE WFAssumption DEF WFIndInv
<1> DEFINE z == [x EXCEPT !.dead = ~@]
<1>x. x \in CopyOK /\ x.dead /\ x.msg \in Letters \cup 1..saves
  BY DEF Boxes
<1>y. z \in CopyOK /\ z.uid = x.uid /\ z.msg = x.msg /\ ~z.dead
  BY <1>x DEF CopyOK
<1>b. /\ box' \in [Folders -> SUBSET CopyOK]
      /\ box'[f] = (box[f] \ {x}) \cup {z}
      /\ \A g \in Folders \ {f} : box'[g] = box[g]
  BY <1>y DEF ClientFlags, Boxes
<1>c. /\ UNCHANGED <<uid, hand, mailid, saves, answered, dropped, discarded>>
      /\ torn' = torn \cup {x.msg}
  BY DEF ClientFlags
<1> HIDE DEF z
<1>d. /\ \A g \in Folders : \A y \in box'[g] : (y \in box[g] /\ y # x) \/ (g = f /\ y = z)
      /\ \A g \in Folders : \A y \in box[g] : y # x => y \in box'[g]
  <2>1. \A g \in Folders : x \in box[g] => g = f
    BY DEF UidsUnique
  <2> QED BY <1>b, <2>1
<1>m. (\A m \in Letters : Moving(m)' = Moving(m)) /\ (\A v : Spared(v)' <=> Spared(v))
  BY <1>c DEF Moving, Spared
<1>1. Boxes'
  <2>1. \A e \in Folders : \A y \in box'[e] :
          y.uid \in 1..uid /\ (e = Drafts => y.msg \in 1..saves)
               /\ (e # Drafts => y.msg \in Letters)
    BY <1>d, <1>y DEF Boxes
  <2> QED BY <1>b, <1>c, <1>x, <2>1 DEF Boxes
<1>2. UidsUnique'
  BY <1>d, <1>y DEF UidsUnique
<1>3. HandsOK'
  <2>1. \A g \in Folders : \A y \in box'[g] : \E e \in box[g] : e.uid = y.uid
    BY <1>d, <1>y
  <2> QED BY <1>c, <2>1 DEF HandsOK, HandOK
<1>4. LettersSafe'
  <2> SUFFICES ASSUME NEW m \in Letters, EverHere(m)', m \notin discarded PROVE Safe(m)'
    BY <1>c DEF LettersSafe
  <2>1. EverHere(m)
    BY <1>c, <1>d, <1>m, <1>y DEF EverHere
  <2>2. Safe(m)
    BY <2>1 DEF LettersSafe
  <2>3. PICK g \in Folders : \E y \in box[g] : y.msg = m /\ ~y.dead /\ Spared(y.uid)
    BY <2>2 DEF Safe
  <2> QED BY <1>d, <1>m, <1>x, <2>3 DEF Safe
<1>5. LettersOnce'
  <2>1. \A m \in Letters \ torn' : \A g \in Folders : \A y \in box'[g] : y.msg = m => y \in box[g]
    BY <1>c, <1>d, <1>y
  <2> QED BY <1>c, <1>m, <2>1 DEF LettersOnce
<1>6. DraftKept'
  <2>1. \A y \in Seen(Drafts) : y \in Seen(Drafts)'
    BY <1>d, <1>x DEF Seen
  <2> QED BY <1>c, <2>1 DEF DraftKept
<1> QED BY <1>1, <1>2, <1>3, <1>4, <1>5, <1>6

(* Every command of a request, whatever goes on between them.                *)
LEMMA WFStepKeeps == ASSUME DraftsApart, WFIndInv, [WFNext]_wfVars PROVE WFIndInv'
<1>1. CASE UNCHANGED wfVars
  BY <1>1 DEF wfVars, WFIndInv, Boxes, UidsUnique, HandsOK, HandOK, LettersSafe, EverHere, Safe,
       Spared,
       LettersOnce, Moving, DraftKept, Seen
<1>2. ASSUME NEW h \in Hands,
             \/ CopyMail(h) \/ FlagMoved(h) \/ CutOff(h)
             \/ SaveDraft(h) \/ DropDraft(h) \/ ExpungeDrafts(h) \/ PushDraft(h)
             \/ SearchTrash(h) \/ FlagTrash(h) \/ Compact(h)
             \/ \E f, g \in Folders : \E x \in box[f] : StartMove(h, f, x, g)
             \/ \E f \in Folders : StartCompact(h, f)
      PROVE  WFIndInv'
  BY <1>2, CopyMailStep, FlagMovedStep, CutOffStep, SaveDraftStep, DropDraftStep, ExpungeDraftsStep,
     PushDraftStep, SearchTrashStep, FlagTrashStep, CompactStep, StartMoveStep, StartCompactStep
<1>3. ASSUME NEW f \in Folders, NEW x \in box[f], ClientFlags(f, x) PROVE WFIndInv'
  BY <1>3, ClientFlagsOneStep, ClientUnflagsStep
<1>4. ASSUME WFNext PROVE WFIndInv'
  BY <1>2, <1>3, <1>4, OpenFormStep, DeliverLetterStep DEF WFNext
<1> QED BY <1>1, <1>4

(* A set whose members are all the same one has one at most.                 *)
LEMMA OneAtMost == ASSUME NEW S, \A x, y \in S : x = y PROVE Cardinality(S) <= 1
<1>1. CASE S = {}
  BY <1>1, FS_EmptySet
<1>2. CASE S # {}
  <2>1. PICK x \in S : TRUE
    BY <1>2
  <2>2. S = {x}
    BY <2>1
  <2> QED BY <2>2, FS_Singleton
<1> QED BY <1>1, <1>2

(* move, empty, compress and the saves of drafts (webmail/lib/imaputils.py,   *)
(* webmail/api): in any order, with the user's mail client and deliveries in *)
(* between and cut off anywhere, no letter and no draft that was answered is *)
(* lost, and a letter is seen once.                                          *)
THEOREM MailIsKept == ASSUME DraftsApart PROVE WFSpec => []FoldersInv
<1>1. ASSUME WFInit PROVE WFIndInv
  <2> USE <1>1, WFAssumption, RestingIsIdle DEF WFInit
  <2>1. Boxes
    BY DEF Boxes
  <2>2. UidsUnique /\ HandsOK
    BY DEF UidsUnique, HandsOK, HandOK
  <2>3. \A m \in Letters : Moving(m) = {}
    BY DEF Moving
  <2>4. LettersSafe /\ LettersOnce
    BY <2>3 DEF LettersSafe, LettersOnce, EverHere
  <2>5. DraftKept
    BY DEF DraftKept
  <2> QED BY <2>1, <2>2, <2>4, <2>5 DEF WFIndInv
<1>2. WFIndInv /\ [WFNext]_wfVars => WFIndInv'
  BY WFStepKeeps
<1>3. ASSUME WFIndInv PROVE FoldersInv
  <2> USE <1>3 DEF WFIndInv
  <2>1. WFTypeOK
    <3>1. ASSUME NEW f \in Folders, NEW x \in box[f]
          PROVE  x \in [uid : 1..uid, msg : Letters \cup 1..saves, dead : BOOLEAN]
      BY DEF Boxes, CopyOK
    <3> QED BY <3>1 DEF WFTypeOK, Boxes
  <2>2. MailStays
    <3>1. \A m \in Letters : Safe(m) => Visible(m) # {}
      BY DEF Safe, Visible
    <3> QED BY <3>1 DEF MailStays, LettersSafe, EverHere
  <2>3. SeenOnce
    <3> SUFFICES ASSUME NEW m \in Letters, m \notin torn, Moving(m) = {}
                 PROVE  Cardinality({x \in UNION {Seen(f) : f \in Folders} : x.msg = m}) <= 1
      BY DEF SeenOnce
    <3> DEFINE S == {x \in UNION {Seen(f) : f \in Folders} : x.msg = m}
    <3>1. \A x \in S : x.msg = m /\ \E f \in Folders : x \in box[f] /\ ~x.dead
      BY DEF Seen
    <3>2. \A x, y \in S : x = y
      BY <3>1 DEF LettersOnce
    <3> HIDE DEF S
    <3>3. Cardinality(S) <= 1
      BY <3>2, OneAtMost
    <3> QED BY <3>3 DEF S
  <2> QED BY <2>1, <2>2, <2>3 DEF FoldersInv
<1> QED BY <1>1, <1>2, <1>3, PTL DEF WFSpec

-----------------------------------------------------------------------------
(* The log of Postfix (MailLog).                                            *)

LogLines == [kind : {"queued", "status", "reject"}, id : QueueIds \cup {"NOQUEUE"},
             domain : LocalNames \cup {Elsewhere}, at : 0 .. MaxSeconds]
ParserSet == [pc : {"parsing", "graphs"}, from : 1 .. MaxLines + 1, next : 1 .. MaxLines + 1,
              todo : SUBSET (RrdFiles \X Minutes)]

(* What Counts, Data and Written say of a log lg that a run reads from line  *)
(* b on, and has read up to line n.                                          *)
CountsIn(lg, b, i) ==
  \/ lg[i].kind = "reject"
  \/ lg[i].kind = "status" /\ \E k \in b .. i : lg[k].kind = "queued" /\ lg[k].id = lg[i].id
About(lg, i, f, t) == f \in {lg[i].domain, "global"} /\ Minute(lg[i].at) = t
DataIn(lg, b, n, f, t) == {i \in b .. (n - 1) : CountsIn(lg, b, i) /\ About(lg, i, f, t)}
WrittenIn(lg, f, t) == {i \in 1 .. Len(lg) : lg[i].kind # "queued" /\ About(lg, i, f, t)}

(* The lines of a minute that a run has read to its end, or that this run or *)
(* the next would count.                                                     *)
DueLines(lg, rd, b, f, t) ==
  {i \in WrittenIn(lg, f, t) : i \in rd \/ (i >= b /\ CountsIn(lg, b, i))}

(* Where the run began, or the next one will.                                *)
Base == IF parser.pc = "idle" THEN Upper(starts) ELSE parser.from

-----------------------------------------------------------------------------
(* Types, the order of the log, and where its files begin.                   *)
MLTyped ==
  /\ MLogTypeOK
  /\ log \in Seq(LogLines) /\ Len(log) <= MaxLines
  /\ parser \in ParserSet \cup {NoRun}
  /\ parser.pc # "idle" =>
       /\ parser.from <= parser.next /\ parser.next <= Len(log) + 1
       /\ \A s \in starts : s > parser.from => parser.next <= s
  /\ \A f \in RrdFiles : rrd[f].first = Never => rrd[f].last = Never

Sorted(lg) == \A i, j \in 1 .. Len(lg) : i <= j => lg[i].at <= lg[j].at

StartsOK ==
  /\ \E u \in starts : \A y \in starts : y <= u
  /\ \A n \in Nat : \A x \in starts :
       x > n => \E s \in starts : s > n /\ \A u \in starts : u > n => s <= u
  /\ \A s \in starts : s \in 1 .. (Len(log) + 1)
  /\ parser.pc # "idle" => \E s \in starts : parser.from <= s

(* A file begins in a minute that counts as cut.                             *)
FilesCut ==
  \A s \in starts : s = 1 \/
    \E r \in Minutes : /\ r <= Minute(second)
                       /\ RrdFiles \X {r} \subseteq cut
                       /\ \A i \in 1 .. Len(log) : /\ i < s => Minute(log[i].at) <= r
                                                   /\ i >= s => r <= Minute(log[i].at)

-----------------------------------------------------------------------------
(* The table of messages.                                                    *)
Covered(lg, st, i) ==
  \E k \in 1 .. Len(lg) : st[k] = 1 /\ lg[k].id = lg[i].id /\ lg[k].at = lg[i].at
IsRead(lg, b, i) == lg[i].kind = "status" /\ CountsIn(lg, b, i)

StoredIs ==
  \A k \in 1 .. MaxLines :
    stored[k] # 0 => stored[k] = 1 /\ k <= Len(log) /\ log[k].kind = "status"
(* Before a message in the table, nothing that is read again is missing.     *)
StoredBelow ==
  \A k \in 1 .. Len(log) : stored[k] = 1 =>
    \A i \in 1 .. Len(log) : i < k /\ i >= Base /\ IsRead(log, Base, i) => Covered(log, stored, i)
LinesCovered ==
  parser.pc # "idle" =>
    \A i \in parser.from .. (parser.next - 1) :
      IsRead(log, parser.from, i) => Covered(log, stored, i)
TableOK == StoredIs /\ StoredBelow /\ LinesCovered /\ ReadIsStored

-----------------------------------------------------------------------------
(* The RRD files.                                                            *)
ReadPassed ==
  \A f \in RrdFiles, t \in Minutes : read \cap WrittenIn(log, f, t) # {} => t <= rrd[f].last
(* A minute that a file has passed has all that will ever be counted for it. *)
PassedCounted ==
  \A f \in RrdFiles, t \in Minutes :
    t <= rrd[f].last /\ <<f, t>> \notin cut /\ t # rrd[f].first =>
      Cardinality(DueLines(log, read, Base, f, t)) <= rrd[f].count[t]
LastCut ==
  \A f \in RrdFiles :
    /\ rrd[f].last <= Minute(second)
    /\ rrd[f].last = Minute(second) => <<f, Minute(second)>> \in cut
CountsBounded ==
  \A f \in RrdFiles, t \in Minutes : rrd[f].count[t] <= Cardinality(WrittenIn(log, f, t))

HasData(f, t) == DataIn(log, parser.from, parser.next, f, t) # {}
GraphsOK ==
  parser.pc = "graphs" =>
    /\ \A f \in RrdFiles, t \in Minutes :
          HasData(f, t) => <<f, t>> \in parser.todo \/ t <= rrd[f].last
    /\ \A f \in RrdFiles, t \in Minutes : <<f, t>> \in parser.todo => HasData(f, t)
    /\ \A i \in parser.next .. Len(log), f \in RrdFiles :
         HasData(f, Minute(log[i].at)) => <<f, Minute(log[i].at)>> \in cut
    /\ \A f \in RrdFiles : HasData(f, Minute(second)) => <<f, Minute(second)>> \in cut
FilesOK == ReadPassed /\ PassedCounted /\ LastCut /\ CountsBounded /\ GraphsOK

MLIndInv == MLTyped /\ Sorted(log) /\ StartsOK /\ FilesCut /\ TableOK /\ FilesOK

-----------------------------------------------------------------------------
(* A second of the log lies in one of its minutes.                           *)
LEMMA MinuteIs ==
  ASSUME NEW s \in 0 .. MaxSeconds
  PROVE  Minute(s) \in Minutes /\ Minute(s) \in Nat
BY MailLogAssumption DEF Minute, Minutes

(* Minutes follow seconds.                                                   *)
LEMMA MinutesGrow ==
  ASSUME NEW s \in Nat, NEW u \in Nat, s <= u
  PROVE  Minute(s) <= Minute(u)
BY MailLogAssumption DEF Minute

(* The parser that does nothing is no record of a run.                       *)
LEMMA NoRunPc == NoRun.pc = "idle"
BY DEF NoRun

(* Where a run of the parser may be.                                         *)
LEMMA RunIs ==
  ASSUME MLTyped, parser.pc # "idle"
  PROVE  /\ parser \in ParserSet /\ parser.from \in Nat /\ parser.next \in Nat
         /\ parser.from >= 1 /\ parser.from <= parser.next /\ parser.next <= Len(log) + 1
         /\ \A s \in starts : s > parser.from => parser.next <= s
BY NoRunPc, MailLogAssumption DEF MLTyped, ParserSet

(* A run of the parser is not the parser that does nothing.                  *)
LEMMA RunPc == ASSUME NEW r \in ParserSet PROVE r.pc # "idle" /\ r # NoRun
BY NoRunPc DEF ParserSet

(* What the lines of the log are, and their minutes.                         *)
LEMMA LinesAre ==
  ASSUME MLTyped
  PROVE  /\ Len(log) \in Nat /\ Len(log) <= MaxLines /\ DOMAIN log = 1 .. Len(log)
         /\ \A i \in 1 .. Len(log) :
              /\ log[i] \in LogLines /\ log[i].at \in Nat /\ log[i].at <= second
              /\ Minute(log[i].at) \in Minutes /\ Minute(log[i].at) \in Nat
              /\ Minute(log[i].at) <= Minute(second)
         /\ second \in Nat /\ Minute(second) \in Minutes /\ Minute(second) \in Nat
<1>1. Len(log) \in Nat /\ DOMAIN log = 1 .. Len(log)
  BY DEF MLTyped
<1>2. second \in 0 .. MaxSeconds /\ second \in Nat
  BY MailLogAssumption DEF MLTyped, MLogTypeOK
<1>3. \A i \in 1 .. Len(log) : log[i] \in LogLines /\ log[i].at <= second
  BY <1>1 DEF MLTyped, MLogTypeOK
<1>4. \A x \in LogLines : x.at \in 0 .. MaxSeconds
  BY DEF LogLines
<1> QED BY <1>1, <1>2, <1>3, <1>4, MinuteIs, MinutesGrow, MailLogAssumption DEF MLTyped

(* The module's operators, in these terms.                                   *)
LEMMA InTheseTerms ==
  ASSUME MLTyped
  PROVE  /\ \A f, t : Written(f, t) = WrittenIn(log, f, t)
         /\ \A i : Counts(i) <=> CountsIn(log, parser.from, i)
         /\ \A f, t : Data(f, t) = DataIn(log, parser.from, parser.next, f, t)
<1>1. \A f, t : Written(f, t) = WrittenIn(log, f, t)
  BY LinesAre DEF Written, WrittenIn, About
<1>2. \A i : Counts(i) <=> CountsIn(log, parser.from, i)
  BY DEF Counts, Known, CountsIn
<1>3. \A f, t : Data(f, t) = DataIn(log, parser.from, parser.next, f, t)
  BY <1>2 DEF Data, Lines, CountsFor, DataIn, About
<1> QED BY <1>1, <1>2, <1>3

(* Sets of lines are finite.                                                 *)
LEMMA LineSets ==
  ASSUME NEW n \in Nat, NEW S, S \subseteq 1 .. n
  PROVE  /\ IsFiniteSet(S) /\ Cardinality(S) \in Nat /\ Cardinality(S) <= n
         /\ \A T : T \subseteq S => Cardinality(T) \in Nat /\ Cardinality(T) <= Cardinality(S)
<1>1. IsFiniteSet(1 .. n) /\ Cardinality(1 .. n) = n
  BY FS_Interval
<1>2. IsFiniteSet(S) /\ Cardinality(S) <= n /\ Cardinality(S) \in Nat
  BY <1>1, FS_Subset, FS_CardinalityType
<1> QED BY <1>2, FS_Subset, FS_CardinalityType

(* Minutes are numbers.                                                      *)
LEMMA MinutesAre == Minute(MaxSeconds) \in Nat /\ Minutes \subseteq Nat
<1>1. MaxSeconds \in 0 .. MaxSeconds
  BY MailLogAssumption
<1>2. Minute(MaxSeconds) \in Nat
  BY <1>1, MinuteIs
<1> QED BY <1>2 DEF Minutes

RrdFile == [first : Minutes \cup {Never}, last : Minutes \cup {Never},
            count : [Minutes -> 0 .. MaxLines]]

(* What a file of statistics holds.                                          *)
LEMMA FileIs ==
  ASSUME MLTyped, NEW f \in RrdFiles
  PROVE  /\ rrd[f] \in RrdFile /\ rrd[f].first \in Int /\ rrd[f].last \in Int
         /\ rrd[f].first <= rrd[f].last
         /\ \A t \in Minutes : rrd[f].count[t] \in 0 .. MaxLines /\ rrd[f].count[t] \in Nat
         /\ rrd[f].first = Never => rrd[f].last = Never
<1>1. rrd[f] \in RrdFile
  BY DEF MLTyped, MLogTypeOK, RrdFile
<1>2. \A t \in Minutes : rrd[f].count[t] \in 0 .. MaxLines
  BY <1>1 DEF RrdFile
<1> QED BY <1>1, <1>2, MailLogAssumption DEF MLTyped, MLogTypeOK, RrdFile, Minutes, Never

(* The last of the starts is one of them.                                    *)
LEMMA UpperIs ==
  ASSUME StartsOK
  PROVE  Upper(starts) \in starts /\ \A y \in starts : y <= Upper(starts)
BY DEF StartsOK, Upper

(* A file ends with the log, or where the next one begins.                   *)
LEMMA EndIs ==
  ASSUME MLTyped, StartsOK, parser.pc # "idle"
  PROVE  /\ EndOfFile \in Nat /\ EndOfFile <= Len(log) /\ parser.next <= EndOfFile + 1
         /\ EndOfFile = Len(log) \/ (EndOfFile + 1 \in starts /\ EndOfFile + 1 > parser.from)
         /\ \A s \in starts : s > parser.from => EndOfFile + 1 <= s
<1> DEFINE later == {s \in starts : s > parser.from}
<1>1. parser.from \in Nat /\ Len(log) \in Nat /\ parser.next <= Len(log) + 1
  BY RunIs, LinesAre
<1>2. CASE later = {}
  <2>1. EndOfFile = Len(log)
    BY <1>2 DEF EndOfFile
  <2> QED BY <1>1, <1>2, <2>1
<1>3. CASE later # {}
  <2>1. \E s \in later : \A u \in later : s <= u
    BY <1>1, <1>3 DEF StartsOK
  <2>2. PICK s \in later : s = (CHOOSE x \in later : \A u \in later : x <= u)
    BY <2>1
  <2>3. EndOfFile = s - 1
    BY <1>3, <2>2 DEF EndOfFile
  <2>4. s \in 1 .. (Len(log) + 1) /\ parser.next <= s
    BY RunIs DEF StartsOK
  <2>5. \A u \in later : s <= u
    BY <2>1, <2>2
  <2> QED BY <1>1, <2>3, <2>4, <2>5
<1> QED BY <1>2, <1>3

(* Where a run begins, or the next one will.                                 *)
LEMMA BaseIs ==
  ASSUME MLTyped, StartsOK
  PROVE  Base \in Nat /\ Base >= 1 /\ Base <= Upper(starts)
<1>1. Upper(starts) \in 1 .. (Len(log) + 1) /\ \A y \in starts : y <= Upper(starts)
  BY UpperIs DEF StartsOK
<1>2. CASE parser.pc = "idle"
  BY <1>1, <1>2, LinesAre DEF Base
<1>3. CASE parser.pc # "idle"
  <2>1. parser.from \in Nat /\ parser.from >= 1
    BY <1>3, RunIs
  <2>2. PICK s \in starts : parser.from <= s
    BY <1>3 DEF StartsOK
  <2>3. s \in 1 .. (Len(log) + 1)
    BY DEF StartsOK
  <2> QED BY <1>1, <1>3, <2>1, <2>2, <2>3, LinesAre DEF Base
<1> QED BY <1>2, <1>3

-----------------------------------------------------------------------------
(* What a longer log says of the lines it had already.                       *)
Longer(lg, new) ==
  /\ Len(lg) \in Nat /\ Len(new) \in Nat /\ Len(lg) <= Len(new)
  /\ \A i \in 1 .. Len(lg) : new[i] = lg[i]

(* A line counts for a run as it did when the log was shorter,               *)
LEMMA SameCounts ==
  ASSUME NEW lg, NEW new, Longer(lg, new), NEW b \in Nat, b >= 1, NEW i \in 1 .. Len(lg)
  PROVE  CountsIn(new, b, i) <=> CountsIn(lg, b, i)
BY DEF Longer, CountsIn

(* and is about the same domain and minute;                                  *)
LEMMA SameAbout ==
  ASSUME NEW lg, NEW new, Longer(lg, new), NEW i \in 1 .. Len(lg), NEW f, NEW t
  PROVE  About(new, i, f, t) <=> About(lg, i, f, t)
BY DEF Longer, About

(* so what a run has counted stays,                                          *)
LEMMA SameData ==
  ASSUME NEW lg, NEW new, Longer(lg, new), NEW b \in Nat, b >= 1, NEW n \in Nat,
         n <= Len(lg) + 1, NEW f, NEW t
  PROVE  DataIn(new, b, n, f, t) = DataIn(lg, b, n, f, t)
<1>1. \A i \in b .. (n - 1) : i \in 1 .. Len(lg)
  BY DEF Longer
<1> QED BY <1>1, SameCounts, SameAbout DEF DataIn

(* and what is written only grows, by the new lines.                         *)
LEMMA MoreWritten ==
  ASSUME NEW lg, NEW new, Longer(lg, new), NEW f, NEW t
  PROVE  /\ WrittenIn(lg, f, t) \subseteq WrittenIn(new, f, t)
         /\ WrittenIn(new, f, t) \cap (1 .. Len(lg)) \subseteq WrittenIn(lg, f, t)
<1>1. \A i \in 1 .. Len(lg) : i \in 1 .. Len(new) /\ new[i] = lg[i]
  BY DEF Longer
<1> QED BY <1>1, SameAbout DEF WrittenIn

(* A later file knows fewer messages.                                        *)
LEMMA LessCounted ==
  ASSUME NEW lg, NEW b \in Nat, NEW c \in Nat, b <= c, NEW i, CountsIn(lg, c, i), i \in Nat
  PROVE  CountsIn(lg, b, i)
BY DEF CountsIn

(* A run that begins later counts fewer lines.                               *)
LEMMA LessDue ==
  ASSUME NEW lg, NEW rd, NEW b \in Nat, NEW c \in Nat, b <= c, NEW f, NEW t
  PROVE  DueLines(lg, rd, c, f, t) \subseteq DueLines(lg, rd, b, f, t)
<1> SUFFICES ASSUME NEW i \in DueLines(lg, rd, c, f, t) PROVE i \in DueLines(lg, rd, b, f, t)
  OBVIOUS
<1>1. i \in WrittenIn(lg, f, t) /\ i \in Nat
  BY DEF DueLines, WrittenIn
<1>2. CASE i \in rd
  BY <1>1, <1>2 DEF DueLines
<1>3. CASE i >= c /\ CountsIn(lg, c, i)
  BY <1>1, <1>3, LessCounted DEF DueLines
<1> QED BY <1>2, <1>3 DEF DueLines

(* A line that is covered in the table stays covered.                        *)
LEMMA StillCovered ==
  ASSUME NEW lg, NEW new, Longer(lg, new), NEW st, NEW more,
         \A k \in 1 .. Len(lg) : st[k] = 1 => more[k] = 1,
         NEW i \in 1 .. Len(lg), Covered(lg, st, i)
  PROVE  Covered(new, more, i)
<1>1. \A k \in 1 .. Len(lg) : k \in 1 .. Len(new) /\ new[k] = lg[k]
  BY DEF Longer
<1> QED BY <1>1 DEF Covered

(* A line that a run would read, it reads when the log is longer.            *)
LEMMA SameIsRead ==
  ASSUME NEW lg, NEW new, Longer(lg, new), NEW b \in Nat, b >= 1, NEW i \in 1 .. Len(lg)
  PROVE  IsRead(new, b, i) <=> IsRead(lg, b, i)
BY SameCounts DEF IsRead, Longer

(* The table, when no line is stored and none read to the end.               *)
LEMMA TableKept ==
  ASSUME MLIndInv, Longer(log, log'), Len(log') <= MaxLines, DOMAIN log' = 1 .. Len(log'),
         stored' = stored, read' = read, Base' \in Nat, Base <= Base',
         parser'.pc # "idle" =>
           \/ parser'.from \in Nat /\ parser'.next = parser'.from
           \/ parser.pc # "idle" /\ parser'.from = parser.from /\ parser'.next = parser.next
  PROVE  TableOK'
<1> USE DEF MLIndInv, TableOK
<1>1. Base \in Nat /\ Base >= 1 /\ Len(log) \in Nat /\ Len(log) <= MaxLines
      /\ DOMAIN log = 1 .. Len(log) /\ Len(log') \in Nat
  BY BaseIs, LinesAre DEF Longer
<1>2. StoredIs'
  BY <1>1 DEF StoredIs, Longer
<1>3. \A i \in 1 .. Len(log) : Covered(log, stored, i) => Covered(log', stored', i)
  BY StillCovered
<1>4. StoredBelow'
  <2> SUFFICES ASSUME NEW k \in 1 .. Len(log'), stored'[k] = 1, NEW i \in 1 .. Len(log'), i < k,
                      i >= Base', IsRead(log', Base', i)
               PROVE  Covered(log', stored', i)
    BY DEF StoredBelow
  <2>1. k \in 1 .. MaxLines /\ stored[k] = 1
    BY <1>1, MailLogAssumption
  <2>2. k \in 1 .. Len(log) /\ i \in 1 .. Len(log) /\ i >= Base
    BY <1>1, <2>1 DEF StoredIs
  <2>3. IsRead(log, Base', i)
    BY <1>1, <2>2, SameIsRead
  <2>4. IsRead(log, Base, i)
    BY <1>1, <2>2, <2>3, LessCounted DEF IsRead
  <2> QED BY <1>3, <2>1, <2>2, <2>4 DEF StoredBelow
<1>5. LinesCovered'
  <2> SUFFICES ASSUME parser'.pc # "idle", NEW i \in parser'.from .. (parser'.next - 1),
                      IsRead(log', parser'.from, i)
               PROVE  Covered(log', stored', i)
    BY DEF LinesCovered
  <2>1. CASE parser'.from \in Nat /\ parser'.next = parser'.from
    BY <2>1
  <2>2. CASE parser.pc # "idle" /\ parser'.from = parser.from /\ parser'.next = parser.next
    <3>1. i \in 1 .. Len(log) /\ parser.from \in Nat /\ parser.from >= 1
      BY <1>1, <2>2, RunIs
    <3> QED BY <1>3, <2>2, <3>1, SameIsRead DEF LinesCovered
  <2> QED BY <2>1, <2>2
<1>6. ReadIsStored'
  <2> SUFFICES ASSUME NEW i \in read', log'[i].kind = "status"
               PROVE  Covered(log', stored', i)
    BY <1>1 DEF ReadIsStored, Covered
  <2>1. i \in 1 .. Len(log) /\ log'[i] = log[i]
    BY <1>1 DEF MLTyped, MLogTypeOK, Longer
  <2>2. Covered(log, stored, i)
    BY <1>1, <2>1 DEF ReadIsStored, Covered
  <2> QED BY <1>3, <2>1, <2>2
<1> QED BY <1>2, <1>4, <1>5, <1>6

(* Lines about a minute are lines of the log.                                *)
LEMMA WrittenSets ==
  ASSUME MLTyped, NEW f, NEW t, NEW rd, NEW b
  PROVE  /\ WrittenIn(log, f, t) \subseteq 1 .. Len(log) /\ Len(log) \in Nat
         /\ DueLines(log, rd, b, f, t) \subseteq WrittenIn(log, f, t)
BY LinesAre DEF WrittenIn, DueLines

(* The RRD files, when neither they nor the log nor what was read change.    *)
LEMMA FilesKept ==
  ASSUME MLIndInv, log' = log, rrd' = rrd, read' = read, cut \subseteq cut',
         Base' \in Nat, Base <= Base', Minute(second') \in Nat, Minute(second) <= Minute(second')
  PROVE  ReadPassed' /\ PassedCounted' /\ LastCut' /\ CountsBounded'
<1> USE DEF MLIndInv, FilesOK
<1>1. ReadPassed' /\ CountsBounded'
  BY DEF ReadPassed, CountsBounded
<1>2. PassedCounted'
  <2> SUFFICES ASSUME NEW f \in RrdFiles, NEW t \in Minutes, t <= rrd'[f].last,
                      <<f, t>> \notin cut', t # rrd'[f].first
               PROVE  Cardinality(DueLines(log', read', Base', f, t)) <= rrd'[f].count[t]
    BY DEF PassedCounted
  <2>1. DueLines(log, read, Base', f, t) \subseteq DueLines(log, read, Base, f, t)
    BY BaseIs, LessDue
  <2>2. DueLines(log, read, Base, f, t) \subseteq 1 .. Len(log) /\ Len(log) \in Nat
    BY WrittenSets
  <2>3. /\ Cardinality(DueLines(log, read, Base', f, t)) \in Nat
        /\ Cardinality(DueLines(log, read, Base, f, t)) \in Nat
        /\ Cardinality(DueLines(log, read, Base', f, t)) <=
             Cardinality(DueLines(log, read, Base, f, t))
    BY <2>1, <2>2, LineSets
  <2>4. Cardinality(DueLines(log, read, Base, f, t)) <= rrd[f].count[t]
    BY DEF PassedCounted
  <2>5. rrd[f].count[t] \in Int
    BY FileIs
  <2> QED BY <2>3, <2>4, <2>5
<1>3. LastCut'
  <2> SUFFICES ASSUME NEW f \in RrdFiles
               PROVE  /\ rrd'[f].last <= Minute(second')
                      /\ rrd'[f].last = Minute(second') => <<f, Minute(second')>> \in cut'
    BY DEF LastCut
  <2>1. rrd[f].last \in Int /\ Minute(second) \in Int
    BY FileIs, LinesAre
  <2>2. /\ rrd[f].last <= Minute(second)
        /\ rrd[f].last = Minute(second) => <<f, Minute(second)>> \in cut
    BY DEF LastCut
  <2>3. CASE Minute(second') = Minute(second)
    BY <2>1, <2>2, <2>3
  <2>4. CASE Minute(second') # Minute(second)
    BY <2>1, <2>2, <2>4
  <2> QED BY <2>3, <2>4
<1> QED BY <1>1, <1>2, <1>3

-----------------------------------------------------------------------------
(* A function on the first numbers is a sequence.                            *)
LEMMA SequenceOf ==
  ASSUME NEW S, NEW k \in Nat, NEW g \in [1 .. k -> S]
  PROVE  g \in Seq(S) /\ Len(g) = k /\ DOMAIN g = 1 .. k
OBVIOUS

(* The invariant holds when the log has only queued messages.                *)
LEMMA MLInitially == ASSUME MLogInit PROVE MLIndInv
<1> USE MailLogAssumption DEF MLogInit
<1>1. PICK ids \in [1 .. Cardinality(QueueIds) -> QueueIds] :
        log = [i \in DOMAIN ids |-> Queued(ids[i], 0)]
  OBVIOUS
<1>2. Cardinality(QueueIds) \in Nat
  BY FS_CardinalityType
<1> DEFINE n == Cardinality(QueueIds)
<1>3. \A i \in 1 .. n : log[i] = Queued(ids[i], 0) /\ log[i] \in LogLines /\ log[i].kind = "queued"
                        /\ log[i].at = 0
  BY <1>1 DEF Queued, LogLines
<1>4. log \in Seq(LogLines) /\ Len(log) = n /\ DOMAIN log = 1 .. n
  <2>1. log = [i \in 1 .. n |-> Queued(ids[i], 0)]
    BY <1>1
  <2>2. log \in [1 .. n -> LogLines]
    BY <1>3, <2>1
  <2> HIDE DEF n, MLogInit
  <2>3. n \in Nat
    BY <1>2 DEF n
  <2> QED BY ONLY <2>2, <2>3, SequenceOf
<1>5. 0 \in Minutes /\ Minute(second) = 0 /\ Minutes \subseteq Nat
  <2>1. 0 \in 0 .. MaxSeconds
    OBVIOUS
  <2>2. Minute(0) = 0
    BY DEF Minute
  <2> QED BY <2>1, <2>2, MinuteIs DEF Minutes
<1> HIDE DEF n
<1>6. MLTyped
  <2>1. MLogTypeOK
    <3>1. rrd \in [RrdFiles -> [first : Minutes \cup {Never}, last : Minutes \cup {Never},
                               count : [Minutes -> 0 .. MaxLines]]]
      BY DEF Never
    <3>2. \A f \in RrdFiles : rrd[f].first <= rrd[f].last
      BY DEF Never
    <3>3. \A i \in DOMAIN log :
          /\ log[i].kind \in {"queued", "status", "reject"}
          /\ log[i].at <= second
      BY <1>3, <1>4 DEF n
    <3>4. stored \in [1 .. MaxLines -> Nat]
      OBVIOUS
    <3>5. second \in 0 .. MaxSeconds /\ starts \subseteq 1 .. MaxLines + 1 /\ runs \in 0 .. MaxRuns
      OBVIOUS
    <3> QED BY <3>1, <3>2, <3>3, <3>4, <3>5, NoRunPc DEF MLogTypeOK
  <2> QED BY <1>4, <2>1, NoRunPc DEF MLTyped, n
<1>7. Sorted(log) /\ StartsOK /\ FilesCut
  BY <1>2, <1>3, <1>4, NoRunPc DEF Sorted, StartsOK, FilesCut, n
<1>8. TableOK
  BY <1>2, <1>3, <1>4, NoRunPc DEF TableOK, StoredIs, StoredBelow, LinesCovered, ReadIsStored, n
<1>9. \A f, t : WrittenIn(log, f, t) = {}
  BY <1>3, <1>4 DEF WrittenIn
<1>10. FilesOK
  <2>1. ReadPassed /\ PassedCounted /\ LastCut /\ GraphsOK
    BY <1>5, NoRunPc DEF ReadPassed, PassedCounted, LastCut, GraphsOK, Never
  <2>2. CountsBounded
    <3> SUFFICES ASSUME NEW f \in RrdFiles, NEW t \in Minutes
                 PROVE  rrd[f].count[t] <= Cardinality(WrittenIn(log, f, t))
      BY DEF CountsBounded
    <3>1. Cardinality(WrittenIn(log, f, t)) = 0
      BY <1>9, FS_EmptySet
    <3>2. rrd[f].count[t] = 0
      OBVIOUS
    <3> QED BY <3>1, <3>2
  <2> QED BY <2>1, <2>2 DEF FilesOK
<1> QED BY <1>6, <1>7, <1>8, <1>10 DEF MLIndInv

-----------------------------------------------------------------------------
(* A log that does not change is as long as it was.                          *)
LEMMA SameLog == ASSUME MLTyped, log' = log PROVE Longer(log, log')
BY LinesAre DEF Longer

(* When a run is over, the next begins where the last file does.             *)
LEMMA BasesGrow ==
  ASSUME MLTyped, StartsOK, starts' = starts, parser'.pc = "idle"
  PROVE  Base' \in Nat /\ Base <= Base' /\ Base' = Upper(starts)
<1>1. Base' = Upper(starts)
  BY DEF Base
<1> QED BY <1>1, BaseIs, UpperIs, LinesAre DEF StartsOK

(* A second passes: a minute that begins is in no file yet.                  *)
LEMMA ClockStep == ASSUME MLIndInv, ClockTick PROVE MLIndInv'
<1> USE DEF MLIndInv, ClockTick
<1>1. second \in 0 .. MaxSeconds /\ second + 1 \in 0 .. MaxSeconds /\ second \in Nat
  BY MailLogAssumption, LinesAre DEF MLTyped, MLogTypeOK
<1>2. Minute(second') \in Nat /\ Minute(second) <= Minute(second') /\ Minute(second') \in Minutes
  BY <1>1, MinuteIs, MinutesGrow
<1>3. MLTyped'
  <2>1. MLogTypeOK'
    <3>1. \A i \in DOMAIN log : log[i].at <= second'
      BY <1>1, LinesAre
    <3> QED BY <1>1, <3>1 DEF MLTyped, MLogTypeOK
  <2> QED BY <2>1 DEF MLTyped
<1>4. Sorted(log)' /\ StartsOK'
  BY DEF StartsOK
<1>5. FilesCut'
  <2> SUFFICES ASSUME NEW s \in starts, s # 1
               PROVE  \E r \in Minutes :
                         /\ r <= Minute(second')
                         /\ RrdFiles \X {r} \subseteq cut
                         /\ \A i \in 1 .. Len(log) : /\ i < s => Minute(log[i].at) <= r
                                                     /\ i >= s => r <= Minute(log[i].at)
    BY DEF FilesCut
  <2>1. PICK r \in Minutes :
          /\ r <= Minute(second)
          /\ RrdFiles \X {r} \subseteq cut
          /\ \A i \in 1 .. Len(log) : /\ i < s => Minute(log[i].at) <= r
                                      /\ i >= s => r <= Minute(log[i].at)
    BY DEF FilesCut
  <2>2. r <= Minute(second')
    BY <1>2, <2>1, LinesAre DEF Minutes
  <2> QED BY <2>1, <2>2
<1>6. Base' = Base
  BY DEF Base
<1>7. TableOK'
  BY <1>6, SameLog, BaseIs, LinesAre, RunIs, TableKept
<1>8. ReadPassed' /\ PassedCounted' /\ LastCut' /\ CountsBounded'
  BY <1>2, <1>6, BaseIs, FilesKept
<1>9. GraphsOK'
  <2> SUFFICES ASSUME parser.pc = "graphs", NEW f \in RrdFiles, HasData(f, Minute(second'))
               PROVE  <<f, Minute(second')>> \in cut
    BY DEF GraphsOK, HasData, FilesOK
  <2>1. PICK i \in parser.from .. (parser.next - 1) : About(log, i, f, Minute(second'))
    BY DEF HasData, DataIn
  <2>2. i \in 1 .. Len(log)
    BY RunIs, LinesAre
  <2>3. Minute(log[i].at) = Minute(second') /\ Minute(log[i].at) <= Minute(second)
        /\ Minute(log[i].at) \in Nat /\ Minute(second) \in Nat
    BY <2>1, <2>2, LinesAre DEF About
  <2>4. Minute(second') = Minute(second)
    BY <1>2, <2>3
  <2> QED BY <2>4 DEF GraphsOK, FilesOK
<1> QED BY <1>3, <1>4, <1>5, <1>7, <1>8, <1>9 DEF FilesOK

(* What is known of the starts of files, when none is added,                 *)
LEMMA StartsSame ==
  ASSUME StartsOK, starts' = starts, log' = log,
         parser'.pc # "idle" => \E s \in starts : parser'.from <= s
  PROVE  StartsOK'
BY DEF StartsOK

(* and of the minutes in which files begin.                                  *)
LEMMA FilesCutSame ==
  ASSUME FilesCut, starts' = starts, log' = log, second' = second, cut \subseteq cut'
  PROVE  FilesCut'
BY DEF FilesCut

(* A run begins at the last file.                                            *)
LEMMA StartStep == ASSUME MLIndInv, Start PROVE MLIndInv'
<1> USE DEF MLIndInv, Start
<1>1. /\ Upper(starts) \in starts /\ Upper(starts) \in 1 .. (Len(log) + 1) /\ Len(log) \in Nat
      /\ \A y \in starts : y <= Upper(starts)
      /\ Len(log) <= MaxLines /\ MaxLines \in Nat
  BY UpperIs, LinesAre, MailLogAssumption DEF StartsOK
<1>2. parser' \in ParserSet /\ parser'.pc = "parsing" /\ parser'.from = Upper(starts)
      /\ parser'.next = Upper(starts)
  BY <1>1 DEF ParserSet
<1>3. MLTyped'
  <2>1. MLogTypeOK'
    BY <1>2, MailLogAssumption DEF MLTyped, MLogTypeOK
  <2>2. \A s \in starts : s > parser'.from => parser'.next <= s
    <3>1. \A s \in starts : s \in Nat /\ s <= Upper(starts)
      BY <1>1 DEF StartsOK
    <3> QED BY <1>1, <1>2, <3>1
  <2> QED BY <1>1, <1>2, <2>1, <2>2 DEF MLTyped
<1>4. Sorted(log)' /\ StartsOK' /\ FilesCut'
  BY <1>1, <1>2, StartsSame, FilesCutSame
<1>5. Base' = Base
  BY <1>2 DEF Base
<1>6. TableOK'
  BY <1>1, <1>2, <1>5, SameLog, BaseIs, LinesAre, TableKept
<1>7. ReadPassed' /\ PassedCounted' /\ LastCut' /\ CountsBounded'
  BY <1>5, BaseIs, LinesAre, FilesKept
<1>8. GraphsOK'
  BY <1>2 DEF GraphsOK
<1> QED BY <1>3, <1>4, <1>6, <1>7, <1>8 DEF FilesOK

(* A run is killed: what it had not stored is read again.                    *)
LEMMA RunKilled == ASSUME MLIndInv, Killed PROVE MLIndInv'
<1> USE DEF MLIndInv, Killed
<1>1. parser'.pc = "idle"
  BY NoRunPc
<1>2. MLTyped'
  BY <1>1 DEF MLTyped, MLogTypeOK
<1>3. Sorted(log)' /\ StartsOK' /\ FilesCut'
  BY <1>1, StartsSame, FilesCutSame
<1>4. Base' \in Nat /\ Base <= Base'
  BY <1>1, BasesGrow
<1>5. TableOK'
  BY <1>1, <1>4, SameLog, LinesAre, TableKept
<1>6. ReadPassed' /\ PassedCounted' /\ LastCut' /\ CountsBounded'
  BY <1>4, LinesAre, FilesKept
<1>7. GraphsOK'
  BY <1>1 DEF GraphsOK
<1> QED BY <1>2, <1>3, <1>5, <1>6, <1>7 DEF FilesOK

(* The log is rotated: the minute in which it is counts as cut.              *)
LEMMA RotateStep == ASSUME MLIndInv, Rotate PROVE MLIndInv'
<1> USE DEF MLIndInv, Rotate
<1> DEFINE e == Len(log) + 1
<1>1. /\ Len(log) \in Nat /\ e \in Nat /\ Len(log) <= MaxLines /\ MaxLines \in Nat
      /\ \A s \in starts : s \in 1 .. e /\ s # e
  BY LinesAre, MailLogAssumption DEF StartsOK
<1>2. Minute(second) \in Minutes /\ Minute(second) \in Nat
  BY LinesAre
<1>3. MLTyped'
  <2>1. MLogTypeOK'
    <3>1. starts' \subseteq 1 .. MaxLines + 1
      BY <1>1
    <3>2. cut' \subseteq RrdFiles \X Minutes
      BY <1>2 DEF MLTyped, MLogTypeOK
    <3> QED BY <3>1, <3>2 DEF MLTyped, MLogTypeOK
  <2>2. parser.pc # "idle" => \A s \in starts' : s > parser.from => parser.next <= s
    BY RunIs
  <2> QED BY <2>1, <2>2 DEF MLTyped
<1>4. StartsOK'
  <2>1. \E u \in starts' : \A y \in starts' : y <= u
    BY <1>1
  <2>2. \A n \in Nat : \A x \in starts' :
          x > n => \E s \in starts' : s > n /\ \A u \in starts' : u > n => s <= u
    <3> SUFFICES ASSUME NEW n \in Nat, NEW x \in starts', x > n
                 PROVE  \E s \in starts' : s > n /\ \A u \in starts' : u > n => s <= u
      OBVIOUS
    <3>1. CASE \E y \in starts : y > n
      <4>1. PICK s \in starts : s > n /\ \A u \in starts : u > n => s <= u
        BY <3>1 DEF StartsOK
      <4> QED BY <1>1, <4>1
    <3>2. CASE ~\E y \in starts : y > n
      <4>1. x = e
        BY <3>2
      <4>2. \A u \in starts' : u > n => e <= u
        BY <1>1, <3>2
      <4> QED BY <4>1, <4>2
    <3> QED BY <3>1, <3>2
  <2>3. \A s \in starts' : s \in 1 .. (Len(log') + 1)
    BY <1>1
  <2> QED BY <2>1, <2>2, <2>3 DEF StartsOK
<1>5. FilesCut'
  <2> SUFFICES ASSUME NEW s \in starts', s # 1
               PROVE  \E r \in Minutes :
                         /\ r <= Minute(second)
                         /\ RrdFiles \X {r} \subseteq cut'
                         /\ \A i \in 1 .. Len(log) : /\ i < s => Minute(log[i].at) <= r
                                                     /\ i >= s => r <= Minute(log[i].at)
    BY DEF FilesCut
  <2>1. CASE s \in starts
    BY <2>1 DEF FilesCut
  <2>2. CASE s = e
    <3>1. RrdFiles \X {Minute(second)} \subseteq cut'
      OBVIOUS
    <3>2. \A i \in 1 .. Len(log) : ~(i >= s) /\ Minute(log[i].at) <= Minute(second)
      BY <1>1, <2>2, LinesAre
    <3> QED BY <1>2, <3>1, <3>2
  <2> QED BY <2>1, <2>2
<1>6. Base' \in Nat /\ Base <= Base'
  <2>1. CASE parser.pc = "idle"
    <3>1. Base' = Upper(starts')
      BY <2>1 DEF Base
    <3>2. Upper(starts') \in starts' /\ \A y \in starts' : y <= Upper(starts')
      BY <1>4 DEF StartsOK, Upper
    <3>3. Base \in starts
      BY <2>1, UpperIs DEF Base
    <3>4. Base \in starts' /\ \A y \in starts' : y \in Nat
      BY <1>1, <3>3
    <3>5. PICK m : m = Upper(starts')
      OBVIOUS
    <3>6. m \in Nat /\ Base <= m
      BY <3>2, <3>4, <3>5
    <3> QED BY <3>1, <3>5, <3>6
  <2>2. CASE parser.pc # "idle"
    BY <2>2, BaseIs DEF Base
  <2> QED BY <2>1, <2>2
<1>7. TableOK'
  BY <1>6, SameLog, LinesAre, TableKept
<1>8. ReadPassed' /\ PassedCounted' /\ LastCut' /\ CountsBounded'
  BY <1>2, <1>6, FilesKept
<1>9. GraphsOK'
  BY DEF GraphsOK, HasData, FilesOK
<1> QED BY <1>3, <1>4, <1>5, <1>7, <1>8, <1>9 DEF FilesOK

(* A line at the present second, whatever it says.                           *)
LEMMA WriteStep ==
  ASSUME MLIndInv, NEW line \in LogLines, line.at = second, Write(line)
  PROVE  MLIndInv'
<1> USE DEF MLIndInv, Write
<1> DEFINE e == Len(log) + 1
<1>1. /\ Len(log) \in Nat /\ Len(log) < MaxLines /\ MaxLines \in Nat /\ DOMAIN log = 1 .. Len(log)
      /\ second \in Nat /\ Minute(second) \in Nat /\ Minute(second) \in Minutes
  BY LinesAre, MailLogAssumption
<1>2. /\ log' \in Seq(LogLines) /\ Len(log') = e /\ DOMAIN log' = 1 .. e /\ log'[e] = line
      /\ \A i \in 1 .. Len(log) : log'[i] = log[i]
      /\ \A i \in 1 .. e : i = e \/ i \in 1 .. Len(log)
  BY <1>1 DEF MLTyped
<1>3. Longer(log, log')
  BY <1>1, <1>2 DEF Longer
<1>4. MLTyped'
  <2>1. \A i \in 1 .. e : log'[i].kind \in {"queued", "status", "reject"} /\ log'[i].at <= second
    <3>1. line.kind \in {"queued", "status", "reject"} /\ line.at <= second
      BY <1>1 DEF LogLines
    <3>2. \A i \in 1 .. Len(log) :
          /\ log[i].kind \in {"queued", "status", "reject"}
          /\ log[i].at <= second
      BY <1>1 DEF MLTyped, MLogTypeOK
    <3> QED BY <1>2, <3>1, <3>2
  <2>2. read \subseteq DOMAIN log'
    BY <1>1, <1>2 DEF MLTyped, MLogTypeOK
  <2>3. MLogTypeOK'
    BY <1>2, <2>1, <2>2 DEF MLTyped, MLogTypeOK
  <2>4. parser.pc # "idle" => parser.next <= Len(log') + 1
    BY <1>1, <1>2, RunIs
  <2> QED BY <1>1, <1>2, <2>3, <2>4 DEF MLTyped
<1>5. Sorted(log')
  <2> SUFFICES ASSUME NEW i \in 1 .. e, NEW j \in 1 .. e, i <= j
               PROVE  log'[i].at <= log'[j].at
    BY <1>2 DEF Sorted
  <2>1. CASE j = e
    BY <1>1, <1>2, <2>1, LinesAre
  <2>2. CASE j # e
    BY <1>1, <1>2, <2>2 DEF Sorted
  <2> QED BY <2>1, <2>2
<1>6. StartsOK'
  BY <1>1, <1>2 DEF StartsOK
<1>7. FilesCut'
  <2> SUFFICES ASSUME NEW s \in starts, s # 1
               PROVE  \E r \in Minutes :
                         /\ r <= Minute(second)
                         /\ RrdFiles \X {r} \subseteq cut
                         /\ \A i \in 1 .. e : /\ i < s => Minute(log'[i].at) <= r
                                              /\ i >= s => r <= Minute(log'[i].at)
    BY <1>2 DEF FilesCut
  <2>1. PICK r \in Minutes :
          /\ r <= Minute(second)
          /\ RrdFiles \X {r} \subseteq cut
          /\ \A i \in 1 .. Len(log) : /\ i < s => Minute(log[i].at) <= r
                                      /\ i >= s => r <= Minute(log[i].at)
    BY DEF FilesCut
  <2>2. ~(e < s) /\ r <= Minute(log'[e].at)
    BY <1>1, <1>2, <2>1 DEF StartsOK
  <2>3. \A i \in 1 .. e : /\ i < s => Minute(log'[i].at) <= r
                          /\ i >= s => r <= Minute(log'[i].at)
    BY <1>2, <2>1, <2>2
  <2> QED BY <2>1, <2>3
<1>8. Base' = Base
  BY DEF Base
<1>9. TableOK'
  BY <1>1, <1>2, <1>3, <1>8, BaseIs, RunIs, TableKept
<1>10. read \subseteq 1 .. Len(log)
  BY <1>1 DEF MLTyped, MLogTypeOK
<1>11. ReadPassed'
  <2> SUFFICES ASSUME NEW f \in RrdFiles, NEW t \in Minutes, read \cap WrittenIn(log', f, t) # {}
               PROVE  t <= rrd[f].last
    BY DEF ReadPassed
  <2>1. read \cap WrittenIn(log', f, t) \subseteq read \cap WrittenIn(log, f, t)
    BY <1>3, <1>10, MoreWritten
  <2> QED BY <2>1 DEF FilesOK, ReadPassed
<1>12. PassedCounted'
  <2> SUFFICES ASSUME NEW f \in RrdFiles, NEW t \in Minutes, t <= rrd[f].last, <<f, t>> \notin cut,
                      t # rrd[f].first
               PROVE  Cardinality(DueLines(log', read, Base, f, t)) <= rrd[f].count[t]
    BY <1>8 DEF PassedCounted
  <2>1. t # Minute(second)
    <3>1. rrd[f].last \in Int /\ t \in Int
      BY DEF MLTyped, MLogTypeOK, Minutes, Never
    <3> QED BY <1>1, <3>1 DEF FilesOK, LastCut
  <2>2. ASSUME NEW i \in DueLines(log', read, Base, f, t)
        PROVE  i \in DueLines(log, read, Base, f, t)
    <3>1. i \in WrittenIn(log', f, t) /\ i \in 1 .. e /\ About(log', i, f, t)
      BY <1>2, <2>2 DEF DueLines, WrittenIn
    <3>2. i # e
      BY <1>2, <2>1, <3>1 DEF About
    <3>3. i \in 1 .. Len(log) /\ i \in WrittenIn(log, f, t)
      BY <1>2, <1>3, <3>1, <3>2, MoreWritten
    <3>4. CountsIn(log', Base, i) <=> CountsIn(log, Base, i)
      BY <1>3, <3>3, BaseIs, SameCounts
    <3> QED BY <2>2, <3>3, <3>4 DEF DueLines
  <2>3. DueLines(log', read, Base, f, t) \subseteq DueLines(log, read, Base, f, t)
    BY <2>2
  <2>4. DueLines(log, read, Base, f, t) \subseteq 1 .. Len(log)
    BY WrittenSets
  <2>5. /\ Cardinality(DueLines(log', read, Base, f, t)) \in Nat
        /\ Cardinality(DueLines(log, read, Base, f, t)) \in Nat
        /\ Cardinality(DueLines(log', read, Base, f, t)) <=
             Cardinality(DueLines(log, read, Base, f, t))
    BY <1>1, <2>3, <2>4, LineSets
  <2>6. Cardinality(DueLines(log, read, Base, f, t)) <= rrd[f].count[t]
    BY DEF FilesOK, PassedCounted
  <2>7. rrd[f].count[t] \in Int
    BY DEF MLTyped, MLogTypeOK
  <2> QED BY <2>5, <2>6, <2>7
<1>13. LastCut'
  BY DEF LastCut, FilesOK
<1>14. CountsBounded'
  <2> SUFFICES ASSUME NEW f \in RrdFiles, NEW t \in Minutes
               PROVE  rrd[f].count[t] <= Cardinality(WrittenIn(log', f, t))
    BY DEF CountsBounded
  <2>1. WrittenIn(log, f, t) \subseteq WrittenIn(log', f, t)
    BY <1>3, MoreWritten
  <2>2. WrittenIn(log', f, t) \subseteq 1 .. e
    BY <1>2 DEF WrittenIn
  <2>3. /\ Cardinality(WrittenIn(log, f, t)) \in Nat
        /\ Cardinality(WrittenIn(log', f, t)) \in Nat
        /\ Cardinality(WrittenIn(log, f, t)) <= Cardinality(WrittenIn(log', f, t))
    <3>1. e \in Nat
      BY <1>1
    <3> QED BY <2>1, <2>2, <3>1, LineSets
  <2>4. rrd[f].count[t] <= Cardinality(WrittenIn(log, f, t))
    BY DEF FilesOK, CountsBounded
  <2>5. rrd[f].count[t] \in Int
    BY DEF MLTyped, MLogTypeOK
  <2> QED BY <2>3, <2>4, <2>5
<1>15. GraphsOK'
  <2> SUFFICES ASSUME parser.pc = "graphs" PROVE GraphsOK'
    BY DEF GraphsOK
  <2>1. \A f, t : HasData(f, t)' <=> HasData(f, t)
    BY <1>1, <1>3, RunIs, SameData DEF HasData
  <2>2. \A i \in parser.next .. Len(log') : i = e \/ i \in parser.next .. Len(log)
    BY <1>1, <1>2, RunIs
  <2>3. \A i \in parser.next .. Len(log) : log'[i] = log[i]
    BY <1>1, <1>2, RunIs
  <2>4. log'[e].at = second
    BY <1>2
  <2> QED BY <2>1, <2>2, <2>3, <2>4 DEF GraphsOK, FilesOK
<1> QED BY <1>4, <1>5, <1>6, <1>7, <1>9, <1>11, <1>12, <1>13, <1>14, <1>15 DEF FilesOK

(* A line is read: its row is stored if it is a status of a known message.   *)
LEMMA ReadStep == ASSUME MLIndInv, ReadLine PROVE MLIndInv'
<1> USE DEF MLIndInv
<1>0. PICK i : i = parser.next
  OBVIOUS
<1>1. /\ parser.pc = "parsing" /\ i <= EndOfFile /\ parser \in ParserSet
      /\ parser.from \in Nat /\ parser.from >= 1 /\ parser.from <= i /\ i \in Nat
      /\ Len(log) \in Nat /\ Len(log) <= MaxLines /\ EndOfFile <= Len(log) /\ EndOfFile \in Nat
      /\ \A s \in starts : s > parser.from => EndOfFile + 1 <= s
      /\ MaxLines \in Nat /\ DOMAIN log = 1 .. Len(log)
  BY <1>0, RunIs, LinesAre, EndIs, MailLogAssumption DEF ReadLine
<1>2. i \in 1 .. Len(log) /\ i \in 1 .. MaxLines
  BY <1>1
<1>3. /\ parser' = [parser EXCEPT !.next = i + 1]
      /\ UNCHANGED <<second, log, starts, runs, rrd, cut, read>>
  BY <1>0 DEF ReadLine, ParserSet
<1>4. /\ parser' \in ParserSet /\ parser'.pc = "parsing" /\ parser'.from = parser.from
      /\ parser'.next = i + 1
  BY <1>0, <1>1, <1>2, <1>3 DEF ParserSet
<1>5. IsRead(log, parser.from, i) <=> log[i].kind = "status" /\ Known(i)
  BY DEF IsRead, CountsIn, Known
<1>6. stored' = IF IsRead(log, parser.from, i) /\ ~StoredAlready(i)
                THEN [stored EXCEPT ![i] = @ + 1] ELSE stored
  BY <1>0, <1>5 DEF ReadLine
<1>7. stored \in [1 .. MaxLines -> Nat] /\ StoredIs
  BY DEF MLTyped, MLogTypeOK, TableOK
<1>8. ~StoredAlready(i) => stored[i] = 0
  BY <1>2, <1>7 DEF StoredAlready, StoredIs
<1>9. /\ stored' \in [1 .. MaxLines -> Nat]
      /\ \A k \in 1 .. MaxLines : k # i => stored'[k] = stored[k]
      /\ stored'[i] = IF IsRead(log, parser.from, i) /\ ~StoredAlready(i) THEN 1 ELSE stored[i]
  BY <1>2, <1>6, <1>7, <1>8
<1>10. \A k \in 1 .. Len(log) : stored[k] = 1 => stored'[k] = 1
  BY <1>1, <1>2, <1>9
<1>11. \A j \in 1 .. Len(log) : Covered(log, stored, j) => Covered(log, stored', j)
  BY <1>10 DEF Covered
<1>12. Base = parser.from /\ Base' = Base
  BY <1>1, <1>3, <1>4 DEF Base
<1>13. StoredIs'
  <2> SUFFICES ASSUME NEW k \in 1 .. MaxLines, stored'[k] # 0
               PROVE  stored'[k] = 1 /\ k <= Len(log) /\ log[k].kind = "status"
    BY <1>3 DEF StoredIs
  <2>1. CASE k = i
    BY <1>1, <1>2, <1>7, <1>9, <2>1 DEF StoredIs, IsRead
  <2>2. CASE k # i
    BY <1>7, <1>9, <2>2 DEF StoredIs
  <2> QED BY <2>1, <2>2
<1>14. \A j \in parser.from .. (i - 1) : IsRead(log, parser.from, j) => Covered(log, stored', j)
  <2> SUFFICES ASSUME NEW j \in parser.from .. (i - 1), IsRead(log, parser.from, j)
               PROVE  Covered(log, stored', j)
    OBVIOUS
  <2>1. j \in 1 .. Len(log)
    BY <1>1, <1>2
  <2>2. Covered(log, stored, j)
    BY <1>0, <1>1 DEF TableOK, LinesCovered
  <2> QED BY <1>11, <2>1, <2>2
<1>15. IsRead(log, parser.from, i) => Covered(log, stored', i)
  <2> SUFFICES ASSUME IsRead(log, parser.from, i) PROVE Covered(log, stored', i)
    OBVIOUS
  <2>1. CASE ~StoredAlready(i)
    <3>1. stored'[i] = 1
      BY <1>9, <2>1
    <3> QED BY <1>2, <3>1 DEF Covered
  <2>2. CASE StoredAlready(i)
    <3>1. PICK k \in 1 .. MaxLines :
            /\ stored[k] > 0
            /\ \/ log[k].at > log[i].at
               \/ log[k].at = log[i].at /\ log[k].id = log[i].id
      BY <2>2 DEF StoredAlready
    <3>2. stored[k] = 1 /\ k \in 1 .. Len(log)
      BY <1>1, <1>7, <3>1 DEF StoredIs
    <3>3. CASE log[k].at > log[i].at
      <4>1. i < k
        <5>1. log[k].at \in Nat /\ log[i].at \in Nat
          BY <1>2, <3>2, LinesAre
        <5> QED BY <1>1, <1>2, <3>2, <3>3, <5>1 DEF Sorted
      <4>2. Covered(log, stored, i)
        BY <1>1, <1>2, <1>12, <3>2, <4>1 DEF TableOK, StoredBelow
      <4> QED BY <1>2, <1>11, <4>2
    <3>4. CASE log[k].at = log[i].at /\ log[k].id = log[i].id
      BY <1>10, <3>2, <3>4 DEF Covered
    <3> QED BY <3>1, <3>3, <3>4
  <2> QED BY <2>1, <2>2
<1>16. StoredBelow'
  <2> SUFFICES ASSUME NEW k \in 1 .. Len(log), stored'[k] = 1, NEW j \in 1 .. Len(log), j < k,
                      j >= parser.from, IsRead(log, parser.from, j)
               PROVE  Covered(log, stored', j)
    BY <1>3, <1>12 DEF StoredBelow
  <2>1. CASE stored[k] = 1
    BY <1>11, <1>12, <2>1 DEF TableOK, StoredBelow
  <2>2. CASE stored[k] # 1
    <3>1. k = i
      BY <1>1, <1>9, <2>2
    <3> QED BY <1>1, <1>14, <3>1
  <2> QED BY <2>1, <2>2
<1>17. LinesCovered'
  <2>1. \A j \in parser.from .. i : j = i \/ j \in parser.from .. (i - 1)
    BY <1>1
  <2>2. \A j \in parser.from .. i : IsRead(log, parser.from, j) => Covered(log, stored', j)
    BY <1>14, <1>15, <2>1
  <2>3. (i + 1) - 1 = i
    BY <1>1
  <2> QED BY <1>3, <1>4, <2>2, <2>3 DEF LinesCovered
<1>18. ReadIsStored'
  <2> SUFFICES ASSUME NEW j \in read, log[j].kind = "status" PROVE Covered(log, stored', j)
    BY <1>1, <1>3 DEF ReadIsStored, Covered
  <2>1. j \in 1 .. Len(log)
    BY <1>1 DEF MLTyped, MLogTypeOK
  <2>2. Covered(log, stored, j)
    BY <1>1 DEF TableOK, ReadIsStored, Covered
  <2> QED BY <1>11, <2>1, <2>2
<1>19. MLTyped'
  <2>1. MLogTypeOK'
    BY <1>3, <1>4, <1>9 DEF MLTyped, MLogTypeOK
  <2>2. /\ parser'.from <= parser'.next /\ parser'.next <= Len(log) + 1
        /\ \A s \in starts : s > parser'.from => parser'.next <= s
    <3>1. \A s \in starts : s \in Nat
      BY <1>1 DEF StartsOK
    <3> QED BY <1>1, <1>4, <3>1
  <2> QED BY <1>3, <1>4, <2>1, <2>2 DEF MLTyped
<1>20. Sorted(log)' /\ StartsOK' /\ FilesCut'
  BY <1>1, <1>3, <1>4, StartsSame, FilesCutSame DEF StartsOK
<1>21. ReadPassed' /\ PassedCounted' /\ LastCut' /\ CountsBounded'
  BY <1>3, <1>12, BaseIs, LinesAre, FilesKept
<1>22. GraphsOK'
  BY <1>4 DEF GraphsOK
<1> QED BY <1>13, <1>16, <1>17, <1>18, <1>19, <1>20, <1>21, <1>22 DEF TableOK, FilesOK

(* At the end of the file: what is to be recorded, and which of it may grow. *)
LEMMA EndStep == ASSUME MLIndInv, EndReading PROVE MLIndInv'
<1> USE DEF MLIndInv
<1> DEFINE todo == {v \in RrdFiles \X Minutes : HasData(v[1], v[2])}
<1>1. /\ parser.pc = "parsing" /\ parser \in ParserSet
      /\ parser' = [parser EXCEPT !.pc = "graphs", !.todo = todo]
      /\ cut' = cut \cup {v \in RrdFiles \X {Minute(second)} : HasData(v[1], v[2])}
      /\ parser.next > EndOfFile
      /\ UNCHANGED <<second, log, starts, runs, rrd, stored, read>>
  <2>1. \A f, t : HasData(f, t) <=> Data(f, t) # {}
    BY InTheseTerms DEF HasData
  <2>2. /\ {v \in RrdFiles \X Minutes : Data(v[1], v[2]) # {}} = todo
        /\ {v \in RrdFiles \X {Minute(second)} : Data(v[1], v[2]) # {}}
             = {v \in RrdFiles \X {Minute(second)} : HasData(v[1], v[2])}
    BY <2>1
  <2>3. parser \in ParserSet
    BY RunIs DEF EndReading
  <2> QED BY <2>2, <2>3 DEF EndReading
<1>2. /\ parser.from \in Nat /\ parser.from >= 1 /\ parser.next \in Nat
      /\ parser.next <= Len(log) + 1 /\ Len(log) \in Nat
      /\ parser.next = EndOfFile + 1 /\ EndOfFile \in Nat
      /\ EndOfFile = Len(log) \/ (EndOfFile + 1 \in starts /\ EndOfFile + 1 > parser.from)
  BY <1>1, RunIs, LinesAre, EndIs
<1>3. /\ parser' \in ParserSet /\ parser'.pc = "graphs" /\ parser'.from = parser.from
      /\ parser'.next = parser.next /\ parser'.todo = todo
  BY <1>1 DEF ParserSet
<1>4. Base' = Base
  BY <1>1, <1>3 DEF Base
<1>5. Minute(second) \in Minutes /\ Minute(second) \in Nat
  BY LinesAre
<1>6. MLTyped'
  <2>1. cut' \subseteq RrdFiles \X Minutes
    BY <1>1, <1>5 DEF MLTyped, MLogTypeOK
  <2>2. MLogTypeOK'
    BY <1>1, <1>3, <2>1 DEF MLTyped, MLogTypeOK
  <2>3. \A s \in starts : s > parser.from => parser.next <= s
    BY <1>1, RunIs
  <2> QED BY <1>1, <1>3, <2>2, <2>3 DEF MLTyped
<1>7. Sorted(log)' /\ StartsOK' /\ FilesCut'
  BY <1>1, <1>3, StartsSame, FilesCutSame DEF StartsOK
<1>8. TableOK'
  BY <1>1, <1>3, <1>4, SameLog, BaseIs, LinesAre, TableKept
<1>9. ReadPassed' /\ PassedCounted' /\ LastCut' /\ CountsBounded'
  BY <1>1, <1>4, <1>5, BaseIs, FilesKept
<1>10. \A f, t : HasData(f, t)' <=> HasData(f, t)
  BY <1>1, <1>3 DEF HasData
<1>11. \A f \in RrdFiles : HasData(f, Minute(second)) => <<f, Minute(second)>> \in cut'
  BY <1>1
<1>12. ASSUME NEW i \in parser.next .. Len(log), NEW f \in RrdFiles,
              HasData(f, Minute(log[i].at))
       PROVE  <<f, Minute(log[i].at)>> \in cut'
  <2>1. i \in 1 .. Len(log) /\ i > EndOfFile
    BY <1>2
  <2>2. EndOfFile + 1 \in starts /\ EndOfFile + 1 > parser.from /\ EndOfFile + 1 # 1
    BY <1>2, <2>1
  <2>3. PICK r \in Minutes :
          /\ RrdFiles \X {r} \subseteq cut
          /\ \A j \in 1 .. Len(log) : /\ j < EndOfFile + 1 => Minute(log[j].at) <= r
                                      /\ j >= EndOfFile + 1 => r <= Minute(log[j].at)
    BY <2>2 DEF FilesCut
  <2>4. PICK j \in parser.from .. (parser.next - 1) : About(log, j, f, Minute(log[i].at))
    BY <1>12 DEF HasData, DataIn
  <2>5. j \in 1 .. Len(log) /\ j < EndOfFile + 1
    BY <1>2
  <2>6. Minute(log[j].at) = Minute(log[i].at) /\ Minute(log[j].at) <= r /\ r <= Minute(log[i].at)
    BY <1>2, <2>1, <2>3, <2>4, <2>5 DEF About
  <2>7. r = Minute(log[i].at)
    <3>1. Minute(log[i].at) \in Nat /\ r \in Int
      BY <2>1, LinesAre DEF Minutes
    <3> QED BY <2>6, <3>1
  <2> QED BY <1>1, <2>3, <2>7
<1>13. GraphsOK'
  <2>1. \A f \in RrdFiles, t \in Minutes : HasData(f, t) <=> <<f, t>> \in todo
    OBVIOUS
  <2> HIDE DEF todo
  <2> QED BY <1>1, <1>3, <1>10, <1>11, <1>12, <2>1 DEF GraphsOK
<1> QED BY <1>6, <1>7, <1>8, <1>9, <1>13 DEF FilesOK

(* Nothing will be counted any more for a minute that a file has not reached *)
(* and that lies before the one that is recorded next.                       *)
LEMMA NothingBetween ==
  ASSUME MLIndInv, parser.pc = "graphs", NEW f \in RrdFiles, NEW t \in Minutes,
         <<f, t>> \in parser.todo, InOrder(<<f, t>>), NEW u \in Minutes, u < t, rrd[f].last < u
  PROVE  DueLines(log, read, Base, f, u) = {}
<1> SUFFICES ASSUME NEW i \in DueLines(log, read, Base, f, u) PROVE FALSE
  OBVIOUS
<1> USE DEF MLIndInv, FilesOK
<1>1. /\ i \in WrittenIn(log, f, u) /\ i \in 1 .. Len(log) /\ About(log, i, f, u)
      /\ i \in read \/ (i >= Base /\ CountsIn(log, Base, i))
  BY DEF DueLines, WrittenIn
<1>2. /\ parser.from \in Nat /\ parser.from >= 1 /\ parser.next \in Nat /\ Base = parser.from
      /\ parser.next <= Len(log) + 1 /\ Len(log) \in Nat
  BY RunIs, LinesAre DEF Base
<1>3. rrd[f].last \in Int /\ u \in Int /\ t \in Int
  BY DEF MLTyped, MLogTypeOK, Minutes, Never
<1>4. i \notin read
  BY <1>1, <1>3 DEF ReadPassed
<1>5. CASE i < parser.next
  <2>1. HasData(f, u)
    BY <1>1, <1>2, <1>4, <1>5 DEF HasData, DataIn
  <2>2. <<f, u>> \in parser.todo
    BY <1>3, <2>1 DEF GraphsOK
  <2> QED BY <1>3, <2>2 DEF InOrder
<1>6. CASE i >= parser.next
  <2>1. HasData(f, t)
    BY DEF GraphsOK
  <2>2. PICK j \in parser.from .. (parser.next - 1) : About(log, j, f, t)
    BY <2>1 DEF HasData, DataIn
  <2>3. j \in 1 .. Len(log) /\ j <= i
    BY <1>1, <1>2, <1>6
  <2>4. log[j].at <= log[i].at /\ log[j].at \in Nat /\ log[i].at \in Nat
    BY <1>1, <2>3, LinesAre DEF Sorted
  <2>5. t <= u
    BY <1>1, <2>2, <2>4, MinutesGrow DEF About
  <2> QED BY <1>3, <2>5
<1> QED BY <1>1, <1>2, <1>5, <1>6

(* What a run has of the minute it records is all that will be counted for   *)
(* it, unless the minute is cut.                                             *)
LEMMA AllOfMinute ==
  ASSUME MLIndInv, parser.pc = "graphs", NEW f \in RrdFiles, NEW t \in Minutes,
         <<f, t>> \in parser.todo, rrd[f].last < t, <<f, t>> \notin cut
  PROVE  DueLines(log, read, Base, f, t) \subseteq DataIn(log, parser.from, parser.next, f, t)
<1> SUFFICES ASSUME NEW i \in DueLines(log, read, Base, f, t)
             PROVE  i \in DataIn(log, parser.from, parser.next, f, t)
  OBVIOUS
<1> USE DEF MLIndInv, FilesOK
<1>1. /\ i \in WrittenIn(log, f, t) /\ i \in 1 .. Len(log) /\ About(log, i, f, t)
      /\ i \in read \/ (i >= Base /\ CountsIn(log, Base, i))
  BY DEF DueLines, WrittenIn
<1>2. /\ parser.from \in Nat /\ parser.from >= 1 /\ parser.next \in Nat /\ Base = parser.from
      /\ parser.next <= Len(log) + 1 /\ Len(log) \in Nat
  BY RunIs, LinesAre DEF Base
<1>3. rrd[f].last \in Int /\ t \in Int
  BY DEF MLTyped, MLogTypeOK, Minutes, Never
<1>4. i \notin read
  BY <1>1, <1>3 DEF ReadPassed
<1>5. ~(i >= parser.next)
  <2> SUFFICES ASSUME i >= parser.next PROVE FALSE
    OBVIOUS
  <2>1. HasData(f, t)
    BY DEF GraphsOK
  <2>2. i \in parser.next .. Len(log) /\ Minute(log[i].at) = t
    BY <1>1, <1>2 DEF About
  <2> QED BY <2>1, <2>2 DEF GraphsOK
<1> QED BY <1>1, <1>2, <1>4, <1>5 DEF DataIn

(* A file goes on to minute p, on the way to t or with what is recorded for  *)
(* t.                                                                        *)
Advances(f, t, p, R) ==
  /\ <<f, t>> \in parser.todo /\ InOrder(<<f, t>>)
  /\ rrd[f].last < p /\ p <= t
  /\ R.last = p
  /\ R.first = rrd[f].first \/ (R.first = t /\ p = t /\ rrd[f].first = Never)
  /\ \A u \in Minutes : u # t => R.count[u] = rrd[f].count[u]
  /\ \/ R.count[t] = rrd[f].count[t]
     \/ R.count[t] = Cardinality(DataIn(log, parser.from, parser.next, f, t))
  /\ p = t /\ R.first # t =>
       R.count[t] = Cardinality(DataIn(log, parser.from, parser.next, f, t))

(* A file advances to a minute that a run still has to record.               *)
LEMMA FileAdvances ==
  ASSUME MLIndInv, parser.pc = "graphs", NEW f \in RrdFiles, NEW t \in Minutes,
         NEW p \in Minutes, NEW R \in RrdFile, Advances(f, t, p, R),
         rrd' = [rrd EXCEPT ![f] = R],
         UNCHANGED <<second, log, read, cut>>, Base' \in Nat, Base <= Base'
  PROVE  ReadPassed' /\ PassedCounted' /\ LastCut' /\ CountsBounded'
<1> USE DEF MLIndInv, FilesOK, Advances
<1>1. rrd'[f] = R /\ \A g \in RrdFiles : g # f => rrd'[g] = rrd[g]
  BY DEF MLTyped, MLogTypeOK
<1>2. /\ rrd[f].last \in Int /\ rrd[f].first \in Int /\ rrd[f].first <= rrd[f].last
      /\ t \in Int /\ p \in Int /\ t \in Nat /\ Len(log) \in Nat
  BY FileIs, LinesAre, MailLogAssumption DEF Minutes
<1>3. HasData(f, t)
  BY DEF GraphsOK
<1>4. ReadPassed'
  <2> SUFFICES ASSUME NEW g \in RrdFiles, NEW u \in Minutes, read \cap WrittenIn(log, g, u) # {}
               PROVE  u <= rrd'[g].last
    BY DEF ReadPassed
  <2>1. u <= rrd[g].last /\ u \in Int
    BY DEF ReadPassed, Minutes
  <2> QED BY <1>1, <1>2, <2>1
<1>5. LastCut'
  <2> SUFFICES ASSUME NEW g \in RrdFiles
               PROVE  /\ rrd'[g].last <= Minute(second)
                      /\ rrd'[g].last = Minute(second) => <<g, Minute(second)>> \in cut
    BY DEF LastCut
  <2>1. CASE g # f
    BY <1>1, <2>1 DEF LastCut
  <2>2. CASE g = f
    <3>1. PICK j \in parser.from .. (parser.next - 1) : About(log, j, f, t)
      BY <1>3 DEF HasData, DataIn
    <3>2. j \in 1 .. Len(log)
      BY <1>2, RunIs
    <3>3. t <= Minute(second) /\ Minute(second) \in Nat
      BY <3>1, <3>2, LinesAre DEF About
    <3>4. p = Minute(second) => p = t
      BY <1>2, <3>3
    <3>5. t = Minute(second) => <<f, Minute(second)>> \in cut
      BY <1>3 DEF GraphsOK
    <3>6. p <= Minute(second)
      BY <1>2, <3>3
    <3> QED BY <1>1, <2>2, <3>4, <3>5, <3>6
  <2> QED BY <2>1, <2>2
<1>6. CountsBounded'
  <2> SUFFICES ASSUME NEW g \in RrdFiles, NEW u \in Minutes
               PROVE  rrd'[g].count[u] <= Cardinality(WrittenIn(log, g, u))
    BY DEF CountsBounded
  <2>1. CASE g # f \/ u # t \/ R.count[t] = rrd[f].count[t]
    BY <1>1, <2>1 DEF CountsBounded
  <2>2. CASE /\ g = f /\ u = t
             /\ R.count[t] = Cardinality(DataIn(log, parser.from, parser.next, f, t))
    <3>1. DataIn(log, parser.from, parser.next, f, t) \subseteq WrittenIn(log, f, t)
      <4> SUFFICES ASSUME NEW i \in DataIn(log, parser.from, parser.next, f, t)
                   PROVE  i \in WrittenIn(log, f, t)
        OBVIOUS
      <4>1. i \in 1 .. Len(log)
        BY <1>2, RunIs DEF DataIn
      <4> QED BY <4>1 DEF DataIn, WrittenIn, CountsIn
    <3>2. WrittenIn(log, f, t) \subseteq 1 .. Len(log)
      BY WrittenSets
    <3>3. Cardinality(DataIn(log, parser.from, parser.next, f, t))
            <= Cardinality(WrittenIn(log, f, t))
      BY <1>2, <3>1, <3>2, LineSets
    <3> QED BY <1>1, <2>2, <3>3
  <2> QED BY <2>1, <2>2
<1>7. PassedCounted'
  <2> SUFFICES ASSUME NEW g \in RrdFiles, NEW u \in Minutes, u <= rrd'[g].last,
                      <<g, u>> \notin cut, u # rrd'[g].first
               PROVE  Cardinality(DueLines(log, read, Base', g, u)) <= rrd'[g].count[u]
    BY DEF PassedCounted
  <2>1. DueLines(log, read, Base', g, u) \subseteq DueLines(log, read, Base, g, u)
    BY BaseIs, LessDue
  <2>2. DueLines(log, read, Base, g, u) \subseteq 1 .. Len(log)
    BY WrittenSets
  <2>3. /\ Cardinality(DueLines(log, read, Base', g, u)) \in Nat
        /\ Cardinality(DueLines(log, read, Base, g, u)) \in Nat
        /\ Cardinality(DueLines(log, read, Base', g, u)) <=
             Cardinality(DueLines(log, read, Base, g, u))
    BY <1>2, <2>1, <2>2, LineSets
  <2>4. rrd[g].count[u] \in Nat /\ u \in Int
    BY FileIs DEF Minutes
  <2>5. CASE g # f
    BY <1>1, <2>3, <2>4, <2>5 DEF PassedCounted
  <2>6. CASE g = f /\ u <= rrd[f].last
    <3>1. u # t /\ u # rrd[f].first
      <4>1. u # t
        BY <1>2, <2>4, <2>6
      <4>2. u # Never
        BY <2>4, MinutesAre DEF Never
      <4>3. u # R.first
        BY <1>1, <2>6
      <4> QED BY <4>1, <4>2, <4>3
    <3>2. Cardinality(DueLines(log, read, Base, f, u)) <= rrd[f].count[u]
      BY <2>6, <3>1 DEF PassedCounted
    <3> QED BY <1>1, <2>3, <2>4, <2>6, <3>1, <3>2
  <2>7. CASE g = f /\ rrd[f].last < u /\ u < t
    <3>1. DueLines(log, read, Base, f, u) = {}
      BY <2>7, NothingBetween
    <3>2. Cardinality(DueLines(log, read, Base', f, u)) = 0
      BY <2>1, <2>7, <3>1, FS_EmptySet
    <3>3. R.count[u] \in Nat
      BY <1>2, <2>4, <2>7
    <3> QED BY <1>1, <2>7, <3>2, <3>3
  <2>8. CASE g = f /\ u = t
    <3>1. p = t /\ R.first # t
      BY <1>1, <1>2, <2>8
    <3>2. DueLines(log, read, Base, f, t) \subseteq DataIn(log, parser.from, parser.next, f, t)
      BY <2>8, <3>1, AllOfMinute
    <3>3. DataIn(log, parser.from, parser.next, f, t) \subseteq 1 .. Len(log)
      BY <1>2, RunIs DEF DataIn
    <3>4. /\ Cardinality(DueLines(log, read, Base, f, t))
               <= Cardinality(DataIn(log, parser.from, parser.next, f, t))
          /\ Cardinality(DataIn(log, parser.from, parser.next, f, t)) \in Nat
      BY <1>2, <3>2, <3>3, LineSets
    <3> QED BY <1>1, <2>3, <2>8, <3>1, <3>4
  <2>9. rrd'[g].last = IF g = f THEN p ELSE rrd[g].last
    BY <1>1
  <2> QED BY <1>2, <2>4, <2>5, <2>6, <2>7, <2>8, <2>9
<1> QED BY <1>4, <1>5, <1>6, <1>7

(* A run is killed while it fills the minutes before.                        *)
LEMMA FillStep ==
  ASSUME MLIndInv, NEW f \in RrdFiles, NEW t \in Minutes, KilledFilling(f, t)
  PROVE  MLIndInv'
<1> USE DEF MLIndInv
<1>1. PICK p \in (rrd[f].last + 1) .. (t - 1) : rrd' = [rrd EXCEPT ![f].last = p]
  BY DEF KilledFilling
<1>2. /\ parser.pc = "graphs" /\ <<f, t>> \in parser.todo /\ InOrder(<<f, t>>)
      /\ rrd[f].first # Never /\ parser' = NoRun /\ parser'.pc = "idle"
      /\ UNCHANGED <<second, log, starts, runs, stored, cut, read>>
  BY NoRunPc DEF KilledFilling
<1>3. PICK R : R = [rrd[f] EXCEPT !.last = p]
  OBVIOUS
<1>4. /\ rrd[f] \in RrdFile /\ rrd[f].last \in Int /\ rrd[f].first \in Int
      /\ rrd[f].first <= rrd[f].last /\ rrd[f].last >= -1
  BY FileIs DEF RrdFile, Minutes, Never
<1>5. p \in Minutes /\ p \in Int /\ t \in Int /\ p < t /\ rrd[f].last < p
  BY <1>4, MinutesAre DEF Minutes
<1>6. /\ R \in RrdFile /\ R.last = p /\ R.first = rrd[f].first /\ R.count = rrd[f].count
      /\ rrd' = [rrd EXCEPT ![f] = R]
  BY <1>1, <1>3, <1>4, <1>5 DEF RrdFile, MLTyped, MLogTypeOK
<1>7. /\ rrd'[f] = R
      /\ \A g \in RrdFiles : g # f => rrd'[g] = rrd[g]
      /\ rrd' \in [RrdFiles -> RrdFile]
  BY <1>6 DEF MLTyped, MLogTypeOK, RrdFile
<1>8. MLTyped'
  <2>1. \A g \in RrdFiles : rrd'[g].first <= rrd'[g].last
                            /\ (rrd'[g].first = Never => rrd'[g].last = Never)
    BY <1>2, <1>4, <1>5, <1>6, <1>7, FileIs
  <2> QED BY <1>2, <1>7, <2>1 DEF MLTyped, MLogTypeOK, RrdFile
<1>9. Sorted(log)' /\ StartsOK' /\ FilesCut'
  BY <1>2, StartsSame, FilesCutSame
<1>10. Base' \in Nat /\ Base <= Base'
  BY <1>2, BasesGrow
<1>11. TableOK'
  BY <1>2, <1>10, SameLog, LinesAre, TableKept
<1>12. ReadPassed' /\ PassedCounted' /\ LastCut' /\ CountsBounded'
  <2>1. /\ \A u \in Minutes : u # t => R.count[u] = rrd[f].count[u]
        /\ R.count[t] = rrd[f].count[t]
        /\ p # t /\ p <= t
    BY <1>5, <1>6
  <2>2. UNCHANGED <<second, log, read, cut>>
    BY <1>2
  <2>3. Advances(f, t, p, R)
    BY <1>2, <1>5, <1>6, <2>1 DEF Advances
  <2> QED BY <1>2, <1>5, <1>6, <1>10, <2>2, <2>3, FileAdvances
<1>13. GraphsOK'
  BY <1>2 DEF GraphsOK
<1> QED BY <1>8, <1>9, <1>11, <1>12, <1>13 DEF FilesOK

(* A minute is recorded.                                                     *)
LEMMA RecordStep ==
  ASSUME MLIndInv, NEW f \in RrdFiles, NEW t \in Minutes, UpdateRrd(f, t)
  PROVE  MLIndInv'
<1> USE DEF MLIndInv
<1>0. PICK R : R = Recorded(f, t)
  OBVIOUS
<1>1. /\ parser.pc = "graphs" /\ <<f, t>> \in parser.todo /\ InOrder(<<f, t>>)
      /\ parser \in ParserSet /\ rrd' = [rrd EXCEPT ![f] = R]
      /\ parser' = [parser EXCEPT !.todo = @ \ {<<f, t>>}]
      /\ UNCHANGED <<second, log, starts, runs, stored, cut, read>>
  BY <1>0, RunIs DEF UpdateRrd
<1>2. /\ parser' \in ParserSet /\ parser'.pc = "graphs" /\ parser'.from = parser.from
      /\ parser'.next = parser.next /\ parser'.todo = parser.todo \ {<<f, t>>}
  BY <1>1 DEF ParserSet
<1>3. /\ rrd[f] \in RrdFile /\ rrd[f].last \in Int /\ rrd[f].first \in Int
      /\ rrd[f].first <= rrd[f].last /\ (rrd[f].first = Never => rrd[f].last = Never)
      /\ t \in Int /\ t \in Nat /\ Len(log) \in Nat /\ Len(log) <= MaxLines /\ MaxLines \in Nat
  BY FileIs, LinesAre, MailLogAssumption DEF Minutes
<1>4. PICK c : c = Cardinality(DataIn(log, parser.from, parser.next, f, t))
  OBVIOUS
<1>5. c \in 0 .. MaxLines /\ c = Cardinality(Data(f, t))
  <2>1. DataIn(log, parser.from, parser.next, f, t) \subseteq 1 .. Len(log)
    BY <1>1, <1>3, RunIs DEF DataIn
  <2>2. c \in Nat /\ c <= Len(log)
    BY <1>3, <1>4, <2>1, LineSets
  <2> QED BY <1>3, <1>4, <2>2, InTheseTerms
<1>6. R = IF rrd[f].first = Never THEN [rrd[f] EXCEPT !.first = t, !.last = t]
          ELSE IF t <= rrd[f].last THEN rrd[f]
          ELSE [rrd[f] EXCEPT !.last = t, !.count[t] = c]
  BY <1>0, <1>5 DEF Recorded
<1>7. /\ R \in RrdFile /\ R.first <= R.last /\ (R.first = Never => R.last = Never)
      /\ t <= R.last /\ R.last \in Int
      /\ \A u \in Minutes : u # t => R.count[u] = rrd[f].count[u]
      /\ R.count[t] = rrd[f].count[t] \/ R.count[t] = c
  <2>1. CASE rrd[f].first = Never
    <3>1. R = [rrd[f] EXCEPT !.first = t, !.last = t]
      BY <1>6, <2>1
    <3>2. R \in RrdFile /\ R.first = t /\ R.last = t /\ R.count = rrd[f].count
      BY <1>3, <3>1 DEF RrdFile
    <3> QED BY <1>3, <3>2
  <2>2. CASE rrd[f].first # Never /\ t <= rrd[f].last
    BY <1>3, <1>6, <2>2 DEF RrdFile
  <2>3. CASE rrd[f].first # Never /\ ~(t <= rrd[f].last)
    <3>1. R = [rrd[f] EXCEPT !.last = t, !.count[t] = c]
      BY <1>6, <2>3
    <3>2. rrd[f].count \in [Minutes -> 0 .. MaxLines]
      BY <1>3 DEF RrdFile
    <3>3. R.first = rrd[f].first /\ R.last = t /\ R.count = [rrd[f].count EXCEPT ![t] = c]
      BY <1>3, <3>1 DEF RrdFile
    <3>4. R \in RrdFile
      BY <1>3, <1>5, <3>1, <3>2 DEF RrdFile
    <3>5. (\A u \in Minutes : u # t => R.count[u] = rrd[f].count[u]) /\ R.count[t] = c
      BY <3>2, <3>3
    <3> QED BY <1>3, <2>3, <3>3, <3>4, <3>5
  <2> QED BY <2>1, <2>2, <2>3
<1>8. \/ R = rrd[f] /\ t <= rrd[f].last
      \/ /\ rrd[f].last < t /\ R.last = t
         /\ R.first = rrd[f].first \/ (R.first = t /\ rrd[f].first = Never)
         /\ R.first # t => R.count[t] = c
  <2>1. CASE rrd[f].first = Never
    BY <1>3, <1>6, <2>1 DEF RrdFile, Never
  <2>2. CASE rrd[f].first # Never /\ t <= rrd[f].last
    BY <1>6, <2>2
  <2>3. CASE rrd[f].first # Never /\ ~(t <= rrd[f].last)
    BY <1>3, <1>5, <1>6, <2>3 DEF RrdFile
  <2> QED BY <2>1, <2>2, <2>3
<1>9. /\ rrd'[f] = R
      /\ \A g \in RrdFiles : g # f => rrd'[g] = rrd[g]
      /\ rrd' \in [RrdFiles -> RrdFile]
  BY <1>1, <1>7 DEF MLTyped, MLogTypeOK, RrdFile
<1>10. MLTyped'
  <2>1. \A g \in RrdFiles : rrd'[g].first <= rrd'[g].last
                            /\ (rrd'[g].first = Never => rrd'[g].last = Never)
    BY <1>7, <1>9, FileIs
  <2>2. MLogTypeOK'
    BY <1>1, <1>2, <1>9, <2>1 DEF MLTyped, MLogTypeOK, RrdFile
  <2>3. \A s \in starts : s > parser.from => parser.next <= s
    BY <1>1, RunIs
  <2> QED BY <1>1, <1>2, <2>1, <2>2, <2>3 DEF MLTyped
<1>11. Sorted(log)' /\ StartsOK' /\ FilesCut'
  BY <1>1, <1>2, StartsSame, FilesCutSame DEF StartsOK
<1>12. Base' = Base
  BY <1>1, <1>2 DEF Base
<1>13. TableOK'
  BY <1>1, <1>2, <1>12, SameLog, BaseIs, LinesAre, TableKept
<1>14. ReadPassed' /\ PassedCounted' /\ LastCut' /\ CountsBounded'
  <2>1. CASE R = rrd[f] /\ t <= rrd[f].last
    <3>1. rrd' = rrd
      BY <1>1, <2>1 DEF MLTyped, MLogTypeOK
    <3> QED BY <1>1, <1>12, <3>1, BaseIs, LinesAre, FilesKept
  <2>2. CASE /\ rrd[f].last < t /\ R.last = t
             /\ R.first = rrd[f].first \/ (R.first = t /\ rrd[f].first = Never)
             /\ R.first # t => R.count[t] = c
    <3>1. UNCHANGED <<second, log, read, cut>> /\ Base' \in Nat /\ Base <= Base'
      BY <1>1, <1>12, BaseIs
    <3>2. t <= t
      BY <1>3
    <3>3. Advances(f, t, t, R)
      <4>1. R.first = rrd[f].first \/ (R.first = t /\ t = t /\ rrd[f].first = Never)
        BY <2>2
      <4>2. t = t /\ R.first # t =>
              R.count[t] = Cardinality(DataIn(log, parser.from, parser.next, f, t))
        BY <1>4, <2>2
      <4>3. \/ R.count[t] = rrd[f].count[t]
            \/ R.count[t] = Cardinality(DataIn(log, parser.from, parser.next, f, t))
        BY <1>4, <1>7
      <4> QED BY <1>1, <1>7, <2>2, <3>2, <4>1, <4>2, <4>3 DEF Advances
    <3> QED BY <1>1, <1>7, <3>1, <3>3, FileAdvances
  <2> QED BY <1>8, <2>1, <2>2
<1>15. GraphsOK'
  <2>1. \A g, u : HasData(g, u)' <=> HasData(g, u)
    BY <1>1, <1>2 DEF HasData
  <2>2. ASSUME NEW g \in RrdFiles, NEW u \in Minutes, HasData(g, u)
        PROVE  <<g, u>> \in parser'.todo \/ u <= rrd'[g].last
    <3>1. CASE g = f /\ u = t
      BY <1>7, <1>9, <3>1
    <3>2. CASE ~(g = f /\ u = t)
      <4>1. CASE <<g, u>> \in parser.todo
        BY <1>2, <3>2, <4>1
      <4>2. CASE u <= rrd[g].last
        <5>1. u \in Int /\ rrd[g].last \in Int
          BY FileIs DEF Minutes
        <5>2. g = f => rrd[f].last <= R.last
          BY <1>3, <1>7, <1>8
        <5> QED BY <1>3, <1>7, <1>9, <4>2, <5>1, <5>2
      <4> QED BY <1>1, <2>2, <4>1, <4>2 DEF GraphsOK, FilesOK
    <3> QED BY <3>1, <3>2
  <2>3. \A g \in RrdFiles, u \in Minutes : <<g, u>> \in parser'.todo => HasData(g, u)
    BY <1>1, <1>2 DEF GraphsOK, FilesOK
  <2> QED BY <1>1, <1>2, <2>1, <2>2, <2>3 DEF GraphsOK, FilesOK
<1> QED BY <1>10, <1>11, <1>13, <1>14, <1>15 DEF FilesOK

(* The run is over: what it has counted is in the files, what it has kept in *)
(* the table.                                                                *)
LEMMA FinishStep == ASSUME MLIndInv, Finish PROVE MLIndInv'
<1> USE DEF MLIndInv
<1> DEFINE new == {i \in parser.from .. (parser.next - 1) : CountsIn(log, parser.from, i)}
<1>1. /\ parser.pc = "graphs" /\ parser.todo = {} /\ read' = read \cup new
      /\ parser' = NoRun /\ parser'.pc = "idle"
      /\ UNCHANGED <<second, log, starts, runs, rrd, stored, cut>>
  BY NoRunPc, InTheseTerms DEF Finish, Lines
<1>2. /\ parser.from \in Nat /\ parser.from >= 1 /\ parser.next \in Nat /\ Base = parser.from
      /\ parser.next <= Len(log) + 1 /\ Len(log) \in Nat /\ DOMAIN log = 1 .. Len(log)
      /\ Len(log) <= MaxLines
  BY <1>1, RunIs, LinesAre DEF Base
<1>3. new \subseteq 1 .. Len(log)
  BY <1>2
<1>4. MLTyped'
  BY <1>1, <1>2, <1>3 DEF MLTyped, MLogTypeOK
<1>5. Sorted(log)' /\ StartsOK' /\ FilesCut'
  BY <1>1, StartsSame, FilesCutSame
<1>6. Base' \in Nat /\ Base <= Base'
  BY <1>1, BasesGrow
<1>7. TableOK'
  <2>1. StoredIs' /\ LinesCovered'
    BY <1>1 DEF TableOK, StoredIs, LinesCovered
  <2>2. StoredBelow'
    <3> SUFFICES ASSUME NEW k \in 1 .. Len(log), stored[k] = 1, NEW i \in 1 .. Len(log), i < k,
                        i >= Base', IsRead(log, Base', i)
                 PROVE  Covered(log, stored, i)
      BY <1>1 DEF StoredBelow
    <3>1. i >= Base /\ IsRead(log, Base, i)
      BY <1>2, <1>6, LessCounted DEF IsRead
    <3> QED BY <3>1 DEF TableOK, StoredBelow
  <2>3. ReadIsStored'
    <3> SUFFICES ASSUME NEW i \in read', log[i].kind = "status" PROVE Covered(log, stored, i)
      BY <1>1, <1>2 DEF ReadIsStored, Covered
    <3>1. CASE i \in read
      BY <1>2, <3>1 DEF TableOK, ReadIsStored, Covered
    <3>2. CASE i \in new
      BY <1>1, <3>2 DEF TableOK, LinesCovered, IsRead
    <3> QED BY <1>1, <3>1, <3>2
  <2> QED BY <2>1, <2>2, <2>3 DEF TableOK
<1>8. ReadPassed'
  <2> SUFFICES ASSUME NEW f \in RrdFiles, NEW t \in Minutes,
                      NEW i \in read' \cap WrittenIn(log, f, t)
               PROVE  t <= rrd[f].last
    BY <1>1 DEF ReadPassed
  <2>1. CASE i \in read
    BY <2>1 DEF FilesOK, ReadPassed
  <2>2. CASE i \in new
    <3>1. HasData(f, t)
      BY <2>2 DEF HasData, DataIn, WrittenIn
    <3> QED BY <1>1, <3>1 DEF FilesOK, GraphsOK
  <2> QED BY <1>1, <2>1, <2>2
<1>9. PassedCounted'
  <2> SUFFICES ASSUME NEW f \in RrdFiles, NEW t \in Minutes, t <= rrd[f].last, <<f, t>> \notin cut,
                      t # rrd[f].first
               PROVE  Cardinality(DueLines(log, read', Base', f, t)) <= rrd[f].count[t]
    BY <1>1 DEF PassedCounted
  <2>1. DueLines(log, read', Base', f, t) \subseteq DueLines(log, read', Base, f, t)
    BY <1>6, BaseIs, LessDue
  <2>2. DueLines(log, read', Base, f, t) \subseteq DueLines(log, read, Base, f, t)
    BY <1>1, <1>2 DEF DueLines
  <2>3. DueLines(log, read', Base', f, t) \subseteq DueLines(log, read, Base, f, t)
    BY <2>1, <2>2
  <2>4. DueLines(log, read, Base, f, t) \subseteq 1 .. Len(log)
    BY WrittenSets
  <2>5. /\ Cardinality(DueLines(log, read', Base', f, t)) \in Nat
        /\ Cardinality(DueLines(log, read, Base, f, t)) \in Nat
        /\ Cardinality(DueLines(log, read', Base', f, t)) <=
             Cardinality(DueLines(log, read, Base, f, t))
    BY <1>2, <2>3, <2>4, LineSets
  <2> QED BY <2>5, FileIs DEF FilesOK, PassedCounted
<1>10. LastCut' /\ CountsBounded' /\ GraphsOK'
  BY <1>1 DEF FilesOK, LastCut, CountsBounded, GraphsOK
<1> QED BY <1>4, <1>5, <1>7, <1>8, <1>9, <1>10 DEF FilesOK

(* Postfix writes a line at this second, and nothing else.                   *)
LEMMA PostfixWrites == ASSUME MLIndInv, PostfixStep PROVE MLIndInv'
<1>1. second \in 0 .. MaxSeconds
  BY DEF MLIndInv, MLTyped, MLogTypeOK
<1>2. CASE \E q \in QueueIds : LogQueued(q)
  <2>1. PICK q \in QueueIds : LogQueued(q)
    BY <1>2
  <2>2. PICK line : line = Queued(q, second)
    OBVIOUS
  <2>3. line \in LogLines /\ line.at = second /\ Write(line)
    BY <1>1, <2>1, <2>2 DEF LogQueued, Queued, LogLines, Write
  <2> QED BY <2>3, WriteStep
<1>3. CASE \E q \in QueueIds, d \in LocalNames \cup {Elsewhere} : LogStatus(q, d)
  <2>1. PICK q \in QueueIds, d \in LocalNames \cup {Elsewhere} : LogStatus(q, d)
    BY <1>3
  <2>2. PICK line : line = [kind |-> "status", id |-> q, domain |-> d, at |-> second]
    OBVIOUS
  <2>3. line \in LogLines /\ line.at = second /\ Write(line)
    BY <1>1, <2>1, <2>2 DEF LogStatus, LogLines, Write
  <2> QED BY <2>3, WriteStep
<1>4. CASE \E d \in LocalNames : LogReject(d)
  <2>1. PICK d \in LocalNames : LogReject(d)
    BY <1>4
  <2>2. PICK line : line = [kind |-> "reject", id |-> "NOQUEUE", domain |-> d, at |-> second]
    OBVIOUS
  <2>3. line \in LogLines /\ line.at = second /\ Write(line)
    BY <1>1, <2>1, <2>2 DEF LogReject, LogLines, Write
  <2> QED BY <2>3, WriteStep
<1> QED BY <1>2, <1>3, <1>4 DEF PostfixStep

(* Nothing happens.                                                          *)
LEMMA NothingLogged == ASSUME MLIndInv, UNCHANGED mlogVars PROVE MLIndInv'
<1> USE DEF MLIndInv, mlogVars
<1>1. MLTyped' /\ Sorted(log)' /\ StartsOK' /\ FilesCut'
  BY DEF MLTyped, MLogTypeOK, StartsOK, FilesCut
<1>2. Base' = Base
  BY DEF Base
<1>3. TableOK' /\ FilesOK'
  BY <1>2 DEF TableOK, StoredIs, StoredBelow, LinesCovered, ReadIsStored, FilesOK, ReadPassed,
     PassedCounted, LastCut, CountsBounded, GraphsOK, HasData
<1> QED BY <1>1, <1>3

(* So every step keeps the invariant,                                        *)
LEMMA MLStep == ASSUME MLIndInv, [MLogNext]_mlogVars PROVE MLIndInv'
<1>1. CASE ParserStep
  BY <1>1, StartStep, ReadStep, EndStep, FinishStep, RunKilled, RecordStep, FillStep DEF ParserStep
<1> QED BY <1>1, PostfixWrites, ClockStep, RotateStep, NothingLogged DEF MLogNext

(* from which follows what the log promises.                                 *)
LEMMA LogIsExact == ASSUME MLIndInv PROVE LogExact
<1> USE DEF MLIndInv
<1>1. DOMAIN log = 1 .. Len(log) /\ Len(log) \in Nat /\ Len(log) <= MaxLines /\ MaxLines \in Nat
  BY LinesAre, MailLogAssumption
<1>2. CountedOnce
  BY InTheseTerms DEF CountedOnce, FilesOK, CountsBounded
<1>3. ReadIsCounted
  <2> SUFFICES ASSUME NEW f \in RrdFiles, NEW t \in Minutes, <<f, t>> \notin cut, t # rrd[f].first
               PROVE  rrd[f].count[t] >= Cardinality(read \cap WrittenIn(log, f, t))
    BY InTheseTerms DEF ReadIsCounted
  <2>1. read \cap WrittenIn(log, f, t) \subseteq DueLines(log, read, Base, f, t)
    BY DEF DueLines
  <2>2. DueLines(log, read, Base, f, t) \subseteq 1 .. Len(log)
    BY WrittenSets
  <2>3. /\ Cardinality(read \cap WrittenIn(log, f, t)) \in Nat
        /\ Cardinality(DueLines(log, read, Base, f, t)) \in Nat
        /\ Cardinality(read \cap WrittenIn(log, f, t)) <=
             Cardinality(DueLines(log, read, Base, f, t))
    BY <1>1, <2>1, <2>2, LineSets
  <2>4. rrd[f].count[t] \in Nat
    BY FileIs
  <2>5. CASE t <= rrd[f].last
    BY <2>3, <2>4, <2>5 DEF FilesOK, PassedCounted
  <2>6. CASE ~(t <= rrd[f].last)
    <3>1. read \cap WrittenIn(log, f, t) = {}
      BY <2>6 DEF FilesOK, ReadPassed
    <3> QED BY <2>4, <3>1, FS_EmptySet
  <2> QED BY <2>5, <2>6
<1>4. StoredOnce
  <2> SUFFICES ASSUME NEW i \in DOMAIN log PROVE stored[i] <= 1
    BY DEF StoredOnce
  <2>1. i \in 1 .. MaxLines
    BY <1>1
  <2> QED BY <2>1 DEF TableOK, StoredIs
<1> QED BY <1>2, <1>3, <1>4 DEF LogExact, CountsExact, RowsExact, MLTyped, TableOK

(* However often the log is read again, rotated or a run killed, a line that *)
(* a run has read to its end is in the statistics and in the table, once.    *)
THEOREM LogStaysExact == MLogSpec => []LogExact
BY MLInitially, MLStep, LogIsExact, PTL DEF MLogSpec

-----------------------------------------------------------------------------
(* Reports of others (DmarcReports).  What a run has taken and not yet       *)
(* stored must still be ahead of it, in the part or in the mails to come.    *)

Parts == Reports \cup {Garbled, Hollow}
ImportSet ==
  [pc : {"mail", "insert", "records"}, mails : Seq(ReportMails), parts : Seq(Parts),
   err : BOOLEAN, first : BOOLEAN, rest : SUBSET Senders, kept : SUBSET Senders,
   all : SUBSET Reports]

InParts(parts, r) == \E k \in 1 .. Len(parts) : parts[k] = r

(* A run at a report has it as its next part, and records only of domains    *)
(* that are still local: it holds their rows.                                *)
AtReport(i) ==
  i.pc \in {"insert", "records"} => i.parts # <<>> /\ Head(i.parts) \in Reports
KeptLocal(i) == i.pc = "records" => i.kept \subseteq local

(* What a run will report as taken is stored, or still to come.              *)
ToCome(i) ==
  i.pc # "none" =>
    \A r \in i.all : IsStored(r) \/ r \in InMails(i.mails) \/ InParts(i.parts, r)

ImportOK(i) == AtReport(i) /\ KeptLocal(i) /\ ToCome(i)
ImportsOK == \A p \in Importers : ImportOK(import[p])

DMTyped ==
  /\ DMTypeOK
  /\ import \in [Importers -> ImportSet \cup {NoImport}]
  /\ report \in [Reports -> (SUBSET Senders) \cup {Unstored}]
  /\ ignored \in [Reports -> SUBSET Senders]
  /\ cascaded \in [Reports -> SUBSET Senders]

DMIndInv == DMTyped /\ ImportsOK /\ ReportsWhole /\ AcceptedIsStored

(* The runs that do nothing are no record of a run.                          *)
LEMMA NoImportPc == NoImport.pc = "none"
BY DEF NoImport

(* So no record of a run is NoImport.                                        *)
LEMMA ImportPc == ASSUME NEW i \in ImportSet PROVE i.pc # "none" /\ i # NoImport
BY NoImportPc DEF ImportSet

(* A run that is in progress is such a record.                               *)
LEMMA ImportIs ==
  ASSUME DMTyped, NEW p \in Importers, import[p].pc # "none"
  PROVE  import[p] \in ImportSet
BY NoImportPc DEF DMTyped

(* Where a report is that mails contain.                                     *)
LEMMA InMailsIs ==
  ASSUME NEW ms, NEW r
  PROVE  r \in InMails(ms)
           <=> \E j \in 1 .. Len(ms) : \E k \in 1 .. Len(ms[j]) : ms[j][k] = r
BY DEF InMails

(* The mail taken next has what is not in the mails after it.                *)
LEMMA MailsAhead ==
  ASSUME NEW ms \in Seq(ReportMails), ms # <<>>, NEW r, r \in InMails(ms)
  PROVE  r \in InMails(Tail(ms)) \/ InParts(Head(ms), r)
<1>1. PICK j \in 1 .. Len(ms) : \E k \in 1 .. Len(ms[j]) : ms[j][k] = r
  BY InMailsIs
<1>2. CASE j = 1
  BY <1>1, <1>2 DEF InParts
<1>3. CASE j # 1
  <2>1. j - 1 \in 1 .. Len(Tail(ms)) /\ Tail(ms)[j - 1] = ms[j]
    BY <1>3
  <2> QED BY <1>1, <2>1, InMailsIs
<1> QED BY <1>2, <1>3

(* So for parts.                                                             *)
LEMMA PartsAhead ==
  ASSUME NEW parts \in Seq(Parts), parts # <<>>, NEW r, InParts(parts, r)
  PROVE  r = Head(parts) \/ InParts(Tail(parts), r)
<1>1. PICK k \in 1 .. Len(parts) : parts[k] = r
  BY DEF InParts
<1>2. CASE k = 1
  BY <1>1, <1>2
<1>3. CASE k # 1
  <2>1. k - 1 \in 1 .. Len(Tail(parts)) /\ Tail(parts)[k - 1] = parts[k]
    BY <1>3
  <2> QED BY <1>1, <2>1 DEF InParts
<1> QED BY <1>2, <1>3

(* Nothing is ahead of a run at its end.                                     *)
LEMMA NothingAhead ==
  /\ \A r : r \notin InMails(<<>>)
  /\ \A r : ~InParts(<<>>, r)
BY InMailsIs DEF InParts

(* A step that changes one run, and takes no report back and no domain of a  *)
(* run's records away, keeps what is known of the others.                    *)
LEMMA OthersKeep ==
  ASSUME DMTyped, ImportsOK, NEW p \in Importers, NEW i, Imports(p, i), ImportOK(i)',
         \A r \in Reports : IsStored(r) => IsStored(r)', local' = local
  PROVE  ImportsOK'
<1> SUFFICES ASSUME NEW q \in Importers PROVE ImportOK(import[q])'
  BY DEF ImportsOK
<1>1. CASE q = p
  <2>1. import'[q] = i
    BY <1>1 DEF Imports, DMTyped
  <2> QED BY <2>1
<1>2. CASE q # p
  <2>1. import'[q] = import[q]
    BY <1>2 DEF Imports, DMTyped
  <2>2. import[q].pc # "none" => import[q].all \subseteq Reports
    BY ImportIs DEF ImportSet
  <2>3. ImportOK(import[q])
    BY DEF ImportsOK
  <2> QED BY <2>1, <2>2, <2>3 DEF ImportOK, AtReport, KeptLocal, ToCome
<1> QED BY <1>1, <1>2

(* The invariant holds when nothing is imported.                             *)
LEMMA DMInitially == ASSUME DMInit PROVE DMIndInv
<1> USE DmarcAssumption, NoImportPc DEF DMInit
<1>1. DMTyped
  BY DEF DMTyped, DMTypeOK, IsStored
<1>2. ImportsOK
  BY DEF ImportsOK, ImportOK, AtReport, KeptLocal, ToCome
<1>3. ReportsWhole /\ AcceptedIsStored
  BY DEF ReportsWhole, AcceptedIsStored, IsStored
<1> QED BY <1>1, <1>2, <1>3 DEF DMIndInv

(* A step of one run that changes nothing but what it has read.              *)
LEMMA RunGoesOn ==
  ASSUME DMIndInv, NEW p \in Importers, NEW i \in ImportSet \cup {NoImport}, Imports(p, i),
         ImportOK(i)', UNCHANGED <<local, inbox, report, ignored, cascaded, accepted>>,
         imports' \in 0 .. MaxImports
  PROVE  DMIndInv'
<1> USE DEF DMIndInv
<1>1. DMTyped'
  BY DEF DMTyped, DMTypeOK, Imports, IsStored
<1>2. ImportsOK'
  BY OthersKeep DEF IsStored
<1>3. ReportsWhole' /\ AcceptedIsStored'
  BY DEF ReportsWhole, AcceptedIsStored, IsStored
<1> QED BY <1>1, <1>2, <1>3

(* A run begins: what it will report as taken is all in its mails.           *)
LEMMA RunStart ==
  ASSUME DMIndInv, NEW p \in Importers, NEW mails \in Seq(ReportMails), StartImport(p, mails)
  PROVE  DMIndInv'
<1> DEFINE i == [pc |-> "mail", mails |-> mails, parts |-> <<>>, err |-> FALSE, first |-> FALSE,
                 rest |-> {}, kept |-> {}, all |-> InMails(mails) \cap Reports]
<1>1. i \in ImportSet
  BY DEF ImportSet
<1>2. Imports(p, i) /\ imports' \in 0 .. MaxImports
  BY DmarcAssumption DEF StartImport, DMIndInv, DMTyped, DMTypeOK
<1>3. i.pc = "mail" /\ i.mails = mails /\ \A r \in i.all : r \in InMails(mails)
  OBVIOUS
<1> HIDE DEF i
<1>4. ImportOK(i)'
  BY <1>3 DEF ImportOK, AtReport, KeptLocal, ToCome
<1> QED BY <1>1, <1>2, <1>4, RunGoesOn DEF StartImport

(* It takes the next mail.                                                   *)
LEMMA RunNext == ASSUME DMIndInv, NEW p \in Importers, NextMail(p) PROVE DMIndInv'
<1> DEFINE i == import[p]
<1>0. PICK n : n = [i EXCEPT !.mails = Tail(@), !.parts = Head(i.mails)]
  OBVIOUS
<1>1. i \in ImportSet /\ ImportOK(i)
  BY ImportIs DEF DMIndInv, ImportsOK, NextMail
<1>2. /\ i.pc = "mail" /\ i.parts = <<>> /\ i.mails # <<>> /\ i.mails \in Seq(ReportMails)
      /\ Imports(p, n)
  BY <1>0, <1>1 DEF NextMail, ImportSet
<1>3. Head(i.mails) \in Seq(Parts) /\ Tail(i.mails) \in Seq(ReportMails)
  BY <1>2, DmarcAssumption DEF Parts
<1>4. n \in ImportSet
  BY <1>0, <1>1, <1>3 DEF ImportSet
<1>5. /\ n.pc = "mail" /\ n.mails = Tail(i.mails) /\ n.parts = Head(i.mails)
      /\ n.all = i.all
  BY <1>0, <1>1, <1>2 DEF ImportSet
<1>6. imports' \in 0 .. MaxImports
  BY DEF NextMail, DMIndInv, DMTyped, DMTypeOK, dmHistory
<1>7. \A r \in i.all : IsStored(r) \/ r \in InMails(n.mails) \/ InParts(n.parts, r)
  BY <1>1, <1>2, <1>5, MailsAhead, NothingAhead DEF ImportOK, ToCome
<1>8. ImportOK(n)'
  BY <1>5, <1>7 DEF ImportOK, AtReport, KeptLocal, ToCome, IsStored, NextMail
<1> QED BY <1>2, <1>4, <1>6, <1>8, RunGoesOn DEF NextMail, dmHistory

(* It dies.                                                                  *)
LEMMA RunOver ==
  ASSUME DMIndInv, NEW p \in Importers, ImportDies(p)
  PROVE  DMIndInv'
<1>1. ImportOK(NoImport)'
  BY NoImportPc DEF ImportOK, AtReport, KeptLocal, ToCome
<1>2. imports' \in 0 .. MaxImports
  BY DEF ImportDies, DMIndInv, DMTyped, DMTypeOK, dmHistory
<1> QED BY <1>1, <1>2, RunGoesOn DEF ImportDies, dmHistory

(* It ends, and reports as taken what is stored.                             *)
LEMMA RunWell == ASSUME DMIndInv, NEW p \in Importers, EndsWell(p) PROVE DMIndInv'
<1> USE DEF DMIndInv, EndsWell
<1>1. import[p] \in ImportSet /\ ImportOK(import[p])
  BY ImportIs DEF ImportsOK
<1>2. \A r \in import[p].all : r \in Reports /\ IsStored(r)
  BY <1>1, NothingAhead DEF ImportSet, ImportOK, ToCome
<1>3. ImportOK(NoImport)'
  BY NoImportPc DEF ImportOK, AtReport, KeptLocal, ToCome
<1>4. DMTyped'
  BY <1>2 DEF DMTyped, DMTypeOK, Imports, IsStored
<1>5. ImportsOK'
  BY <1>3, OthersKeep DEF IsStored
<1>6. ReportsWhole' /\ AcceptedIsStored'
  BY <1>2 DEF ReportsWhole, AcceptedIsStored, IsStored
<1> QED BY <1>4, <1>5, <1>6

(* The next part is left behind: it is no report, or is stored.              *)
LEMMA RunSkips ==
  ASSUME DMIndInv, NEW p \in Importers, NEW e \in BOOLEAN,
         import[p].pc = "mail", import[p].parts # <<>>,
         Head(import[p].parts) \in Reports => IsStored(Head(import[p].parts)),
         Imports(p, [import[p] EXCEPT !.parts = Tail(@), !.err = e]),
         UNCHANGED <<local, inbox, report, dmHistory>>
  PROVE  DMIndInv'
<1> DEFINE i == import[p]
<1>0. PICK n : n = [i EXCEPT !.parts = Tail(@), !.err = e]
  OBVIOUS
<1>1. i \in ImportSet /\ ImportOK(i)
  BY ImportIs DEF DMIndInv, ImportsOK
<1>2. i.parts \in Seq(Parts) /\ Tail(i.parts) \in Seq(Parts) /\ i.all \subseteq Reports
  BY <1>1 DEF ImportSet
<1>3. n \in ImportSet
  BY <1>0, <1>1, <1>2 DEF ImportSet
<1>4. n.pc = "mail" /\ n.mails = i.mails /\ n.parts = Tail(i.parts) /\ n.all = i.all
  BY <1>0, <1>1 DEF ImportSet
<1>5. imports' \in 0 .. MaxImports
  BY DEF DMIndInv, DMTyped, DMTypeOK, dmHistory
<1>6. Imports(p, n)
  BY <1>0
<1>7. \A r \in i.all : IsStored(r) \/ r \in InMails(n.mails) \/ InParts(n.parts, r)
  BY <1>1, <1>2, <1>4, PartsAhead DEF ImportOK, ToCome
<1>8. ImportOK(n)'
  BY <1>4, <1>7 DEF ImportOK, AtReport, KeptLocal, ToCome, IsStored
<1> QED BY <1>3, <1>5, <1>6, <1>8, RunGoesOn DEF dmHistory

(* It skips a part that it cannot read, with an error.                       *)
LEMMA RunGarbled == ASSUME DMIndInv, NEW p \in Importers, ReadGarbled(p) PROVE DMIndInv'
BY RunSkips, DmarcAssumption DEF ReadGarbled

(* Without an error, what it says of errors is as before,                    *)
LEMMA SameErr ==
  ASSUME NEW i \in ImportSet
  PROVE  /\ [i EXCEPT !.parts = Tail(@)] = [i EXCEPT !.parts = Tail(@), !.err = i.err]
         /\ i.err \in BOOLEAN
BY DEF ImportSet

(* when the part says nothing.                                               *)
LEMMA RunHollow == ASSUME DMIndInv, NEW p \in Importers, SkipHollow(p) PROVE DMIndInv'
<1>1. import[p] \in ImportSet
  BY ImportIs DEF DMIndInv, SkipHollow
<1> QED BY <1>1, SameErr, RunSkips, DmarcAssumption DEF SkipHollow

(* It looks a report up, and leaves a known one.                             *)
LEMMA RunLooksUp == ASSUME DMIndInv, NEW p \in Importers, LookUp(p) PROVE DMIndInv'
<1> DEFINE i == import[p]
<1>0. PICK n : n = [i EXCEPT !.pc = "insert", !.first = ~known]
  OBVIOUS
<1>1. i \in ImportSet /\ ImportOK(i) /\ i.pc = "mail" /\ i.parts # <<>> /\ Head(i.parts) \in Reports
  BY ImportIs DEF DMIndInv, ImportsOK, LookUp
<1>2. CASE IsStored(Head(i.parts))
  BY <1>1, <1>2, SameErr, RunSkips DEF LookUp
<1>3. CASE ~IsStored(Head(i.parts))
  <2>1. Imports(p, n) /\ UNCHANGED <<local, inbox, report, dmHistory>>
    BY <1>0, <1>3 DEF LookUp
  <2>2. /\ n \in ImportSet /\ n.pc = "insert"
        /\ n.parts = i.parts /\ n.mails = i.mails /\ n.all = i.all
    BY <1>0, <1>1 DEF ImportSet
  <2>3. imports' \in 0 .. MaxImports
    BY <2>1 DEF DMIndInv, DMTyped, DMTypeOK, dmHistory
  <2>4. ImportOK(n)'
    BY <1>1, <2>1, <2>2 DEF ImportOK, AtReport, KeptLocal, ToCome, IsStored
  <2> QED BY <2>1, <2>2, <2>3, <2>4, RunGoesOn DEF dmHistory
<1> QED BY <1>2, <1>3

(* It inserts a report, in its transaction,                                  *)
LEMMA RunInserts == ASSUME DMIndInv, NEW p \in Importers, InsertReport(p) PROVE DMIndInv'
<1> DEFINE i == import[p]
<1>0. PICK n : n = [i EXCEPT !.pc = "records", !.rest = Senders, !.kept = {}]
  OBVIOUS
<1>1. i \in ImportSet /\ ImportOK(i) /\ i.pc = "insert"
  BY ImportIs DEF DMIndInv, ImportsOK, InsertReport
<1>2. Imports(p, n) /\ UNCHANGED <<local, inbox, report, dmHistory>>
  BY <1>0 DEF InsertReport
<1>3. /\ n \in ImportSet /\ n.pc = "records" /\ n.parts = i.parts /\ n.mails = i.mails
      /\ n.all = i.all /\ n.kept = {}
  BY <1>0, <1>1 DEF ImportSet
<1>4. imports' \in 0 .. MaxImports
  BY <1>2 DEF DMIndInv, DMTyped, DMTypeOK, dmHistory
<1>5. ImportOK(n)'
  BY <1>1, <1>2, <1>3 DEF ImportOK, AtReport, KeptLocal, ToCome, IsStored
<1> QED BY <1>2, <1>3, <1>4, <1>5, RunGoesOn DEF dmHistory

(* and its records, of the domains that are local;                           *)
LEMMA RunRecord ==
  ASSUME DMIndInv, NEW p \in Importers, NEW d \in Senders, ImportRecord(p, d)
  PROVE  DMIndInv'
<1> DEFINE i == import[p]
<1>a. PICK kept : kept = IF d \in local THEN i.kept \cup {d} ELSE i.kept
  OBVIOUS
<1>0. PICK n : n = [i EXCEPT !.rest = @ \ {d}, !.kept = kept]
  OBVIOUS
<1>1. i \in ImportSet /\ ImportOK(i) /\ i.pc = "records"
  BY ImportIs DEF DMIndInv, ImportsOK, ImportRecord
<1>2. Imports(p, n) /\ UNCHANGED <<local, inbox, report, dmHistory>>
  BY <1>a, <1>0, <1>1 DEF ImportRecord, ImportSet
<1>3. kept \subseteq Senders /\ kept \subseteq local
  BY <1>a, <1>1 DEF ImportSet, ImportOK, KeptLocal
<1>4. /\ n \in ImportSet /\ n.pc = "records" /\ n.parts = i.parts /\ n.mails = i.mails
      /\ n.all = i.all /\ n.kept = kept
  BY <1>0, <1>1, <1>3 DEF ImportSet
<1>5. imports' \in 0 .. MaxImports
  BY <1>2 DEF DMIndInv, DMTyped, DMTypeOK, dmHistory
<1>6. AtReport(n)' /\ ToCome(n)'
  BY <1>1, <1>2, <1>4 DEF ImportOK, AtReport, ToCome, IsStored
<1>7. KeptLocal(n)'
  BY <1>2, <1>3, <1>4 DEF KeptLocal
<1> QED BY <1>2, <1>4, <1>5, <1>6, <1>7, RunGoesOn DEF ImportOK, dmHistory

(* and commits, unless another run was first.                                *)
LEMMA RunCommits == ASSUME DMIndInv, NEW p \in Importers, CommitReport(p) PROVE DMIndInv'
<1> DEFINE i == import[p]
<1>a. PICK r : r = Head(i.parts)
  OBVIOUS
<1>0. PICK n : n = AfterReport(i)
  OBVIOUS
<1> USE DEF DMIndInv
<1>1. i \in ImportSet /\ ImportOK(i) /\ i.pc = "records"
  BY ImportIs DEF ImportsOK, CommitReport
<1>2. /\ Imports(p, n) /\ UNCHANGED <<local, inbox, cascaded, accepted, imports>>
      /\ report' = [report EXCEPT ![r] = i.kept]
      /\ ignored' = [ignored EXCEPT ![r] = Senders \ i.kept]
  BY <1>a, <1>0 DEF CommitReport
<1>3. r \in Reports /\ i.parts # <<>> /\ i.parts \in Seq(Parts) /\ Tail(i.parts) \in Seq(Parts)
  BY <1>a, <1>1 DEF ImportOK, AtReport, ImportSet
<1>4. /\ i.kept \subseteq Senders /\ i.kept \subseteq local /\ i.kept # Unstored
      /\ i.all \subseteq Reports
  BY <1>1, DmarcAssumption DEF ImportSet, ImportOK, KeptLocal
<1>5. /\ n \in ImportSet /\ n.pc = "mail" /\ n.parts = Tail(i.parts) /\ n.mails = i.mails
      /\ n.all = i.all
  BY <1>0, <1>1, <1>3 DEF ImportSet, AfterReport
<1>6. \A x \in Reports : report'[x] = IF x = r THEN i.kept ELSE report[x]
  BY <1>2 DEF DMTyped
<1>7. \A x \in Reports : IsStored(x)' <=> x = r \/ IsStored(x)
  BY <1>4, <1>6 DEF IsStored
<1>8. \A x \in i.all : IsStored(x)' \/ x \in InMails(n.mails) \/ InParts(n.parts, x)
  <2> SUFFICES ASSUME NEW x \in i.all
               PROVE  IsStored(x)' \/ x \in InMails(n.mails) \/ InParts(n.parts, x)
    OBVIOUS
  <2>1. x \in Reports
    BY <1>4
  <2>2. IsStored(x) \/ x \in InMails(i.mails) \/ InParts(i.parts, x)
    BY <1>1 DEF ImportOK, ToCome
  <2> QED BY <1>3, <1>5, <1>7, <2>1, <2>2, PartsAhead, <1>a
<1>9. ImportOK(n)'
  BY <1>5, <1>8 DEF ImportOK, AtReport, KeptLocal, ToCome
<1>10. DMTyped'
  <2>1. import' \in [Importers -> ImportSet \cup {NoImport}]
    BY <1>2, <1>5 DEF DMTyped, Imports
  <2>2. report' \in [Reports -> (SUBSET Senders) \cup {Unstored}]
    BY <1>2, <1>4 DEF DMTyped
  <2>3. ignored' \in [Reports -> SUBSET Senders] /\ cascaded' \in [Reports -> SUBSET Senders]
    BY <1>2 DEF DMTyped
  <2>4. \A x \in Reports : IsStored(x)' => report'[x] \subseteq local'
    BY <1>2, <1>4, <1>6, <1>7 DEF DMTyped, DMTypeOK
  <2> QED BY <1>2, <2>1, <2>2, <2>3, <2>4 DEF DMTyped, DMTypeOK
<1>11. ImportsOK'
  BY <1>2, <1>7, <1>9, OthersKeep
<1>12. ReportsWhole'
  <2> SUFFICES ASSUME NEW x \in Reports, IsStored(x)'
               PROVE  report'[x] \cup ignored'[x] \cup cascaded'[x] = Senders
    BY DEF ReportsWhole
  <2>1. cascaded'[x] \subseteq Senders /\ cascaded'[x] = cascaded[x]
    BY <1>2 DEF DMTyped
  <2>2. ignored'[x] = IF x = r THEN Senders \ i.kept ELSE ignored[x]
    BY <1>2 DEF DMTyped
  <2> QED BY <1>4, <1>6, <1>7, <2>1, <2>2 DEF ReportsWhole
<1>13. AcceptedIsStored'
  BY <1>2, <1>7 DEF AcceptedIsStored, DMTyped, DMTypeOK
<1> QED BY <1>10, <1>11, <1>12, <1>13

(* A domain is removed, with its records.                                    *)
LEMMA LocalGoes ==
  ASSUME DMIndInv, NEW d \in Senders, RemoveLocal(d)
  PROVE  DMIndInv'
<1> USE DEF DMIndInv, RemoveLocal
<1>1. \A r \in Reports :
        /\ IsStored(r)' <=> IsStored(r)
        /\ report'[r] = IF IsStored(r) THEN report[r] \ {d} ELSE Unstored
  BY DmarcAssumption DEF DMTyped, IsStored
<1>2. DMTyped'
  <2>1. report' \in [Reports -> (SUBSET Senders) \cup {Unstored}]
    BY DEF DMTyped, IsStored
  <2>2. cascaded' \in [Reports -> SUBSET Senders]
    BY DEF DMTyped
  <2> QED BY <1>1, <2>1, <2>2 DEF DMTyped, DMTypeOK
<1>3. ImportsOK'
  <2> SUFFICES ASSUME NEW p \in Importers PROVE ImportOK(import[p])'
    BY DEF ImportsOK
  <2>1. import[p].pc # "none" => import[p].all \subseteq Reports
    BY ImportIs DEF ImportSet
  <2>2. ImportOK(import[p])
    BY DEF ImportsOK
  <2> QED BY <1>1, <2>1, <2>2 DEF ImportOK, AtReport, KeptLocal, ToCome
<1>4. ReportsWhole'
  BY <1>1 DEF ReportsWhole, DMTyped
<1>5. AcceptedIsStored'
  BY <1>1 DEF AcceptedIsStored, DMTyped, DMTypeOK
<1> QED BY <1>2, <1>3, <1>4, <1>5

(* A domain is added.                                                        *)
LEMMA LocalComes ==
  ASSUME DMIndInv, NEW d \in Senders, AddLocal(d)
  PROVE  DMIndInv'
<1> USE DEF DMIndInv, AddLocal, dmHistory
<1>1. DMTyped'
  BY DEF DMTyped, DMTypeOK, IsStored
<1>2. ImportsOK'
  BY DEF ImportsOK, ImportOK, AtReport, KeptLocal, ToCome, IsStored
<1> QED BY <1>1, <1>2 DEF ReportsWhole, AcceptedIsStored, IsStored

(* A mail arrives.                                                           *)
LEMMA MailComes ==
  ASSUME DMIndInv, NEW mail \in ReportMails, MailArrives(mail)
  PROVE  DMIndInv'
<1> USE DEF DMIndInv, MailArrives, dmHistory
<1>1. DMTyped'
  BY DmarcAssumption DEF DMTyped, DMTypeOK, IsStored
<1>2. ImportsOK'
  BY DEF ImportsOK, ImportOK, AtReport, KeptLocal, ToCome, IsStored
<1> QED BY <1>1, <1>2 DEF ReportsWhole, AcceptedIsStored, IsStored

(* So every step keeps the invariant.                                        *)
LEMMA DMStep == ASSUME DMIndInv, [DMNext]_dmVars PROVE DMIndInv'
<1>1. CASE \E mail \in ReportMails : MailArrives(mail)
  BY <1>1, MailComes
<1>2. CASE \E d \in Senders : AddLocal(d) \/ RemoveLocal(d)
  BY <1>2, LocalComes, LocalGoes
<1>3. ASSUME NEW p \in Importers,
             StartImport(p, inbox) \/ \E mail \in ReportMails : StartImport(p, <<mail>>)
      PROVE  DMIndInv'
  <2>1. inbox \in Seq(ReportMails)
    BY DEF DMIndInv, DMTyped, DMTypeOK
  <2>2. PICK mails : mails = inbox
    OBVIOUS
  <2>3. StartImport(p, inbox) => StartImport(p, mails)
    BY <2>2 DEF StartImport
  <2>4. ASSUME NEW mail \in ReportMails PROVE <<mail>> \in Seq(ReportMails)
    OBVIOUS
  <2> QED BY <1>3, <2>1, <2>2, <2>3, <2>4, RunStart
<1>4. ASSUME NEW p \in Importers,
             \/ NextMail(p) \/ EndsWell(p) \/ ImportDies(p) \/ ReadGarbled(p) \/ SkipHollow(p)
             \/ LookUp(p) \/ InsertReport(p) \/ CommitReport(p)
             \/ \E d \in Senders : ImportRecord(p, d)
      PROVE  DMIndInv'
  BY <1>4, RunNext, RunWell, RunOver, RunGarbled, RunHollow, RunLooksUp, RunInserts,
     RunCommits, RunRecord
<1>5. CASE UNCHANGED dmVars
  BY <1>5 DEF dmVars, DMIndInv, DMTyped, DMTypeOK, ImportsOK, ImportOK, AtReport, KeptLocal,
              ToCome, ReportsWhole, AcceptedIsStored, IsStored
<1> QED BY <1>1, <1>2, <1>3, <1>4, <1>5 DEF DMNext

(* A report about at most a day lies in one week, unless it is about hours   *)
(* of a Sunday alone.                                                        *)
LEMMA OneWeek ==
  ASSUME NEW s \in (0 .. 27) \X (0 .. 27), s[1] <= s[2], s[2] - s[1] <= 1,
         ~(s[1] = s[2] /\ s[1] % 14 = 13)
  PROVE  \E w \in Weeks : \A v \in Weeks : InWeek(s, v) <=> v = w
<1>1. s[1] \in 0 .. 27 /\ s[2] \in 0 .. 27
  OBVIOUS
<1>2. \A w \in Weeks :
        InWeek(s, w) <=> \/ 14 * w <= s[1] /\ s[1] <= 14 * w + 12
                         \/ 14 * w <= s[2] /\ s[2] <= 14 * w + 12
  BY DEF InWeek, week_range, Weeks
<1>3. CASE s[1] <= 12
  BY <1>1, <1>2, <1>3 DEF Weeks
<1>4. CASE s[1] = 13
  BY <1>1, <1>2, <1>4 DEF Weeks
<1>5. CASE s[1] >= 14 /\ s[1] <= 26
  BY <1>1, <1>2, <1>5 DEF Weeks
<1>6. CASE s[1] = 27
  BY <1>1, <1>6
<1> QED BY <1>1, <1>3, <1>4, <1>5, <1>6

(* A report of a day is shown in one week.                                   *)
LEMMA CountedInOneWeek == ASSUME DMIndInv PROVE DailyCountedOnce
<1> SUFFICES ASSUME NEW r \in Reports, IsStored(r), NEW d \in report[r],
                    Period[r][2] - Period[r][1] <= 1,
                    ~(Period[r][1] = Period[r][2] /\ Period[r][1] % 14 = 13)
             PROVE  Cardinality({w \in Weeks : r \in ReportsOf(d, w)}) = 1
  BY DEF DailyCountedOnce
<1>1. Period[r] \in (0 .. 27) \X (0 .. 27) /\ Period[r][1] <= Period[r][2]
  BY DmarcAssumption
<1>2. PICK w \in Weeks : \A v \in Weeks : InWeek(Period[r], v) <=> v = w
  BY <1>1, OneWeek
<1>3. {v \in Weeks : r \in ReportsOf(d, v)} = {w}
  BY <1>2 DEF ReportsOf
<1> QED BY <1>3, FS_Singleton

(* Runs that meet over a report, or die, leave nothing half done; what a run *)
(* has taken without an error is stored; and reports about a day are counted *)
(* in one week.                                                              *)
THEOREM ReportsAreWhole == DMSpec => []DmarcInv
<1>1. DMIndInv => DmarcInv
  BY CountedInOneWeek DEF DMIndInv, DMTyped, DmarcInv
<1> QED BY <1>1, DMInitially, DMStep, PTL DEF DMSpec

-----------------------------------------------------------------------------
(* In each behaviour one component runs, and the others stutter.            *)
LEMMA OnePartRuns == [MessagesNext]_mVars => [MLogNext]_mlogVars /\ [DMNext]_dmVars
<1> SUFFICES ASSUME [MessagesNext]_mVars PROVE [MLogNext]_mlogVars /\ [DMNext]_dmVars
  OBVIOUS
<1>1. CASE MessagesNext
  BY <1>1 DEF MessagesNext
<1>2. CASE UNCHANGED mVars
  BY <1>2 DEF mVars
<1> QED BY <1>1, <1>2

(* What is recorded of mail (maillog, dmarc) stays exact, whatever runs     *)
(* beside it.                                                               *)
THEOREM RecordsStayExact == MessagesSpec => []RecordsExact
<1>1. MessagesInit => MLogInit /\ DMInit
  BY DEF MessagesInit
<1>2. MessagesSpec => MLogSpec /\ DMSpec
  BY <1>1, OnePartRuns, PTL DEF MessagesSpec, MLogSpec, DMSpec
<1>3. LogExact /\ DmarcInv => RecordsExact
  BY DEF RecordsExact
<1> QED BY <1>2, <1>3, LogStaysExact, ReportsAreWhole, PTL
=============================================================================
