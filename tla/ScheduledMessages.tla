-------------------------- MODULE ScheduledMessages --------------------------
(***************************************************************************)
(* Sending e-mails later (modoboa/webmail).                                *)
(*                                                                         *)
(* A user schedules a message, reschedules it and cancels it through web   *)
(* requests, each in one database transaction.  The scheduler job looks    *)
(* every minute for messages whose time has come, marks them and puts a    *)
(* job in the queue for each; that job sends the message and deletes its   *)
(* row.  Jobs commit after every statement.  The user sees a message as a  *)
(* copy in the IMAP mailbox "Scheduled", which the database cannot roll    *)
(* back.                                                                   *)
(*                                                                         *)
(* Model.save() writes every column from the instance at hand, and inserts *)
(* the row when there is none: whoever saves an instance loaded earlier    *)
(* undoes what others have done in between.                                *)
(***************************************************************************)
EXTENDS Integers, FiniteSets

CONSTANTS
  Messages,  \* primary keys of scheduled messages
  Workers,   \* RQ workers of the queue "modoboa"
  Clients,   \* web requests that may be in progress together
  MaxTime,   \* bound: the last minute of the model
  MaxUid,    \* bound: requests store at most so many copies of a message
  Null,      \* Python's None; there is no such row
  MessageRequests,  \* the requests of this instance: "reschedule", "cancel"
  Overlap,   \* may requests and jobs about the same message overlap?
  MessageFaults     \* the faults of this instance: "refused", "connection",
             \* "doveadm", "imap", "request", "crash"

Statuses == {"scheduled", "sending", "send_error", "move_error"}
Rows == [status : Statuses, when : 1 .. MaxTime, uid : 1 .. MaxUid]

ASSUME SchedulingAssumption ==
  /\ Null \notin Messages
  /\ Null \notin Rows
  /\ MaxTime \in Nat /\ MaxUid \in Nat
  /\ MessageRequests \subseteq {"reschedule", "cancel"}
  /\ Overlap \in BOOLEAN
  /\ MessageFaults \subseteq {"refused", "connection", "doveadm", "imap", "request", "crash"}

VARIABLES
  now,        \* the present minute
  row,        \* the ScheduledMessage rows: status, scheduled_datetime, imap_uid
  copies,     \* UIDs of each message's copies in the mailbox "Scheduled"
  inSent,     \* the messages with a copy in the Sent folder
  uids,       \* UIDs given to copies of each message so far
  queued,     \* jobs send_scheduled_message waiting in the queue
  worker,     \* what each worker does
  client,    \* what each request does
  delivered,  \* history: how often the SMTP server has accepted each message
  promised,   \* history: the datetime last confirmed to the user
  cancelled   \* history: the messages whose row a request has deleted

imapVars == <<copies, inSent, uids>>
historyVars == <<delivered, promised, cancelled>>
smVars == <<now, row, imapVars, queued, worker, client, historyVars>>

Instance(s, t, u) == [status |-> s, when |-> t, uid |-> u]

IdleWorker == [pc |-> "idle", batch |-> {}, msg |-> Null, inst |-> Null]
IdleRequest == [pc |-> "idle", msg |-> Null, inst |-> Null]

SMInit ==
  /\ now = 0
  /\ row = [m \in Messages |-> Null]
  /\ copies = [m \in Messages |-> {}]
  /\ inSent = {}
  /\ uids = [m \in Messages |-> 0]
  /\ queued = [m \in Messages |-> 0]
  /\ worker = [w \in Workers |-> IdleWorker]
  /\ client = [q \in Clients |-> IdleRequest]
  /\ delivered = [m \in Messages |-> 0]
  /\ promised = [m \in Messages |-> Null]
  /\ cancelled = {}

MinutePasses ==
  /\ now < MaxTime
  /\ now' = now + 1
  /\ UNCHANGED <<row, imapVars, queued, worker, client, historyVars>>

-----------------------------------------------------------------------------
(* MessageRequests *)

Requested(m) == \E q \in Clients : client[q].msg = m

InJob(m) ==
  \/ queued[m] > 0
  \/ \E w \in Workers : worker[w].msg = m \/ \E e \in worker[w].batch : e.msg = m

(* A transaction that has written a row holds its lock until it commits.   *)
Locked(m) == \E q \in Clients : client[q].pc = "saved" /\ client[q].msg = m

Begin(q, pc, m, inst) ==
  /\ client[q].pc = "idle"
  /\ Overlap \/ ~(Requested(m) \/ InJob(m))
  /\ client' = [client EXCEPT ![q] = [pc |-> pc, msg |-> m, inst |-> inst]]
  /\ UNCHANGED <<now, row, imapVars, queued, worker, historyVars>>

(* The bound on copies leaves room for those that are still to be stored.  *)
Writing(m) == {q \in Clients : client[q].pc = "write" /\ client[q].msg = m}
RoomForCopy(m) == uids[m] + Cardinality(Writing(m)) < MaxUid

(* Only datetimes in the future are accepted.                              *)
Schedule(q, m, t) ==
  /\ uids[m] = 0 /\ ~Requested(m)
  /\ t > now /\ RoomForCopy(m)
  /\ Begin(q, "write", m, Instance("scheduled", t, Null))

Reschedule(q, m, t) ==
  /\ "reschedule" \in MessageRequests
  /\ row[m] # Null
  /\ t > now /\ RoomForCopy(m)
  /\ Begin(q, "write", m, [row[m] EXCEPT !.when = t])

Cancel(q, m) ==
  /\ "cancel" \in MessageRequests
  /\ row[m] # Null
  /\ Begin(q, "cancel", m, row[m])

EndOf(q) == client' = [client EXCEPT ![q] = IdleRequest]

(* The first save, which takes the row's lock; the copy that the instance   *)
(* knows of is replaced by a new one, and the instance saved again.         *)
Push(q) ==
  LET m == client[q].msg
      u == uids[m] + 1 IN
  /\ client[q].pc = "write"
  /\ ~Locked(m)
  /\ copies' = [copies EXCEPT ![m] = (@ \ {client[q].inst.uid}) \cup {u}]
  /\ uids' = [uids EXCEPT ![m] = u]
  /\ client' = [client EXCEPT ![q].pc = "saved", ![q].inst.uid = u]
  /\ UNCHANGED <<now, row, inSent, queued, worker, historyVars>>

(* The IMAP server fails, perhaps after the former copy has been deleted:   *)
(* the transaction is rolled back.                                          *)
PushFails(q) ==
  LET m == client[q].msg IN
  /\ client[q].pc = "write"
  /\ "imap" \in MessageFaults
  /\ ~Locked(m)
  /\ \E gone \in {{}, {client[q].inst.uid}} :
       copies' = [copies EXCEPT ![m] = @ \ gone]
  /\ EndOf(q)
  /\ UNCHANGED <<now, row, inSent, uids, queued, worker, historyVars>>

Commit(q) ==
  LET m == client[q].msg IN
  /\ client[q].pc = "saved"
  /\ row' = [row EXCEPT ![m] = client[q].inst]
  /\ promised' = [promised EXCEPT ![m] = client[q].inst.when]
  /\ EndOf(q)
  /\ UNCHANGED <<now, imapVars, queued, worker, delivered, cancelled>>

(* The request fails after that, while it stores the attachments.          *)
Rollback(q) ==
  /\ "request" \in MessageFaults
  /\ client[q].pc = "saved"
  /\ EndOf(q)
  /\ UNCHANGED <<now, row, imapVars, queued, worker, historyVars>>

(* delete_imap_copy: doveadm moves all copies to the Sent folder.          *)
MoveCopies(m) ==
  /\ copies' = [copies EXCEPT ![m] = {}]
  /\ inSent' = IF copies[m] = {} THEN inSent ELSE inSent \cup {m}
  /\ UNCHANGED uids

(* delete_imap_copy: doveadm fails.                                        *)
SaveMoveError(m, inst) ==
  /\ "doveadm" \in MessageFaults
  /\ ~Locked(m)
  /\ row' = [row EXCEPT ![m] = [inst EXCEPT !.status = "move_error"]]

CancelMove(q) ==
  /\ client[q].pc = "cancel"
  /\ MoveCopies(client[q].msg)
  /\ client' = [client EXCEPT ![q].pc = "moved"]
  /\ UNCHANGED <<now, row, queued, worker, historyVars>>

(* The message is not cancelled, but the request succeeds.                 *)
CancelMoveFails(q) ==
  /\ client[q].pc = "cancel"
  /\ SaveMoveError(client[q].msg, client[q].inst)
  /\ EndOf(q)
  /\ UNCHANGED <<now, imapVars, queued, worker, historyVars>>

CancelDelete(q) ==
  LET m == client[q].msg IN
  /\ client[q].pc = "moved"
  /\ ~Locked(m)
  /\ row' = [row EXCEPT ![m] = Null]
  /\ cancelled' = cancelled \cup {m}
  /\ EndOf(q)
  /\ UNCHANGED <<now, imapVars, queued, worker, delivered, promised>>

-----------------------------------------------------------------------------
(* Jobs *)

(* Mutant: a message is due one minute early.                              *)
DueEarly == {m \in Messages : /\ row[m] # Null /\ row[m].status = "scheduled"
                              /\ row[m].when <= now + 1}

Due == {m \in Messages : /\ row[m] # Null /\ row[m].status = "scheduled"
                         /\ row[m].when <= now}

(* send_scheduled_messages reads all rows at once.                         *)
Loaded == {[msg |-> m, inst |-> row[m]] : m \in Due}
send_scheduled_messages(w) ==
  /\ worker[w].pc = "idle"
  /\ Due # {}
  /\ Overlap \/ \A m \in Due : ~Requested(m)
  /\ worker' = [worker EXCEPT ![w].pc = "scan", ![w].batch = Loaded]
  /\ UNCHANGED <<now, row, imapVars, queued, client, historyVars>>

(* Mutant: the status is not saved.                                        *)
MarkNothing(w) ==
  \E e \in worker[w].batch :
    /\ worker[w].pc = "scan"
    /\ ~Locked(e.msg)
    /\ worker' = [worker EXCEPT ![w].pc = "enqueue", ![w].msg = e.msg,
                                ![w].batch = @ \ {e}]
    /\ UNCHANGED <<now, row, imapVars, queued, client, historyVars>>

(* ... and saves each of them with a new status.                           *)
Mark(w) ==
  \E e \in worker[w].batch :
    /\ worker[w].pc = "scan"
    /\ ~Locked(e.msg)
    /\ row' = [row EXCEPT ![e.msg] = [e.inst EXCEPT !.status = "sending"]]
    /\ worker' = [worker EXCEPT ![w].pc = "enqueue", ![w].msg = e.msg,
                                ![w].batch = @ \ {e}]
    /\ UNCHANGED <<now, imapVars, queued, client, historyVars>>

Enqueue(w) ==
  /\ worker[w].pc = "enqueue"
  /\ queued' = [queued EXCEPT ![worker[w].msg] = @ + 1]
  /\ worker' = [worker EXCEPT ![w].pc = IF worker[w].batch = {} THEN "idle" ELSE "scan",
                              ![w].msg = Null]
  /\ UNCHANGED <<now, row, imapVars, client, historyVars>>

(* Without a row the job fails.                                            *)
send_scheduled_message(w) ==
  \E m \in Messages :
    /\ worker[w].pc = "idle"
    /\ queued[m] > 0
    /\ queued' = [queued EXCEPT ![m] = @ - 1]
    /\ worker' = IF row[m] = Null THEN worker
                 ELSE [worker EXCEPT ![w].pc = "send", ![w].msg = m,
                                     ![w].inst = row[m]]
    /\ UNCHANGED <<now, row, imapVars, client, historyVars>>

EndSend(w) == worker' = [worker EXCEPT ![w] = IdleWorker]

Accepted(w) ==
  /\ worker[w].pc = "send"
  /\ delivered' = [delivered EXCEPT ![worker[w].msg] = @ + 1]
  /\ worker' = [worker EXCEPT ![w].pc = "move"]
  /\ UNCHANGED <<now, row, imapVars, queued, client, promised, cancelled>>

(* Mutant: the answer of the SMTP server is ignored.                       *)
RefusedIgnored(w) ==
  /\ "refused" \in MessageFaults
  /\ worker[w].pc = "send"
  /\ worker' = [worker EXCEPT ![w].pc = "move"]
  /\ UNCHANGED <<now, row, imapVars, queued, client, historyVars>>

(* Mutant: the error is not saved.                                         *)
RefusedForgotten(w) ==
  /\ "refused" \in MessageFaults
  /\ worker[w].pc = "send"
  /\ EndSend(w)
  /\ UNCHANGED <<now, row, imapVars, queued, client, historyVars>>

(* The SMTP server refuses the message or its recipients.                  *)
Refused(w) ==
  /\ "refused" \in MessageFaults
  /\ worker[w].pc = "send"
  /\ ~Locked(worker[w].msg)
  /\ row' = [row EXCEPT ![worker[w].msg] =
               [worker[w].inst EXCEPT !.status = "send_error"]]
  /\ EndSend(w)
  /\ UNCHANGED <<now, imapVars, queued, client, historyVars>>

(* There is no connection to the SMTP server, or it is lost: an exception   *)
(* that is not caught ends the job.                                         *)
ConnectionFails(w) ==
  /\ "connection" \in MessageFaults
  /\ worker[w].pc = "send"
  /\ EndSend(w)
  /\ UNCHANGED <<now, row, imapVars, queued, client, historyVars>>

MoveToSent(w) ==
  /\ worker[w].pc = "move"
  /\ MoveCopies(worker[w].msg)
  /\ worker' = [worker EXCEPT ![w].pc = "delete"]
  /\ UNCHANGED <<now, row, queued, client, historyVars>>

(* Mutant: a message whose copy was not moved is scheduled again.           *)
MoveToSentRetried(w) ==
  /\ worker[w].pc = "move"
  /\ "doveadm" \in MessageFaults
  /\ ~Locked(worker[w].msg)
  /\ row' = [row EXCEPT ![worker[w].msg] =
               [worker[w].inst EXCEPT !.status = "scheduled"]]
  /\ EndSend(w)
  /\ UNCHANGED <<now, imapVars, queued, client, historyVars>>

MoveToSentFails(w) ==
  /\ worker[w].pc = "move"
  /\ SaveMoveError(worker[w].msg, worker[w].inst)
  /\ EndSend(w)
  /\ UNCHANGED <<now, imapVars, queued, client, historyVars>>

DeleteRow(w) ==
  /\ worker[w].pc = "delete"
  /\ ~Locked(worker[w].msg)
  /\ row' = [row EXCEPT ![worker[w].msg] = Null]
  /\ EndSend(w)
  /\ UNCHANGED <<now, imapVars, queued, client, historyVars>>

(* The worker is killed; its job is not tried again.                       *)
WorkerKilled(w) ==
  /\ "crash" \in MessageFaults
  /\ worker[w].pc # "idle"
  /\ EndSend(w)
  /\ UNCHANGED <<now, row, imapVars, queued, client, historyVars>>

-----------------------------------------------------------------------------
NewRequest ==
  \E q \in Clients, m \in Messages :
    \/ \E t \in 1 .. MaxTime : Schedule(q, m, t) \/ Reschedule(q, m, t)
    \/ Cancel(q, m)

RequestStep(q) ==
  \/ Push(q) \/ PushFails(q) \/ Commit(q) \/ Rollback(q)
  \/ CancelMove(q) \/ CancelMoveFails(q) \/ CancelDelete(q)

WorkerStep(w) ==
  \/ send_scheduled_messages(w) \/ Mark(w) \/ Enqueue(w)
  \/ send_scheduled_message(w)
  \/ Accepted(w) \/ Refused(w) \/ ConnectionFails(w)
  \/ MoveToSent(w) \/ MoveToSentFails(w) \/ DeleteRow(w)

SMNext ==
  \/ MinutePasses
  \/ NewRequest
  \/ \E q \in Clients : RequestStep(q)
  \/ \E w \in Workers : WorkerStep(w) \/ WorkerKilled(w)

SMSpec == SMInit /\ [][SMNext]_smVars

(* Time passes, requests end, and a worker that has something to do does    *)
(* it; users are under no obligation.                                       *)
SMFairSpec ==
  /\ SMSpec
  /\ WF_smVars(MinutePasses)
  /\ \A q \in Clients : WF_smVars(RequestStep(q))
  /\ \A w \in Workers : WF_smVars(WorkerStep(w))

-----------------------------------------------------------------------------
(* Properties *)

Batch == [msg : Messages, inst : Rows]

(* ... including that a row that others can see knows its copy.            *)
SMTypeOK ==
  /\ now \in 0 .. MaxTime
  /\ row \in [Messages -> Rows \cup {Null}]
  /\ copies \in [Messages -> SUBSET (1 .. MaxUid)]
  /\ \A m \in Messages : \A u \in copies[m] : u <= uids[m]
  /\ inSent \subseteq Messages
  /\ uids \in [Messages -> 0 .. MaxUid]
  /\ queued \in [Messages -> Nat]
  /\ \A w \in Workers :
       /\ worker[w].pc \in {"idle", "scan", "enqueue", "send", "move", "delete"}
       /\ worker[w].batch \subseteq Batch
       /\ worker[w].msg \in Messages \cup {Null}
       /\ worker[w].inst \in Rows \cup {Null}
  /\ \A q \in Clients :
       /\ client[q].pc \in {"idle", "write", "saved", "cancel", "moved"}
       /\ client[q].msg \in Messages \cup {Null}
  /\ delivered \in [Messages -> Nat]
  /\ promised \in [Messages -> 0 .. MaxTime \cup {Null}]
  /\ cancelled \subseteq Messages

(* A scheduled message is sent once: no failure, crash or cancellation      *)
(* makes the job hand it to the SMTP server a second time.                  *)
AtMostOnce == \A m \in Messages : delivered[m] <= 1

(* A row disappears only when its message has been sent or cancelled.      *)
NothingVanishes ==
  [][\A m \in Messages :
       row[m] # Null /\ row'[m] = Null => delivered'[m] > 0 \/ m \in cancelled']_smVars

(* No message is sent before the datetime last confirmed to its user.       *)
NotEarly ==
  [][\A m \in Messages : delivered'[m] > delivered[m] => promised[m] <= now]_smVars

(* The user sees a message that waits for its time exactly once, and the    *)
(* row knows that copy.                                                     *)
CopyInPlace ==
  \A m \in Messages :
    row[m] # Null /\ ~Requested(m) =>
      \/ copies[m] = {row[m].uid}
      \/ row[m].status # "scheduled"

(* One copy before, one delivery after.                                     *)
OneMessage == SMTypeOK /\ AtMostOnce /\ CopyInPlace

(* How far a message has come: with a job from the moment the scheduler      *)
(* reads its row until the job ends, whatever a request does meanwhile.      *)
Progress(m) ==
  IF delivered[m] > 0 THEN "sent"
  ELSE IF InJob(m) THEN "handed"
  ELSE IF m \in cancelled THEN "cancelled"
  ELSE IF row[m] = Null THEN "new"
  ELSE IF row[m].status = "scheduled" THEN "waiting"
  ELSE "failed"

Deadline(m) == IF Progress(m) \in {"waiting", "handed"} THEN promised[m] ELSE Null

(* Requests, the scheduler and the jobs implement the abstract life of       *)
(* module Outbox: a message confirmed is sent once and not before its time,  *)
(* given up or cancelled, whatever fails; none is forgotten, none comes back *)
(* once it was sent, given up or cancelled before a job had it.              *)
Box == INSTANCE Outbox
         WITH state <- [m \in Messages |-> Progress(m)],
              due <- [m \in Messages |-> Deadline(m)],
              count <- delivered
ImplementsOutbox == Box!Spec

(* "Scheduled messages will be sent at the specified date and time": or     *)
(* their row shows the error, or they are cancelled.                        *)
DueHandled ==
  \A m \in Messages :
    row[m] # Null /\ row[m].status = "scheduled" ~>
      \/ delivered[m] > 0
      \/ m \in cancelled
      \/ row[m] # Null /\ row[m].status \in {"send_error", "move_error"}

(* What test_delete asserts: there is no row of a cancelled message.        *)
(* Not what the code does: README.md, Known deviations.                    *)
CancelledIsGone == \A m \in cancelled : row[m] = Null

(* "Scheduling updated": a message with a new datetime is scheduled.        *)
(* Not what the code does: README.md, Known deviations.                    *)
RescheduledIsScheduled ==
  [][\A m \in Messages :
       promised'[m] # promised[m] => row'[m].status = "scheduled"]_smVars

(* A message in the Sent folder has been sent.                              *)
(* Not what the code does: README.md, Known deviations.                    *)
SentFolderIsSent == \A m \in inSent : delivered[m] > 0
=============================================================================
