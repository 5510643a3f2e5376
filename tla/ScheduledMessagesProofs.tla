----------------------- MODULE ScheduledMessagesProofs -----------------------
(* Proofs about scheduled messages, for any number of messages and requests  *)
(* and any bounds, where one worker serves the queue and no message is        *)
(* rescheduled while a job or another request has it.  The deviations in      *)
(* README.md show what happens otherwise.                                    *)
EXTENDS ScheduledMessages, FiniteSetTheorems, TLAPS

Orderly ==
  /\ \A v, w \in Workers : v = w
  /\ Overlap => "reschedule" \notin MessageRequests

(* No copy is lost when a request fails.                                     *)
ImapIsSafe == MessageFaults \cap {"imap", "request"} = {}

Pending == [status : Statuses, when : 1 .. MaxTime, uid : 1 .. MaxUid \cup {Null}]

(* What workers and requests are doing.                                      *)
TasksOK ==
  /\ worker \in [Workers -> {IdleWorker}
       \cup [pc : {"scan"}, batch : SUBSET Batch, msg : {Null}, inst : {Null}]
       \cup [pc : {"enqueue"}, batch : SUBSET Batch, msg : Messages, inst : {Null}]
       \cup [pc : {"send", "move", "delete"}, batch : {{}}, msg : Messages, inst : Rows]]
  /\ client \in [Clients -> {IdleRequest}
       \cup [pc : {"write"}, msg : Messages, inst : Pending]
       \cup [pc : {"saved", "cancel", "moved"}, msg : Messages, inst : Rows]]
  /\ \A q \in Clients : client[q].pc = "write" => uids[client[q].msg] < MaxUid

Typed == SMTypeOK /\ TasksOK

(* A message about to be written has one request and no job, and as yet no    *)
(* row that other requests or jobs could find.                               *)
Apart ==
  \A q \in Clients :
    client[q].msg \in Messages /\ (Overlap => client[q].pc \in {"write", "saved"}) =>
      /\ ~InJob(client[q].msg)
      /\ \A r \in Clients : client[r].msg = client[q].msg => r = q
      /\ Overlap => row[client[q].msg] = Null

InBatch(m) == \E w \in Workers : \E e \in worker[w].batch : e.msg = m

(* A message is with one job, at one place.                                  *)
OnePlace ==
  /\ \A m \in Messages : queued[m] \in {0, 1}
  /\ \A m \in Messages : queued[m] = 1 =>
       ~InBatch(m) /\ \A w \in Workers : worker[w].msg # m
  /\ \A w \in Workers : \A e \in worker[w].batch :
       /\ worker[w].msg # e.msg
       /\ \A f \in worker[w].batch : e.msg = f.msg => e = f

(* A message is sent by the job that has it, not before.                     *)
NotYetSent ==
  /\ \A m \in Messages : queued[m] = 1 \/ InBatch(m) => delivered[m] = 0
  /\ \A w \in Workers :
       /\ worker[w].pc \in {"enqueue", "send"} => delivered[worker[w].msg] = 0
       /\ worker[w].pc \in {"move", "delete"} => delivered[worker[w].msg] > 0

(* A message still in the state scheduled waits for its first job.           *)
WaitsForJob ==
  /\ \A m \in Messages : row[m] # Null /\ row[m].status = "scheduled" =>
       /\ delivered[m] = 0
       /\ queued[m] = 0
       /\ \A w \in Workers : worker[w].msg # m
       /\ promised[m] = row[m].when
  /\ \A q \in Clients :
       client[q].pc \in {"write", "saved"} /\ client[q].inst.status = "scheduled"
         => delivered[client[q].msg] = 0

(* A message without a first copy has neither row nor job.                   *)
Unknown ==
  /\ \A m \in Messages : uids[m] = 0 =>
       row[m] = Null /\ ~InJob(m) /\ delivered[m] = 0
  /\ \A q \in Clients : client[q].pc \in {"saved", "cancel", "moved"} => uids[client[q].msg] # 0

(* A job has only messages whose time has come.                              *)
OnTime == \A m \in Messages : InJob(m) => promised[m] \in 1 .. now

Sending == AtMostOnce /\ NotYetSent /\ WaitsForJob
SMIndInv == Typed /\ Apart /\ OnePlace /\ Sending /\ Unknown /\ OnTime

(* A request knows the copy it is about to replace, or has stored.           *)
RequestKnowsCopy ==
  \A q \in Clients : client[q].pc # "idle" /\ client[q].inst.status = "scheduled" =>
    /\ client[q].pc = "write" => copies[client[q].msg] \subseteq {client[q].inst.uid}
    /\ client[q].pc = "saved" => copies[client[q].msg] = {client[q].inst.uid}
Copied == CopyInPlace /\ RequestKnowsCopy

(* What is left of a batch is a batch.                                       *)
LEMMA ScanGoesOn ==
  ASSUME NEW b \in SUBSET Batch
  PROVE  [pc |-> "scan", batch |-> b, msg |-> Null, inst |-> Null]
           \in [pc : {"scan"}, batch : SUBSET Batch, msg : {Null}, inst : {Null}]
  OBVIOUS

(* Nothing is scheduled, sent or copied at first.                            *)
LEMMA SMInitially == ASSUME SMInit PROVE SMIndInv /\ Copied
<1> USE SchedulingAssumption DEF SMInit, IdleWorker, IdleRequest
<1>1. Typed
  BY DEF Typed, SMTypeOK, TasksOK
<1>2. Apart /\ OnePlace
  BY DEF Apart, OnePlace, InBatch
<1>3. Sending
  BY DEF Sending, AtMostOnce, NotYetSent, WaitsForJob, InBatch
<1>4. Unknown /\ OnTime
  BY DEF Unknown, OnTime, InJob
<1>5. Copied
  BY DEF Copied, CopyInPlace, RequestKnowsCopy
<1> QED BY <1>1, <1>2, <1>3, <1>4, <1>5 DEF SMIndInv

(* Only the clock moves.                                                     *)
LEMMA TimeStep ==
  ASSUME Orderly, SMIndInv, MinutePasses
  PROVE  SMIndInv' /\ (ImapIsSafe /\ Copied => Copied')
<1> USE SchedulingAssumption DEF Orderly, SMIndInv, Typed, TasksOK, IdleWorker, IdleRequest,
      Pending, Rows, Batch, imapVars, historyVars, Requested, InJob, MinutePasses
<1>1. Typed'
  BY DEF SMTypeOK
<1>2. Apart'
  BY DEF Apart, Unknown, SMTypeOK
<1>3. OnePlace'
  BY DEF OnePlace, InBatch, Apart, Sending, WaitsForJob, SMTypeOK
<1>4. Sending'
  BY DEF Sending, AtMostOnce, NotYetSent, WaitsForJob, InBatch, Apart, OnePlace, Unknown, SMTypeOK
<1>5. Unknown'
  BY DEF Unknown, SMTypeOK
<1>6. OnTime'
  BY DEF OnTime, Apart, Sending, WaitsForJob, SMTypeOK
<1>7. ASSUME ImapIsSafe, Copied PROVE Copied'
  BY <1>7 DEF ImapIsSafe, Copied, CopyInPlace, RequestKnowsCopy, Apart, Sending, WaitsForJob,
       SMTypeOK
<1> QED BY <1>1, <1>2, <1>3, <1>4, <1>5, <1>6, <1>7

(* A message that had no copy was never sent.                                *)
LEMMA ScheduleStep ==
  ASSUME Orderly, SMIndInv, NEW q \in Clients, NEW m \in Messages, NEW t \in 1 .. MaxTime,
           Schedule(q, m, t)
  PROVE  SMIndInv' /\ (ImapIsSafe /\ Copied => Copied')
<1> USE SchedulingAssumption DEF Orderly, SMIndInv, Typed, TasksOK, IdleWorker, IdleRequest,
      Pending, Rows, Batch, imapVars, historyVars, Requested, InJob, Schedule, Begin, Instance,
      RoomForCopy
<1>0. uids[m] < MaxUid
  <2>1. Writing(m) = {}
    BY DEF Writing
  <2>2. Cardinality(Writing(m)) = 0
    BY <2>1, FS_EmptySet
  <2> QED BY <2>2 DEF SMTypeOK
<1>r. [pc |-> "write", msg |-> m, inst |-> [status |-> "scheduled", when |-> t, uid |-> Null]]
        \in [pc : {"write"}, msg : Messages, inst : Pending]
  BY DEF Statuses
<1>1. Typed'
  <2>1. row' \in [Messages -> Rows \cup {Null}]
    BY <1>0, <1>r DEF SMTypeOK
  <2>2. /\ copies' \in [Messages -> SUBSET (1 .. MaxUid)]
        /\ uids' \in [Messages -> 0 .. MaxUid]
        /\ \A n \in Messages : \A u \in copies'[n] : u <= uids'[n]
    BY <1>0, <1>r DEF SMTypeOK
  <2>3. TasksOK'
    BY <1>0, <1>r DEF SMTypeOK
  <2> QED BY <2>1, <2>2, <2>3 DEF SMTypeOK
<1>2. Apart'
  BY DEF Apart, Unknown, SMTypeOK
<1>3. OnePlace'
  BY DEF OnePlace, InBatch, Apart, Sending, WaitsForJob, SMTypeOK
<1>4. Sending'
  BY DEF Sending, AtMostOnce, NotYetSent, WaitsForJob, InBatch, Apart, OnePlace, Unknown, SMTypeOK
<1>5. Unknown'
  BY DEF Unknown, SMTypeOK
<1>6. OnTime'
  BY DEF OnTime, Apart, Sending, WaitsForJob, SMTypeOK
<1>7. ASSUME ImapIsSafe, Copied PROVE Copied'
  <2>1. copies[m] = {}
    BY DEF SMTypeOK
  <2>2. CopyInPlace'
    BY <1>7 DEF Copied, CopyInPlace
  <2>3. RequestKnowsCopy'
    BY <1>7, <2>1 DEF Copied, RequestKnowsCopy
  <2> QED BY <2>2, <2>3 DEF Copied
<1> QED BY <1>1, <1>2, <1>3, <1>4, <1>5, <1>6, <1>7

(* A request takes the row's state with it.                                  *)
LEMMA RescheduleStep ==
  ASSUME Orderly, SMIndInv, NEW q \in Clients, NEW m \in Messages, NEW t \in 1 .. MaxTime,
           Reschedule(q, m, t)
  PROVE  SMIndInv' /\ (ImapIsSafe /\ Copied => Copied')
<1> USE SchedulingAssumption DEF Orderly, SMIndInv, Typed, TasksOK, IdleWorker, IdleRequest,
      Pending, Rows, Batch, imapVars, historyVars, Requested, InJob, Reschedule, Begin, RoomForCopy
<1>0. uids[m] < MaxUid
  <2>1. Writing(m) = {}
    BY DEF Writing
  <2>2. Cardinality(Writing(m)) = 0
    BY <2>1, FS_EmptySet
  <2> QED BY <2>2 DEF SMTypeOK
<1>r. [row[m] EXCEPT !.when = t] \in Rows
  BY DEF SMTypeOK
<1>1. Typed'
  <2>1. row' \in [Messages -> Rows \cup {Null}]
    BY <1>0, <1>r DEF SMTypeOK
  <2>2. /\ copies' \in [Messages -> SUBSET (1 .. MaxUid)]
        /\ uids' \in [Messages -> 0 .. MaxUid]
        /\ \A n \in Messages : \A u \in copies'[n] : u <= uids'[n]
    BY <1>0, <1>r DEF SMTypeOK
  <2>3. TasksOK'
    BY <1>0, <1>r DEF SMTypeOK
  <2> QED BY <2>1, <2>2, <2>3 DEF SMTypeOK
<1>2. Apart'
  BY DEF Apart, Unknown, SMTypeOK
<1>3. OnePlace'
  BY DEF OnePlace, InBatch, Apart, Sending, WaitsForJob, SMTypeOK
<1>4. Sending'
  BY DEF Sending, AtMostOnce, NotYetSent, WaitsForJob, InBatch, Apart, OnePlace, Unknown, SMTypeOK
<1>5. Unknown'
  BY DEF Unknown, SMTypeOK
<1>6. OnTime'
  BY DEF OnTime, Apart, Sending, WaitsForJob, SMTypeOK
<1>7. ASSUME ImapIsSafe, Copied PROVE Copied'
  <2>1. row[m].status = "scheduled" => copies[m] = {row[m].uid}
    BY <1>7 DEF Copied, CopyInPlace
  <2>2. /\ [row[m] EXCEPT !.when = t].status = row[m].status
        /\ [row[m] EXCEPT !.when = t].uid = row[m].uid
    BY DEF SMTypeOK
  <2> QED BY <1>7, <2>1, <2>2, SMTT(60) DEF ImapIsSafe, Copied, CopyInPlace, RequestKnowsCopy,
       Apart,
       Sending, WaitsForJob, SMTypeOK
<1> QED BY <1>1, <1>2, <1>3, <1>4, <1>5, <1>6, <1>7

(* A request to cancel reads the row only.                                   *)
LEMMA CancelStep ==
  ASSUME Orderly, SMIndInv, NEW q \in Clients, NEW m \in Messages, Cancel(q, m)
  PROVE  SMIndInv' /\ (ImapIsSafe /\ Copied => Copied')
<1> USE SchedulingAssumption DEF Orderly, SMIndInv, Typed, TasksOK, IdleWorker, IdleRequest,
      Pending, Rows, Batch, imapVars, historyVars, Requested, InJob, Cancel, Begin
<1>1. Typed'
  BY DEF SMTypeOK
<1>2. Apart'
  BY DEF Apart, Unknown, SMTypeOK
<1>3. OnePlace'
  BY DEF OnePlace, InBatch, Apart, Sending, WaitsForJob, SMTypeOK
<1>4. Sending'
  BY DEF Sending, AtMostOnce, NotYetSent, WaitsForJob, InBatch, Apart, OnePlace, Unknown, SMTypeOK
<1>5. Unknown'
  BY DEF Unknown, SMTypeOK
<1>6. OnTime'
  BY DEF OnTime, Apart, Sending, WaitsForJob, SMTypeOK
<1>7. ASSUME ImapIsSafe, Copied PROVE Copied'
  BY <1>7 DEF ImapIsSafe, Copied, CopyInPlace, RequestKnowsCopy, Apart, Sending, WaitsForJob,
       SMTypeOK
<1> QED BY <1>1, <1>2, <1>3, <1>4, <1>5, <1>6, <1>7

(* The new copy is the one the request knows.                                *)
LEMMA PushStep ==
  ASSUME Orderly, SMIndInv, NEW q \in Clients, Push(q)
  PROVE  SMIndInv' /\ (ImapIsSafe /\ Copied => Copied')
<1> USE SchedulingAssumption DEF Orderly, SMIndInv, Typed, TasksOK, IdleWorker, IdleRequest,
      Pending, Rows, Batch, imapVars, historyVars, Requested, InJob, Push
<1>0. /\ client[q].msg \in Messages /\ client[q].inst \in Pending
      /\ uids[client[q].msg] + 1 \in 1 .. MaxUid
      /\ [client[q].inst EXCEPT !.uid = uids[client[q].msg] + 1] \in Rows
  BY DEF SMTypeOK
<1>r. /\ uids'[client[q].msg] = uids[client[q].msg] + 1
      /\ \A n \in Messages \ {client[q].msg} : uids'[n] = uids[n] /\ copies'[n] = copies[n]
      /\ copies'[client[q].msg] \subseteq copies[client[q].msg] \cup {uids[client[q].msg] + 1}
  BY <1>0 DEF SMTypeOK
<1>c. client'[q] = [pc |-> "saved", msg |-> client[q].msg,
                    inst |-> [client[q].inst EXCEPT !.uid = uids[client[q].msg] + 1]]
  <2>1. client[q] \in [pc : {"write"}, msg : Messages, inst : Pending]
    OBVIOUS
  <2> QED BY <2>1
<1>d. uids[client[q].msg] + 1 # 0
  BY <1>0
<1>1. Typed'
  <2>1. row' \in [Messages -> Rows \cup {Null}]
    BY <1>0, <1>r DEF SMTypeOK
  <2>2. /\ copies' \in [Messages -> SUBSET (1 .. MaxUid)]
        /\ uids' \in [Messages -> 0 .. MaxUid]
        /\ \A n \in Messages : \A u \in copies'[n] : u <= uids'[n]
    BY <1>0, <1>r DEF SMTypeOK
  <2>3. TasksOK'
    <3>1. client'[q] \in [pc : {"saved", "cancel", "moved"}, msg : Messages, inst : Rows]
      <4> HIDE DEF Rows
      <4> QED BY <1>0, <1>c
    <3>2. client' \in [Clients -> {IdleRequest}
            \cup [pc : {"write"}, msg : Messages, inst : Pending]
            \cup [pc : {"saved", "cancel", "moved"}, msg : Messages, inst : Rows]]
      <4> HIDE DEF Rows, Pending
      <4> QED BY <3>1
    <3>3. ASSUME NEW r \in Clients, client'[r].pc = "write"
          PROVE  uids'[client'[r].msg] < MaxUid
      <4>1. r # q /\ client'[r] = client[r]
        BY <1>c, <3>3
      <4>2. client[r].msg \in Messages /\ client[r].msg # client[q].msg
        BY <3>3, <4>1 DEF Apart
      <4> QED BY <1>r, <3>3, <4>1, <4>2
    <3> QED BY <3>2, <3>3
  <2> QED BY <2>1, <2>2, <2>3 DEF SMTypeOK
<1>2. Apart'
  BY DEF Apart, Unknown, SMTypeOK
<1>3. OnePlace'
  BY DEF OnePlace, InBatch, Apart, Sending, WaitsForJob, SMTypeOK
<1>4. Sending'
  BY DEF Sending, AtMostOnce, NotYetSent, WaitsForJob, InBatch, Apart, OnePlace, Unknown, SMTypeOK
<1>5. Unknown'
  BY DEF Unknown, SMTypeOK
<1>6. OnTime'
  BY DEF OnTime, Apart, Sending, WaitsForJob, SMTypeOK
<1>7. ASSUME ImapIsSafe, Copied PROVE Copied'
  <2>1. CopyInPlace'
    <3>1. client'[q].msg = client[q].msg
      BY <1>c
    <3>2. ASSUME NEW n \in Messages, ~Requested(n)' PROVE n # client[q].msg /\ ~Requested(n)
      BY <3>1, <3>2
    <3> QED BY <1>7, <1>r, <3>2 DEF Copied, CopyInPlace
  <2>2. RequestKnowsCopy'
    BY <1>7 DEF ImapIsSafe, Copied, RequestKnowsCopy, Apart, SMTypeOK
  <2> QED BY <2>1, <2>2 DEF Copied
<1> QED BY <1>1, <1>2, <1>3, <1>4, <1>5, <1>6, <1>7

(* The mail server fails: nothing but copies may be lost.                    *)
LEMMA PushFailsStep ==
  ASSUME Orderly, SMIndInv, NEW q \in Clients, PushFails(q)
  PROVE  SMIndInv' /\ (ImapIsSafe /\ Copied => Copied')
<1> USE SchedulingAssumption DEF Orderly, SMIndInv, Typed, TasksOK, IdleWorker, IdleRequest,
      Pending, Rows, Batch, imapVars, historyVars, Requested, InJob, PushFails, EndOf
<1>1. Typed'
  BY DEF SMTypeOK
<1>2. Apart'
  BY DEF Apart, Unknown, SMTypeOK
<1>3. OnePlace'
  BY DEF OnePlace, InBatch, Apart, Sending, WaitsForJob, SMTypeOK
<1>4. Sending'
  BY DEF Sending, AtMostOnce, NotYetSent, WaitsForJob, InBatch, Apart, OnePlace, Unknown, SMTypeOK
<1>5. Unknown'
  BY DEF Unknown, SMTypeOK
<1>6. OnTime'
  BY DEF OnTime, Apart, Sending, WaitsForJob, SMTypeOK
<1>7. ASSUME ImapIsSafe, Copied PROVE Copied'
  BY <1>7 DEF ImapIsSafe, Copied, CopyInPlace, RequestKnowsCopy, Apart, Sending, WaitsForJob,
       SMTypeOK
<1> QED BY <1>1, <1>2, <1>3, <1>4, <1>5, <1>6, <1>7

(* No job has the message whose row is written.                              *)
LEMMA CommitStep ==
  ASSUME Orderly, SMIndInv, NEW q \in Clients, Commit(q)
  PROVE  SMIndInv' /\ (ImapIsSafe /\ Copied => Copied')
<1> USE SchedulingAssumption DEF Orderly, SMIndInv, Typed, TasksOK, IdleWorker, IdleRequest,
      Pending, Rows, Batch, imapVars, historyVars, Requested, InJob, Commit, EndOf
<1>1. Typed'
  BY DEF SMTypeOK
<1>2. Apart'
  BY DEF Apart, Unknown, SMTypeOK
<1>3. OnePlace'
  BY DEF OnePlace, InBatch, Apart, Sending, WaitsForJob, SMTypeOK
<1>4. Sending'
  BY DEF Sending, AtMostOnce, NotYetSent, WaitsForJob, InBatch, Apart, OnePlace, Unknown, SMTypeOK
<1>5. Unknown'
  BY DEF Unknown, SMTypeOK
<1>6. OnTime'
  BY DEF OnTime, Apart, Sending, WaitsForJob, SMTypeOK
<1>7. ASSUME ImapIsSafe, Copied PROVE Copied'
  BY <1>7, ZenonT(90) DEF ImapIsSafe, Copied, CopyInPlace, RequestKnowsCopy, Apart, Sending,
       WaitsForJob,
       SMTypeOK
<1> QED BY <1>1, <1>2, <1>3, <1>4, <1>5, <1>6, <1>7

(* Nothing is written.                                                       *)
LEMMA RollbackStep ==
  ASSUME Orderly, SMIndInv, NEW q \in Clients, Rollback(q)
  PROVE  SMIndInv' /\ (ImapIsSafe /\ Copied => Copied')
<1> USE SchedulingAssumption DEF Orderly, SMIndInv, Typed, TasksOK, IdleWorker, IdleRequest,
      Pending, Rows, Batch, imapVars, historyVars, Requested, InJob, Rollback, EndOf
<1>1. Typed'
  BY DEF SMTypeOK
<1>2. Apart'
  BY DEF Apart, Unknown, SMTypeOK
<1>3. OnePlace'
  BY DEF OnePlace, InBatch, Apart, Sending, WaitsForJob, SMTypeOK
<1>4. Sending'
  BY DEF Sending, AtMostOnce, NotYetSent, WaitsForJob, InBatch, Apart, OnePlace, Unknown, SMTypeOK
<1>5. Unknown'
  BY DEF Unknown, SMTypeOK
<1>6. OnTime'
  BY DEF OnTime, Apart, Sending, WaitsForJob, SMTypeOK
<1>7. ASSUME ImapIsSafe, Copied PROVE Copied'
  BY <1>7 DEF ImapIsSafe, Copied, CopyInPlace, RequestKnowsCopy, Apart, Sending, WaitsForJob,
       SMTypeOK
<1> QED BY <1>1, <1>2, <1>3, <1>4, <1>5, <1>6, <1>7

(* The copies of a message about to be deleted.                              *)
LEMMA CancelMoveStep ==
  ASSUME Orderly, SMIndInv, NEW q \in Clients, CancelMove(q)
  PROVE  SMIndInv' /\ (ImapIsSafe /\ Copied => Copied')
<1> USE SchedulingAssumption DEF Orderly, SMIndInv, Typed, TasksOK, IdleWorker, IdleRequest,
      Pending, Rows, Batch, imapVars, historyVars, Requested, InJob, CancelMove, MoveCopies
<1>1. Typed'
  BY SMTT(60) DEF SMTypeOK
<1>2. Apart'
  BY DEF Apart, Unknown, SMTypeOK
<1>3. OnePlace'
  BY DEF OnePlace, InBatch, Apart, Sending, WaitsForJob, SMTypeOK
<1>4. Sending'
  BY DEF Sending, AtMostOnce, NotYetSent, WaitsForJob, InBatch, Apart, OnePlace, Unknown, SMTypeOK
<1>5. Unknown'
  BY DEF Unknown, SMTypeOK
<1>6. OnTime'
  BY DEF OnTime, Apart, Sending, WaitsForJob, SMTypeOK
<1>7. ASSUME ImapIsSafe, Copied PROVE Copied'
  BY <1>7 DEF ImapIsSafe, Copied, CopyInPlace, RequestKnowsCopy, Apart, Sending, WaitsForJob,
       SMTypeOK
<1> QED BY <1>1, <1>2, <1>3, <1>4, <1>5, <1>6, <1>7

(* A message that could not be cancelled is not scheduled any more.          *)
LEMMA CancelMoveFailsStep ==
  ASSUME Orderly, SMIndInv, NEW q \in Clients, CancelMoveFails(q)
  PROVE  SMIndInv' /\ (ImapIsSafe /\ Copied => Copied')
<1> USE SchedulingAssumption DEF Orderly, SMIndInv, Typed, TasksOK, IdleWorker, IdleRequest,
      Pending, Rows, Batch, imapVars, historyVars, Requested, InJob, CancelMoveFails,
      SaveMoveError, EndOf
<1>0. /\ client[q].msg \in Messages
      /\ [client[q].inst EXCEPT !.status = "move_error"] \in Rows
  BY DEF Statuses
<1>1. Typed'
  <2>1. row' \in [Messages -> Rows \cup {Null}]
    BY <1>0 DEF SMTypeOK
  <2>2. /\ copies' \in [Messages -> SUBSET (1 .. MaxUid)]
        /\ uids' \in [Messages -> 0 .. MaxUid]
        /\ \A n \in Messages : \A u \in copies'[n] : u <= uids'[n]
    BY <1>0 DEF SMTypeOK
  <2>3. TasksOK'
    BY <1>0 DEF SMTypeOK
  <2> QED BY <2>1, <2>2, <2>3 DEF SMTypeOK
<1>2. Apart'
  BY DEF Apart, Unknown, SMTypeOK
<1>3. OnePlace'
  BY DEF OnePlace, InBatch, Apart, Sending, WaitsForJob, SMTypeOK
<1>4. Sending'
  BY DEF Sending, AtMostOnce, NotYetSent, WaitsForJob, InBatch, Apart, OnePlace, Unknown, SMTypeOK
<1>5. Unknown'
  BY DEF Unknown, SMTypeOK
<1>6. OnTime'
  BY DEF OnTime, Apart, Sending, WaitsForJob, SMTypeOK
<1>7. ASSUME ImapIsSafe, Copied PROVE Copied'
  <2>1. CopyInPlace'
    BY <1>7 DEF Copied, CopyInPlace, Sending, WaitsForJob, SMTypeOK
  <2>2. RequestKnowsCopy'
    BY <1>7 DEF ImapIsSafe, Copied, RequestKnowsCopy, Apart, SMTypeOK
  <2> QED BY <2>1, <2>2 DEF Copied
<1> QED BY <1>1, <1>2, <1>3, <1>4, <1>5, <1>6, <1>7

(* The row goes, and no job has the message.                                 *)
LEMMA CancelDeleteStep ==
  ASSUME Orderly, SMIndInv, NEW q \in Clients, CancelDelete(q)
  PROVE  SMIndInv' /\ (ImapIsSafe /\ Copied => Copied')
<1> USE SchedulingAssumption DEF Orderly, SMIndInv, Typed, TasksOK, IdleWorker, IdleRequest,
      Pending, Rows, Batch, imapVars, historyVars, Requested, InJob, CancelDelete, EndOf
<1>1. Typed'
  BY DEF SMTypeOK
<1>2. Apart'
  BY DEF Apart, Unknown, SMTypeOK
<1>3. OnePlace'
  BY DEF OnePlace, InBatch, Apart, Sending, WaitsForJob, SMTypeOK
<1>4. Sending'
  BY DEF Sending, AtMostOnce, NotYetSent, WaitsForJob, InBatch, Apart, OnePlace, Unknown, SMTypeOK
<1>5. Unknown'
  BY DEF Unknown, SMTypeOK
<1>6. OnTime'
  BY DEF OnTime, Apart, Sending, WaitsForJob, SMTypeOK
<1>7. ASSUME ImapIsSafe, Copied PROVE Copied'
  BY <1>7 DEF ImapIsSafe, Copied, CopyInPlace, RequestKnowsCopy, Apart, Sending, WaitsForJob,
       SMTypeOK
<1> QED BY <1>1, <1>2, <1>3, <1>4, <1>5, <1>6, <1>7

(* What is due has not been sent, and is with no job.                        *)
LEMMA ScanStep ==
  ASSUME Orderly, SMIndInv, NEW w \in Workers, send_scheduled_messages(w)
  PROVE  SMIndInv' /\ (ImapIsSafe /\ Copied => Copied')
<1> USE SchedulingAssumption DEF Orderly, SMIndInv, Typed, TasksOK, IdleWorker, IdleRequest,
      Pending, Rows, Batch, imapVars, historyVars, Requested, InJob, send_scheduled_messages, Due
<1>0. Loaded \subseteq Batch
  BY DEF SMTypeOK, Loaded
<1>i. worker[w] = IdleWorker
  OBVIOUS
<1>s. worker' = [worker EXCEPT ![w] = [IdleWorker EXCEPT !.pc = "scan", !.batch = Loaded]]
  BY <1>i
<1>r. worker'[w] = [pc |-> "scan", batch |-> Loaded, msg |-> Null, inst |-> Null]
  BY <1>s
<1>1. Typed'
  <2>1. row' \in [Messages -> Rows \cup {Null}]
    BY <1>0, <1>r DEF SMTypeOK
  <2>2. /\ copies' \in [Messages -> SUBSET (1 .. MaxUid)]
        /\ uids' \in [Messages -> 0 .. MaxUid]
        /\ \A n \in Messages : \A u \in copies'[n] : u <= uids'[n]
    BY <1>0, <1>r DEF SMTypeOK
  <2>3. worker'[w] \in {IdleWorker}
          \cup [pc : {"scan"}, batch : SUBSET Batch, msg : {Null}, inst : {Null}]
    BY <1>0, <1>r
  <2>4. \A v \in Workers : v = w
    OBVIOUS
  <2>5. TasksOK'
    BY <2>3, <2>4 DEF SMTypeOK
  <2> QED BY <2>1, <2>2, <2>3, <2>4, <2>5 DEF SMTypeOK
<1>2. Apart'
  BY DEF Apart, Unknown, SMTypeOK
<1>3. OnePlace'
  BY DEF Loaded, OnePlace, InBatch, Apart, Sending, WaitsForJob, SMTypeOK
<1>4. Sending'
  BY DEF Loaded, Sending, AtMostOnce, NotYetSent, WaitsForJob, InBatch, Apart, OnePlace, Unknown,
       SMTypeOK
<1>5. Unknown'
  BY DEF Loaded, Unknown, SMTypeOK
<1>6. OnTime'
  BY DEF Loaded, OnTime, Apart, Sending, WaitsForJob, SMTypeOK
<1>7. ASSUME ImapIsSafe, Copied PROVE Copied'
  BY <1>7 DEF ImapIsSafe, Copied, CopyInPlace, RequestKnowsCopy, Apart, Sending, WaitsForJob,
       SMTypeOK
<1> QED BY <1>1, <1>2, <1>3, <1>4, <1>5, <1>6, <1>7

(* A marked message is no longer scheduled.                                  *)
LEMMA MarkStep ==
  ASSUME Orderly, SMIndInv, NEW w \in Workers, Mark(w)
  PROVE  SMIndInv' /\ (ImapIsSafe /\ Copied => Copied')
<1> USE SchedulingAssumption DEF Orderly, SMIndInv, Typed, TasksOK, IdleWorker, IdleRequest,
      Pending, Rows, Batch, imapVars, historyVars, Requested, InJob, Mark
<1>1. Typed'
  BY DEF SMTypeOK
<1>2. Apart'
  BY DEF Apart, Unknown, SMTypeOK
<1>3. OnePlace'
  BY DEF OnePlace, InBatch, Apart, Sending, WaitsForJob, SMTypeOK
<1>4. Sending'
  BY DEF Sending, AtMostOnce, NotYetSent, WaitsForJob, InBatch, Apart, OnePlace, Unknown, SMTypeOK
<1>5. Unknown'
  BY DEF Unknown, SMTypeOK
<1>6. OnTime'
  BY DEF OnTime, Apart, Sending, WaitsForJob, SMTypeOK
<1>7. ASSUME ImapIsSafe, Copied PROVE Copied'
  BY <1>7 DEF ImapIsSafe, Copied, CopyInPlace, RequestKnowsCopy, Apart, Sending, WaitsForJob,
       SMTypeOK
<1> QED BY <1>1, <1>2, <1>3, <1>4, <1>5, <1>6, <1>7

(* The message goes from the worker to the queue.                            *)
LEMMA EnqueueStep ==
  ASSUME Orderly, SMIndInv, NEW w \in Workers, Enqueue(w)
  PROVE  SMIndInv' /\ (ImapIsSafe /\ Copied => Copied')
<1> USE SchedulingAssumption DEF Orderly, SMIndInv, Typed, TasksOK, IdleWorker, IdleRequest,
      Pending, Rows, Batch, imapVars, historyVars, Requested, InJob, Enqueue
<1>0. worker[w].msg \in Messages /\ worker[w].batch \subseteq Batch
  OBVIOUS
<1>r. worker'[w] = [pc |-> IF worker[w].batch = {} THEN "idle" ELSE "scan",
                    batch |-> worker[w].batch, msg |-> Null, inst |-> Null]
  BY SMTT(60)
<1>1. Typed'
  <2>1. row' \in [Messages -> Rows \cup {Null}]
    BY <1>0, <1>r DEF SMTypeOK
  <2>2. /\ copies' \in [Messages -> SUBSET (1 .. MaxUid)]
        /\ uids' \in [Messages -> 0 .. MaxUid]
        /\ \A n \in Messages : \A u \in copies'[n] : u <= uids'[n]
    BY <1>0, <1>r DEF SMTypeOK
  <2>3. worker'[w] \in {IdleWorker}
          \cup [pc : {"scan"}, batch : SUBSET Batch, msg : {Null}, inst : {Null}]
    <3>1. CASE worker[w].batch = {}
      BY <1>r, <3>1
    <3>2. CASE worker[w].batch # {}
      <4>1. worker[w].batch \in SUBSET Batch
        BY <1>0
      <4>2. worker'[w] = [pc |-> "scan", batch |-> worker[w].batch, msg |-> Null, inst |-> Null]
        BY <1>r, <3>2
      <4>3. worker'[w]
              \in [pc : {"scan"}, batch : SUBSET Batch, msg : {Null}, inst : {Null}]
        BY ONLY <4>1, <4>2, ScanGoesOn
      <4> QED BY <4>3
    <3> QED BY <3>1, <3>2
  <2>4. \A v \in Workers : v = w
    OBVIOUS
  <2>5. TasksOK'
    BY <2>3, <2>4, ZenonT(60) DEF SMTypeOK
  <2>6. \A v \in Workers :
          /\ worker'[v].pc \in {"idle", "scan"}
          /\ worker'[v].batch \subseteq Batch
          /\ worker'[v].msg = Null /\ worker'[v].inst = Null
    BY <1>0, <1>r, <2>4
  <2>7. queued' \in [Messages -> Nat]
    BY <1>0 DEF SMTypeOK
  <2>8. SMTypeOK'
    <3> HIDE DEF Batch, Rows, TasksOK
    <3> QED BY <2>1, <2>2, <2>6, <2>7 DEF SMTypeOK
  <2> QED BY <2>8, <2>1, <2>2, <2>3, <2>4, <2>5 DEF SMTypeOK
<1>2. Apart'
  BY DEF Apart, Unknown, SMTypeOK
<1>3. OnePlace'
  BY DEF OnePlace, InBatch, Apart, Sending, WaitsForJob, SMTypeOK
<1>4. Sending'
  BY DEF Sending, AtMostOnce, NotYetSent, WaitsForJob, InBatch, Apart, OnePlace, Unknown, SMTypeOK
<1>5. Unknown'
  BY DEF Unknown, SMTypeOK
<1>6. OnTime'
  <2>1. ASSUME NEW n \in Messages PROVE InJob(n)' => InJob(n)
    BY <1>r DEF SMTypeOK
  <2> QED BY <2>1 DEF OnTime
<1>7. ASSUME ImapIsSafe, Copied PROVE Copied'
  BY <1>7 DEF ImapIsSafe, Copied, CopyInPlace, RequestKnowsCopy, Apart, Sending, WaitsForJob,
       SMTypeOK
<1> QED BY <1>1, <1>2, <1>3, <1>4, <1>5, <1>6, <1>7

(* ... and from the queue to the worker.                                     *)
LEMMA TakeStep ==
  ASSUME Orderly, SMIndInv, NEW w \in Workers, send_scheduled_message(w)
  PROVE  SMIndInv' /\ (ImapIsSafe /\ Copied => Copied')
<1> USE SchedulingAssumption DEF Orderly, SMIndInv, Typed, TasksOK, IdleWorker, IdleRequest,
      Pending, Rows, Batch, imapVars, historyVars, Requested, InJob, send_scheduled_message
<1>1. Typed'
  BY DEF SMTypeOK
<1>2. Apart'
  BY DEF Apart, Unknown, SMTypeOK
<1>3. OnePlace'
  BY DEF OnePlace, InBatch, Apart, Sending, WaitsForJob, SMTypeOK
<1>4. Sending'
  BY DEF Sending, AtMostOnce, NotYetSent, WaitsForJob, InBatch, Apart, OnePlace, Unknown, SMTypeOK
<1>5. Unknown'
  BY DEF Unknown, SMTypeOK
<1>6. OnTime'
  BY DEF OnTime, Apart, Sending, WaitsForJob, SMTypeOK
<1>7. ASSUME ImapIsSafe, Copied PROVE Copied'
  BY <1>7 DEF ImapIsSafe, Copied, CopyInPlace, RequestKnowsCopy, Apart, Sending, WaitsForJob,
       SMTypeOK
<1> QED BY <1>1, <1>2, <1>3, <1>4, <1>5, <1>6, <1>7

(* The message was nowhere else, and had not been sent.                      *)
LEMMA AcceptedStep ==
  ASSUME Orderly, SMIndInv, NEW w \in Workers, Accepted(w)
  PROVE  SMIndInv' /\ (ImapIsSafe /\ Copied => Copied')
<1> USE SchedulingAssumption DEF Orderly, SMIndInv, Typed, TasksOK, IdleWorker, IdleRequest,
      Pending, Rows, Batch, imapVars, historyVars, Requested, InJob, Accepted
<1>1. Typed'
  BY DEF SMTypeOK
<1>2. Apart'
  BY DEF Apart, Unknown, SMTypeOK
<1>3. OnePlace'
  BY DEF OnePlace, InBatch, Apart, Sending, WaitsForJob, SMTypeOK
<1>4. Sending'
  BY DEF Sending, AtMostOnce, NotYetSent, WaitsForJob, InBatch, Apart, OnePlace, Unknown, SMTypeOK
<1>5. Unknown'
  BY DEF Unknown, SMTypeOK
<1>6. OnTime'
  BY DEF OnTime, Apart, Sending, WaitsForJob, SMTypeOK
<1>7. ASSUME ImapIsSafe, Copied PROVE Copied'
  BY <1>7 DEF ImapIsSafe, Copied, CopyInPlace, RequestKnowsCopy, Apart, Sending, WaitsForJob,
       SMTypeOK
<1> QED BY <1>1, <1>2, <1>3, <1>4, <1>5, <1>6, <1>7

(* A message that was refused is not scheduled any more.                     *)
LEMMA RefusedStep ==
  ASSUME Orderly, SMIndInv, NEW w \in Workers, Refused(w)
  PROVE  SMIndInv' /\ (ImapIsSafe /\ Copied => Copied')
<1> USE SchedulingAssumption DEF Orderly, SMIndInv, Typed, TasksOK, IdleWorker, IdleRequest,
      Pending, Rows, Batch, imapVars, historyVars, Requested, InJob, Refused, EndSend
<1>0. /\ worker[w].msg \in Messages
      /\ [worker[w].inst EXCEPT !.status = "send_error"] \in Rows
  BY DEF Statuses
<1>1. Typed'
  <2>1. row' \in [Messages -> Rows \cup {Null}]
    BY <1>0 DEF SMTypeOK
  <2>2. /\ copies' \in [Messages -> SUBSET (1 .. MaxUid)]
        /\ uids' \in [Messages -> 0 .. MaxUid]
        /\ \A n \in Messages : \A u \in copies'[n] : u <= uids'[n]
    BY <1>0 DEF SMTypeOK
  <2>3. TasksOK'
    BY <1>0 DEF SMTypeOK
  <2> QED BY <2>1, <2>2, <2>3 DEF SMTypeOK
<1>2. Apart'
  BY DEF Apart, Unknown, SMTypeOK
<1>3. OnePlace'
  BY DEF OnePlace, InBatch, Apart, Sending, WaitsForJob, SMTypeOK
<1>4. Sending'
  BY DEF Sending, AtMostOnce, NotYetSent, WaitsForJob, InBatch, Apart, OnePlace, Unknown, SMTypeOK
<1>5. Unknown'
  BY DEF Unknown, SMTypeOK
<1>6. OnTime'
  BY DEF OnTime, Apart, Sending, WaitsForJob, SMTypeOK
<1>7. ASSUME ImapIsSafe, Copied PROVE Copied'
  <2>1. \A n \in Messages : row'[n] = row[n] \/ row'[n].status # "scheduled"
    BY DEF SMTypeOK
  <2> QED BY <1>7, <2>1 DEF ImapIsSafe, Copied, CopyInPlace, RequestKnowsCopy, Apart, Sending,
       WaitsForJob, SMTypeOK
<1> QED BY <1>1, <1>2, <1>3, <1>4, <1>5, <1>6, <1>7

(* A message that could not be sent is left as it was marked.                *)
LEMMA ConnectionFailsStep ==
  ASSUME Orderly, SMIndInv, NEW w \in Workers, ConnectionFails(w)
  PROVE  SMIndInv' /\ (ImapIsSafe /\ Copied => Copied')
<1> USE SchedulingAssumption DEF Orderly, SMIndInv, Typed, TasksOK, IdleWorker, IdleRequest,
      Pending, Rows, Batch, imapVars, historyVars, Requested, InJob, ConnectionFails, EndSend
<1>1. Typed'
  BY DEF SMTypeOK
<1>2. Apart'
  BY DEF Apart, Unknown, SMTypeOK
<1>3. OnePlace'
  BY DEF OnePlace, InBatch, Apart, Sending, WaitsForJob, SMTypeOK
<1>4. Sending'
  BY DEF Sending, AtMostOnce, NotYetSent, WaitsForJob, InBatch, Apart, OnePlace, Unknown, SMTypeOK
<1>5. Unknown'
  BY DEF Unknown, SMTypeOK
<1>6. OnTime'
  BY DEF OnTime, Apart, Sending, WaitsForJob, SMTypeOK
<1>7. ASSUME ImapIsSafe, Copied PROVE Copied'
  BY <1>7 DEF ImapIsSafe, Copied, CopyInPlace, RequestKnowsCopy, Apart, Sending, WaitsForJob,
       SMTypeOK
<1> QED BY <1>1, <1>2, <1>3, <1>4, <1>5, <1>6, <1>7

(* The copies of a message that was sent.                                    *)
LEMMA MoveToSentStep ==
  ASSUME Orderly, SMIndInv, NEW w \in Workers, MoveToSent(w)
  PROVE  SMIndInv' /\ (ImapIsSafe /\ Copied => Copied')
<1> USE SchedulingAssumption DEF Orderly, SMIndInv, Typed, TasksOK, IdleWorker, IdleRequest,
      Pending, Rows, Batch, imapVars, historyVars, Requested, InJob, MoveToSent, MoveCopies
<1>1. Typed'
  BY DEF SMTypeOK
<1>2. Apart'
  BY DEF Apart, Unknown, SMTypeOK
<1>3. OnePlace'
  BY DEF OnePlace, InBatch, Apart, Sending, WaitsForJob, SMTypeOK
<1>4. Sending'
  BY DEF Sending, AtMostOnce, NotYetSent, WaitsForJob, InBatch, Apart, OnePlace, Unknown, SMTypeOK
<1>5. Unknown'
  BY DEF Unknown, SMTypeOK
<1>6. OnTime'
  BY DEF OnTime, Apart, Sending, WaitsForJob, SMTypeOK
<1>7. ASSUME ImapIsSafe, Copied PROVE Copied'
  <2>1. CopyInPlace'
    BY <1>7 DEF Copied, CopyInPlace, Sending, WaitsForJob, SMTypeOK
  <2>2. RequestKnowsCopy'
    BY <1>7 DEF ImapIsSafe, Copied, RequestKnowsCopy, Apart, SMTypeOK
  <2> QED BY <2>1, <2>2 DEF Copied
<1> QED BY <1>1, <1>2, <1>3, <1>4, <1>5, <1>6, <1>7

(* A message that was sent keeps its row, but does not wait.                 *)
LEMMA MoveToSentFailsStep ==
  ASSUME Orderly, SMIndInv, NEW w \in Workers, MoveToSentFails(w)
  PROVE  SMIndInv' /\ (ImapIsSafe /\ Copied => Copied')
<1> USE SchedulingAssumption DEF Orderly, SMIndInv, Typed, TasksOK, IdleWorker, IdleRequest,
      Pending, Rows, Batch, imapVars, historyVars, Requested, InJob, MoveToSentFails,
      SaveMoveError, EndSend
<1>0. /\ worker[w].msg \in Messages
      /\ [worker[w].inst EXCEPT !.status = "move_error"] \in Rows
  BY DEF Statuses
<1>1. Typed'
  <2>1. row' \in [Messages -> Rows \cup {Null}]
    BY <1>0 DEF SMTypeOK
  <2>2. /\ copies' \in [Messages -> SUBSET (1 .. MaxUid)]
        /\ uids' \in [Messages -> 0 .. MaxUid]
        /\ \A n \in Messages : \A u \in copies'[n] : u <= uids'[n]
    BY <1>0 DEF SMTypeOK
  <2>3. TasksOK'
    BY <1>0 DEF SMTypeOK
  <2> QED BY <2>1, <2>2, <2>3 DEF SMTypeOK
<1>2. Apart'
  BY DEF Apart, Unknown, SMTypeOK
<1>3. OnePlace'
  BY DEF OnePlace, InBatch, Apart, Sending, WaitsForJob, SMTypeOK
<1>4. Sending'
  BY DEF Sending, AtMostOnce, NotYetSent, WaitsForJob, InBatch, Apart, OnePlace, Unknown, SMTypeOK
<1>5. Unknown'
  BY DEF Unknown, SMTypeOK
<1>6. OnTime'
  BY DEF OnTime, Apart, Sending, WaitsForJob, SMTypeOK
<1>7. ASSUME ImapIsSafe, Copied PROVE Copied'
  BY <1>7 DEF ImapIsSafe, Copied, CopyInPlace, RequestKnowsCopy, Apart, Sending, WaitsForJob,
       SMTypeOK
<1> QED BY <1>1, <1>2, <1>3, <1>4, <1>5, <1>6, <1>7

(* The row of a message that was sent goes.                                  *)
LEMMA DeleteRowStep ==
  ASSUME Orderly, SMIndInv, NEW w \in Workers, DeleteRow(w)
  PROVE  SMIndInv' /\ (ImapIsSafe /\ Copied => Copied')
<1> USE SchedulingAssumption DEF Orderly, SMIndInv, Typed, TasksOK, IdleWorker, IdleRequest,
      Pending, Rows, Batch, imapVars, historyVars, Requested, InJob, DeleteRow, EndSend
<1>1. Typed'
  BY DEF SMTypeOK
<1>2. Apart'
  BY DEF Apart, Unknown, SMTypeOK
<1>3. OnePlace'
  BY DEF OnePlace, InBatch, Apart, Sending, WaitsForJob, SMTypeOK
<1>4. Sending'
  BY DEF Sending, AtMostOnce, NotYetSent, WaitsForJob, InBatch, Apart, OnePlace, Unknown, SMTypeOK
<1>5. Unknown'
  BY DEF Unknown, SMTypeOK
<1>6. OnTime'
  BY DEF OnTime, Apart, Sending, WaitsForJob, SMTypeOK
<1>7. ASSUME ImapIsSafe, Copied PROVE Copied'
  BY <1>7, ZenonT(60) DEF ImapIsSafe, Copied, CopyInPlace, RequestKnowsCopy, Apart, Sending,
       WaitsForJob,
       SMTypeOK
<1> QED BY <1>1, <1>2, <1>3, <1>4, <1>5, <1>6, <1>7

(* What a killed worker had is with no job any more.                         *)
LEMMA KilledStep ==
  ASSUME Orderly, SMIndInv, NEW w \in Workers, WorkerKilled(w)
  PROVE  SMIndInv' /\ (ImapIsSafe /\ Copied => Copied')
<1> USE SchedulingAssumption DEF Orderly, SMIndInv, Typed, TasksOK, IdleWorker, IdleRequest,
      Pending, Rows, Batch, imapVars, historyVars, Requested, InJob, WorkerKilled, EndSend
<1>1. Typed'
  BY DEF SMTypeOK
<1>2. Apart'
  BY DEF Apart, Unknown, SMTypeOK
<1>3. OnePlace'
  BY DEF OnePlace, InBatch, Apart, Sending, WaitsForJob, SMTypeOK
<1>4. Sending'
  BY DEF Sending, AtMostOnce, NotYetSent, WaitsForJob, InBatch, Apart, OnePlace, Unknown, SMTypeOK
<1>5. Unknown'
  BY DEF Unknown, SMTypeOK
<1>6. OnTime'
  BY DEF OnTime, Apart, Sending, WaitsForJob, SMTypeOK
<1>7. ASSUME ImapIsSafe, Copied PROVE Copied'
  BY <1>7 DEF ImapIsSafe, Copied, CopyInPlace, RequestKnowsCopy, Apart, Sending, WaitsForJob,
       SMTypeOK
<1> QED BY <1>1, <1>2, <1>3, <1>4, <1>5, <1>6, <1>7

(* Every step keeps the invariants.                                          *)
LEMMA SMStepKeeps ==
  ASSUME Orderly, SMIndInv, [SMNext]_smVars
  PROVE  SMIndInv' /\ (ImapIsSafe /\ Copied => Copied')
<1>1. CASE MinutePasses
  BY <1>1, TimeStep
<1>2. ASSUME NEW q \in Clients, NEW m \in Messages, NEW t \in 1 .. MaxTime,
             Schedule(q, m, t) \/ Reschedule(q, m, t)
      PROVE  SMIndInv' /\ (ImapIsSafe /\ Copied => Copied')
  BY <1>2, ScheduleStep, RescheduleStep
<1>3. ASSUME NEW q \in Clients, NEW m \in Messages, Cancel(q, m)
      PROVE  SMIndInv' /\ (ImapIsSafe /\ Copied => Copied')
  BY <1>3, CancelStep
<1>4. ASSUME NEW q \in Clients, RequestStep(q)
      PROVE  SMIndInv' /\ (ImapIsSafe /\ Copied => Copied')
  BY <1>4, PushStep, PushFailsStep, CommitStep, RollbackStep, CancelMoveStep,
     CancelMoveFailsStep, CancelDeleteStep DEF RequestStep
<1>5. ASSUME NEW w \in Workers, WorkerStep(w) \/ WorkerKilled(w)
      PROVE  SMIndInv' /\ (ImapIsSafe /\ Copied => Copied')
  <2>1. CASE send_scheduled_messages(w) \/ Mark(w) \/ Enqueue(w) \/ send_scheduled_message(w)
    BY <2>1, ScanStep, MarkStep, EnqueueStep, TakeStep
  <2>2. CASE Accepted(w) \/ Refused(w) \/ ConnectionFails(w)
    BY <2>2, AcceptedStep, RefusedStep, ConnectionFailsStep
  <2>3. CASE MoveToSent(w) \/ MoveToSentFails(w) \/ DeleteRow(w) \/ WorkerKilled(w)
    BY <2>3, MoveToSentStep, MoveToSentFailsStep, DeleteRowStep, KilledStep
  <2> QED BY <1>5, <2>1, <2>2, <2>3 DEF WorkerStep
<1>6. CASE UNCHANGED smVars
  <2> USE <1>6 DEF smVars, imapVars, historyVars, SMIndInv
  <2>1. Typed' /\ Apart' /\ OnePlace'
    BY DEF Typed, SMTypeOK, TasksOK, Apart, InJob, OnePlace, InBatch
  <2>2. Sending' /\ Unknown' /\ OnTime'
    BY DEF Sending, AtMostOnce, NotYetSent, WaitsForJob, Unknown, OnTime, InJob, InBatch
  <2>3. Copied => Copied'
    BY DEF Copied, CopyInPlace, RequestKnowsCopy, Requested
  <2> QED BY <2>1, <2>2, <2>3
<1> QED BY <1>1, <1>2, <1>3, <1>4, <1>5, <1>6 DEF SMNext, NewRequest

(* The invariant of requests and jobs in progress (webmail/models.py,         *)
(* webmail/jobs.py, webmail/serializers.py).                                 *)
THEOREM JobsKeepOrder == ASSUME Orderly PROVE SMSpec => []SMIndInv
<1>1. SMInit => SMIndInv
  BY SMInitially
<1>2. SMIndInv /\ [SMNext]_smVars => SMIndInv'
  BY SMStepKeeps
<1> QED BY <1>1, <1>2, PTL DEF SMSpec

(* The job hands no message to the SMTP server twice, whatever fails: the     *)
(* status saved before the job is queued keeps the scheduler from taking the *)
(* message again (webmail/jobs.py).                                          *)
THEOREM MessagesAreSentOnce == ASSUME Orderly PROVE SMSpec => []AtMostOnce
<1>1. SMIndInv => AtMostOnce
  BY DEF SMIndInv, Sending
<1> QED BY <1>1, JobsKeepOrder, PTL

(* ... and while it waits its user sees one copy of it, the one its row      *)
(* knows, as long as requests do not fail after a copy was replaced.         *)
THEOREM OneMessageAlways ==
  ASSUME Orderly, ImapIsSafe PROVE SMSpec => []OneMessage
<1>1. SMInit => SMIndInv /\ Copied
  BY SMInitially
<1>2. SMIndInv /\ Copied /\ [SMNext]_smVars => (SMIndInv /\ Copied)'
  BY SMStepKeeps
<1>3. SMIndInv /\ Copied => OneMessage
  BY DEF SMIndInv, Sending, Typed, Copied, OneMessage
<1> QED BY <1>1, <1>2, <1>3, PTL DEF SMSpec

(* A step that deletes a row follows the delivery or is a cancellation.      *)
LEMMA DeletesOnlyTheHandled ==
  ASSUME SMIndInv, SMNext, NEW m \in Messages, row[m] # Null, row'[m] = Null
  PROVE  delivered'[m] > 0 \/ m \in cancelled'
<1> USE SchedulingAssumption DEF SMIndInv, Typed, SMTypeOK, TasksOK, imapVars, historyVars,
      IdleWorker, IdleRequest
<1>1. CASE MinutePasses \/ NewRequest
  BY <1>1 DEF MinutePasses, NewRequest, Schedule, Reschedule, Cancel, Begin
<1>2. ASSUME NEW q \in Clients, RequestStep(q)
      PROVE  delivered'[m] > 0 \/ m \in cancelled'
  <2>1. CASE Push(q) \/ PushFails(q) \/ Rollback(q) \/ CancelMove(q)
    BY <2>1 DEF Push, PushFails, Rollback, CancelMove
  <2>2. CASE Commit(q)
    BY <2>2 DEF Commit
  <2>3. CASE CancelMoveFails(q)
    <3>1. [client[q].inst EXCEPT !.status = "move_error"] \in Rows
      BY <2>3 DEF CancelMoveFails, Rows, Statuses
    <3> QED BY <2>3, <3>1 DEF CancelMoveFails, SaveMoveError
  <2>4. CASE CancelDelete(q)
    BY <2>4 DEF CancelDelete
  <2> QED BY <1>2, <2>1, <2>2, <2>3, <2>4 DEF RequestStep
<1>3. ASSUME NEW w \in Workers, WorkerStep(w) \/ WorkerKilled(w)
      PROVE  delivered'[m] > 0 \/ m \in cancelled'
  <2>1. CASE \/ send_scheduled_messages(w) \/ Enqueue(w) \/ send_scheduled_message(w)
             \/ Accepted(w) \/ ConnectionFails(w) \/ MoveToSent(w) \/ WorkerKilled(w)
    BY <2>1 DEF send_scheduled_messages, Enqueue, send_scheduled_message, Accepted,
         ConnectionFails, MoveToSent, WorkerKilled
  <2>2. CASE Mark(w)
    <3>1. PICK e \in worker[w].batch :
            row' = [row EXCEPT ![e.msg] = [e.inst EXCEPT !.status = "sending"]]
      BY <2>2 DEF Mark
    <3>2. e.msg \in Messages /\ [e.inst EXCEPT !.status = "sending"] \in Rows
      BY <3>1 DEF Batch, Rows, Statuses
    <3> QED BY <3>1, <3>2
  <2>3. CASE Refused(w)
    <3>1. [worker[w].inst EXCEPT !.status = "send_error"] \in Rows
      BY <2>3 DEF Refused, Rows, Statuses
    <3> QED BY <2>3, <3>1 DEF Refused
  <2>4. CASE MoveToSentFails(w)
    <3>1. [worker[w].inst EXCEPT !.status = "move_error"] \in Rows
      BY <2>4 DEF MoveToSentFails, Rows, Statuses
    <3> QED BY <2>4, <3>1 DEF MoveToSentFails, SaveMoveError
  <2>5. CASE DeleteRow(w)
    BY <2>5 DEF DeleteRow, Sending, NotYetSent
  <2> QED BY <1>3, <2>1, <2>2, <2>3, <2>4, <2>5 DEF WorkerStep
<1> QED BY <1>1, <1>2, <1>3 DEF SMNext

(* No row is lost: whoever deletes one has sent its message or was asked to   *)
(* cancel it (webmail/models.py:54, webmail/jobs.py).                        *)
THEOREM RowsDoNotVanish == ASSUME Orderly PROVE SMSpec => NothingVanishes
<1>1. SMIndInv /\ [SMNext]_smVars =>
        [\A m \in Messages :
           row[m] # Null /\ row'[m] = Null => delivered'[m] > 0 \/ m \in cancelled']_smVars
  BY DeletesOnlyTheHandled DEF smVars
<1> QED BY <1>1, JobsKeepOrder, PTL DEF SMSpec, NothingVanishes

(* A step that delivers a message is that of a job whose time has come.      *)
LEMMA DeliversOnTime ==
  ASSUME SMIndInv, SMNext, NEW m \in Messages, delivered'[m] > delivered[m]
  PROVE  promised[m] <= now
<1> USE SchedulingAssumption DEF SMIndInv, Typed, SMTypeOK, TasksOK, imapVars, historyVars,
      IdleWorker, IdleRequest
<1>1. delivered' # delivered
  OBVIOUS
<1>2. PICK w \in Workers : Accepted(w)
  <2>1. ~MinutePasses /\ ~NewRequest
    BY <1>1 DEF MinutePasses, NewRequest, Schedule, Reschedule, Cancel, Begin
  <2>2. ASSUME NEW q \in Clients, RequestStep(q) PROVE FALSE
    BY <1>1, <2>2 DEF RequestStep, Push, PushFails, Commit, Rollback, CancelMove, CancelMoveFails,
         CancelDelete
  <2>3. ASSUME NEW v \in Workers, WorkerStep(v) \/ WorkerKilled(v) PROVE Accepted(v)
    BY <1>1, <2>3 DEF WorkerStep, send_scheduled_messages, Mark, Enqueue, send_scheduled_message,
         Refused, ConnectionFails, MoveToSent, MoveToSentFails, DeleteRow, WorkerKilled
  <2> QED BY <2>1, <2>2, <2>3 DEF SMNext
<1>3. worker[w].msg = m
  BY <1>2 DEF Accepted
<1> QED BY <1>3 DEF OnTime, InJob

(* No message leaves before the time last confirmed to its user.             *)
THEOREM MessagesAreNotEarly == ASSUME Orderly PROVE SMSpec => NotEarly
<1>1. SMIndInv /\ [SMNext]_smVars =>
        [\A m \in Messages : delivered'[m] > delivered[m] => promised[m] <= now]_smVars
  BY DeliversOnTime DEF smVars
<1> QED BY <1>1, JobsKeepOrder, PTL DEF SMSpec, NotEarly

-----------------------------------------------------------------------------
(* The life of a message *)

(* What is cancelled does not wait, and stays away unless a job had it; a  *)
(* message that a job has, or that a request is to cancel, has its row     *)
(* unless it was cancelled or sent; and a request writes the state that    *)
(* the row has.                                                            *)
Followed ==
  /\ \A m \in cancelled :
       /\ uids[m] # 0
       /\ row[m] = Null \/ row[m].status # "scheduled"
       /\ ~Overlap => row[m] = Null /\ ~InJob(m)
  /\ \A m \in Messages : InJob(m) /\ row[m] = Null => m \in cancelled \/ delivered[m] > 0
  /\ \A q \in Clients : client[q].pc \in {"cancel", "moved"} /\ row[client[q].msg] = Null =>
       client[q].msg \in cancelled \/ delivered[client[q].msg] > 0
  /\ \A q \in Clients : ~Overlap \/ client[q].pc \in {"write", "saved"} =>
       client[q].msg \notin cancelled
  /\ \A q \in Clients : client[q].pc \in {"write", "saved"} =>
       client[q].inst.status = IF row[client[q].msg] = Null THEN "scheduled"
                               ELSE row[client[q].msg].status

(* Nothing is cancelled or with a job at first.                              *)
LEMMA FollowedInitially == ASSUME SMInit PROVE Followed
BY SchedulingAssumption DEF SMInit, Followed, InJob, IdleWorker, IdleRequest

(* Requests begin with what the row says, and leave it alone until they end. *)
LEMMA RequestsFollow ==
  ASSUME Orderly, SMIndInv, Followed, NewRequest
  PROVE  Followed'
<1> USE SchedulingAssumption DEF Orderly, SMIndInv, Typed, TasksOK, IdleWorker, IdleRequest,
      Pending, Rows, Batch, imapVars, historyVars, Requested, InJob, Followed, SMTypeOK, Unknown,
      Apart
<1>1. PICK q \in Clients, m \in Messages :
        (\E t \in 1 .. MaxTime : Schedule(q, m, t) \/ Reschedule(q, m, t)) \/ Cancel(q, m)
  BY DEF NewRequest
<1>2. CASE \E t \in 1 .. MaxTime : Schedule(q, m, t)
  BY <1>2 DEF Schedule, Begin, Instance
<1>3. CASE \E t \in 1 .. MaxTime : Reschedule(q, m, t)
  BY <1>3 DEF Reschedule, Begin
<1>4. CASE Cancel(q, m)
  BY <1>4 DEF Cancel, Begin
<1> QED BY <1>1, <1>2, <1>3, <1>4

(* Only a request that goes to its end changes the row, or cancels.        *)
LEMMA RequestStepsFollow ==
  ASSUME Orderly, SMIndInv, Followed, NEW q \in Clients, RequestStep(q)
  PROVE  Followed'
<1> USE SchedulingAssumption DEF Orderly, SMIndInv, Typed, TasksOK, IdleWorker, IdleRequest,
      Pending, Rows, Batch, imapVars, historyVars, InJob, Followed, SMTypeOK, Unknown, Apart, EndOf
<1>1. CASE Push(q)
  BY <1>1 DEF Push
<1>2. CASE PushFails(q)
  BY <1>2 DEF PushFails
<1>3. CASE Commit(q)
  BY <1>3 DEF Commit
<1>4. CASE Rollback(q)
  BY <1>4 DEF Rollback
<1>5. CASE CancelMove(q)
  BY <1>5 DEF CancelMove, MoveCopies
<1>6. CASE CancelMoveFails(q)
  <2>1. client[q].msg \in Messages /\ client[q].inst \in Rows
    BY <1>6 DEF CancelMoveFails
  <2>2. /\ [client[q].inst EXCEPT !.status = "move_error"] \in Rows
        /\ [client[q].inst EXCEPT !.status = "move_error"].status = "move_error"
    BY <2>1 DEF Statuses
  <2> QED BY <1>6, <2>1, <2>2 DEF CancelMoveFails, SaveMoveError
<1>7. CASE CancelDelete(q)
  BY <1>7 DEF CancelDelete
<1> QED BY <1>1, <1>2, <1>3, <1>4, <1>5, <1>6, <1>7 DEF RequestStep

(* Jobs write rows of messages they have, and no state in which these      *)
(* wait.                                                                   *)
LEMMA WorkersFollow ==
  ASSUME Orderly, SMIndInv, Followed, NEW w \in Workers, WorkerStep(w) \/ WorkerKilled(w)
  PROVE  Followed'
<1> USE SchedulingAssumption DEF Orderly, SMIndInv, Typed, TasksOK, IdleWorker, IdleRequest,
      Pending, Rows, Batch, imapVars, historyVars, InJob, Followed, SMTypeOK, Apart, EndSend,
      Sending, NotYetSent
<1>1. CASE send_scheduled_messages(w)
  BY <1>1 DEF send_scheduled_messages, Loaded, Due, Requested
<1>2. CASE Mark(w)
  <2>1. PICK e \in worker[w].batch :
          /\ row' = [row EXCEPT ![e.msg] = [e.inst EXCEPT !.status = "sending"]]
          /\ worker' = [worker EXCEPT ![w].pc = "enqueue", ![w].msg = e.msg,
                                      ![w].batch = @ \ {e}]
          /\ UNCHANGED <<now, imapVars, queued, client, historyVars>>
    BY <1>2 DEF Mark
  <2>2. /\ e.msg \in Messages
        /\ [e.inst EXCEPT !.status = "sending"] \in Rows
        /\ [e.inst EXCEPT !.status = "sending"].status = "sending"
    BY <2>1 DEF Statuses
  <2> QED BY <2>1, <2>2
<1>3. CASE Enqueue(w)
  BY <1>3 DEF Enqueue
<1>4. CASE send_scheduled_message(w)
  BY <1>4 DEF send_scheduled_message
<1>5. CASE Accepted(w)
  BY <1>5 DEF Accepted
<1>6. CASE Refused(w)
  <2>1. worker[w].msg \in Messages /\ worker[w].inst \in Rows
    BY <1>6 DEF Refused
  <2>2. /\ [worker[w].inst EXCEPT !.status = "send_error"] \in Rows
        /\ [worker[w].inst EXCEPT !.status = "send_error"].status = "send_error"
    BY <2>1 DEF Statuses
  <2> QED BY <1>6, <2>1, <2>2 DEF Refused
<1>7. CASE ConnectionFails(w)
  BY <1>7 DEF ConnectionFails
<1>8. CASE MoveToSent(w)
  BY <1>8 DEF MoveToSent, MoveCopies
<1>9. CASE MoveToSentFails(w)
  <2>1. worker[w].msg \in Messages /\ worker[w].inst \in Rows
    BY <1>9 DEF MoveToSentFails
  <2>2. /\ [worker[w].inst EXCEPT !.status = "move_error"] \in Rows
        /\ [worker[w].inst EXCEPT !.status = "move_error"].status = "move_error"
    BY <2>1 DEF Statuses
  <2> QED BY <1>9, <2>1, <2>2 DEF MoveToSentFails, SaveMoveError
<1>10. CASE DeleteRow(w)
  BY <1>10 DEF DeleteRow
<1>11. CASE WorkerKilled(w)
  BY <1>11 DEF WorkerKilled
<1> QED BY <1>1, <1>2, <1>3, <1>4, <1>5, <1>6, <1>7, <1>8, <1>9, <1>10, <1>11 DEF WorkerStep

(* A message that waits, or is with a job, has a datetime.                   *)
LEMMA DeadlinesAfter ==
  ASSUME SMIndInv', NEW m \in Messages
  PROVE  /\ Progress(m)' \in Box!States
         /\ Deadline(m)' \in 1 .. MaxTime \cup {Null}
<1> USE SchedulingAssumption DEF SMIndInv, Typed, SMTypeOK, Box!States, Progress, Deadline
<1>1. Progress(m)' = "handed" => promised'[m] \in 1 .. now'
  BY DEF OnTime
<1>2. Progress(m)' = "waiting" => promised'[m] \in 1 .. MaxTime
  BY DEF Sending, WaitsForJob, Rows
<1>3. 1 .. now' \subseteq 1 .. MaxTime
  OBVIOUS
<1> QED BY <1>1, <1>2, <1>3

(* Nothing that the progress of m depends on changes.                        *)
Same(m) ==
  /\ row'[m] = row[m] /\ delivered'[m] = delivered[m] /\ promised'[m] = promised[m]
  /\ m \in cancelled' <=> m \in cancelled
  /\ InJob(m)' <=> InJob(m)

(* ... and so m stays where it is.                                         *)
LEMMA SameStays ==
  ASSUME NEW m \in Messages, Same(m)
  PROVE  Box!Step(m)
<1>1. Progress(m)' = Progress(m)
  BY DEF Same, Progress
<1>2. Deadline(m)' = Deadline(m)
  BY <1>1 DEF Same, Deadline
<1> QED BY <1>1, <1>2 DEF Box!Step, Box!Stay, Box!Moves, Same

(* The step of a message whose progress and datetime are known.              *)
LEMMA MovesAre ==
  ASSUME NEW m \in Messages, delivered'[m] = delivered[m]
  PROVE  /\ Progress(m)' = Progress(m) /\ Deadline(m)' = Deadline(m) => Box!Step(m)
         /\ Progress(m) \in {"waiting", "handed"} /\ Progress(m)' = "failed" => Box!Step(m)
         /\ Progress(m) \in {"waiting", "handed", "failed"} /\ Progress(m)' = "cancelled"
              => Box!Step(m)
         /\ Progress(m) = "handed" /\ Progress(m)' = "waiting" /\ promised'[m] = promised[m]
              => Box!Step(m)
         /\ Progress(m) = "waiting" /\ Progress(m)' = "handed" /\ promised'[m] = promised[m]
              /\ promised[m] <= now => Box!Step(m)
         /\ Progress(m) \in {"new", "waiting", "failed"} /\ Progress(m)' = "waiting"
              /\ promised'[m] \in 1 .. MaxTime => Box!Step(m)
<1> USE DEF Box!Step, Box!Moves, Deadline
<1>1. Progress(m)' = Progress(m) /\ Deadline(m)' = Deadline(m) => Box!Stay(m)
  BY DEF Box!Stay
<1>2. Progress(m) \in {"waiting", "handed"} /\ Progress(m)' = "failed" => Box!GiveUp(m)
  BY DEF Box!GiveUp
<1>3. Progress(m) \in {"waiting", "handed", "failed"} /\ Progress(m)' = "cancelled"
        => Box!Cancel(m)
  BY DEF Box!Cancel
<1>4. Progress(m) = "handed" /\ Progress(m)' = "waiting" /\ promised'[m] = promised[m]
        => Box!Return(m)
  BY DEF Box!Return
<1>5. Progress(m) = "waiting" /\ Progress(m)' = "handed" /\ promised'[m] = promised[m]
        /\ promised[m] <= now => Box!HandOver(m)
  BY DEF Box!HandOver
<1>6. Progress(m) \in {"new", "waiting", "failed"} /\ Progress(m)' = "waiting"
        /\ promised'[m] \in 1 .. MaxTime => Box!Confirm(m)
  BY DEF Box!Confirm
<1> QED BY <1>1, <1>2, <1>3, <1>4, <1>5, <1>6
(* A job ends, whatever has become of the row meanwhile.                     *)
LEMMA LetGo ==
  ASSUME Orderly, SMIndInv, Followed, NEW m \in Messages, InJob(m), ~InJob(m)',
         row'[m] = row[m], delivered'[m] = delivered[m], promised'[m] = promised[m],
         cancelled' = cancelled
  PROVE  Box!Step(m)
<1> USE SchedulingAssumption DEF SMIndInv, Typed, SMTypeOK
<1>1. CASE delivered[m] > 0
  <2>1. Progress(m) = "sent" /\ Progress(m)' = "sent"
    BY <1>1 DEF Progress
  <2> QED BY <2>1, MovesAre DEF Deadline
<1>2. CASE ~(delivered[m] > 0)
  <2>1. Progress(m) = "handed"
    BY <1>2 DEF Progress
  <2>2. Progress(m)' \in {"cancelled", "failed", "waiting"}
    BY <1>2 DEF Progress, Followed
  <2> QED BY <2>1, <2>2, MovesAre
<1> QED BY <1>1, <1>2

(* A datetime is confirmed.                                                  *)
LEMMA CommitMoves ==
  ASSUME Orderly, SMIndInv, Followed, NEW q \in Clients, NEW n \in Messages, Commit(q)
  PROVE  Box!Step(n)
<1> USE SchedulingAssumption DEF SMIndInv, Typed, SMTypeOK, TasksOK, Commit, imapVars
<1>1. PICK m \in Messages : m = client[q].msg
  BY DEF IdleRequest
<1>2. PICK inst \in Rows : inst = client[q].inst
  BY DEF IdleRequest
<1>3. CASE n # m
  <2>1. Same(n)
    BY <1>1, <1>3 DEF Same, InJob
  <2> QED BY <2>1, SameStays
<1>4. CASE n = m
  <2>1. ~InJob(m) /\ ~InJob(m)' /\ m \notin cancelled /\ m \notin cancelled'
    BY <1>1 DEF Apart, Followed, InJob
  <2>2. row'[m] = inst /\ row'[m] # Null /\ promised'[m] \in 1 .. MaxTime
    BY <1>1, <1>2 DEF Rows
  <2>3. inst.status = IF row[m] = Null THEN "scheduled" ELSE row[m].status
    BY <1>1, <1>2 DEF Followed
  <2>4. CASE delivered[m] > 0
    <3>1. Progress(m) = "sent" /\ Progress(m)' = "sent"
      BY <2>4 DEF Progress
    <3> QED BY <1>4, <3>1, MovesAre DEF Deadline
  <2>5. CASE ~(delivered[m] > 0) /\ inst.status = "scheduled"
    <3>1. Progress(m)' = "waiting" /\ Progress(m) \in {"new", "waiting"}
      BY <2>1, <2>2, <2>3, <2>5 DEF Progress
    <3> QED BY <1>4, <2>2, <3>1, MovesAre
  <2>6. CASE ~(delivered[m] > 0) /\ inst.status # "scheduled"
    <3>1. Progress(m)' = "failed" /\ Progress(m) = "failed"
      BY <2>1, <2>2, <2>3, <2>6 DEF Progress
    <3> QED BY <1>4, <3>1, MovesAre DEF Deadline
  <2> QED BY <2>4, <2>5, <2>6
<1> QED BY <1>3, <1>4

(* A request cancels a message, or fails to.                                 *)
LEMMA CancelMoves ==
  ASSUME Orderly, SMIndInv, Followed, NEW q \in Clients, NEW n \in Messages,
         CancelMoveFails(q) \/ CancelDelete(q)
  PROVE  Box!Step(n)
<1> USE SchedulingAssumption DEF SMIndInv, Typed, SMTypeOK, TasksOK, imapVars, historyVars
<1>1. PICK m \in Messages : m = client[q].msg
  BY DEF IdleRequest, CancelMoveFails, CancelDelete
<1>2. PICK inst : inst = [client[q].inst EXCEPT !.status = "move_error"]
  OBVIOUS
<1>3. /\ worker' = worker /\ queued' = queued /\ delivered' = delivered
      /\ promised' = promised
  BY DEF CancelMoveFails, CancelDelete
<1>4. \A k \in Messages : InJob(k)' <=> InJob(k)
  BY <1>3 DEF InJob
<1>5. /\ \A k \in Messages \ {m} : row'[k] = row[k] /\ (k \in cancelled' <=> k \in cancelled)
      /\ \/ m \in cancelled' /\ row'[m] = Null
         \/ /\ m \in cancelled' <=> m \in cancelled
            /\ row'[m] # Null /\ row'[m].status = "move_error"
  <2>1. CASE CancelMoveFails(q)
    <3>1. inst \in Rows /\ inst.status = "move_error"
      BY <1>2, <2>1 DEF CancelMoveFails, IdleRequest, Rows, Statuses
    <3> QED BY <1>1, <1>2, <2>1, <3>1 DEF CancelMoveFails, SaveMoveError
  <2>2. CASE CancelDelete(q)
    BY <1>1, <2>2 DEF CancelDelete
  <2> QED BY <2>1, <2>2
<1>6. CASE n # m
  <2>1. Same(n)
    BY <1>3, <1>4, <1>5, <1>6 DEF Same
  <2> QED BY <2>1, SameStays
<1>7. CASE n = m
  <2>1. delivered[m] > 0 \/ InJob(m) => Progress(m)' = Progress(m)
    BY <1>3, <1>4 DEF Progress
  <2>2. ~(delivered[m] > 0 \/ InJob(m)) =>
          /\ Progress(m)' \in {"cancelled", "failed"}
          /\ m \in cancelled' <=> Progress(m)' = "cancelled"
    BY <1>3, <1>4, <1>5 DEF Progress
  <2>3. ~(delivered[m] > 0 \/ InJob(m)) =>
          /\ Progress(m) \in {"waiting", "failed", "cancelled"}
          /\ m \in cancelled <=> Progress(m) = "cancelled"
    BY <1>1 DEF Progress, Followed, CancelMoveFails, CancelDelete
  <2>4. Progress(m)' = Progress(m) => Deadline(m)' = Deadline(m)
    BY <1>3 DEF Deadline
  <2>5. m \in cancelled => m \in cancelled'
    BY <1>5
  <2> QED BY <1>3, <1>7, <2>1, <2>2, <2>3, <2>4, <2>5, MovesAre
<1> QED BY <1>6, <1>7
(* The scheduler takes the messages whose time has come.                     *)
LEMMA ScanMoves ==
  ASSUME Orderly, SMIndInv, Followed, NEW w \in Workers, NEW n \in Messages,
         send_scheduled_messages(w)
  PROVE  Box!Step(n)
<1> USE SchedulingAssumption DEF SMIndInv, Typed, SMTypeOK, TasksOK, imapVars, historyVars,
      send_scheduled_messages
<1>1. CASE n \in Due
  <2>1. /\ row[n] # Null /\ row[n].status = "scheduled" /\ row[n].when <= now
        /\ delivered[n] = 0 /\ promised[n] = row[n].when /\ n \notin cancelled
    BY <1>1 DEF Due, Sending, WaitsForJob, Followed
  <2>2. ~InJob(n)
    BY <2>1 DEF InJob, Sending, WaitsForJob, Orderly, IdleWorker
  <2>3. InJob(n)'
    <3>1. [msg |-> n, inst |-> row[n]] \in worker'[w].batch
      BY <1>1 DEF Loaded
    <3> QED BY <3>1 DEF InJob
  <2>4. Progress(n) = "waiting" /\ Progress(n)' = "handed"
    BY <2>1, <2>2, <2>3 DEF Progress
  <2> QED BY <2>1, <2>4, MovesAre
<1>2. CASE n \notin Due
  <2>1. Same(n)
    BY <1>2 DEF Same, InJob, Loaded, IdleWorker
  <2> QED BY <2>1, SameStays
<1> QED BY <1>1, <1>2

(* The job is put in the queue, and taken from it.                           *)
LEMMA QueueMoves ==
  ASSUME Orderly, SMIndInv, Followed, NEW w \in Workers, NEW n \in Messages,
         Mark(w) \/ Enqueue(w) \/ send_scheduled_message(w)
  PROVE  Box!Step(n)
<1> USE SchedulingAssumption DEF SMIndInv, Typed, SMTypeOK, TasksOK, imapVars, historyVars,
      IdleWorker
<1>1. CASE Mark(w)
  <2>1. PICK e \in worker[w].batch :
          /\ row' = [row EXCEPT ![e.msg] = [e.inst EXCEPT !.status = "sending"]]
          /\ worker' = [worker EXCEPT ![w].pc = "enqueue", ![w].msg = e.msg,
                                      ![w].batch = @ \ {e}]
          /\ worker[w].pc = "scan"
          /\ UNCHANGED <<queued, historyVars>>
    BY <1>1 DEF Mark
  <2>2. InJob(n)' <=> InJob(n)
    BY <2>1 DEF InJob
  <2>3. CASE n = e.msg
    <3>1. InJob(n)
      BY <2>1, <2>3 DEF InJob
    <3>2. Progress(n)' = Progress(n)
      BY <2>1, <2>2, <3>1 DEF Progress
    <3> QED BY <2>1, <3>2, MovesAre DEF Deadline
  <2>4. CASE n # e.msg
    <3>1. Same(n)
      BY <2>1, <2>2, <2>4 DEF Same
    <3> QED BY <3>1, SameStays
  <2> QED BY <2>3, <2>4
<1>2. CASE Enqueue(w)
  <2>1. InJob(n)' <=> InJob(n)
    <3>1. PICK m \in Messages : m = worker[w].msg
      BY <1>2 DEF Enqueue
    <3>2. /\ queued' = [queued EXCEPT ![m] = @ + 1]
          /\ worker'[w].batch = worker[w].batch /\ worker'[w].msg = Null
          /\ \A v \in Workers \ {w} : worker'[v] = worker[v]
      BY <1>2, <3>1 DEF Enqueue
    <3>3. CASE n = m
      <4>1. InJob(m) /\ queued'[m] > 0
        BY <3>1, <3>2 DEF InJob, OnePlace
      <4> QED BY <3>3, <4>1 DEF InJob
    <3>4. CASE n # m
      <4>1. queued'[n] = queued[n]
        BY <3>2, <3>4
      <4>2. \A v \in Workers : worker'[v].batch = worker[v].batch
                                /\ (worker'[v].msg = n <=> worker[v].msg = n)
        BY <3>1, <3>2, <3>4
      <4> QED BY <4>1, <4>2 DEF InJob
    <3> QED BY <3>3, <3>4
  <2>2. Same(n)
    BY <1>2, <2>1 DEF Same, Enqueue
  <2> QED BY <2>2, SameStays
<1>3. CASE send_scheduled_message(w)
  <2>1. PICK m \in Messages :
          /\ worker[w].pc = "idle" /\ queued[m] > 0
          /\ queued' = [queued EXCEPT ![m] = @ - 1]
          /\ worker' = IF row[m] = Null THEN worker
                       ELSE [worker EXCEPT ![w].pc = "send", ![w].msg = m, ![w].inst = row[m]]
          /\ UNCHANGED <<row, historyVars>>
    BY <1>3 DEF send_scheduled_message
  <2>2. CASE n # m \/ row[m] # Null
    <3>1. InJob(n)' <=> InJob(n)
      BY <2>1, <2>2 DEF InJob, Orderly
    <3>2. Same(n)
      BY <2>1, <3>1 DEF Same
    <3> QED BY <3>2, SameStays
  <2>3. CASE n = m /\ row[m] = Null
    <3>1. queued[m] = 1
      BY <2>1 DEF OnePlace
    <3>2. InJob(m) /\ ~InJob(m)'
      BY <2>1, <2>3, <3>1 DEF InJob, OnePlace, InBatch
    <3> QED BY <2>1, <2>3, <3>2, LetGo
  <2> QED BY <2>2, <2>3
<1> QED BY <1>1, <1>2, <1>3

(* A job that is sending a message is done with it, or has sent it.          *)
LEMMA SendMoves ==
  ASSUME Orderly, SMIndInv, Followed, NEW w \in Workers, NEW n \in Messages,
         Accepted(w) \/ Refused(w)
  PROVE  Box!Step(n)
<1> USE SchedulingAssumption DEF SMIndInv, Typed, SMTypeOK, TasksOK, imapVars, historyVars,
      IdleWorker
<1>1. /\ worker[w].pc = "send" /\ worker[w].msg \in Messages /\ worker[w].inst \in Rows
      /\ delivered[worker[w].msg] = 0
  BY DEF Accepted, Refused, Sending, NotYetSent
<1>2. PICK m \in Messages : m = worker[w].msg
  BY <1>1
<1>3. InJob(m) /\ Progress(m) = "handed"
  BY <1>1, <1>2 DEF InJob, Progress
<1>4. CASE Accepted(w)
  <2>1. delivered' = [delivered EXCEPT ![m] = @ + 1] /\ UNCHANGED <<row, promised, cancelled>>
    BY <1>2, <1>4 DEF Accepted
  <2>2. InJob(n)' <=> InJob(n)
    BY <1>4 DEF Accepted, InJob
  <2>3. CASE n = m
    <3>1. delivered'[m] = delivered[m] + 1 /\ delivered'[m] > 0
      BY <1>1, <1>2, <2>1
    <3>2. Progress(m)' = "sent"
      BY <3>1 DEF Progress
    <3>3. Box!Deliver(m)
      BY <1>3, <3>1, <3>2 DEF Box!Deliver, Box!Moves, Deadline
    <3> QED BY <2>3, <3>3 DEF Box!Step
  <2>4. CASE n # m
    <3>1. Same(n)
      BY <2>1, <2>2, <2>4 DEF Same
    <3> QED BY <3>1, SameStays
  <2> QED BY <2>3, <2>4
<1>5. CASE Refused(w)
  <2>a. PICK r \in Rows : r = worker[w].inst
    BY <1>1
  <2>b. [r EXCEPT !.status = "send_error"] \in Rows
    BY DEF Rows, Statuses
  <2>1. PICK inst \in Rows : /\ inst = [worker[w].inst EXCEPT !.status = "send_error"]
                             /\ inst.status = "send_error"
    BY <2>a, <2>b DEF Rows
  <2>2. /\ row' = [row EXCEPT ![m] = inst] /\ UNCHANGED <<delivered, promised, cancelled>>
        /\ worker' = [worker EXCEPT ![w] = IdleWorker] /\ queued' = queued
    BY <1>2, <1>5, <2>1 DEF Refused, EndSend
  <2>3. CASE n = m
    <3>1. ~InJob(m)'
      BY <1>1, <1>2, <2>2 DEF InJob, OnePlace, InBatch, Orderly
    <3>a. delivered'[m] = 0 /\ row'[m] = inst /\ row'[m] # Null
      BY <1>1, <1>2, <2>2
    <3>2. Progress(m)' \in {"cancelled", "failed"}
      BY <2>1, <3>1, <3>a DEF Progress
    <3> QED BY <1>3, <2>2, <2>3, <3>2, MovesAre
  <2>4. CASE n # m
    <3>1. InJob(n)' <=> InJob(n)
      BY <1>1, <1>2, <2>2, <2>4 DEF InJob
    <3>2. Same(n)
      BY <2>2, <2>4, <3>1 DEF Same
    <3> QED BY <3>2, SameStays
  <2> QED BY <2>3, <2>4
<1> QED BY <1>4, <1>5

(* A job that leaves what it had as it is.                                   *)
LEMMA EndMoves ==
  ASSUME Orderly, SMIndInv, Followed, NEW w \in Workers, NEW n \in Messages,
         ConnectionFails(w) \/ WorkerKilled(w)
  PROVE  Box!Step(n)
<1> USE SchedulingAssumption DEF SMIndInv, Typed, SMTypeOK, TasksOK, imapVars, historyVars,
      IdleWorker
<1>1. /\ worker' = [worker EXCEPT ![w] = IdleWorker] /\ queued' = queued
      /\ UNCHANGED <<row, delivered, promised, cancelled>>
  BY DEF ConnectionFails, WorkerKilled, EndSend
<1>2. InJob(n)' => InJob(n)
  BY <1>1 DEF InJob
<1>3. CASE InJob(n)' \/ ~InJob(n)
  <2>1. Same(n)
    BY <1>1, <1>2, <1>3 DEF Same
  <2> QED BY <2>1, SameStays
<1>4. CASE InJob(n) /\ ~InJob(n)'
  BY <1>1, <1>4, LetGo
<1> QED BY <1>3, <1>4

(* What follows the sending concerns a message that is sent.                 *)
LEMMA SentMoves ==
  ASSUME Orderly, SMIndInv, Followed, NEW w \in Workers, NEW n \in Messages,
         MoveToSent(w) \/ MoveToSentFails(w) \/ DeleteRow(w)
  PROVE  Box!Step(n)
<1> USE SchedulingAssumption DEF SMIndInv, Typed, SMTypeOK, TasksOK, imapVars, historyVars,
      IdleWorker
<1>1. PICK m \in Messages : m = worker[w].msg /\ delivered[m] > 0
  BY DEF MoveToSent, MoveToSentFails, DeleteRow, Sending, NotYetSent
<1>2. /\ UNCHANGED <<delivered, promised, cancelled>>
      /\ \A k \in Messages \ {m} : row'[k] = row[k]
      /\ \A k \in Messages \ {m} : InJob(k)' <=> InJob(k)
  <2>1. CASE MoveToSent(w)
    BY <1>1, <2>1 DEF MoveToSent, InJob
  <2>2. CASE MoveToSentFails(w)
    BY <1>1, <2>2 DEF MoveToSentFails, SaveMoveError, EndSend, InJob
  <2>3. CASE DeleteRow(w)
    BY <1>1, <2>3 DEF DeleteRow, EndSend, InJob
  <2> QED BY <2>1, <2>2, <2>3
<1>3. CASE n = m
  <2>1. Progress(m) = "sent" /\ Progress(m)' = "sent"
    BY <1>1, <1>2 DEF Progress
  <2> QED BY <1>2, <1>3, <2>1, MovesAre DEF Deadline
<1>4. CASE n # m
  <2>1. Same(n)
    BY <1>2, <1>4 DEF Same
  <2> QED BY <2>1, SameStays
<1> QED BY <1>3, <1>4
(* A message is moved by a step as the abstract life allows.                 *)
LEMMA EachMoves ==
  ASSUME Orderly, SMIndInv, Followed, SMNext, ~MinutePasses, NEW n \in Messages
  PROVE  Box!Step(n)
<1>2. CASE NewRequest
  <2>1. Same(n)
    BY <1>2 DEF Same, NewRequest, Schedule, Reschedule, Cancel, Begin, historyVars, InJob
  <2> QED BY <2>1, SameStays
<1>3. ASSUME NEW q \in Clients, RequestStep(q) PROVE Box!Step(n)
  <2>1. CASE Push(q) \/ PushFails(q) \/ Rollback(q) \/ CancelMove(q)
    <3>1. Same(n)
      BY <2>1 DEF Same, Push, PushFails, Rollback, CancelMove, MoveCopies, historyVars,
           imapVars, InJob
    <3> QED BY <3>1, SameStays
  <2> QED BY <1>3, <2>1, CommitMoves, CancelMoves DEF RequestStep
<1>4. ASSUME NEW w \in Workers, WorkerStep(w) \/ WorkerKilled(w) PROVE Box!Step(n)
  BY <1>4, ScanMoves, QueueMoves, SendMoves, EndMoves, SentMoves DEF WorkerStep
<1> QED BY <1>2, <1>3, <1>4 DEF SMNext

(* Every step keeps what is known of cancelled messages.                   *)
LEMMA FollowedStep ==
  ASSUME Orderly, SMIndInv, Followed, [SMNext]_smVars
  PROVE  Followed'
<1>1. CASE MinutePasses \/ UNCHANGED smVars
  BY <1>1 DEF MinutePasses, smVars, imapVars, historyVars, Followed, InJob
<1> QED BY <1>1, RequestsFollow, RequestStepsFollow, WorkersFollow DEF SMNext

(* Whatever requests, the scheduler, jobs and failures do, each message is   *)
(* confirmed, handed over, sent once, given up or cancelled as Outbox says   *)
(* (webmail/models.py, webmail/jobs.py, webmail/lib/sendmail.py).            *)
THEOREM JobsImplementOutbox == ASSUME Orderly PROVE SMSpec => ImplementsOutbox
<1>1. SMInit => Box!Init
  <2> SUFFICES ASSUME SMInit PROVE Box!Init
    OBVIOUS
  <2>1. \A m \in Messages : ~InJob(m)
    BY SchedulingAssumption DEF SMInit, InJob, IdleWorker
  <2>2. \A m \in Messages : Progress(m) = "new" /\ Deadline(m) = Null
    BY <2>1 DEF SMInit, Progress, Deadline
  <2> QED BY <2>2 DEF SMInit, Box!Init
<1>2. SMInit => SMIndInv /\ Followed
  BY SMInitially, FollowedInitially
<1>3. SMIndInv /\ Followed /\ [SMNext]_smVars => (SMIndInv /\ Followed)'
  BY SMStepKeeps, FollowedStep
<1>4. SMIndInv /\ SMIndInv' /\ Followed /\ [SMNext]_smVars => [Box!Next]_(Box!vars)
  <2> SUFFICES ASSUME SMIndInv, SMIndInv', Followed, [SMNext]_smVars
               PROVE  Box!Next \/ UNCHANGED Box!vars
    OBVIOUS
  <2>1. CASE MinutePasses
    <3>1. \A m \in Messages : Progress(m)' = Progress(m) /\ Deadline(m)' = Deadline(m)
      BY <2>1 DEF MinutePasses, historyVars, Progress, Deadline, InJob
    <3> QED BY <2>1, <3>1 DEF MinutePasses, historyVars, Box!Next, Box!Tick
  <2>2. CASE UNCHANGED smVars
    <3>1. \A m \in Messages : Progress(m)' = Progress(m) /\ Deadline(m)' = Deadline(m)
      BY <2>2 DEF smVars, historyVars, Progress, Deadline, InJob
    <3> QED BY <2>2, <3>1 DEF smVars, historyVars, Box!vars
  <2>3. CASE SMNext /\ ~MinutePasses
    <3>1. \A m \in Messages : Box!Step(m)
      BY <2>3, EachMoves
    <3>2. now' = now
      BY <2>3 DEF SMNext, NewRequest, RequestStep, WorkerStep, Schedule, Reschedule, Cancel, Begin,
           Push, PushFails, Commit, Rollback, CancelMove, CancelMoveFails, CancelDelete,
           send_scheduled_messages, Mark, Enqueue, send_scheduled_message, Accepted, Refused,
           ConnectionFails, MoveToSent, MoveToSentFails, DeleteRow, WorkerKilled
    <3>3. \A m \in Messages : /\ Progress(m)' \in Box!States
                              /\ Deadline(m)' \in 1 .. MaxTime \cup {Null}
      <4> SUFFICES ASSUME NEW m \in Messages
                   PROVE  /\ Progress(m)' \in Box!States
                          /\ Deadline(m)' \in 1 .. MaxTime \cup {Null}
        OBVIOUS
      <4> QED BY DeadlinesAfter
    <3>4. delivered' \in [Messages -> Nat]
      BY DEF SMIndInv, Typed, SMTypeOK
    <3> QED BY <3>1, <3>2, <3>3, <3>4 DEF Box!Next
  <2> QED BY <2>1, <2>2, <2>3
<1> QED BY <1>1, <1>2, <1>3, <1>4, PTL DEF SMSpec, ImplementsOutbox, Box!Spec

==============================================================================
