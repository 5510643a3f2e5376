--------------------------- MODULE ComposeSessions ---------------------------
(***************************************************************************)
(* The attachments of a message being written (modoboa/webmail).           *)
(*                                                                         *)
(* A compose session is one field of a Redis hash: the JSON list of its    *)
(* attachments.  Each request reads the list, changes its copy and writes  *)
(* it back; the files themselves are in a directory.  A message scheduled  *)
(* from the session names the same files.  One session is modelled: those  *)
(* of other messages share nothing with it.                                *)
(***************************************************************************)
EXTENDS Naturals, FiniteSets

CONSTANTS
  Files,    \* attachments, each uploaded at most once: names are random
  Browsers, \* requests that may be in progress together
  MaxSends  \* bound: attempts to send or schedule the message

ASSUME ComposeAssumption == IsFiniteSet(Files) /\ MaxSends \in Nat

VARIABLES
  exists,     \* is there a field for the session?
  listed,     \* the attachments in its list
  disk,       \* the files in the directory
  visit,      \* what each request has done so far
  scheduled,  \* the attachments of the messages that wait, each a set
  sends,      \* history: attempts
  confirmed,  \* history: uploads answered with the attachment
  withdrawn,  \* history: attachments that the user has removed
  sent,       \* history: the attachments of each message sent, and those that
              \* had been removed by then
  finished,   \* history: has the sending of the session been confirmed?
  overlapped  \* history: have requests that write the session overlapped?

csVars == <<exists, listed, disk, visit, scheduled, sends, confirmed, withdrawn,
            sent, finished, overlapped>>

Idle == [pc |-> "idle"]
Writers == {b \in Browsers : visit[b].pc \in {"upload", "append", "remove", "cleanup"}}

CSInit ==
  /\ exists = TRUE
  /\ listed = {} /\ disk = {}
  /\ visit = [b \in Browsers |-> Idle]
  /\ scheduled = {}
  /\ sends = 0
  /\ confirmed = {} /\ withdrawn = {} /\ sent = {}
  /\ finished = FALSE /\ overlapped = FALSE

-----------------------------------------------------------------------------
Begins(b, r) ==
  /\ visit[b] = Idle
  /\ visit' = [visit EXCEPT ![b] = r]
  /\ overlapped' = (overlapped \/ (Writers # {} /\ r.pc \in {"upload", "remove", "cleanup"}))

Goes(b, r) == visit' = [visit EXCEPT ![b] = r] /\ UNCHANGED overlapped
Ends(b) == Goes(b, Idle)

(* save_attachment: the file is stored if there is such a session.          *)
StoreFile(b, f) ==
  /\ exists
  /\ f \notin disk \cup confirmed \cup withdrawn
  /\ \A x \in Browsers : visit[x].pc \in {"upload", "append"} => visit[x].file # f
  /\ Begins(b, [pc |-> "upload", file |-> f])
  /\ disk' = disk \cup {f}
  /\ UNCHANGED <<exists, listed, scheduled, sends, confirmed, withdrawn, sent, finished>>

(* The list is read: without a session the request ends, the file stays.    *)
ReadList(b) ==
  /\ visit[b].pc = "upload"
  /\ Goes(b, IF exists THEN [pc |-> "append", file |-> visit[b].file, read |-> listed] ELSE Idle)
  /\ UNCHANGED <<exists, listed, disk, scheduled, sends, confirmed, withdrawn, sent, finished>>

Appended(v) == v.read \cup {v.file}

(* ... and written back, which creates the session if it has been deleted.  *)
WriteList(b) ==
  /\ visit[b].pc = "append"
  /\ listed' = Appended(visit[b])
  /\ exists' = TRUE
  /\ confirmed' = confirmed \cup {visit[b].file}
  /\ Ends(b)
  /\ UNCHANGED <<disk, scheduled, sends, withdrawn, sent, finished>>

DropFile(f) == disk' = disk \ {f}

(* remove_attachment: the file goes first; if it is not there, or not in    *)
(* the list, the request ends with an error.                                *)
RemoveFile(b, f) ==
  /\ exists /\ f \in listed /\ f \in disk
  /\ Begins(b, [pc |-> "remove", file |-> f, read |-> listed])
  /\ DropFile(f)
  /\ UNCHANGED <<exists, listed, scheduled, sends, confirmed, withdrawn, sent, finished>>

RemoveFromList(b) ==
  /\ visit[b].pc = "remove"
  /\ listed' = visit[b].read \ {visit[b].file}
  /\ exists' = TRUE
  /\ withdrawn' = withdrawn \cup {visit[b].file}
  /\ Ends(b)
  /\ UNCHANGED <<disk, scheduled, sends, confirmed, sent, finished>>

-----------------------------------------------------------------------------
(* Mutant: a file that is missing is left out.                              *)
ReadableAlways(files) == TRUE

(* create_message opens every file.                                         *)
Readable(files) == files \subseteq disk

(* send: the list is read and the message made of it.  If a file is missing, *)
(* or the server refuses the message, nothing happens.                      *)
Send(b) ==
  /\ exists /\ Readable(listed)
  /\ sends < MaxSends /\ sends' = sends + 1
  /\ Begins(b, [pc |-> "cleanup"])
  /\ sent' = sent \cup {[files |-> listed, not |-> withdrawn]}
  /\ UNCHANGED <<exists, listed, disk, scheduled, confirmed, withdrawn, finished>>

(* The message has been accepted but the copy could not be stored: the user *)
(* gets an error and has everything to send it again.                       *)
CopyFails(b) ==
  /\ visit[b].pc = "cleanup"
  /\ Ends(b)
  /\ UNCHANGED <<exists, listed, disk, scheduled, sends, confirmed, withdrawn, sent, finished>>

(* Mutant: the session remains.                                             *)
SessionAfter == exists

SessionAfterSend == FALSE

(* remove_attachments_and_session: the list is read once more.              *)
Cleanup(b) ==
  /\ visit[b].pc = "cleanup"
  /\ disk' = IF exists THEN disk \ listed ELSE disk
  /\ exists' = SessionAfterSend
  /\ listed' = {}
  /\ finished' = (finished \/ exists)
  /\ Ends(b)
  /\ UNCHANGED <<scheduled, sends, confirmed, withdrawn, sent>>

(* schedule_email: the message shares the files, the session remains.       *)
ScheduleWith(b) ==
  /\ exists /\ visit[b] = Idle
  /\ sends < MaxSends /\ sends' = sends + 1
  /\ scheduled' = scheduled \cup {listed}
  /\ UNCHANGED <<exists, listed, disk, visit, confirmed, withdrawn, sent, finished, overlapped>>

(* The job sends a message when all its files can still be read.  They are  *)
(* not removed.                                                             *)
SendScheduled(m) ==
  /\ m \in scheduled /\ Readable(m)
  /\ scheduled' = scheduled \ {m}
  /\ sent' = sent \cup {[files |-> m, not |-> withdrawn]}
  /\ UNCHANGED <<exists, listed, disk, visit, sends, confirmed, withdrawn, finished, overlapped>>

CancelScheduled(m) ==
  /\ m \in scheduled
  /\ scheduled' = scheduled \ {m}
  /\ UNCHANGED <<exists, listed, disk, visit, sends, confirmed, withdrawn, sent, finished, overlapped>>

-----------------------------------------------------------------------------
BrowserStep(b) ==
  \/ \E f \in Files : StoreFile(b, f) \/ RemoveFile(b, f)
  \/ ReadList(b) \/ WriteList(b) \/ RemoveFromList(b)
  \/ Send(b) \/ CopyFails(b) \/ Cleanup(b) \/ ScheduleWith(b)

CSNext ==
  \/ \E b \in Browsers : BrowserStep(b)
  \/ \E m \in scheduled : SendScheduled(m) \/ CancelScheduled(m)

CSSpec == CSInit /\ [][CSNext]_csVars

-----------------------------------------------------------------------------
(* Properties *)

CSTypeOK ==
  /\ {exists, finished, overlapped} \subseteq BOOLEAN
  /\ listed \subseteq Files /\ disk \subseteq Files
  /\ visit \in [Browsers -> [pc : {"idle", "cleanup"}]
                  \cup [pc : {"upload"}, file : Files]
                  \cup [pc : {"append", "remove"}, file : Files, read : SUBSET Files]]
  /\ scheduled \subseteq SUBSET Files
  /\ sends \in 0 .. MaxSends
  /\ withdrawn \subseteq confirmed \ disk
  /\ ~exists => listed = {}

(* What the user was told is removed is sent in no later message, although   *)
(* an upload in progress may list it again, and messages scheduled before    *)
(* name it still.                                                           *)
RemovedNotSent == \A m \in sent : m.files \cap m.not = {}

(* Unless requests overlap, the session lists what was uploaded and not     *)
(* removed, and nothing else remains in the directory.                      *)
InventoryExact ==
  ~overlapped /\ Writers = {} =>
    /\ exists => listed = confirmed \ withdrawn
    /\ disk = listed

(* A message whose sending was confirmed cannot be sent again: only an      *)
(* upload or a removal in progress brings its session back.                 *)
SentOnce == finished /\ ~overlapped => ~exists

(* The session, and what is sent of it, is what its user was told.          *)
SessionExact == CSTypeOK /\ RemovedNotSent /\ InventoryExact /\ SentOnce

(* A scheduled message can be read until it is sent.                        *)
(* Not what the code does: README.md, Known deviations.                     *)
ScheduledReadable == \A m \in scheduled : m \subseteq disk
=============================================================================
