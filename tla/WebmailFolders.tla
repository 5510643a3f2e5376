--------------------------- MODULE WebmailFolders ---------------------------
(* What the webmail does to the folders of a user (webmail/lib/imaputils.py *)
(* and its callers): each request is a sequence of IMAP commands, between   *)
(* which other requests, the user's mail client and deliveries go on.  The  *)
(* IMAP server is external: COPY keeps the flags, ignores identifiers that  *)
(* are gone, and EXPUNGE removes every copy flagged as deleted.             *)
EXTENDS Integers, FiniteSets

CONSTANTS
  Letters,    \* messages that are delivered
  Inbox, Drafts, Trash, \* three of the folders
  Folders,  \* all of them
  Hands,    \* requests that may be in progress together
  MaxCopy,  \* bound: copies made of messages
  MaxSaves  \* bound: how often the draft is saved

ASSUME WFAssumption ==
  /\ {Inbox, Drafts, Trash} \subseteq Folders
  /\ MaxCopy \in Nat /\ MaxSaves \in Nat /\ Letters \cap Nat = {}

VARIABLES
  box,       \* per folder its copies: identifier, message, flagged as deleted
  uid,       \* the last identifier given to a copy
  hand,      \* how far each request is
  mailid,    \* the draft that the form was opened with, 0 for a new message
  saves,     \* versions of the draft: message n is its version n
  answered,  \* history: the last version whose save was answered, 0 when none
  discarded, \* history: messages that the user has emptied or flagged himself
  torn,      \* history: messages whose moves were cut off or overlapped
  dropped    \* history: a save was cut off between its two halves

wfVars == <<box, uid, hand, mailid, saves, answered, discarded, torn, dropped>>

Resting == [at |-> "idle"]
Copies(f, us) == {x \in box[f] : x.uid \in us}
Visible(m) == {f \in Folders : \E x \in box[f] : x.msg = m /\ ~x.dead}
Seen(f) == {x \in box[f] : ~x.dead}

WFInit ==
  /\ box = [f \in Folders |-> {}] /\ uid = 0
  /\ hand = [h \in Hands |-> Resting]
  /\ mailid = 0 /\ saves = 0 /\ answered = 0
  /\ discarded = {} /\ torn = {} /\ dropped = FALSE

Proceeds(h, r) == hand' = [hand EXCEPT ![h] = r]

(* STORE +FLAGS \Deleted, EXPUNGE, and an append of one copy.               *)
Flag(f, us) ==
  box' = [box EXCEPT ![f] = {IF x.uid \in us THEN [x EXCEPT !.dead = TRUE] ELSE x : x \in @}]
Expunge(f) == box' = [box EXCEPT ![f] = Seen(f)]
AddCopy(f, m, dead) ==
  /\ uid < MaxCopy /\ uid' = uid + 1
  /\ box' = [box EXCEPT ![f] = @ \cup {[uid |-> uid + 1, msg |-> m, dead |-> dead]}]

-----------------------------------------------------------------------------
(* Requests that move messages: to a folder of the user's choice, to the    *)
(* trash (delete, and mark_as_junk too), to the inbox (mark_as_not_junk).   *)
(* The list from which the user chose may be old.                           *)
Moving(m) == {h \in Hands : hand[h].at = "store" /\ hand[h].msg = m}
StartMove(h, f, x, g) ==
  /\ hand[h] = Resting /\ x \in box[f] /\ f # Drafts /\ g # Drafts
  /\ Proceeds(h, [at |-> "copy", from |-> f, to |-> g, uid |-> x.uid])
  /\ UNCHANGED <<box, uid, mailid, saves, answered, discarded, torn, dropped>>

(* Mutant: the message is flagged first, and copied as it is then.          *)
CopyFlagged(h) ==
  /\ hand[h].at = "copy"
  /\ LET found == Copies(hand[h].from, {hand[h].uid}) IN
     \/ found = {} /\ Proceeds(h, Resting) /\ UNCHANGED <<box, uid, torn>>
     \/ \E x \in found :
          /\ AddCopy(hand[h].to, x.msg, TRUE)
          /\ Proceeds(h, [at |-> "store", from |-> hand[h].from, uid |-> x.uid, msg |-> x.msg])
          /\ UNCHANGED torn
  /\ UNCHANGED <<mailid, saves, answered, discarded, dropped>>

(* move: COPY, then STORE.                                                  *)
CopyMail(h) ==
  /\ hand[h].at = "copy"
  /\ LET found == Copies(hand[h].from, {hand[h].uid}) IN
     \/ found = {} /\ Proceeds(h, Resting) /\ UNCHANGED <<box, uid, torn>>
     \/ \E x \in found :
          /\ AddCopy(hand[h].to, x.msg, x.dead)
          /\ Proceeds(h, [at |-> "store", from |-> hand[h].from, uid |-> x.uid, msg |-> x.msg])
          /\ torn' = IF Moving(x.msg) # {} THEN torn \cup {x.msg} ELSE torn
  /\ UNCHANGED <<mailid, saves, answered, discarded, dropped>>

FlagMoved(h) ==
  /\ hand[h].at = "store"
  /\ Flag(hand[h].from, {hand[h].uid})
  /\ Proceeds(h, Resting)
  /\ UNCHANGED <<uid, mailid, saves, answered, discarded, torn, dropped>>

(* The form is opened for a draft of the list, or for a new message         *)
(* (editDraft, openComposeForm).                                            *)
OpenForm ==
  /\ \/ mailid # 0 /\ mailid' = 0
     \/ \E x \in Seen(Drafts) : x.uid # mailid /\ mailid' = x.uid
  /\ UNCHANGED <<box, uid, hand, saves, answered, discarded, torn, dropped>>

(* SaveEmailSerializer.create: the draft that the form was opened with is   *)
(* removed, then the new version is stored.  The form does not look at the  *)
(* identifier in the answer: a second save names the same draft again.      *)
SaveDraft(h) ==
  /\ hand[h] = Resting /\ saves < MaxSaves
  /\ saves' = saves + 1
  /\ Proceeds(h, [at |-> IF mailid = 0 THEN "push" ELSE "drop", uid |-> mailid, msg |-> saves + 1])
  /\ UNCHANGED <<box, uid, mailid, answered, discarded, torn, dropped>>

DropDraft(h) ==
  /\ hand[h].at = "drop"
  /\ Flag(Drafts, {hand[h].uid})
  /\ Proceeds(h, [hand[h] EXCEPT !.at = "expunge"])
  /\ UNCHANGED <<uid, mailid, saves, answered, discarded, torn, dropped>>

ExpungeDrafts(h) ==
  /\ hand[h].at = "expunge"
  /\ Expunge(Drafts)
  /\ Proceeds(h, [hand[h] EXCEPT !.at = "push"])
  /\ UNCHANGED <<uid, mailid, saves, answered, discarded, torn, dropped>>

PushDraft(h) ==
  /\ hand[h].at = "push"
  /\ AddCopy(Drafts, hand[h].msg, FALSE)
  /\ answered' = hand[h].msg
  /\ Proceeds(h, Resting)
  /\ UNCHANGED <<mailid, saves, discarded, torn, dropped>>

(* empty: SEARCH ALL, STORE, EXPUNGE.                                       *)
SearchTrash(h) ==
  /\ hand[h] = Resting /\ box[Trash] # {}
  /\ Proceeds(h, [at |-> "flag", uids |-> {x.uid : x \in box[Trash]}])
  /\ UNCHANGED <<box, uid, mailid, saves, answered, discarded, torn, dropped>>

FlagTrash(h) ==
  /\ hand[h].at = "flag"
  /\ Flag(Trash, hand[h].uids)
  /\ discarded' = discarded \cup {x.msg : x \in Copies(Trash, hand[h].uids)}
  /\ Proceeds(h, [at |-> "compact", folder |-> Trash])
  /\ UNCHANGED <<uid, mailid, saves, answered, torn, dropped>>

(* compress, and the end of empty.                                          *)
StartCompact(h, f) ==
  /\ hand[h] = Resting /\ Seen(f) # box[f]
  /\ Proceeds(h, [at |-> "compact", folder |-> f])
  /\ UNCHANGED <<box, uid, mailid, saves, answered, discarded, torn, dropped>>

Compact(h) ==
  /\ hand[h].at = "compact"
  /\ Expunge(hand[h].folder)
  /\ Proceeds(h, Resting)
  /\ UNCHANGED <<uid, mailid, saves, answered, discarded, torn, dropped>>

(* The IMAP server or the worker stops between two commands.                *)
CutOff(h) ==
  /\ hand[h] # Resting
  /\ torn' = IF hand[h].at = "store" THEN torn \cup {hand[h].msg} ELSE torn
  /\ dropped' = (dropped \/ (hand[h].at \in {"expunge", "push"} /\ hand[h].uid # 0))
  /\ Proceeds(h, Resting)
  /\ UNCHANGED <<box, uid, mailid, saves, answered, discarded>>

-----------------------------------------------------------------------------
DeliverLetter(m) ==
  /\ \A f \in Folders : \A x \in box[f] : x.msg # m
  /\ m \notin discarded
  /\ AddCopy(Inbox, m, FALSE)
  /\ UNCHANGED <<hand, mailid, saves, answered, discarded, torn, dropped>>

(* The user's mail client flags a copy, or takes the flag away again.       *)
ClientFlags(f, x) ==
  /\ x \in box[f]
  /\ box' = [box EXCEPT ![f] = (@ \ {x}) \cup {[x EXCEPT !.dead = ~@]}]
  /\ discarded' = IF x.dead THEN discarded ELSE discarded \cup {x.msg}
  /\ torn' = IF x.dead THEN torn \cup {x.msg} ELSE torn
  /\ UNCHANGED <<uid, hand, mailid, saves, answered, dropped>>

WFNext ==
  \/ \E h \in Hands :
       \/ CopyMail(h) \/ FlagMoved(h) \/ CutOff(h)
       \/ SaveDraft(h) \/ DropDraft(h) \/ ExpungeDrafts(h) \/ PushDraft(h)
       \/ SearchTrash(h) \/ FlagTrash(h) \/ Compact(h)
       \/ \E f, g \in Folders : \E x \in box[f] : StartMove(h, f, x, g)
       \/ \E f \in Folders : StartCompact(h, f)
  \/ OpenForm
  \/ \E m \in Letters : DeliverLetter(m)
  \/ \E f \in Folders : \E x \in box[f] : ClientFlags(f, x)

WFSpec == WFInit /\ [][WFNext]_wfVars

-----------------------------------------------------------------------------
WFTypeOK ==
  /\ \A f \in Folders : box[f] \subseteq [uid : 1..uid, msg : Letters \cup 1..saves, dead : BOOLEAN]
  /\ uid \in 0..MaxCopy /\ saves \in 0..MaxSaves
  /\ mailid \in 0..uid /\ answered \in 0..saves
  /\ torn \subseteq Letters \cup 1..saves

(* No message disappears from what the user sees but by emptying the trash  *)
(* or by his mail client: moves, compactions and saves of drafts, in any    *)
(* order and cut off anywhere, lose none.                                   *)
MailStays ==
  \A m \in Letters : (\E f \in Folders : \E x \in box[f] : x.msg = m) \/ m \in torn =>
    Visible(m) # {} \/ m \in discarded

(* A message is seen in one folder, once, but while it is moved, or when a  *)
(* move of it was cut off or overlapped another.                            *)
SeenOnce ==
  \A m \in Letters : m \in torn \/ Moving(m) # {} \/
    Cardinality({x \in UNION {Seen(f) : f \in Folders} : x.msg = m}) <= 1

(* The version of the draft whose save was answered last can be opened      *)
(* again, unless a later save replaces it now or was cut off halfway, or    *)
(* the user flagged it himself.                                             *)
DraftKept ==
  answered # 0 =>
    \/ \E x \in Seen(Drafts) : x.msg = answered
    \/ \E h \in Hands : hand[h].at \in {"expunge", "push"} /\ hand[h].uid # 0
    \/ dropped \/ answered \in discarded

FoldersInv == WFTypeOK /\ MailStays /\ SeenOnce /\ DraftKept

(* Not true of the code: see the README.                                    *)
DraftAlwaysThere == answered # 0 /\ answered \notin discarded => Seen(Drafts) # {}
OneDraft == Cardinality(Seen(Drafts)) <= 1
=============================================================================
