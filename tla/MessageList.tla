---------------------------- MODULE MessageList ----------------------------
(* The list of messages in the browser (EmailList.vue, MailboxList.vue and  *)
(* the store webmail.store.js): the user walks through folders and pages,   *)
(* ticks and moves, the list is loaded again every five minutes, and the    *)
(* answers arrive in any order.  A move is one step of the server here; its *)
(* IMAP commands are in WebmailFolders.                                     *)
EXTENDS Integers, FiniteSets

CONSTANTS
  Letters,        \* messages, numbered by their date
  Places, Start, Bin, \* folders: all, INBOX, the trash
  PerPage,        \* messages_per_page
  MaxOpen,        \* bound: requests for lists that are not answered
  MaxSteps,       \* bound: what the user and other clients do
  Nothing         \* no list is shown, no move is under way

ASSUME MLAssumption ==
  /\ IsFiniteSet(Letters) /\ Letters = 1..Cardinality(Letters) /\ {Start, Bin} \subseteq Places
  /\ PerPage \in Nat \ {0} /\ MaxOpen \in Nat \ {0} /\ MaxSteps \in Nat

VARIABLES
  content,   \* per folder its messages with their identifiers
  lastUid,   \* per folder the last identifier given
  folder,    \* the folder in the address of the page
  page,
  shown,     \* the list on the screen
  asked,     \* requests for a list that the server has not read
  answers,   \* lists on their way to the browser
  selection, \* identifiers, in the store that all folders share
  carried,   \* history: some were ticked in a list of another folder
  meant,     \* history: the rows the user has ticked
  posted,    \* the move under way (working)
  strays,    \* history: messages that were moved and not meant
  steps      \* history: how much was done

mlistVars == <<content, lastUid, folder, page, shown, asked, answers, selection, carried,
               meant, posted, strays, steps>>
serverVars == <<content, lastUid>>
selectionVars == <<selection, carried, meant>>

MListInit ==
  /\ \E ms \in SUBSET Letters :
       /\ content = [f \in Places |-> IF f = Start THEN {[uid |-> m, msg |-> m] : m \in ms} ELSE {}]
       /\ lastUid = [f \in Places |-> IF f = Start THEN Cardinality(Letters) ELSE 0]
  /\ folder = Start /\ page = 1
  /\ shown = Nothing
  /\ asked = {[folder |-> Start, page |-> 1]} /\ answers = {}
  /\ selection = {} /\ carried = FALSE /\ meant = {}
  /\ posted = Nothing
  /\ strays = {} /\ steps = 0

Counted == steps < MaxSteps /\ steps' = steps + 1

(* fetchEmails: the list is emptied and asked for.                          *)
Fetch(f, p) ==
  /\ Cardinality(asked) + Cardinality(answers) < MaxOpen
  /\ asked' = asked \cup {[folder |-> f, page |-> p]}
  /\ shown' = Nothing

Select(uids, ms, other) ==
  /\ selection' = uids
  /\ meant' = IF uids = {} THEN {} ELSE ms
  /\ carried' = (uids # {} /\ other)

-----------------------------------------------------------------------------
(* The server *)

(* UserEmailViewSet.list with Paginator.getpage: the newest first; an empty *)
(* list without neighbours when the page begins behind the last message.    *)
Rank(f, x) == Cardinality({y \in content[f] : y.msg >= x.msg})
PageRows(f, p) == {x \in content[f] : Rank(f, x) \in (p - 1) * PerPage + 1 .. p * PerPage}
Total(f) == Cardinality(content[f])
Listing(r) ==
  [folder |-> r.folder, rows |-> PageRows(r.folder, r.page),
   others |-> {q \in {r.page - 1, r.page + 1} : q > 0 /\ PageRows(r.folder, r.page) # {}
                                              /\ (q - 1) * PerPage < Total(r.folder)}]

ReadList(r) ==
  /\ r \in asked
  /\ asked' = asked \ {r} /\ answers' = answers \cup {Listing(r)}
  /\ UNCHANGED <<serverVars, folder, page, shown, selectionVars, posted, strays, steps>>

(* The request fails: the list stays empty.                                 *)
ListFails(r) ==
  /\ Counted
  /\ r \in asked /\ asked' = asked \ {r}
  /\ UNCHANGED <<serverVars, folder, page, shown, answers, selectionVars, posted, strays>>

(* Mutant: messages are named by their places in the list.                  *)
PlacesNamed(f, uids) == {x \in content[f] : Rank(f, x) \in uids}

(* The messages of a folder that a move names.                              *)
Named(f, uids) == {x \in content[f] : x.uid \in uids}

(* UserEmailViewSet.move_selection.                                         *)
Without(f, g, xs) ==
  [content EXCEPT ![f] = @ \ xs,
     ![g] = @ \cup {[uid |-> lastUid[g] + Cardinality({y \in xs : y.msg <= x.msg}), msg |-> x.msg] : x \in xs}]
ExecuteMove ==
  /\ posted # Nothing /\ ~posted.done
  /\ LET xs == Named(posted.from, posted.uids) IN
     /\ IF posted.from = posted.to THEN UNCHANGED serverVars
        ELSE /\ content' = Without(posted.from, posted.to, xs)
             /\ lastUid' = [lastUid EXCEPT ![posted.to] = @ + Cardinality(xs)]
     /\ strays' = strays \cup {[msg |-> x.msg, mixed |-> posted.mixed] :
                               x \in xs \ posted.meant}
  /\ posted' = [posted EXCEPT !.done = TRUE]
  /\ UNCHANGED <<folder, page, shown, asked, answers, selectionVars, steps>>

(* A message is delivered, or another client removes one.                   *)
NewLetter(m) ==
  /\ Counted
  /\ \A f \in Places : \A x \in content[f] : x.msg # m
  /\ lastUid' = [lastUid EXCEPT ![Start] = @ + 1]
  /\ content' = [content EXCEPT ![Start] = @ \cup {[uid |-> lastUid[Start] + 1, msg |-> m]}]
  /\ UNCHANGED <<folder, page, shown, asked, answers, selectionVars, posted, strays>>

OtherRemoves(f, x) ==
  /\ Counted
  /\ x \in content[f]
  /\ content' = [content EXCEPT ![f] = @ \ {x}]
  /\ UNCHANGED <<lastUid, folder, page, shown, asked, answers, selectionVars, posted, strays>>

-----------------------------------------------------------------------------
(* The browser *)

(* Whatever list arrives is shown.                                          *)
ShowList(a) ==
  /\ a \in answers
  /\ answers' = answers \ {a} /\ shown' = a
  /\ UNCHANGED <<serverVars, folder, page, asked, selectionVars, posted, strays, steps>>

(* Mutant: a list that is shown is not loaded again.                        *)
RefreshEmpty ==
  /\ shown = Nothing
  /\ Fetch(folder, page)
  /\ UNCHANGED <<serverVars, folder, page, answers, selectionVars, posted, strays, steps>>

(* autoRefreshContent, every 300 seconds.                                   *)
AutoRefresh ==
  /\ Fetch(folder, page)
  /\ UNCHANGED <<serverVars, folder, page, answers, selectionVars, posted, strays, steps>>

(* openMailbox: neither the page nor the selection change.                  *)
SwitchFolder(f) ==
  /\ Counted
  /\ f # folder /\ folder' = f
  /\ Fetch(f, page)
  /\ Select(selection, meant, TRUE)
  /\ UNCHANGED <<serverVars, page, answers, posted, strays>>

(* The user opens a message, or writes one, and comes back: another list,   *)
(* that does not see the answers of the first.                              *)
Reopen(f) ==
  /\ Counted
  /\ posted = Nothing
  /\ folder' = f /\ page' = 1
  /\ asked' = {[folder |-> f, page |-> 1]} /\ answers' = {} /\ shown' = Nothing
  /\ Select(selection, meant, carried \/ f # folder)
  /\ UNCHANGED <<serverVars, posted, strays>>

TurnPage ==
  /\ Counted
  /\ shown # Nothing
  /\ page' \in shown.others
  /\ page' # page /\ Fetch(folder, page')
  /\ UNCHANGED <<serverVars, folder, answers, selectionVars, posted, strays>>

(* The checkbox of a message; toggleAllSelection.                           *)
TickMessage(x) ==
  /\ Counted
  /\ shown # Nothing /\ x \in shown.rows
  /\ IF x.uid \in selection THEN Select(selection \ {x.uid}, meant \ {x}, carried)
     ELSE Select(selection \cup {x.uid}, meant \cup {x}, carried \/ shown.folder # folder)
  /\ UNCHANGED <<serverVars, folder, page, shown, asked, answers, posted, strays>>

TickAll ==
  /\ Counted
  /\ shown # Nothing
  /\ \/ selection # {} /\ Select({}, {}, FALSE)
     \/ selection = {} /\ Select({x.uid : x \in shown.rows}, shown.rows, shown.folder # folder)
  /\ UNCHANGED <<serverVars, folder, page, shown, asked, answers, posted, strays>>

(* deleteSelection, markSelectionAsJunk, markSelectionAsNotJunk; or onDrop, *)
(* which clears the selection in the end (dropped).                         *)
PostMove(g, dropped) ==
  /\ Counted
  /\ posted = Nothing /\ selection # {}
  /\ posted' = [from |-> folder, to |-> g, uids |-> selection, meant |-> meant,
                mixed |-> carried, dropped |-> dropped, done |-> FALSE]
  /\ UNCHANGED <<serverVars, folder, page, shown, asked, answers, selectionVars, strays>>

(* The answer to a move: the list is asked for again.                       *)
MoveAnswered ==
  /\ posted # Nothing /\ posted.done
  /\ Fetch(folder, page)
  /\ IF posted.dropped THEN Select({}, {}, FALSE) ELSE UNCHANGED selectionVars
  /\ posted' = Nothing
  /\ UNCHANGED <<serverVars, folder, page, answers, strays, steps>>

MListNext ==
  \/ ExecuteMove \/ MoveAnswered \/ AutoRefresh \/ TurnPage \/ TickAll
  \/ \E r \in asked : ReadList(r) \/ ListFails(r)
  \/ \E a \in answers : ShowList(a)
  \/ \E m \in Letters : NewLetter(m)
  \/ \E f \in Places : SwitchFolder(f) \/ Reopen(f) \/ \E x \in content[f] : OtherRemoves(f, x)
  \/ shown # Nothing /\ \E x \in shown.rows : TickMessage(x)
  \/ PostMove(Bin, FALSE) \/ PostMove(Start, FALSE)
  \/ \E g \in Places : PostMove(g, TRUE)

MListSpec == MListInit /\ [][MListNext]_mlistVars

(* The server answers, its answers arrive, and the timer runs.              *)
MListFairness ==
  /\ WF_mlistVars(\E r \in asked : ReadList(r))
  /\ WF_mlistVars(\E a \in answers : ShowList(a))
  /\ WF_mlistVars(ExecuteMove) /\ WF_mlistVars(MoveAnswered) /\ WF_mlistVars(AutoRefresh)

-----------------------------------------------------------------------------
MListTypeOK ==
  /\ \A f \in Places : content[f] \subseteq [uid : 1..lastUid[f], msg : Letters]
  /\ folder \in Places /\ page \in Nat \ {0}
  /\ asked \subseteq [folder : Places, page : Nat \ {0}]
  /\ selection \subseteq Nat /\ meant \subseteq [uid : Nat, msg : Letters]
  /\ carried \in BOOLEAN /\ steps \in 0..MaxSteps

(* A message is moved only when the user has ticked it, however old the     *)
(* list is that he looks at - unless the selection comes from the list of   *)
(* another folder (identifiers of messages, move_selection).                *)
OnlyTicked == \A x \in strays : x.mixed

(* When the user and the other clients come to rest, the list shows the     *)
(* folder as it is, again and again, whatever order the answers had.        *)
Current == shown # Nothing /\ shown.folder = folder /\ shown.rows = PageRows(folder, page)
ListCatchesUp == []<>Current

MessageListInv == MListTypeOK /\ OnlyTicked

(* Not true of the code: see the README.                                    *)
NoStray == strays = {}
FolderIsSeen == []<>(content[folder] # {} => shown # Nothing /\ shown.rows # {})
=============================================================================
