--------------------------- MODULE AddressBookSync ---------------------------
(***************************************************************************)
(* An address book and its collection on the CardDAV server                *)
(* (modoboa/contacts).                                                     *)
(*                                                                         *)
(* Requests push what the user changes; the job sync_addressbook_from_cdav *)
(* asks for what other clients have changed since the last sync token.  A  *)
(* request is a transaction, which cannot take back what the server has    *)
(* accepted; the job commits statement by statement, and there is one      *)
(* worker.  Contents are numbers, never used twice, and the etag of a card *)
(* is its content.                                                         *)
(***************************************************************************)
EXTENDS Naturals

CONSTANTS
  Cards,    \* uids of contacts
  MaxClock, \* bound: changes, of the user and of other clients
  MaxFails  \* bound: requests to the server that fail

ASSUME AddressBookAssumption == MaxClock \in Nat /\ MaxFails \in Nat

VARIABLES
  enabled,    \* the user's parameter enable_carddav_sync
  book,       \* the AddressBook row: last_sync (set or not), sync_token, syncing
  contact,    \* the Contact rows, content 0 for a row there is not
  collection, \* does the server have the collection?
  server,     \* its cards, and when each was last changed or deleted
  clock,      \* the server's revision, and the last content
  request,    \* the request that has pushed a card and not yet committed
  job,        \* the synchronisation job
  fails,      \* history: failures so far
  apart       \* history: cards that differ and that no synchronisation will report

remote == <<collection, server, clock>>
abVars == <<enabled, book, contact, remote, request, job, fails, apart>>

NoRow == [content |-> 0, etag |-> 0]
NoRequest == [pc |-> "none"]
NoJob == [pc |-> "idle"]

ABInit ==
  /\ enabled = FALSE
  /\ book = [last_sync |-> FALSE, sync_token |-> 0, syncing |-> FALSE]
  /\ contact = [c \in Cards |-> NoRow]
  /\ collection = FALSE
  /\ server = [c \in Cards |-> [content |-> 0, at |-> 0]]
  /\ clock = 0
  /\ request = NoRequest
  /\ job = NoJob
  /\ fails = 0
  /\ apart = {}

Has(c) == contact[c].content # 0
OnServer(c) == server[c].content # 0
Known(c) == Has(c) \/ server[c].at # 0
Pushes == book.last_sync /\ enabled
Next1 == clock + 1

(* Mutant: the server is not asked to compare.                              *)
MatchAnything(c) == OnServer(c)

(* If-Match: the empty etag of a contact that was never pushed asks for     *)
(* nothing.                                                                 *)
Match(c) == contact[c].etag \in {0, server[c].content}

Changed(c, n) == [server EXCEPT ![c] = [content |-> n, at |-> Next1]]
Tick == clock < MaxClock /\ clock' = Next1
Fails == fails < MaxFails /\ fails' = fails + 1

-----------------------------------------------------------------------------
(* Preferences *)

(* The collection is created at the first time; when there is one already   *)
(* the server, and with it the request, fails.                              *)
Enable ==
  /\ \/ book.last_sync /\ UNCHANGED <<book, collection>>
     \/ /\ ~book.last_sync /\ ~collection
        /\ collection' = TRUE
        /\ book' = [book EXCEPT !.last_sync = \A c \in Cards : ~Has(c)]
  /\ request = NoRequest
  /\ enabled' = TRUE
  /\ UNCHANGED <<contact, server, clock, request, job, fails, apart>>

Disable ==
  /\ request = NoRequest
  /\ enabled' = FALSE
  /\ book' = [book EXCEPT !.last_sync = FALSE, !.sync_token = 0]
  /\ UNCHANGED <<contact, remote, request, job, fails, apart>>

(* push_addressbook_to_carddav: new cards only, and the server's token, so  *)
(* that cards of other clients that are there already are never asked for.  *)
(* "Use only once": the page offers it until the book has been synchronised. *)
PushBook ==
  LET mine == {c \in Cards : Has(c)} IN
  /\ enabled /\ collection /\ ~book.last_sync /\ request = NoRequest
  /\ \A c \in mine : ~OnServer(c)
  /\ Tick
  /\ server' = [c \in Cards |-> IF c \in mine THEN [content |-> contact[c].content, at |-> Next1]
                                ELSE server[c]]
  /\ contact' = [c \in Cards |-> IF Has(c) THEN [contact[c] EXCEPT !.etag = contact[c].content]
                                 ELSE contact[c]]
  /\ book' = [book EXCEPT !.last_sync = TRUE, !.sync_token = Next1]
  /\ apart' = (apart \ mine) \cup {c \in Cards : OnServer(c)}
  /\ UNCHANGED <<enabled, collection, request, job, fails>>

(* Some cards have been pushed when the server refuses one.                 *)
PushBookFails ==
  /\ enabled /\ collection /\ ~book.last_sync /\ request = NoRequest
  /\ Fails /\ Tick
  /\ \E pushed \in SUBSET {c \in Cards : Has(c) /\ ~OnServer(c)} :
       server' = [c \in Cards |-> IF c \in pushed
                                    THEN [content |-> contact[c].content, at |-> Next1]
                                    ELSE server[c]]
  /\ UNCHANGED <<enabled, book, contact, collection, request, job, apart>>

-----------------------------------------------------------------------------
(* Contacts *)

(* A contact is created, and pushed if the book is synchronised.            *)
CreateContact(c) ==
  /\ ~Known(c) /\ request = NoRequest /\ Tick
  /\ IF Pushes
       THEN /\ collection
            /\ server' = Changed(c, Next1)
            /\ request' = [pc |-> "create", card |-> c, content |-> Next1]
            /\ UNCHANGED <<contact, apart>>
       ELSE /\ contact' = [contact EXCEPT ![c] = [content |-> Next1, etag |-> 0]]
            /\ apart' = apart \cup {c}
            /\ UNCHANGED <<server, request>>
  /\ UNCHANGED <<enabled, book, collection, job, fails>>

UpdateContact(c) ==
  /\ Has(c) /\ request = NoRequest /\ Tick
  /\ IF Pushes
       THEN /\ collection /\ Match(c)
            /\ server' = Changed(c, Next1)
            /\ request' = [pc |-> "update", card |-> c, content |-> Next1]
            /\ UNCHANGED <<contact, apart>>
       ELSE /\ contact' = [contact EXCEPT ![c].content = Next1]
            /\ apart' = apart \cup {c}
            /\ UNCHANGED <<server, request>>
  /\ UNCHANGED <<enabled, book, collection, job, fails>>

(* The card is pushed if the parameter says so, synchronised or not.        *)
DeleteContact(c) ==
  /\ Has(c) /\ request = NoRequest /\ Tick
  /\ IF enabled
       THEN /\ OnServer(c) /\ Match(c)
            /\ server' = Changed(c, 0)
            /\ apart' = apart \ {c}
       ELSE /\ apart' = apart \cup {c}
            /\ UNCHANGED server
  /\ contact' = [contact EXCEPT ![c] = NoRow]
  /\ UNCHANGED <<enabled, book, collection, request, job, fails>>

(* Has another client changed the card before the request commits?          *)
Overtaken(c) == IF server[c].content = request.content THEN apart \ {c} ELSE apart \cup {c}

(* The etag of a new card comes with the answer to its upload.              *)
CreateCommits ==
  LET c == request.card IN
  /\ request.pc = "create"
  /\ contact' = [contact EXCEPT ![c] = [content |-> request.content, etag |-> request.content]]
  /\ apart' = Overtaken(c)
  /\ request' = NoRequest
  /\ UNCHANGED <<enabled, book, remote, job, fails>>

(* That of an updated card is asked for afterwards.                         *)
NewEtag(c) == server[c].content

UpdateCommits ==
  LET c == request.card IN
  /\ request.pc = "update" /\ OnServer(c)
  /\ contact' = [contact EXCEPT ![c] = [content |-> request.content, etag |-> NewEtag(c)]]
  /\ apart' = Overtaken(c)
  /\ request' = NoRequest
  /\ UNCHANGED <<enabled, book, remote, job, fails>>

(* No answer, or no card any more: the transaction is rolled back.          *)
RequestFails ==
  /\ request # NoRequest
  /\ \/ Fails
     \/ request.pc = "update" /\ ~OnServer(request.card) /\ UNCHANGED fails
  /\ request' = NoRequest
  /\ UNCHANGED <<enabled, book, contact, remote, job, apart>>

-----------------------------------------------------------------------------
(* Other clients *)

OtherPuts(c) ==
  /\ collection /\ Tick
  /\ server' = Changed(c, Next1)
  /\ UNCHANGED <<enabled, book, contact, collection, request, job, fails, apart>>

OtherDeletes(c) ==
  /\ OnServer(c) /\ Tick
  /\ server' = Changed(c, 0)
  /\ UNCHANGED <<enabled, book, contact, collection, request, job, fails, apart>>

-----------------------------------------------------------------------------
(* The job *)

(* sync_from_cdav, and the worker that takes the job and loads the row.     *)
StartJob ==
  /\ Pushes /\ job.pc = "idle"
  /\ job' = [pc |-> "queued"]
  /\ UNCHANGED <<enabled, book, contact, remote, request, fails, apart>>

(* Mutant: the test is the wrong way round.                                 *)
LoadBookSyncing ==
  /\ job.pc = "queued"
  /\ job' = IF book.syncing THEN [pc |-> "loaded", row |-> book] ELSE NoJob
  /\ UNCHANGED <<enabled, book, contact, remote, request, fails, apart>>

LoadBook ==
  /\ job.pc = "queued"
  /\ job' = IF book.syncing THEN NoJob ELSE [pc |-> "loaded", row |-> book]
  /\ UNCHANGED <<enabled, book, contact, remote, request, fails, apart>>

(* What the server reports: without a token, the cards there are.           *)
Report(t) ==
  {c \in Cards : IF t = 0 THEN OnServer(c) ELSE server[c].at > t}

(* The whole row is saved with the flag set, as it was when it was loaded.  *)
sync_vcards ==
  LET t == job.row.sync_token IN
  /\ job.pc = "loaded" /\ collection
  /\ apart' = IF t = 0 THEN apart \cup {c \in Cards : Has(c) /\ ~OnServer(c)} ELSE apart
  /\ IF Report(t) = {} THEN job' = NoJob /\ UNCHANGED book
     ELSE /\ job' = [pc |-> "cards", token |-> clock,
                     cards |-> {[uid |-> c, etag |-> server[c].content] : c \in Report(t)}]
          /\ book' = [job.row EXCEPT !.syncing = TRUE]
  /\ UNCHANGED <<enabled, contact, remote, request, fails>>

(* update_from_vcard: what the server has now, under the etag it reported.  *)
Fetched(card) ==
  IF contact[card.uid].etag = card.etag THEN contact[card.uid]
  ELSE [content |-> server[card.uid].content, etag |-> card.etag]

(* A card that a request has pushed and not committed is not applied.       *)
Applicable(card) ==
  /\ job.pc = "cards" /\ card \in job.cards
  /\ request # NoRequest => request.card # card.uid

ApplyCard(card) ==
  /\ Applicable(card)
  /\ card.etag # 0 /\ OnServer(card.uid)
  /\ contact' = [contact EXCEPT ![card.uid] = Fetched(card)]
  /\ apart' = IF contact[card.uid].etag = card.etag THEN apart ELSE apart \ {card.uid}
  /\ job' = [job EXCEPT !.cards = @ \ {card}]
  /\ UNCHANGED <<enabled, book, remote, request, fails>>

RemoveCard(card) ==
  /\ Applicable(card) /\ card.etag = 0
  /\ contact' = [contact EXCEPT ![card.uid] = NoRow]
  /\ apart' = IF OnServer(card.uid) THEN apart ELSE apart \ {card.uid}
  /\ job' = [job EXCEPT !.cards = @ \ {card}]
  /\ UNCHANGED <<enabled, book, remote, request, fails>>

(* Mutant: the token is asked for when the cards have been read.            *)
TokenAtEnd == clock

TokenToSave == job.token

EndJob ==
  /\ job.pc = "cards" /\ job.cards = {}
  /\ book' = [last_sync |-> TRUE, sync_token |-> TokenToSave, syncing |-> FALSE]
  /\ job' = NoJob
  /\ UNCHANGED <<enabled, contact, remote, request, fails, apart>>

(* The server does not answer, a card has gone since it was reported, or    *)
(* the worker is killed.  Nothing resets the flag.                          *)
JobFails ==
  /\ \/ job.pc \in {"loaded", "cards"} /\ Fails
     \/ /\ job.pc = "cards" /\ UNCHANGED fails
        /\ \E card \in job.cards : card.etag # 0 /\ ~OnServer(card.uid)
  /\ job' = NoJob
  /\ UNCHANGED <<enabled, book, contact, remote, request, apart>>

-----------------------------------------------------------------------------
CardStep(c) ==
  CreateContact(c) \/ UpdateContact(c) \/ DeleteContact(c) \/ OtherPuts(c) \/ OtherDeletes(c)

SyncStep ==
  \/ LoadBook \/ sync_vcards \/ EndJob \/ JobFails
  \/ job.pc = "cards" /\ \E card \in job.cards : ApplyCard(card) \/ RemoveCard(card)

Commits == CreateCommits \/ UpdateCommits \/ RequestFails

ABNext ==
  \/ Enable \/ Disable \/ PushBook \/ PushBookFails
  \/ \E c \in Cards : CardStep(c)
  \/ StartJob \/ SyncStep \/ Commits

(* Requests end and the worker works; the page of the contacts, while it is *)
(* open, asks for a synchronisation every sync_frequency seconds.           *)
ABFairness == WF_abVars(SyncStep) /\ WF_abVars(Commits) /\ WF_abVars(StartJob)

ABSpec == ABInit /\ [][ABNext]_abVars /\ ABFairness

-----------------------------------------------------------------------------
(* Properties *)

ABTypeOK ==
  /\ {enabled, collection, book.last_sync, book.syncing} \subseteq BOOLEAN
  /\ book.sync_token \in 0 .. clock
  /\ contact \in [Cards -> [content : 0 .. clock, etag : 0 .. clock]]
  /\ server \in [Cards -> [content : 0 .. clock, at : 0 .. clock]]
  /\ clock \in 0 .. MaxClock /\ fails \in 0 .. MaxFails
  /\ request.pc \in {"none", "create", "update"}
  /\ job.pc \in {"idle", "queued", "loaded", "cards"}
  /\ job.pc = "cards" => \A card \in job.cards : card.etag <= job.token
  /\ apart \subseteq Cards
  /\ (\E c \in Cards : OnServer(c)) => collection

(* A contact with the etag of the server's card has its content: otherwise  *)
(* the job passes it over, and If-Match lets the user write over what he    *)
(* has never seen.                                                          *)
EtagTruth ==
  \A c \in Cards \ apart :
    Has(c) /\ contact[c].etag = server[c].content => contact[c].content = server[c].content

(* What is not the same on both sides is after the token that the next      *)
(* synchronisation sends.                                                   *)
NothingMissed ==
  \A c \in Cards \ apart :
    book.last_sync /\ contact[c].content # server[c].content =>
      \/ server[c].at > book.sync_token
      \/ request # NoRequest /\ request.card = c

(* What lets the job trust etags and tokens instead of reading every card.  *)
BookInv == ABTypeOK /\ EtagTruth /\ NothingMissed

(* The user writes over, or deletes, no version that he does not have.      *)
NothingUnseenOverwritten ==
  [][\A c \in Cards \ apart :
       \/ request' # request /\ request'.pc = "update" /\ request'.card = c
       \/ Has(c) /\ OnServer(c) /\ contact'[c] = NoRow /\ server'[c].content = 0
       => contact[c].content = server[c].content]_abVars

Stuck == book.syncing /\ job.pc \in {"idle", "queued"}
InStep == \A c \in Cards \ apart : contact[c].content = server[c].content

(* Once changes have ceased the book is as its collection, unless a job has *)
(* left the flag behind or synchronisation is off.                          *)
Converges == <>[](Stuck \/ ~Pushes \/ InStep)

(* A book is not left in the state syncing.                                 *)
(* Not what the code does: README.md, Known deviations.                     *)
FlagComesDown == book.syncing ~> ~book.syncing
=============================================================================
