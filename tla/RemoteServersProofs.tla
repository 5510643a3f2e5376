------------------------ MODULE RemoteServersProofs ------------------------
(* For every value of the constants: the synchronisation of an address book, *)
(* the DNS checks of a domain and the list of messages in the browser, each  *)
(* with the inductive invariant that carries it.                             *)
EXTENDS MCRemoteServers, FiniteSetTheorems, FunctionTheorems, TLAPS

-----------------------------------------------------------------------------
(* An address book (AddressBookSync).  Every token that somebody holds, in   *)
(* the row, in the row that the job has loaded or for the row that it will   *)
(* save, must have all later differences after it.                           *)

BookRows == [last_sync : BOOLEAN, sync_token : 0 .. clock, syncing : BOOLEAN]
Reports == [uid : Cards, etag : 0 .. clock]

BookTyped ==
  /\ enabled \in BOOLEAN /\ collection \in BOOLEAN /\ book \in BookRows
  /\ contact \in [Cards -> [content : 0 .. clock, etag : 0 .. clock]]
  /\ server \in [Cards -> [content : 0 .. clock, at : 0 .. clock]]
  /\ clock \in 0 .. MaxClock /\ fails \in 0 .. MaxFails /\ apart \subseteq Cards
  /\ \/ request = NoRequest
     \/ request \in [pc : {"create", "update"}, card : Cards, content : 1 .. clock]
  /\ job.pc \in {"idle", "queued", "loaded", "cards"}
  /\ job.pc = "loaded" => job.row \in BookRows
  /\ job.pc = "cards" => job \in [pc : {"cards"}, token : 0 .. clock, cards : SUBSET Reports]
  /\ job.pc = "cards" => \A card \in job.cards : card.etag <= job.token

(* What is synchronised at all, and that no book is pushed under a job.      *)
ModesOK ==
  /\ enabled \/ book.last_sync => collection
  /\ (\E c \in Cards : OnServer(c)) => collection
  /\ job.pc # "idle" => collection /\ (enabled => book.last_sync)
  /\ job.pc = "loaded" /\ ~job.row.last_sync => ~enabled /\ ~book.last_sync

(* A contact that is followed was on the server, and has an etag.            *)
CardsPushed ==
  \A c \in Cards :
    /\ ~Has(c) => contact[c].etag = 0
    /\ OnServer(c) => server[c].at > 0
    /\ c \notin apart /\ Has(c) => contact[c].etag # 0 /\ server[c].at > 0

(* All that differs was changed after revision t.                            *)
SyncedAfter(t) ==
  \A c \in Cards \ apart : contact[c].content # server[c].content => server[c].at > t

(* The job: a card that has changed since it was reported has changed after  *)
(* the token, and so has all that differs and is not reported.               *)
JobFollows ==
  /\ job.pc = "loaded" => SyncedAfter(job.row.sync_token)
  /\ job.pc = "cards" =>
       /\ book.sync_token <= job.token
       /\ \A card \in job.cards :
            card.etag # server[card.uid].content => server[card.uid].at > job.token
       /\ \A c \in Cards \ apart : contact[c].content # server[c].content =>
            server[c].at > job.token \/ \E card \in job.cards : card.uid = c

BookIndInv ==
  BookTyped /\ ModesOK /\ CardsPushed /\ EtagTruth /\ SyncedAfter(book.sync_token) /\ JobFollows

(* The records of those who do nothing.                                      *)
LEMMA IdlePc == NoRequest.pc = "none" /\ NoJob.pc = "idle"
BY DEF NoRequest, NoJob

(* A request in progress.                                                    *)
LEMMA RequestIs ==
  ASSUME BookTyped, request # NoRequest
  PROVE  /\ request \in [pc : {"create", "update"}, card : Cards, content : 1 .. clock]
         /\ request.card \in Cards /\ request.content \in 1 .. clock
         /\ request.content \in Nat /\ request.content # 0
BY AddressBookAssumption DEF BookTyped

(* Numbers are numbers.                                                      *)
LEMMA CardIs ==
  ASSUME BookTyped, NEW c \in Cards
  PROVE  /\ contact[c] \in [content : 0 .. clock, etag : 0 .. clock]
         /\ contact[c].content \in 0 .. clock /\ contact[c].etag \in 0 .. clock
         /\ server[c] \in [content : 0 .. clock, at : 0 .. clock]
         /\ server[c].content \in 0 .. clock /\ server[c].at \in 0 .. clock
         /\ clock \in Nat
BY AddressBookAssumption DEF BookTyped

(* What a step may do to cards: one that is followed after it agrees, has    *)
(* just been changed on the server, or was followed and is as before.        *)
Follows ==
  \A c \in Cards \ apart' :
    \/ contact'[c].content = server'[c].content
    \/ server'[c].at = Next1
    \/ c \notin apart /\ contact'[c] = contact[c] /\ server'[c] = server[c]

(* Such a step leaves all differences after a token.                         *)
LEMMA StillSynced ==
  ASSUME BookTyped, Follows, NEW t \in 0 .. clock, SyncedAfter(t)
  PROVE  SyncedAfter(t)'
<1>1. clock \in Nat /\ Next1 > t
  BY AddressBookAssumption DEF BookTyped, Next1
<1> QED BY <1>1 DEF SyncedAfter, Follows

(* All differences are after the first revision.                             *)
LEMMA SyncedAfterNone ==
  ASSUME BookTyped, CardsPushed
  PROVE  SyncedAfter(0)
<1> SUFFICES ASSUME NEW c \in Cards \ apart, contact[c].content # server[c].content
             PROVE  server[c].at > 0
  BY DEF SyncedAfter
<1> QED BY CardIs DEF CardsPushed, Has, OnServer

(* So a step keeps what it must of the job when it leaves the job alone and  *)
(* does not move the row's token.                                            *)
LEMMA JobGoesOn ==
  ASSUME BookIndInv, Follows, job' = job, book'.sync_token \in {0, book.sync_token},
         CardsPushed', BookTyped',
         \A c \in Cards : server'[c] = server[c] \/ server'[c].at = Next1
  PROVE  SyncedAfter(book.sync_token)' /\ JobFollows'
<1> USE DEF BookIndInv
<1>1. clock \in Nat /\ book.sync_token \in 0 .. clock
  BY AddressBookAssumption DEF BookTyped, BookRows
<1>2. SyncedAfter(book.sync_token)'
  <2>1. PICK t : t = book.sync_token
    OBVIOUS
  <2>2. SyncedAfter(t)'
    BY <1>1, <2>1, StillSynced
  <2>3. SyncedAfter(0)'
    <3>1. PICK z : z = 0
      OBVIOUS
    <3>2. SyncedAfter(z) /\ z \in 0 .. clock
      BY <1>1, <3>1, SyncedAfterNone
    <3> QED BY <3>1, <3>2, StillSynced
  <2>4. CASE book'.sync_token = 0
    BY <2>3, <2>4 DEF SyncedAfter
  <2>5. CASE book'.sync_token = t
    BY <2>2, <2>5 DEF SyncedAfter
  <2> QED BY <2>1, <2>4, <2>5
<1>3. job'.pc = "loaded" => SyncedAfter(job.row.sync_token)'
  <2> SUFFICES ASSUME job.pc = "loaded" PROVE SyncedAfter(job.row.sync_token)'
    OBVIOUS
  <2>1. PICK t : t = job.row.sync_token
    OBVIOUS
  <2>2. t \in 0 .. clock /\ SyncedAfter(t)
    BY <2>1 DEF BookTyped, BookRows, JobFollows
  <2>3. SyncedAfter(t)'
    BY <2>2, StillSynced
  <2> QED BY <2>1, <2>3 DEF SyncedAfter
<1>4. ASSUME job.pc = "cards"
      PROVE  /\ book'.sync_token <= job.token
             /\ \A card \in job.cards :
                  card.etag # server'[card.uid].content => server'[card.uid].at > job.token
             /\ \A c \in Cards \ apart' : contact'[c].content # server'[c].content =>
                  server'[c].at > job.token \/ \E card \in job.cards : card.uid = c
  <2>1. job.token \in 0 .. clock /\ job.cards \subseteq Reports
    BY <1>4 DEF BookTyped
  <2>2. Next1 > job.token
    BY <1>1, <2>1 DEF Next1
  <2>3. \A card \in job.cards : card.uid \in Cards
    BY <2>1 DEF Reports
  <2>4. book'.sync_token <= job.token
    BY <1>1, <1>4, <2>1 DEF JobFollows
  <2>5. \A card \in job.cards :
          card.etag # server'[card.uid].content => server'[card.uid].at > job.token
    BY <1>4, <2>2, <2>3 DEF JobFollows
  <2>6. \A c \in Cards \ apart' : contact'[c].content # server'[c].content =>
          server'[c].at > job.token \/ \E card \in job.cards : card.uid = c
    BY <1>4, <2>2 DEF JobFollows, Follows
  <2> QED BY <2>4, <2>5, <2>6
<1> QED BY <1>2, <1>3, <1>4 DEF JobFollows

(* What holds as long as some action leaves alone.                           *)
LEMMA BookIs ==
  ASSUME BookTyped
  PROVE  /\ book \in BookRows /\ book.sync_token \in 0 .. clock /\ clock \in Nat
         /\ book.last_sync \in BOOLEAN /\ book.syncing \in BOOLEAN /\ MaxClock \in Nat
         /\ MaxFails \in Nat /\ fails \in Nat /\ 0 .. clock \subseteq Nat
         /\ 0 \in 0 .. clock /\ 1 .. clock \subseteq 0 .. clock
BY AddressBookAssumption DEF BookTyped, BookRows

(* Time goes on: types keep.                                                 *)
LEMMA TypesGrow ==
  ASSUME BookTyped, clock' \in 0 .. MaxClock, clock <= clock', job' = job,
         fails' \in 0 .. MaxFails, apart' \subseteq Cards,
         enabled' \in BOOLEAN, collection' \in BOOLEAN, book' \in BookRows',
         contact' \in [Cards -> [content : 0 .. clock', etag : 0 .. clock']],
         server' \in [Cards -> [content : 0 .. clock', at : 0 .. clock']],
         \/ request' = NoRequest
         \/ request' \in [pc : {"create", "update"}, card : Cards, content : 1 .. clock']
         \/ request' = request
  PROVE  BookTyped'
<1>1. clock \in Nat /\ clock' \in Nat
  BY AddressBookAssumption DEF BookTyped
<1>2. 0 .. clock \subseteq 0 .. clock' /\ 1 .. clock \subseteq 1 .. clock'
  BY <1>1
<1>3. \/ request' = NoRequest
      \/ request' \in [pc : {"create", "update"}, card : Cards, content : 1 .. clock']
  BY <1>2 DEF BookTyped
<1>4. job'.pc = "loaded" => job'.row \in BookRows'
  BY <1>2 DEF BookTyped, BookRows
<1>5. job'.pc = "cards" => job' \in [pc : {"cards"}, token : 0 .. clock', cards : SUBSET Reports']
  BY <1>2 DEF BookTyped, Reports
<1> QED BY <1>3, <1>4, <1>5 DEF BookTyped

(* A card is changed on the server, and nothing about its contact.           *)
LEMMA ChangedIs ==
  ASSUME BookTyped, Tick, NEW c \in Cards, NEW n \in {0, Next1}
  PROVE  /\ Changed(c, n) \in [Cards -> [content : 0 .. clock', at : 0 .. clock']]
         /\ Changed(c, n)[c].content = n /\ Changed(c, n)[c].at = Next1
         /\ \A d \in Cards : d # c => Changed(c, n)[d] = server[d]
         /\ clock' \in 0 .. MaxClock /\ clock <= clock' /\ clock' = Next1 /\ Next1 \in Nat
         /\ Next1 # 0 /\ Next1 > 0 /\ 0 .. clock \subseteq 0 .. clock' /\ Next1 \in 1 .. clock'
         /\ Next1 \in 0 .. clock'
         /\ contact \in [Cards -> [content : 0 .. clock', etag : 0 .. clock']]
         /\ book \in BookRows' /\ \A d \in Cards : contact[d].etag # Next1
<1>1. clock \in Nat /\ clock' = clock + 1 /\ clock' \in 0 .. MaxClock /\ Next1 = clock + 1
  BY AddressBookAssumption DEF BookTyped, Tick, Next1
<1>2. 0 .. clock \subseteq 0 .. clock' /\ Next1 \in 0 .. clock' /\ 0 \in 0 .. clock'
  BY <1>1
<1>3. server \in [Cards -> [content : 0 .. clock', at : 0 .. clock']]
  BY <1>2 DEF BookTyped
<1>4. Changed(c, n) \in [Cards -> [content : 0 .. clock', at : 0 .. clock']]
  BY <1>2, <1>3 DEF Changed
<1>5. /\ Changed(c, n)[c].content = n /\ Changed(c, n)[c].at = Next1
      /\ \A d \in Cards : d # c => Changed(c, n)[d] = server[d]
  BY <1>3 DEF Changed
<1>6. contact \in [Cards -> [content : 0 .. clock', etag : 0 .. clock']]
  BY <1>2 DEF BookTyped
<1>7. book \in BookRows'
  BY <1>2 DEF BookTyped, BookRows
<1>8. \A d \in Cards : contact[d].etag # Next1
  BY <1>1, CardIs
<1> QED BY <1>1, <1>2, <1>4, <1>5, <1>6, <1>7, <1>8

(* Another client changes a card, or a request does that has yet to commit.  *)
LEMMA ServerChanges ==
  ASSUME BookIndInv, Tick, NEW c \in Cards, NEW n \in {0, Next1}, server' = Changed(c, n),
         collection, UNCHANGED <<enabled, book, contact, collection, job, fails, apart>>,
         \/ request' \in [pc : {"create", "update"}, card : Cards, content : 1 .. clock']
         \/ request' = request
  PROVE  BookIndInv'
<1> USE DEF BookIndInv
<1>1. BookTyped'
  BY ChangedIs, TypesGrow DEF BookTyped
<1>2. /\ server'[c].content = n /\ server'[c].at = Next1 /\ Next1 > 0
      /\ \A d \in Cards : d # c => server'[d] = server[d]
  BY ChangedIs
<1>3. ModesOK'
  BY DEF ModesOK
<1>4. CardsPushed'
  BY <1>2 DEF CardsPushed, Has, OnServer
<1>5. EtagTruth'
  <2> SUFFICES ASSUME NEW d \in Cards \ apart, Has(d), contact[d].etag = server'[d].content
               PROVE  contact[d].content = server'[d].content
    BY DEF EtagTruth, Has
  <2>1. d # c
    BY <1>2, ChangedIs DEF CardsPushed
  <2> QED BY <1>2, <2>1 DEF EtagTruth
<1>6. Follows
  BY <1>2 DEF Follows
<1> QED BY <1>1, <1>2, <1>3, <1>4, <1>5, <1>6, JobGoesOn

(* A contact is changed that nobody follows any more, or agrees.             *)
LEMMA ContactChanges ==
  ASSUME BookIndInv, NEW c \in Cards, NEW n, contact' = [contact EXCEPT ![c] = n],
         BookTyped', n.content = 0 => n.etag = 0, clock <= clock',
         \/ c \in apart'
         \/ n.content = server'[c].content /\ (n.content # 0 => n.etag # 0),
         apart \ {c} \subseteq apart', server' = server \/ (server' = Changed(c, 0) /\ Tick),
         UNCHANGED <<enabled, book, collection, job>>
  PROVE  BookIndInv'
<1> USE DEF BookIndInv
<1>1. contact'[c] = n /\ \A d \in Cards : d # c => contact'[d] = contact[d]
  BY DEF BookTyped
<1>2. /\ \A d \in Cards : d # c => server'[d] = server[d]
      /\ server'[c] = server[c] \/ (server'[c].at = Next1 /\ server'[c].content = 0)
  BY ChangedIs
<1>3. ModesOK'
  BY <1>2 DEF ModesOK, OnServer
<1>4. CardsPushed'
  <2> SUFFICES ASSUME NEW d \in Cards
               PROVE  /\ contact'[d].content = 0 => contact'[d].etag = 0
                      /\ server'[d].content # 0 => server'[d].at > 0
                      /\ d \notin apart' /\ contact'[d].content # 0 =>
                           contact'[d].etag # 0 /\ server'[d].at > 0
    BY DEF CardsPushed, Has, OnServer
  <2>1. CASE d = c
    BY <1>1, <1>2, <2>1 DEF CardsPushed, Has, OnServer
  <2>2. CASE d # c
    BY <1>1, <1>2, <2>2 DEF CardsPushed, Has, OnServer
  <2> QED BY <2>1, <2>2
<1>5. EtagTruth'
  BY <1>1, <1>2 DEF EtagTruth, Has
<1>6. Follows
  BY <1>1, <1>2 DEF Follows
<1>7. \A d \in Cards : server'[d] = server[d] \/ server'[d].at = Next1
  BY <1>2
<1> QED BY <1>3, <1>4, <1>5, <1>6, <1>7, JobGoesOn

(* The parameter is switched on,                                             *)
LEMMA EnableStep == ASSUME BookIndInv, Enable PROVE BookIndInv'
<1> USE DEF BookIndInv, Enable
<1>1. /\ book' \in BookRows /\ book'.sync_token = book.sync_token
      /\ \/ book.last_sync /\ book' = book /\ collection' = collection
         \/ ~book.last_sync /\ ~collection /\ collection' = TRUE
  BY BookIs DEF BookRows
<1>2. BookTyped'
  <2>1. clock' = clock /\ clock <= clock'
    BY BookIs
  <2>2. book' \in BookRows'
    BY <1>1, <2>1 DEF BookRows
  <2>3. collection' \in BOOLEAN
    BY <1>1 DEF BookTyped
  <2> QED BY <2>1, <2>2, <2>3, TypesGrow DEF BookTyped
<1>3. ModesOK'
  <2>1. CASE book.last_sync /\ book' = book /\ collection' = collection
    BY <2>1 DEF ModesOK, OnServer
  <2>2. CASE ~book.last_sync /\ ~collection /\ collection' = TRUE
    <3>1. job.pc = "idle"
      BY <2>2 DEF ModesOK
    <3> QED BY <2>2, <3>1 DEF ModesOK
  <2> QED BY <1>1, <2>1, <2>2
<1>4. CardsPushed' /\ EtagTruth' /\ Follows
  BY DEF CardsPushed, EtagTruth, Follows, Has, OnServer
<1> QED BY <1>1, <1>2, <1>3, <1>4, JobGoesOn

(* or off.                                                                   *)
LEMMA DisableStep == ASSUME BookIndInv, Disable PROVE BookIndInv'
<1> USE DEF BookIndInv, Disable, remote
<1>1. book' \in BookRows /\ book'.sync_token = 0 /\ book'.last_sync = FALSE
  BY BookIs DEF BookRows
<1>2. BookTyped'
  <2>1. clock' = clock /\ clock <= clock'
    BY BookIs
  <2>2. book' \in BookRows'
    BY <1>1, <2>1 DEF BookRows
  <2> QED BY <2>1, <2>2, TypesGrow DEF BookTyped
<1>3. ModesOK'
  BY <1>1 DEF ModesOK, OnServer
<1>4. CardsPushed' /\ EtagTruth' /\ Follows
  BY DEF CardsPushed, EtagTruth, Follows, Has, OnServer
<1> QED BY <1>1, <1>2, <1>3, <1>4, JobGoesOn

(* The book is pushed, while no job runs.                                    *)
LEMMA PushStep == ASSUME BookIndInv, PushBook PROVE BookIndInv'
<1> USE DEF BookIndInv
<1> DEFINE mine == {c \in Cards : Has(c)}
<1>1. /\ enabled /\ collection /\ ~book.last_sync /\ request = NoRequest
      /\ \A c \in mine : ~OnServer(c)
      /\ clock' = Next1 /\ clock < MaxClock /\ job.pc = "idle"
      /\ UNCHANGED <<enabled, collection, request, job, fails>>
      /\ book' = [book EXCEPT !.last_sync = TRUE, !.sync_token = Next1]
      /\ apart' = (apart \ mine) \cup {c \in Cards : OnServer(c)}
  BY DEF PushBook, Tick, ModesOK
<1>2. /\ clock' \in Nat /\ clock' \in 0 .. MaxClock /\ clock <= clock' /\ Next1 \in Nat
      /\ 0 .. clock \subseteq 0 .. clock' /\ Next1 \in 0 .. clock' /\ Next1 > 0
  BY <1>1, BookIs DEF Next1
<1>3. /\ book' \in BookRows' /\ book'.last_sync = TRUE /\ book'.sync_token = Next1
  BY <1>1, <1>2, BookIs DEF BookRows
<1>4. \A c \in Cards :
        IF c \in mine
          THEN /\ server'[c] = [content |-> contact[c].content, at |-> Next1]
               /\ contact'[c] = [contact[c] EXCEPT !.etag = contact[c].content]
          ELSE server'[c] = server[c] /\ contact'[c] = contact[c]
  BY DEF PushBook
<1>5. \A c \in mine :
        /\ server'[c].content = contact[c].content /\ server'[c].at = Next1
        /\ contact'[c].content = contact[c].content /\ contact'[c].etag = contact[c].content
        /\ contact[c].content # 0
        /\ server'[c] \in [content : 0 .. clock', at : 0 .. clock']
        /\ contact'[c] \in [content : 0 .. clock', etag : 0 .. clock']
  <2> SUFFICES ASSUME NEW c \in mine
               PROVE  /\ server'[c].content = contact[c].content /\ server'[c].at = Next1
                      /\ contact'[c].content = contact[c].content
                      /\ contact'[c].etag = contact[c].content /\ contact[c].content # 0
                      /\ server'[c] \in [content : 0 .. clock', at : 0 .. clock']
                      /\ contact'[c] \in [content : 0 .. clock', etag : 0 .. clock']
    OBVIOUS
  <2>1. contact[c] \in [content : 0 .. clock, etag : 0 .. clock]
       /\ contact[c].content \in 0 .. clock'
    BY <1>2, CardIs
  <2>2. /\ server'[c] = [content |-> contact[c].content, at |-> Next1]
        /\ contact'[c] = [contact[c] EXCEPT !.etag = contact[c].content]
    BY <1>4
  <2> HIDE DEF mine
  <2>3. contact[c].content # 0
    BY DEF mine, Has
  <2> QED BY <1>2, <2>1, <2>2, <2>3
<1>6. BookTyped'
  <2>1. server' \in [Cards -> [content : 0 .. clock', at : 0 .. clock']]
    <3>1. \A c \in Cards : server'[c] \in [content : 0 .. clock', at : 0 .. clock']
      BY <1>2, <1>4, <1>5, CardIs
    <3>2. server' = [c \in Cards |-> server'[c]]
      BY DEF PushBook
    <3> QED BY <3>1, <3>2
  <2>2. contact' \in [Cards -> [content : 0 .. clock', etag : 0 .. clock']]
    <3>1. \A c \in Cards : contact'[c] \in [content : 0 .. clock', etag : 0 .. clock']
      BY <1>2, <1>4, <1>5, CardIs
    <3>2. contact' = [c \in Cards |-> contact'[c]]
      BY DEF PushBook
    <3> QED BY <3>1, <3>2
  <2>3. apart' \subseteq Cards
    BY <1>1 DEF BookTyped
  <2> QED BY <1>1, <1>2, <1>3, <2>1, <2>2, <2>3, TypesGrow DEF BookTyped
<1>7. ModesOK'
  BY <1>1, <1>3 DEF ModesOK
<1>8. CardsPushed'
  <2> SUFFICES ASSUME NEW c \in Cards
               PROVE  /\ contact'[c].content = 0 => contact'[c].etag = 0
                      /\ server'[c].content # 0 => server'[c].at > 0
                      /\ c \notin apart' /\ contact'[c].content # 0 =>
                           contact'[c].etag # 0 /\ server'[c].at > 0
    BY DEF CardsPushed, Has, OnServer
  <2>1. CASE c \in mine
    BY <1>2, <1>5, <2>1
  <2>2. CASE c \notin mine
    BY <1>4, <2>2 DEF CardsPushed, Has, OnServer
  <2> QED BY <2>1, <2>2
<1>9. \A c \in Cards \ apart' : contact'[c].content = server'[c].content
  <2> SUFFICES ASSUME NEW c \in Cards \ apart' PROVE contact'[c].content = server'[c].content
    OBVIOUS
  <2>1. CASE c \in mine
    BY <1>5, <2>1
  <2>2. CASE c \notin mine
    BY <1>1, <1>4, <2>2 DEF Has, OnServer
  <2> QED BY <2>1, <2>2
<1>10. EtagTruth' /\ SyncedAfter(book.sync_token)'
  BY <1>9 DEF EtagTruth, SyncedAfter
<1>11. JobFollows'
  BY <1>1 DEF JobFollows
<1> QED BY <1>6, <1>7, <1>8, <1>10, <1>11

(* It is pushed in part: what is pushed agrees.                              *)
LEMMA PushFailsStep == ASSUME BookIndInv, PushBookFails PROVE BookIndInv'
<1> USE DEF BookIndInv
<1>1. /\ collection /\ clock' = Next1 /\ clock < MaxClock /\ fails' = fails + 1 /\ fails < MaxFails
      /\ UNCHANGED <<enabled, book, contact, collection, request, job, apart>>
  BY DEF PushBookFails, Tick, Fails
<1>2. PICK pushed \in SUBSET {c \in Cards : Has(c) /\ ~OnServer(c)} :
        server' = [c \in Cards |-> IF c \in pushed
                                     THEN [content |-> contact[c].content, at |-> Next1]
                                     ELSE server[c]]
  BY DEF PushBookFails
<1>3. /\ clock' \in Nat /\ clock' \in 0 .. MaxClock /\ clock <= clock' /\ Next1 \in Nat
      /\ 0 .. clock \subseteq 0 .. clock' /\ Next1 \in 0 .. clock' /\ Next1 > 0
      /\ fails' \in 0 .. MaxFails
  BY <1>1, BookIs DEF Next1
<1>4. \A c \in Cards :
        IF c \in pushed THEN /\ server'[c].content = contact[c].content /\ server'[c].at = Next1
                             /\ server'[c] \in [content : 0 .. clock', at : 0 .. clock']
                        ELSE server'[c] = server[c]
  BY <1>2, <1>3, CardIs
<1>5. BookTyped'
  <2>1. server' \in [Cards -> [content : 0 .. clock', at : 0 .. clock']]
    <3>1. \A c \in Cards : server'[c] \in [content : 0 .. clock', at : 0 .. clock']
      BY <1>3, <1>4, CardIs
    <3> QED BY <1>2, <3>1
  <2>2. contact' \in [Cards -> [content : 0 .. clock', etag : 0 .. clock']] /\ book' \in BookRows'
    BY <1>1, <1>3 DEF BookTyped, BookRows
  <2> QED BY <1>1, <1>3, <2>1, <2>2, TypesGrow DEF BookTyped
<1>6. ModesOK'
  BY <1>1 DEF ModesOK
<1>7. CardsPushed' /\ EtagTruth' /\ Follows
  BY <1>1, <1>3, <1>4 DEF CardsPushed, EtagTruth, Follows, Has, OnServer
<1>8. \A c \in Cards : server'[c] = server[c] \/ server'[c].at = Next1
  BY <1>4
<1> QED BY <1>1, <1>5, <1>6, <1>7, <1>8, JobGoesOn

-----------------------------------------------------------------------------
(* A contact is created or changed: it is pushed first, and committed later, *)
(* or not pushed, and then nobody follows it.                                *)
LEMMA WriteContactStep ==
  ASSUME BookIndInv, NEW c \in Cards, CreateContact(c) \/ UpdateContact(c)
  PROVE  BookIndInv'
<1> USE DEF BookIndInv
<1>1. Tick /\ UNCHANGED <<enabled, book, collection, job, fails>>
  BY DEF CreateContact, UpdateContact
<1>2. clock' = Next1 /\ Next1 \in 1 .. clock' /\ Next1 \in 0 .. clock' /\ Next1 # 0
      /\ clock' \in 0 .. MaxClock /\ clock <= clock' /\ 0 .. clock \subseteq 0 .. clock'
      /\ book \in BookRows' /\ contact \in [Cards -> [content : 0 .. clock', etag : 0 .. clock']]
  BY <1>1, ChangedIs
<1>3. CASE Pushes
  <2>1. /\ collection /\ server' = Changed(c, Next1) /\ UNCHANGED <<contact, apart>>
        /\ \/ request' = [pc |-> "create", card |-> c, content |-> Next1]
           \/ request' = [pc |-> "update", card |-> c, content |-> Next1]
    BY <1>3 DEF CreateContact, UpdateContact
  <2>2. request' \in [pc : {"create", "update"}, card : Cards, content : 1 .. clock']
    BY <1>2, <2>1
  <2>3. PICK n : n = Next1
    OBVIOUS
  <2> QED BY <1>1, <2>1, <2>2, <2>3, ServerChanges
<1>4. CASE ~Pushes
  <2>1. UNCHANGED <<server, request>> /\ apart' = apart \cup {c}
    BY <1>4 DEF CreateContact, UpdateContact
  <2>2. PICK n \in [content : {Next1}, etag : 0 .. clock'] : contact' = [contact EXCEPT ![c] = n]
    <3>1. CASE CreateContact(c)
      BY <1>2, <1>4, <3>1, BookIs DEF CreateContact
    <3>2. CASE UpdateContact(c)
      <4>1. contact' = [contact EXCEPT ![c] = [contact[c] EXCEPT !.content = Next1]]
        BY <1>4, <3>2 DEF UpdateContact, BookTyped
      <4>2. [contact[c] EXCEPT !.content = Next1] \in [content : {Next1}, etag : 0 .. clock']
        BY <1>2, CardIs
      <4> QED BY <4>1, <4>2
    <3> QED BY <3>1, <3>2
  <2>3. BookTyped'
    <3>1. contact' \in [Cards -> [content : 0 .. clock', etag : 0 .. clock']]
      BY <1>2, <2>2
    <3>2. server' \in [Cards -> [content : 0 .. clock', at : 0 .. clock']]
      BY <1>2, <2>1 DEF BookTyped
    <3> QED BY <1>1, <1>2, <2>1, <3>1, <3>2, TypesGrow DEF BookTyped
  <2> QED BY <1>1, <1>2, <2>1, <2>2, <2>3, ContactChanges
<1> QED BY <1>3, <1>4

(* A contact is deleted, here and there or only here.                        *)
LEMMA DeleteContactStep ==
  ASSUME BookIndInv, NEW c \in Cards, DeleteContact(c)
  PROVE  BookIndInv'
<1> USE DEF BookIndInv
<1>1. /\ Tick /\ UNCHANGED <<enabled, book, collection, job, fails, request>>
      /\ contact' = [contact EXCEPT ![c] = NoRow]
      /\ \/ server' = Changed(c, 0) /\ apart' = apart \ {c}
         \/ server' = server /\ apart' = apart \cup {c}
  BY DEF DeleteContact
<1>2. /\ clock' \in 0 .. MaxClock /\ clock <= clock' /\ 0 .. clock \subseteq 0 .. clock'
      /\ book \in BookRows' /\ contact \in [Cards -> [content : 0 .. clock', etag : 0 .. clock']]
      /\ Changed(c, 0) \in [Cards -> [content : 0 .. clock', at : 0 .. clock']]
      /\ Changed(c, 0)[c].content = 0 /\ 0 \in 0 .. clock'
  BY <1>1, ChangedIs, BookIs
<1>3. NoRow.content = 0 /\ NoRow.etag = 0 /\ NoRow \in [content : 0 .. clock', etag : 0 .. clock']
  BY <1>2 DEF NoRow
<1>4. BookTyped'
  <2>1. contact' \in [Cards -> [content : 0 .. clock', etag : 0 .. clock']]
    BY <1>1, <1>2, <1>3
  <2>2. server' \in [Cards -> [content : 0 .. clock', at : 0 .. clock']]
    BY <1>1, <1>2 DEF BookTyped
  <2>3. apart' \subseteq Cards
    BY <1>1 DEF BookTyped
  <2> QED BY <1>1, <1>2, <2>1, <2>2, <2>3, TypesGrow DEF BookTyped
<1> QED BY <1>1, <1>2, <1>3, <1>4, ContactChanges

(* Other clients change and delete cards.                                    *)
LEMMA OthersStep ==
  ASSUME BookIndInv, NEW c \in Cards, OtherPuts(c) \/ OtherDeletes(c)
  PROVE  BookIndInv'
<1>1. /\ Tick /\ UNCHANGED <<enabled, book, contact, collection, request, job, fails, apart>>
      /\ server' = Changed(c, Next1) \/ server' = Changed(c, 0)
      /\ collection
  BY DEF OtherPuts, OtherDeletes, BookIndInv, ModesOK
<1>2. PICK n \in {0, Next1} : server' = Changed(c, n)
  BY <1>1
<1> QED BY <1>1, <1>2, ServerChanges

(* A request commits what it has pushed.                                     *)
LEMMA CommitStep ==
  ASSUME BookIndInv, CreateCommits \/ UpdateCommits
  PROVE  BookIndInv'
<1> USE DEF BookIndInv
<1>1. PICK c : c = request.card
  OBVIOUS
<1>2. request # NoRequest
  BY IdlePc DEF CreateCommits, UpdateCommits
<1>3. c \in Cards /\ request.content \in 1 .. clock /\ request.content # 0
      /\ request.content \in 0 .. clock
  BY <1>1, <1>2, RequestIs, BookIs
<1>4. PICK e \in 0 .. clock :
        /\ contact' = [contact EXCEPT ![c] = [content |-> request.content, etag |-> e]]
        /\ e # 0
  <2>1. CASE CreateCommits
    BY <1>1, <1>3, <2>1 DEF CreateCommits
  <2>2. CASE UpdateCommits
    BY <1>1, <1>3, <2>2, CardIs DEF UpdateCommits, NewEtag, OnServer
  <2> QED BY <2>1, <2>2
<1>5. /\ request' = NoRequest /\ UNCHANGED <<enabled, book, collection, server, clock, job, fails>>
      /\ apart' = IF server[c].content = request.content THEN apart \ {c} ELSE apart \cup {c}
  BY <1>1 DEF CreateCommits, UpdateCommits, remote, Overtaken
<1>6. PICK n : n = [content |-> request.content, etag |-> e]
  OBVIOUS
<1>7. /\ n.content = request.content /\ n.etag = e /\ n.content # 0
      /\ n \in [content : 0 .. clock, etag : 0 .. clock]
      /\ contact' = [contact EXCEPT ![c] = n]
  BY <1>3, <1>4, <1>6
<1>8. BookTyped'
  <2>1. contact' \in [Cards -> [content : 0 .. clock', etag : 0 .. clock']]
    BY <1>5, <1>7 DEF BookTyped
  <2>2. apart' \subseteq Cards /\ clock <= clock' /\ book' \in BookRows'
    BY <1>3, <1>5, BookIs DEF BookTyped, BookRows
  <2> QED BY <1>5, <2>1, <2>2, TypesGrow DEF BookTyped
<1>9. clock <= clock' /\ UNCHANGED <<enabled, book, collection, job>> /\ server' = server
  BY <1>5, BookIs
<1>10. /\ apart \ {c} \subseteq apart'
       /\ n.content = 0 => n.etag = 0
       /\ \/ c \in apart'
          \/ n.content = server'[c].content /\ (n.content # 0 => n.etag # 0)
  BY <1>4, <1>5, <1>7
<1>11. BookIndInv /\ contact' = [contact EXCEPT ![c] = n]
  BY <1>7
<1> HIDE DEF BookIndInv
<1> QED BY ONLY <1>3, <1>8, <1>9, <1>10, <1>11, ContactChanges

(* It fails: the server keeps what was pushed, which comes after all tokens. *)
LEMMA RequestFailsStep == ASSUME BookIndInv, RequestFails PROVE BookIndInv'
<1> USE DEF BookIndInv
<1>1. /\ request' = NoRequest
      /\ UNCHANGED <<enabled, book, contact, collection, server, clock, job, apart>>
      /\ \/ fails' = fails
         \/ fails < MaxFails /\ fails' = fails + 1
  BY DEF RequestFails, remote, Fails
<1>2. fails' \in 0 .. MaxFails /\ clock <= clock' /\ book' \in BookRows'
  BY <1>1, BookIs DEF BookTyped, BookRows
<1>3. BookTyped'
  BY <1>1, <1>2, TypesGrow DEF BookTyped
<1>4. ModesOK' /\ CardsPushed' /\ EtagTruth' /\ Follows
  BY <1>1 DEF ModesOK, CardsPushed, EtagTruth, Follows, Has, OnServer
<1> QED BY <1>1, <1>3, <1>4, JobGoesOn

-----------------------------------------------------------------------------
(* The job.  Its steps leave the server alone.                               *)
LEMMA JobTypes ==
  ASSUME BookTyped, UNCHANGED <<enabled, collection, server, clock, request>>,
         fails' \in 0 .. MaxFails, apart' \subseteq Cards, book' \in BookRows,
         contact' \in [Cards -> [content : 0 .. clock, etag : 0 .. clock]],
         job'.pc \in {"idle", "queued", "loaded", "cards"},
         job'.pc = "loaded" => job'.row \in BookRows,
         job'.pc = "cards" =>
           /\ job' \in [pc : {"cards"}, token : 0 .. clock, cards : SUBSET Reports]
           /\ \A card \in job'.cards : card.etag <= job'.token
  PROVE  BookTyped'
<1>1. BookRows' = BookRows /\ Reports' = Reports
  BY DEF BookRows, Reports
<1> QED BY <1>1 DEF BookTyped

(* It is queued, loads the row, or is over before or after its time.         *)
LEMMA JobBegins ==
  ASSUME BookIndInv, StartJob \/ LoadBook \/ JobFails
  PROVE  BookIndInv'
<1> USE DEF BookIndInv
<1>1. /\ UNCHANGED <<enabled, book, contact, collection, server, clock, request, apart>>
      /\ fails' = fails \/ (fails < MaxFails /\ fails' = fails + 1)
      /\ \/ job' = NoJob
         \/ Pushes /\ job' = [pc |-> "queued"]
         \/ job.pc = "queued" /\ job' = [pc |-> "loaded", row |-> book]
  BY DEF StartJob, LoadBook, JobFails, remote, Fails
<1>2. fails' \in 0 .. MaxFails
  BY <1>1, BookIs DEF BookTyped
<1>3. \/ job'.pc = "idle"
      \/ Pushes /\ job'.pc = "queued"
      \/ job.pc = "queued" /\ job'.pc = "loaded" /\ job'.row = book
  BY <1>1, IdlePc
<1>4. BookTyped'
  <2>1. apart' \subseteq Cards /\ book' \in BookRows
        /\ contact' \in [Cards -> [content : 0 .. clock, etag : 0 .. clock]]
    BY <1>1 DEF BookTyped
  <2>2. /\ job'.pc \in {"idle", "queued", "loaded"} /\ job'.pc # "cards"
        /\ job'.pc = "loaded" => job'.row \in BookRows
    BY <1>3, <2>1, BookIs
  <2> QED BY <1>1, <1>2, <2>1, <2>2, JobTypes
<1>5. ModesOK'
  BY <1>1, <1>3 DEF ModesOK, OnServer, Pushes
<1>6. CardsPushed' /\ EtagTruth' /\ SyncedAfter(book.sync_token)'
  BY <1>1 DEF CardsPushed, EtagTruth, SyncedAfter, Has, OnServer
<1>7. JobFollows'
  <2>1. job'.pc = "loaded" => SyncedAfter(job.row.sync_token)'
    BY <1>1, <1>3 DEF SyncedAfter
  <2> QED BY <1>3, <2>1 DEF JobFollows
<1> QED BY <1>4, <1>5, <1>6, <1>7

(* What the server reports: all that differs and is followed.                *)
LEMMA ReportStep == ASSUME BookIndInv, sync_vcards PROVE BookIndInv'
<1> USE DEF BookIndInv
<1>0. PICK t : t = job.row.sync_token
  OBVIOUS
<1>1. /\ job.pc = "loaded" /\ collection /\ job.row \in BookRows /\ t \in 0 .. clock
      /\ t \in Nat /\ clock \in Nat /\ SyncedAfter(t)
      /\ UNCHANGED <<enabled, contact, collection, server, clock, request, fails>>
      /\ apart' = IF t = 0 THEN apart \cup {c \in Cards : Has(c) /\ ~OnServer(c)} ELSE apart
  BY <1>0, BookIs DEF sync_vcards, BookTyped, remote, JobFollows, BookRows
<1>2. apart \subseteq apart' /\ apart' \subseteq Cards
  BY <1>1 DEF BookTyped
<1>3. CardsPushed' /\ EtagTruth' /\ Follows
  BY <1>1, <1>2 DEF CardsPushed, EtagTruth, Follows, Has, OnServer
<1>4. /\ fails' \in 0 .. MaxFails
      /\ contact' \in [Cards -> [content : 0 .. clock, etag : 0 .. clock]]
  BY <1>1 DEF BookTyped
<1>5. CASE Report(t) = {}
  <2>1. job' = NoJob /\ book' = book /\ job'.pc = "idle"
    BY <1>0, <1>5, IdlePc DEF sync_vcards
  <2>2. BookTyped'
    BY <1>1, <1>2, <1>4, <2>1, BookIs, JobTypes
  <2>3. ModesOK'
    BY <1>1, <2>1 DEF ModesOK, OnServer
  <2>4. SyncedAfter(book.sync_token)'
    BY <1>1, <1>2, <2>1 DEF SyncedAfter
  <2>5. JobFollows'
    BY <2>1 DEF JobFollows
  <2> QED BY <1>3, <2>2, <2>3, <2>4, <2>5
<1>6. CASE Report(t) # {}
  <2> DEFINE cards == {[uid |-> c, etag |-> server[c].content] : c \in Report(t)}
  <2>1. /\ job' = [pc |-> "cards", token |-> clock, cards |-> cards]
        /\ book' = [job.row EXCEPT !.syncing = TRUE]
    BY <1>0, <1>6 DEF sync_vcards
  <2>2. /\ job'.pc = "cards" /\ job'.token = clock /\ job'.cards = cards
        /\ book' \in BookRows /\ book'.sync_token = t /\ book'.last_sync = job.row.last_sync
    BY <1>0, <1>1, <2>1 DEF BookRows
  <2>3. \A card \in cards : /\ card.uid \in Cards /\ card.etag = server[card.uid].content
                            /\ card.etag \in 0 .. clock /\ card.etag <= clock /\ card \in Reports
    <3> SUFFICES ASSUME NEW c \in Report(t)
                 PROVE  /\ c \in Cards /\ server[c].content \in 0 .. clock
                        /\ server[c].content <= clock
                        /\ [uid |-> c, etag |-> server[c].content] \in Reports
      OBVIOUS
    <3>1. c \in Cards
      BY DEF Report
    <3>2. server[c].content \in 0 .. clock
      BY <3>1, CardIs
    <3> QED BY <1>1, <3>1, <3>2 DEF Reports
  <2>4. BookTyped'
    <3>1. job' \in [pc : {"cards"}, token : 0 .. clock, cards : SUBSET Reports]
      BY <1>1, <2>1, <2>3
    <3> QED BY <1>1, <1>2, <1>4, <2>2, <2>3, <3>1, JobTypes
  <2>5. ModesOK'
    BY <1>1, <2>2 DEF ModesOK, OnServer
  <2>6. SyncedAfter(book.sync_token)'
    BY <1>1, <1>2, <2>2 DEF SyncedAfter
  <2>7. ASSUME NEW c \in Cards \ apart', contact[c].content # server[c].content
        PROVE  \E card \in cards : card.uid = c
    <3>1. c \in Report(t)
      <4>1. CASE t = 0
        BY <1>1, <2>7, <4>1 DEF Report, Has, OnServer
      <4>2. CASE t # 0
        BY <1>1, <1>2, <2>7, <4>2 DEF Report, SyncedAfter
      <4> QED BY <4>1, <4>2
    <3>2. [uid |-> c, etag |-> server[c].content] \in cards
      BY <3>1
    <3> QED BY <3>2
  <2>8. JobFollows'
    <3>1. book'.sync_token <= job'.token
      BY <1>1, <2>2
    <3>2. \A card \in job'.cards : card.etag = server'[card.uid].content
      BY <1>1, <2>2, <2>3
    <3>3. \A c \in Cards \ apart' : contact'[c].content # server'[c].content =>
            \E card \in job'.cards : card.uid = c
      BY <1>1, <2>2, <2>7
    <3> QED BY <2>2, <3>1, <3>2, <3>3 DEF JobFollows
  <2> QED BY <1>3, <2>4, <2>5, <2>6, <2>8
<1> QED BY <1>5, <1>6

(* A reported card is applied, or its contact removed.                       *)
LEMMA ApplyStep ==
  ASSUME BookIndInv, job.pc = "cards", NEW card \in job.cards, ApplyCard(card) \/ RemoveCard(card)
  PROVE  BookIndInv'
<1> USE DEF BookIndInv
<1>0. PICK c : c = card.uid
  OBVIOUS
<1>1. /\ UNCHANGED <<enabled, book, collection, server, clock, request, fails>>
      /\ job \in [pc : {"cards"}, token : 0 .. clock, cards : SUBSET Reports]
      /\ job' = [job EXCEPT !.cards = @ \ {card}]
      /\ c \in Cards /\ card.etag \in 0 .. clock /\ card \in Reports
  BY <1>0 DEF ApplyCard, RemoveCard, remote, BookTyped, Reports
<1>2. /\ job'.pc = "cards" /\ job'.token = job.token /\ job'.cards = job.cards \ {card}
      /\ job.token \in 0 .. clock /\ clock \in Nat
      /\ job' \in [pc : {"cards"}, token : 0 .. clock, cards : SUBSET Reports]
  BY <1>1, BookIs
<1>3. /\ book.sync_token <= job.token /\ book.sync_token \in Nat
      /\ card.etag # server[c].content => server[c].at > job.token
      /\ server[c].at \in Nat /\ server[c].content \in 0 .. clock
      /\ contact[c] \in [content : 0 .. clock, etag : 0 .. clock] /\ contact[c].content \in Nat
  BY <1>0, <1>1, BookIs, CardIs DEF JobFollows
<1>4. PICK n \in [content : 0 .. clock, etag : 0 .. clock] :
        /\ contact' = [contact EXCEPT ![c] = n]
        /\ \/ n = contact[c] /\ apart' = apart /\ contact[c].etag = card.etag /\ card.etag # 0
           \/ n.content = server[c].content /\ apart' = apart \ {c} /\ (n.content # 0 => n.etag # 0)
              /\ (n.content = 0 => n.etag = 0)
           \/ n = NoRow /\ apart' = apart /\ card.etag = 0 /\ OnServer(c)
  <2>1. CASE ApplyCard(card) /\ contact[c].etag = card.etag
    BY <1>0, <1>3, <2>1 DEF ApplyCard, Fetched
  <2>2. CASE ApplyCard(card) /\ contact[c].etag # card.etag
    <3>1. /\ contact' = [contact EXCEPT ![c] = [content |-> server[c].content, etag |-> card.etag]]
          /\ apart' = apart \ {c} /\ card.etag # 0 /\ server[c].content # 0
      BY <1>0, <2>2 DEF ApplyCard, Fetched, OnServer
    <3>2. PICK m : m = [content |-> server[c].content, etag |-> card.etag]
      OBVIOUS
    <3>3. /\ m \in [content : 0 .. clock, etag : 0 .. clock]
          /\ m.content = server[c].content /\ m.etag = card.etag
      BY <1>1, <1>3, <3>2
    <3> QED BY <3>1, <3>2, <3>3
  <2>3. CASE RemoveCard(card)
    <3>1. /\ contact' = [contact EXCEPT ![c] = NoRow] /\ card.etag = 0
          /\ apart' = IF OnServer(c) THEN apart ELSE apart \ {c}
      BY <1>0, <2>3 DEF RemoveCard
    <3>2. NoRow \in [content : 0 .. clock, etag : 0 .. clock] /\ NoRow.content = 0 /\ NoRow.etag = 0
      BY <1>2 DEF NoRow
    <3> QED BY <3>1, <3>2 DEF OnServer
  <2> QED BY <2>1, <2>2, <2>3
<1>5. contact'[c] = n /\ \A d \in Cards : d # c => contact'[d] = contact[d]
  BY <1>1, <1>4 DEF BookTyped
<1>6. apart' \subseteq Cards /\ apart \ {c} \subseteq apart'
  BY <1>4 DEF BookTyped
<1>7. NoRow.content = 0 /\ NoRow.etag = 0
  BY DEF NoRow
<1>8. BookTyped'
  <2>1. contact' \in [Cards -> [content : 0 .. clock, etag : 0 .. clock]]
    BY <1>4 DEF BookTyped
  <2>2. \A k \in job'.cards : k.etag <= job'.token
    BY <1>2 DEF BookTyped
  <2>3. book' \in BookRows /\ fails' \in 0 .. MaxFails
    BY <1>1, BookIs DEF BookTyped
  <2> QED BY <1>1, <1>2, <1>6, <2>1, <2>2, <2>3, JobTypes
<1>9. ModesOK'
  BY <1>1, <1>2 DEF ModesOK, OnServer
<1>10. n.content # server[c].content /\ c \notin apart' =>
         /\ server[c].at > job.token
         /\ contact[c].content # server[c].content \/ server[c].at > book.sync_token
  <2>1. CASE n = contact[c] /\ apart' = apart /\ contact[c].etag = card.etag /\ card.etag # 0
    BY <1>1, <1>3, <2>1 DEF CardsPushed, EtagTruth, Has
  <2>2. CASE n = NoRow /\ apart' = apart /\ card.etag = 0 /\ OnServer(c)
    BY <1>2, <1>3, <2>2 DEF OnServer
  <2> QED BY <1>4, <2>1, <2>2
<1>11. CardsPushed'
  <2> SUFFICES ASSUME NEW d \in Cards
               PROVE  /\ contact'[d].content = 0 => contact'[d].etag = 0
                      /\ server'[d].content # 0 => server'[d].at > 0
                      /\ d \notin apart' /\ contact'[d].content # 0 =>
                           contact'[d].etag # 0 /\ server'[d].at > 0
    BY DEF CardsPushed, Has, OnServer
  <2>1. CASE d = c
    BY <1>1, <1>4, <1>5, <1>7, <2>1 DEF CardsPushed, Has, OnServer
  <2>2. CASE d # c
    BY <1>1, <1>5, <1>6, <2>2 DEF CardsPushed, Has, OnServer
  <2> QED BY <2>1, <2>2
<1>12. EtagTruth'
  <2> SUFFICES ASSUME NEW d \in Cards \ apart', contact'[d].content # 0,
                      contact'[d].etag = server[d].content
               PROVE  contact'[d].content = server[d].content
    BY <1>1 DEF EtagTruth, Has
  <2>1. CASE d = c
    BY <1>4, <1>5, <1>7, <2>1 DEF EtagTruth, Has
  <2>2. CASE d # c
    BY <1>5, <1>6, <2>2 DEF EtagTruth, Has
  <2> QED BY <2>1, <2>2
<1>13. SyncedAfter(book.sync_token)'
  <2> SUFFICES ASSUME NEW d \in Cards \ apart', contact'[d].content # server[d].content
               PROVE  server[d].at > book.sync_token
    BY <1>1 DEF SyncedAfter
  <2>1. CASE d = c
    BY <1>2, <1>3, <1>5, <1>10, <2>1
  <2>2. CASE d # c
    BY <1>5, <1>6, <2>2 DEF SyncedAfter
  <2> QED BY <2>1, <2>2
<1>14. JobFollows'
  <2>1. \A d \in Cards \ apart' : contact'[d].content # server[d].content =>
          server[d].at > job.token \/ \E k \in job'.cards : k.uid = d
    <3> SUFFICES ASSUME NEW d \in Cards \ apart', contact'[d].content # server[d].content
                 PROVE  server[d].at > job.token \/ \E k \in job'.cards : k.uid = d
      OBVIOUS
    <3>1. CASE d = c
      BY <1>5, <1>10, <3>1
    <3>2. CASE d # c
      BY <1>0, <1>2, <1>5, <1>6, <3>2 DEF JobFollows
    <3> QED BY <3>1, <3>2
  <2> QED BY <1>1, <1>2, <2>1 DEF JobFollows
<1> QED BY <1>8, <1>9, <1>11, <1>12, <1>13, <1>14

(* The token asked for before the report is saved.                           *)
LEMMA EndJobStep == ASSUME BookIndInv, EndJob PROVE BookIndInv'
<1> USE DEF BookIndInv
<1>1. /\ UNCHANGED <<enabled, contact, collection, server, clock, request, fails, apart>>
      /\ job.pc = "cards" /\ job.cards = {} /\ job' = NoJob /\ job'.pc = "idle"
      /\ book' = [last_sync |-> TRUE, sync_token |-> job.token, syncing |-> FALSE]
      /\ job.token \in 0 .. clock
  BY IdlePc DEF EndJob, TokenToSave, remote, BookTyped
<1>2. book' \in BookRows /\ book'.last_sync = TRUE /\ book'.sync_token = job.token
  BY <1>1 DEF BookRows
<1>3. BookTyped'
  <2>1. /\ fails' \in 0 .. MaxFails /\ apart' \subseteq Cards
        /\ contact' \in [Cards -> [content : 0 .. clock, etag : 0 .. clock]]
    BY <1>1 DEF BookTyped
  <2> QED BY <1>1, <1>2, <2>1, JobTypes
<1>4. ModesOK'
  BY <1>1, <1>2 DEF ModesOK, OnServer
<1>5. CardsPushed' /\ EtagTruth'
  BY <1>1 DEF CardsPushed, EtagTruth, Has, OnServer
<1>6. SyncedAfter(book.sync_token)' /\ JobFollows'
  BY <1>1, <1>2 DEF SyncedAfter, JobFollows
<1> QED BY <1>3, <1>4, <1>5, <1>6

-----------------------------------------------------------------------------
(* The invariant holds when nothing is synchronised.                         *)
LEMMA BookInitially == ASSUME ABInit PROVE BookIndInv
<1> USE AddressBookAssumption, IdlePc DEF ABInit, NoRow
<1>1. BookTyped
  <2>1. clock \in 0 .. MaxClock /\ fails \in 0 .. MaxFails /\ 0 .. clock = {0}
       /\ apart \subseteq Cards
    OBVIOUS
  <2>2. /\ contact \in [Cards -> [content : {0}, etag : {0}]]
        /\ server \in [Cards -> [content : {0}, at : {0}]]
    OBVIOUS
  <2>3. /\ book \in [last_sync : BOOLEAN, sync_token : {0}, syncing : BOOLEAN]
        /\ enabled \in BOOLEAN /\ collection \in BOOLEAN /\ job.pc = "idle"
    OBVIOUS
  <2> QED BY <2>1, <2>2, <2>3 DEF BookTyped, BookRows
<1>2. ModesOK /\ CardsPushed /\ EtagTruth
  BY DEF ModesOK, CardsPushed, EtagTruth, Has, OnServer
<1>3. SyncedAfter(book.sync_token) /\ JobFollows
  BY DEF SyncedAfter, JobFollows
<1> QED BY <1>1, <1>2, <1>3 DEF BookIndInv

(* Every step keeps it.                                                      *)
LEMMA BookStep == ASSUME BookIndInv, [ABNext]_abVars PROVE BookIndInv'
<1>1. ASSUME NEW c \in Cards, CardStep(c) PROVE BookIndInv'
  BY <1>1, WriteContactStep, DeleteContactStep, OthersStep DEF CardStep
<1>2. CASE SyncStep
  BY <1>2, JobBegins, ReportStep, EndJobStep, ApplyStep DEF SyncStep
<1>3. CASE Commits
  BY <1>3, CommitStep, RequestFailsStep DEF Commits
<1>4. CASE UNCHANGED abVars
  <2>1. UNCHANGED <<enabled, book, contact, collection, server, clock, request, job, fails, apart>>
    BY <1>4 DEF abVars, remote
  <2>2. BookTyped' /\ ModesOK' /\ CardsPushed' /\ EtagTruth'
    BY <2>1 DEF BookIndInv, BookTyped, BookRows, Reports, ModesOK, CardsPushed, EtagTruth, Has,
         OnServer
  <2>3. SyncedAfter(book.sync_token)' /\ JobFollows'
    BY <2>1 DEF BookIndInv, SyncedAfter, JobFollows
  <2> QED BY <2>2, <2>3 DEF BookIndInv
<1> QED BY <1>1, <1>2, <1>3, <1>4, EnableStep, DisableStep, PushStep, PushFailsStep, JobBegins
        DEF ABNext

(* What lets the job trust etags and tokens: they tell the truth, whatever   *)
(* requests, other clients and failures do meanwhile (contacts/tasks.py,     *)
(* contacts/lib/carddav.py).                                                 *)
THEOREM EtagsTellTheTruth == ABInit /\ [][ABNext]_abVars => []BookInv
<1>1. BookIndInv => BookInv
  <2> SUFFICES ASSUME BookIndInv PROVE BookInv
    OBVIOUS
  <2> USE DEF BookIndInv
  <2>1. request.pc \in {"none", "create", "update"}
    BY IdlePc DEF BookTyped
  <2>2. ABTypeOK
    BY <2>1, BookIs DEF BookTyped, ModesOK, ABTypeOK
  <2>3. NothingMissed
    BY DEF SyncedAfter, NothingMissed
  <2> QED BY <2>2, <2>3 DEF BookInv
<1> QED BY <1>1, BookInitially, BookStep, PTL

(* A request that the server accepts writes over nothing that the user has   *)
(* not got (If-Match, contacts/lib/carddav.py).                              *)
THEOREM NothingUnseenIsLost == ABInit /\ [][ABNext]_abVars => NothingUnseenOverwritten
<1> DEFINE Seen == \A c \in Cards \ apart :
      \/ request' # request /\ request'.pc = "update" /\ request'.card = c
      \/ Has(c) /\ OnServer(c) /\ contact'[c] = NoRow /\ server'[c].content = 0
      => contact[c].content = server[c].content
<1>1. ASSUME BookIndInv, [ABNext]_abVars PROVE [Seen]_abVars
  <2> SUFFICES ASSUME ABNext, NEW c \in Cards \ apart,
                 \/ request' # request /\ request'.pc = "update" /\ request'.card = c
                 \/ Has(c) /\ OnServer(c) /\ contact'[c] = NoRow /\ server'[c].content = 0
               PROVE  contact[c].content = server[c].content
    BY <1>1
  <2>1. NoRow.content = 0
    BY DEF NoRow
  <2>2. ASSUME UpdateContact(c) \/ DeleteContact(c), Match(c), Has(c)
        PROVE  contact[c].content = server[c].content
    BY <1>1, <2>2 DEF BookIndInv, CardsPushed, EtagTruth, Match
  <2>3. CASE request' # request /\ request'.pc = "update" /\ request'.card = c
    <3>1. request' # NoRequest
      BY <2>3, IdlePc
    <3>2. PICK d \in Cards : CreateContact(d) \/ UpdateContact(d)
      BY <2>3, <3>1 DEF ABNext, CardStep, SyncStep, Commits, Enable, Disable, PushBook,
           PushBookFails,
         DeleteContact, OtherPuts, OtherDeletes, StartJob, LoadBook, sync_vcards, EndJob, JobFails,
         ApplyCard, RemoveCard, CreateCommits, UpdateCommits, RequestFails
    <3>3. UpdateContact(d) /\ d = c /\ Match(d) /\ Has(d)
      BY <2>3, <3>2 DEF CreateContact, UpdateContact
    <3> QED BY <2>2, <3>3
  <2>4. CASE Has(c) /\ OnServer(c) /\ contact'[c] = NoRow /\ server'[c].content = 0
    <3>1. contact' # contact /\ server' # server
      BY <2>1, <2>4 DEF Has, OnServer
    <3>2. (\E d \in Cards : DeleteContact(d)) \/ PushBook
      BY <3>1 DEF ABNext, CardStep, SyncStep, Commits, Enable, Disable, PushBookFails,
         CreateContact, UpdateContact, OtherPuts, OtherDeletes, StartJob, LoadBook, sync_vcards,
         EndJob, JobFails, ApplyCard, RemoveCard, CreateCommits, UpdateCommits, RequestFails, remote
    <3>3. CASE PushBook
      BY <2>4, <3>3 DEF PushBook
    <3>4. ASSUME NEW d \in Cards, DeleteContact(d) PROVE contact[c].content = server[c].content
      <4>1. contact \in [Cards -> [content : 0 .. clock, etag : 0 .. clock]]
        BY <1>1 DEF BookIndInv, BookTyped
      <4>2. d = c
        BY <2>1, <2>4, <3>4, <4>1 DEF DeleteContact, Has
      <4>3. Match(c)
        BY <3>1, <3>4, <4>2 DEF DeleteContact
      <4> QED BY <2>2, <2>4, <3>4, <4>2, <4>3
    <3> QED BY <3>2, <3>3, <3>4
  <2> QED BY <2>3, <2>4
<1> QED BY <1>1, BookInitially, BookStep, PTL DEF NothingUnseenOverwritten

-----------------------------------------------------------------------------
(* DNS checks (DnsChecks).  The rows of a domain are made at once and expire *)
(* at once, so a check that goes on has loaded all of them.                  *)

MXRow == [life : 0 .. Ttl, managed : BOOLEAN]

CheckOK ==
  /\ check \in [at : {"idle", "mx", "valid", "txt", "dnsbl"}, loaded : {"on", Absent},
                mx : SUBSET Mxs, left : SUBSET Providers]
  /\ check.at # "idle" => check.loaded = "on"

OneAge == \A m, n \in MXRows : mxrow[m].life = mxrow[n].life
RowsOfDomain == domain = Absent => MXRows = {}
AllLoaded == check.at \in {"valid", "txt", "dnsbl"} /\ domain # Absent => MXRows = check.mx

(* The providers that were asked have a result for every exchanger.          *)
AskedComplete ==
  check.at = "dnsbl" =>
    \A m \in MXRows, p \in Providers \ check.left : listed[<<m, p>>] # Absent

DnsIndInv == DnsInv /\ CheckOK /\ OneAge /\ RowsOfDomain /\ AllLoaded /\ AskedComplete

(* A row is a row.                                                           *)
LEMMA RowIs ==
  ASSUME DCTypeOK, NEW m \in MXRows
  PROVE  /\ m \in Mxs /\ mxrow[m] # Absent /\ mxrow[m] \in MXRow
         /\ mxrow[m].life \in 0 .. Ttl /\ mxrow[m].life \in Nat
BY DCAssumption DEF DCTypeOK, MXRows, MXRow

(* The job that does nothing.                                                *)
LEMMA QuietIs ==
  /\ Quiet.at = "idle" /\ Quiet \in [at : {"idle"}, loaded : {Absent}, mx : {{}}, left : {{}}]
BY DEF Quiet

(* Whoever changes neither rows nor results, nor the domain, keeps them.     *)
LEMMA RowsStay ==
  ASSUME DnsIndInv, UNCHANGED <<mxrow, listed, check, failed, domain>>
  PROVE  OneAge' /\ RowsOfDomain' /\ AllLoaded' /\ AskedComplete' /\ ResultsComplete' /\ CheckOK'
<1>1. MXRows' = MXRows
  BY DEF MXRows
<1> QED BY <1>1 DEF DnsIndInv, DnsInv, OneAge, RowsOfDomain, AllLoaded, AskedComplete,
                    ResultsComplete, CheckOK

(* The job starts.                                                           *)
LEMMA StartCheckStep == ASSUME DnsIndInv, StartCheck PROVE DnsIndInv'
<1> USE DEF DnsIndInv, DnsInv, StartCheck, dcRows, alarmVars, dcHistory
<1>1. check' \in [at : {"mx"}, loaded : {"on"}, mx : {{}}, left : {{}}]
  BY DEF Quiet
<1>2. MXRows' = MXRows /\ check'.at = "mx"
  BY <1>1 DEF MXRows
<1>3. DCTypeOK' /\ AlarmsTrue'
  BY DEF DCTypeOK, Answers, AlarmsTrue
<1>4. CheckOK'
  BY <1>1 DEF CheckOK
<1>5. OneAge' /\ RowsOfDomain' /\ AllLoaded' /\ AskedComplete' /\ ResultsComplete'
  BY <1>2 DEF OneAge, RowsOfDomain, AllLoaded, AskedComplete, ResultsComplete
<1> QED BY <1>3, <1>4, <1>5

(* It uses the rows that are valid: all of them, or makes all of them again. *)
LEMMA GetMXStep == ASSUME DnsIndInv, GetMX PROVE DnsIndInv'
<1> USE DEF DnsIndInv, DnsInv
<1>1. /\ check.at = "mx" /\ domain # Absent
      /\ UNCHANGED <<answer, allowed, domain, record, open, closed, warned, due, touched, revived,
                     failed, seen, touches>>
  BY DEF GetMX, alarmVars, dcHistory, dcRows
<1>2. AlarmsTrue'
  BY <1>1 DEF AlarmsTrue
<1>3. CASE FreshRows # {} /\ check' = [check EXCEPT !.at = "valid", !.mx = FreshRows]
     /\ UNCHANGED dcRows
  <2>1. FreshRows = MXRows /\ FreshRows \subseteq Mxs
    BY <1>3 DEF FreshRows, OneAge, MXRows
  <2>2. MXRows' = MXRows /\ UNCHANGED <<mxrow, listed>>
    BY <1>3 DEF MXRows, dcRows
  <2>3. CheckOK' /\ check'.at = "valid" /\ check'.mx = MXRows
    BY <1>1, <1>3, <2>1 DEF CheckOK
  <2>4. DCTypeOK'
    BY <1>1, <2>2 DEF DCTypeOK, Answers
  <2>5. OneAge' /\ RowsOfDomain' /\ AllLoaded' /\ AskedComplete' /\ ResultsComplete'
    BY <1>1, <2>2, <2>3 DEF OneAge, RowsOfDomain, AllLoaded, AskedComplete, ResultsComplete
  <2> QED BY <1>2, <2>3, <2>4, <2>5
<1>4. CASE /\ mxrow' = [m \in Mxs |-> IF m \in answer.mx
                                        THEN [life |-> Ttl, managed |-> FALSE] ELSE Absent]
           /\ listed' = [x \in Mxs \X Providers |-> Absent]
           /\ check' = [check EXCEPT !.at = "valid", !.mx = answer.mx]
  <2>1. PICK row : row = [life |-> Ttl, managed |-> FALSE]
    OBVIOUS
  <2>2. row \in MXRow /\ row # Absent /\ row.life = Ttl /\ answer.mx \subseteq Mxs
    <3>1. Ttl \in 0 .. Ttl
      BY DCAssumption
    <3>2. row \in [life : 0 .. Ttl, managed : BOOLEAN] /\ row.life = Ttl
      BY <2>1, <3>1
    <3>3. row # Absent
      BY <3>2, DCAssumption
    <3>4. answer.mx \subseteq Mxs
      BY DEF DCTypeOK, Answers
    <3> QED BY <3>2, <3>3, <3>4 DEF MXRow
  <2>3. mxrow' = [m \in Mxs |-> IF m \in answer.mx THEN row ELSE Absent]
    BY <1>4, <2>1
  <2>4. MXRows' = answer.mx /\ \A m \in answer.mx : mxrow'[m] = row
    BY <2>2, <2>3 DEF MXRows
  <2>5. CheckOK' /\ check'.at = "valid" /\ check'.mx = answer.mx
    BY <1>1, <1>4, <2>2 DEF CheckOK
  <2>6. DCTypeOK'
    <3>1. mxrow' \in [Mxs -> {Absent} \cup [life : 0..Ttl, managed : BOOLEAN]]
      BY <2>2, <2>3 DEF MXRow
    <3>2. listed' \in [Mxs \X Providers -> {"yes", "no", Absent}]
      BY <1>4
    <3> QED BY <1>1, <3>1, <3>2 DEF DCTypeOK, Answers
  <2>7. OneAge' /\ RowsOfDomain' /\ AllLoaded' /\ AskedComplete'
    BY <1>1, <2>4, <2>5 DEF OneAge, RowsOfDomain, AllLoaded, AskedComplete
  <2>8. ResultsComplete'
    BY <1>4, <2>5 DEF ResultsComplete
  <2> QED BY <1>2, <2>5, <2>6, <2>7, <2>8
<1> QED BY <1>3, <1>4 DEF GetMX

(* Alarms are opened and closed after what the job has loaded.               *)
LEMMA CheckMXStep == ASSUME DnsIndInv, CheckValidMX PROVE DnsIndInv'
<1> USE DEF DnsIndInv, DnsInv
<1>1. /\ check.at = "valid" /\ domain # Absent /\ MXRows = check.mx /\ check.mx \subseteq Mxs
      /\ UNCHANGED <<answer, allowed, domain, listed, record, warned, due, revived, failed,
                     touches>>
      /\ mxrow' = [m \in Mxs |-> IF m \in check.mx \cap allowed
                                   THEN [mxrow[m] EXCEPT !.managed = TRUE] ELSE mxrow[m]]
      /\ check' = [check EXCEPT !.at = "txt"]
  BY DEF CheckValidMX, AllLoaded, CheckOK
<1>2. CheckOK' /\ check'.at = "txt" /\ check'.mx = check.mx
  BY <1>1 DEF CheckOK
<1>3. \A m \in check.mx : /\ mxrow'[m] \in MXRow /\ mxrow'[m] # Absent
                          /\ mxrow'[m].life = mxrow[m].life
  <2> SUFFICES ASSUME NEW m \in check.mx
               PROVE  mxrow'[m] \in MXRow /\ mxrow'[m] # Absent /\ mxrow'[m].life = mxrow[m].life
    OBVIOUS
  <2>1. mxrow[m] \in MXRow
    BY <1>1, RowIs
  <2>2. mxrow'[m] \in MXRow /\ mxrow'[m].life = mxrow[m].life
    BY <1>1, <2>1 DEF MXRow
  <2> QED BY <2>2, DCAssumption DEF MXRow
<1>4. \A m \in Mxs \ check.mx : mxrow'[m] = Absent
  BY <1>1 DEF MXRows
<1>5. MXRows' = MXRows
  BY <1>1, <1>3, <1>4 DEF MXRows
<1>6. DCTypeOK'
  <2>1. mxrow' \in [Mxs -> {Absent} \cup [life : 0..Ttl, managed : BOOLEAN]]
    BY <1>1, <1>3, <1>4 DEF MXRow
  <2>2. open' \in [MXAlarms -> Nat]
    BY DEF DCTypeOK, CheckValidMX
  <2>3. closed' \in [MXAlarms -> Nat]
    <3>1. \A a \in MXAlarms : open[a] \in Nat /\ closed[a] \in Nat /\ closed[a] + open[a] \in Nat
      BY DEF DCTypeOK
    <3> QED BY <3>1 DEF CheckValidMX
  <2>4. touched' \subseteq MXAlarms
    BY DEF DCTypeOK, CheckValidMX
  <2> QED BY <1>1, <2>1, <2>2, <2>3, <2>4 DEF DCTypeOK, Answers
<1>7. AlarmsTrue'
  <2>1. /\ seen' = [mx |-> check.mx, allowed |-> allowed]
        /\ touched' = touched \ (Problem \cup Solved)
        /\ \A a \in MXAlarms : open'[a] = IF a \in Problem THEN 1
                                          ELSE IF a \in Solved THEN 0 ELSE open[a]
    BY DEF CheckValidMX
  <2>2. seen'.mx = check.mx /\ seen'.allowed = allowed
    BY <2>1
  <2>3. open'["no_mx"] = IF check.mx = {} THEN 1 ELSE 0
    BY <2>1 DEF Problem, Solved, MXAlarms
  <2>4. \/ check.mx = {} \/ allowed = {}
        \/ open'["invalid_mx"] = IF check.mx \cap allowed = {} THEN 1 ELSE 0
    BY <2>1 DEF Problem, Solved, MXAlarms
  <2> QED BY <2>2, <2>3, <2>4 DEF AlarmsTrue
<1>8. OneAge' /\ RowsOfDomain' /\ AllLoaded' /\ AskedComplete'
  BY <1>1, <1>2, <1>3, <1>5 DEF OneAge, RowsOfDomain, AllLoaded, AskedComplete
<1>9. ResultsComplete'
  <2>1. \A m \in Mxs : mxrow'[m] # Absent <=> mxrow[m] # Absent
    BY <1>5 DEF MXRows
  <2> QED BY <1>1, <1>2, <2>1 DEF ResultsComplete
<1> QED BY <1>2, <1>6, <1>7, <1>8, <1>9

(* The records are asked for.                                                *)
LEMMA CheckRecordsStep == ASSUME DnsIndInv, CheckRecords PROVE DnsIndInv'
<1> USE DEF DnsIndInv, DnsInv
<1>1. /\ check.at = "txt" /\ domain # Absent /\ MXRows = check.mx
      /\ UNCHANGED <<answer, allowed, domain, mxrow, listed, open, closed, warned, due, touched,
                     revived, failed, seen, touches>>
      /\ check' = [check EXCEPT !.at = "dnsbl", !.left = IF check.mx = {} THEN {} ELSE Providers]
  BY DEF CheckRecords, AllLoaded, alarmVars, dcHistory
<1>2. /\ CheckOK' /\ check'.at = "dnsbl" /\ check'.mx = check.mx
      /\ check'.left = IF check.mx = {} THEN {} ELSE Providers
  BY <1>1 DEF CheckOK
<1>3. MXRows' = MXRows
  BY <1>1 DEF MXRows
<1>4. DCTypeOK'
  <2>1. record' \in [Types -> {Absent} \cup [good : BOOLEAN, life : 0..Ttl]]
    <3>1. \A t \in Types, b \in BOOLEAN :
            [good |-> b, life |-> IF b THEN Ttl ELSE 0] \in [good : BOOLEAN, life : 0..Ttl]
      BY DCAssumption
    <3>2. \A t \in Types : record[t] \in {Absent} \cup [good : BOOLEAN, life : 0..Ttl]
      BY DEF DCTypeOK
    <3>3. \A t \in Types : (answer.txt[t] = "good") \in BOOLEAN
      OBVIOUS
    <3> QED BY <3>1, <3>2, <3>3 DEF CheckRecords
  <2> QED BY <1>1, <2>1 DEF DCTypeOK, Answers
<1>5. AlarmsTrue' /\ ResultsComplete'
  BY <1>1, <1>2, <1>3 DEF AlarmsTrue, ResultsComplete
<1>6. OneAge' /\ RowsOfDomain' /\ AllLoaded' /\ AskedComplete'
  BY <1>1, <1>2, <1>3 DEF OneAge, RowsOfDomain, AllLoaded, AskedComplete
<1> QED BY <1>2, <1>4, <1>5, <1>6

(* A provider's results are stored, for all exchangers.                      *)
LEMMA StoreStep == ASSUME DnsIndInv, NEW p \in Providers, StoreResults(p) PROVE DnsIndInv'
<1> USE DEF DnsIndInv, DnsInv
<1>1. /\ check.at = "dnsbl" /\ domain # Absent /\ p \in check.left /\ MXRows = check.mx
      /\ UNCHANGED <<answer, allowed, domain, mxrow, record, open, closed, due, touched,
                     revived, failed, seen, touches>>
      /\ check' = [check EXCEPT !.left = check.left \ {p}]
  BY DEF StoreResults, AllLoaded, dcHistory
<1>2. /\ CheckOK' /\ check'.at = "dnsbl" /\ check'.mx = check.mx /\ check'.left = check.left \ {p}
  BY <1>1 DEF CheckOK
<1>3. MXRows' = MXRows /\ MXRows \subseteq Mxs
  BY <1>1 DEF MXRows
<1>4. \A x \in Mxs \X Providers :
        IF x[1] \in check.mx
             /\ x[2] = p THEN listed'[x] \in {"yes", "no"} ELSE listed'[x] = listed[x]
  BY DEF StoreResults, Stored
<1>5. listed' \in [Mxs \X Providers -> {"yes", "no", Absent}]
  <2>1. \A x \in Mxs \X Providers : listed'[x] \in {"yes", "no", Absent}
    BY <1>4 DEF DCTypeOK
  <2>2. listed' = [x \in Mxs \X Providers |-> listed'[x]]
    BY DEF StoreResults
  <2> QED BY <2>1, <2>2
<1>6. DCTypeOK'
  <2>1. warned' \subseteq Providers
    BY DEF StoreResults, DCTypeOK
  <2> QED BY <1>1, <1>5, <2>1 DEF DCTypeOK, Answers
<1>7. AlarmsTrue'
  BY <1>1 DEF AlarmsTrue
<1>8. \A m \in MXRows : listed'[<<m, p>>] # Absent
  BY <1>1, <1>3, <1>4, DCAssumption
<1>9. AskedComplete'
  <2> SUFFICES ASSUME NEW m \in MXRows, NEW q \in Providers \ check'.left
               PROVE  listed'[<<m, q>>] # Absent
    BY <1>3 DEF AskedComplete
  <2>1. CASE q = p
    BY <1>8, <2>1
  <2>2. CASE q # p
    BY <1>1, <1>2, <1>3, <1>4, <2>2 DEF AskedComplete
  <2> QED BY <2>1, <2>2
<1>10. ResultsComplete'
  <2>1. \A x \in Mxs \X Providers : listed'[x] # Absent => mxrow'[x[1]] # Absent
    BY <1>1, <1>4 DEF ResultsComplete, MXRows
  <2> QED BY <1>2, <2>1 DEF ResultsComplete
<1>11. OneAge' /\ RowsOfDomain' /\ AllLoaded'
  BY <1>1, <1>2, <1>3 DEF OneAge, RowsOfDomain, AllLoaded
<1> QED BY <1>2, <1>6, <1>7, <1>9, <1>10, <1>11

(* The job ends and saves the domain, or raises.                             *)
LEMMA CheckEnds == ASSUME DnsIndInv, Finish \/ CheckFails PROVE DnsIndInv'
<1> USE DEF DnsIndInv, DnsInv
<1>1. /\ UNCHANGED <<answer, allowed, mxrow, listed, record, open, closed, warned, due, touched,
                     seen, touches>>
      /\ check' = Quiet /\ check'.at = "idle"
      /\ \/ /\ domain' = "on" /\ ~failed' /\ check.at = "dnsbl" /\ check.left = {}
         \/ domain' = domain /\ failed'
  BY QuietIs DEF Finish, CheckFails, dcRows, alarmVars, CheckOK
<1>2. MXRows' = MXRows
  BY <1>1 DEF MXRows
<1>3. CheckOK'
  BY <1>1, QuietIs DEF CheckOK
<1>4. DCTypeOK' /\ AlarmsTrue'
  BY <1>1 DEF DCTypeOK, Answers, AlarmsTrue
<1>5. ResultsComplete'
  BY <1>1, <1>2 DEF ResultsComplete, AskedComplete
<1>6. OneAge' /\ RowsOfDomain' /\ AllLoaded' /\ AskedComplete'
  BY <1>1, <1>2, DCAssumption DEF OneAge, RowsOfDomain, AllLoaded, AskedComplete
<1> QED BY <1>3, <1>4, <1>5, <1>6

(* An hour makes all rows older.                                             *)
LEMMA HourStep == ASSUME DnsIndInv, HourPasses PROVE DnsIndInv'
<1> USE DEF DnsIndInv, DnsInv
<1>1. /\ check.at = "idle"
      /\ UNCHANGED <<answer, allowed, domain, listed, open, closed, warned, check, touched, revived,
                     failed, seen, touches>>
  BY DEF HourPasses, alarmVars, dcHistory
<1>2. \A m \in MXRows :
        /\ mxrow'[m] \in MXRow /\ mxrow'[m] # Absent
        /\ mxrow'[m].life = IF mxrow[m].life > 0 THEN mxrow[m].life - 1 ELSE mxrow[m].life
  <2> SUFFICES ASSUME NEW m \in MXRows
               PROVE  /\ mxrow'[m] \in MXRow /\ mxrow'[m] # Absent
                      /\ mxrow'[m].life = IF mxrow[m].life > 0 THEN mxrow[m].life - 1
                                          ELSE mxrow[m].life
    OBVIOUS
  <2>1. m \in Mxs /\ mxrow[m] \in MXRow /\ mxrow[m].life \in 0 .. Ttl /\ Ttl \in Nat
    BY RowIs, DCAssumption
  <2>2. mxrow'[m] = IF mxrow[m].life > 0 THEN [mxrow[m] EXCEPT !.life = @ - 1] ELSE mxrow[m]
    BY <2>1 DEF HourPasses
  <2>3. mxrow'[m] \in MXRow
    BY <2>1, <2>2 DEF MXRow
  <2>4. mxrow'[m] # Absent
    BY <2>3, DCAssumption DEF MXRow
  <2> QED BY <2>1, <2>2, <2>3, <2>4 DEF MXRow
<1>3. \A m \in Mxs \ MXRows : mxrow'[m] = Absent
  BY DEF HourPasses, MXRows
<1>4. MXRows' = MXRows
  BY <1>2, <1>3 DEF MXRows
<1>5. DCTypeOK'
  <2>1. mxrow' \in [Mxs -> {Absent} \cup [life : 0..Ttl, managed : BOOLEAN]]
    <3>1. \A m \in Mxs : mxrow'[m] \in {Absent} \cup [life : 0..Ttl, managed : BOOLEAN]
      BY <1>2, <1>3 DEF MXRow
    <3>2. mxrow' = [m \in Mxs |-> mxrow'[m]]
      BY DEF HourPasses
    <3> QED BY <3>1, <3>2
  <2>2. record' \in [Types -> {Absent} \cup [good : BOOLEAN, life : 0..Ttl]]
    <3>1. \A t \in Types : record[t] \in {Absent} \cup [good : BOOLEAN, life : 0..Ttl]
      BY DEF DCTypeOK
    <3>2. ASSUME NEW t \in Types, ~Asked(t)
          PROVE  [record[t] EXCEPT !.life = @ - 1] \in [good : BOOLEAN, life : 0..Ttl]
      <4>1. PICK r : r = record[t]
        OBVIOUS
      <4>2. r \in [good : BOOLEAN, life : 0..Ttl] /\ r.life # 0
        BY <3>1, <3>2, <4>1 DEF Asked
      <4>3. r.life - 1 \in 0 .. Ttl
        BY <4>2, DCAssumption
      <4>4. [r EXCEPT !.life = r.life - 1] \in [good : BOOLEAN, life : 0..Ttl]
        BY <4>2, <4>3
      <4> QED BY <4>1, <4>4
    <3> QED BY <3>1, <3>2 DEF HourPasses
  <2> QED BY <1>1, <2>1, <2>2 DEF DCTypeOK, Answers
<1>6. AlarmsTrue' /\ CheckOK'
  BY <1>1 DEF AlarmsTrue, CheckOK
<1>7. ResultsComplete'
  <2>1. \A m \in Mxs : mxrow[m] # Absent => mxrow'[m] # Absent
    BY <1>2 DEF MXRows
  <2> QED BY <1>1, <1>4, <2>1 DEF ResultsComplete
<1>8. OneAge' /\ RowsOfDomain' /\ AllLoaded' /\ AskedComplete'
  BY <1>1, <1>2, <1>4 DEF OneAge, RowsOfDomain, AllLoaded, AskedComplete
<1> QED BY <1>5, <1>6, <1>7, <1>8

(* Answers and parameters change.                                            *)
LEMMA AnswersStep == ASSUME DnsIndInv, AnswersChange \/ ChangeValidMXs PROVE DnsIndInv'
<1> USE DEF DnsIndInv, DnsInv
<1>1. /\ UNCHANGED <<domain, mxrow, listed, record, open, closed, warned, check, touched, revived,
                     failed, seen>>
      /\ touches' = touches + 1 /\ touches < MaxTouches
  BY DEF AnswersChange, ChangeValidMXs, Touch, dcRows, alarmVars, dcHistory
<1>2. answer' \in Answers
  <2>1. CASE \E ms \in SUBSET Mxs : answer' = [answer EXCEPT !.mx = ms]
    BY <2>1 DEF DCTypeOK, Answers
  <2>2. CASE \E x \in Mxs \X Providers :
               answer' = [answer EXCEPT !.black = IF x \in @ THEN @ \ {x} ELSE @ \cup {x}]
    <3>1. PICK x \in Mxs \X Providers :
                 answer' = [answer EXCEPT !.black = IF x \in @ THEN @ \ {x} ELSE @ \cup {x}]
      BY <2>2
    <3>2. PICK bs : bs = IF x \in answer.black THEN answer.black \ {x} ELSE answer.black \cup {x}
      OBVIOUS
    <3>3. answer \in Answers /\ answer' = [answer EXCEPT !.black = bs]
      BY <3>1, <3>2 DEF DCTypeOK
    <3>4. bs \subseteq Mxs \X Providers
      BY <3>2, <3>3 DEF Answers
    <3> QED BY <3>3, <3>4 DEF Answers
  <2>3. CASE \E t \in Types, v \in Values : answer' = [answer EXCEPT !.txt[t] = v]
    BY <2>3 DEF DCTypeOK, Answers
  <2>4. CASE answer' = answer
    BY <2>4 DEF DCTypeOK
  <2> QED BY <2>1, <2>2, <2>3, <2>4 DEF AnswersChange, ChangeValidMXs
<1>3. allowed' \in {{}} \cup Trusted /\ touches' \in 0 .. MaxTouches
  BY <1>1, DCAssumption DEF AnswersChange, ChangeValidMXs, DCTypeOK
<1>4. DCTypeOK' /\ AlarmsTrue'
  BY <1>1, <1>2, <1>3 DEF DCTypeOK, AlarmsTrue
<1> QED BY <1>1, <1>4, RowsStay

(* Administrators switch an alarm: it is theirs then.                        *)
LEMMA AlarmStep == ASSUME DnsIndInv, NEW a \in MXAlarms, SwitchAlarm(a) PROVE DnsIndInv'
<1> USE DEF DnsIndInv, DnsInv
<1>1. /\ UNCHANGED <<answer, allowed, domain, mxrow, listed, record, warned, check, revived,
                     failed, seen>>
      /\ touches' = touches + 1 /\ touches < MaxTouches /\ touched' = touched \cup {a}
  BY DEF SwitchAlarm, Touch, dcRows
<1>2. /\ open' \in [MXAlarms -> Nat] /\ closed' \in [MXAlarms -> Nat]
      /\ \A b \in MXAlarms : b # a => open'[b] = open[b]
  BY DEF SwitchAlarm, DCTypeOK
<1>3. touches' \in 0 .. MaxTouches
  BY <1>1, DCAssumption DEF DCTypeOK
<1>4. DCTypeOK'
  BY <1>1, <1>2, <1>3 DEF DCTypeOK
<1>5. AlarmsTrue'
  BY <1>1, <1>2 DEF AlarmsTrue, MXAlarms
<1> QED BY <1>1, <1>4, <1>5, RowsStay

(* They disable the checks,                                                  *)
LEMMA SwitchStep == ASSUME DnsIndInv, SwitchChecks PROVE DnsIndInv'
<1> USE DEF DnsIndInv, DnsInv
<1>1. /\ UNCHANGED <<answer, allowed, mxrow, listed, record, open, closed, warned, check, touched,
                     revived, failed, seen>>
      /\ touches' = touches + 1 /\ touches < MaxTouches /\ domain # Absent
      /\ domain' \in {"on", "off"}
  BY DEF SwitchChecks, Touch, dcRows, alarmVars, dcHistory
<1>2. MXRows' = MXRows
  BY <1>1 DEF MXRows
<1>3. touches' \in 0 .. MaxTouches
  BY <1>1, DCAssumption DEF DCTypeOK
<1>4. DCTypeOK' /\ AlarmsTrue'
  BY <1>1, <1>3 DEF DCTypeOK, AlarmsTrue
<1>5. OneAge' /\ RowsOfDomain' /\ AllLoaded' /\ AskedComplete' /\ ResultsComplete' /\ CheckOK'
  BY <1>1, <1>2, DCAssumption DEF OneAge, RowsOfDomain, AllLoaded, AskedComplete,
       ResultsComplete, CheckOK
<1> QED BY <1>4, <1>5

(* or delete the domain, with all its rows.                                  *)
LEMMA DeleteStep == ASSUME DnsIndInv, DeleteDomain PROVE DnsIndInv'
<1> USE DEF DnsIndInv, DnsInv
<1>1. /\ UNCHANGED <<answer, allowed, check, due, touched, revived, failed>>
      /\ touches' = touches + 1 /\ touches < MaxTouches /\ domain' = Absent /\ seen' = Absent
      /\ mxrow' = [m \in Mxs |-> Absent] /\ listed' = [x \in Mxs \X Providers |-> Absent]
  BY DEF DeleteDomain, Touch
<1>2. MXRows' = {}
  BY <1>1 DEF MXRows
<1>3. touches' \in 0 .. MaxTouches
  BY <1>1, DCAssumption DEF DCTypeOK
<1>4. DCTypeOK' /\ AlarmsTrue'
  BY <1>1, <1>3 DEF DCTypeOK, AlarmsTrue, DeleteDomain
<1>5. OneAge' /\ RowsOfDomain' /\ AllLoaded' /\ AskedComplete' /\ ResultsComplete' /\ CheckOK'
  BY <1>1, <1>2 DEF OneAge, RowsOfDomain, AllLoaded, AskedComplete, ResultsComplete, CheckOK
<1> QED BY <1>4, <1>5

(* A domain that was never checked.                                          *)
LEMMA DnsInitially == ASSUME DCInit PROVE DnsIndInv
<1> USE DCAssumption DEF DCInit
<1>1. MXRows = {} /\ check.at = "idle"
  BY QuietIs DEF MXRows
<1>2. CheckOK
  BY QuietIs DEF CheckOK
<1>3. DCTypeOK
  BY DEF DCTypeOK, Answers, Values
<1>4. AlarmsTrue /\ ResultsComplete /\ OneAge /\ RowsOfDomain /\ AllLoaded /\ AskedComplete
  BY <1>1 DEF AlarmsTrue, ResultsComplete, OneAge, RowsOfDomain, AllLoaded, AskedComplete
<1> QED BY <1>2, <1>3, <1>4 DEF DnsIndInv, DnsInv

(* Every step keeps the invariant.                                           *)
LEMMA DnsStep == ASSUME DnsIndInv, [DCNext]_dcVars PROVE DnsIndInv'
<1>1. CASE DCJobStep
  BY <1>1, StartCheckStep, GetMXStep, CheckMXStep, CheckRecordsStep, StoreStep, CheckEnds
     DEF DCJobStep
<1>2. CASE UNCHANGED dcVars
  <2>1. DCTypeOK' /\ AlarmsTrue' /\ UNCHANGED <<mxrow, listed, check, failed, domain>>
    BY <1>2 DEF dcVars, DnsIndInv, DnsInv, DCTypeOK, AlarmsTrue
  <2> QED BY <2>1, RowsStay DEF DnsIndInv, DnsInv
<1> QED BY <1>1, <1>2, HourStep, AnswersStep, AlarmStep, SwitchStep, DeleteStep DEF DCNext

(* What administrators are told is what the last check found, and a domain   *)
(* is not shown as sound because nobody was asked (admin/dns_checker.py).    *)
THEOREM AlarmsTellTheTruth == DCInit /\ [][DCNext]_dcVars => []DnsInv
<1>1. DnsIndInv => DnsInv
  BY DEF DnsIndInv
<1> QED BY <1>1, DnsInitially, DnsStep, PTL

-----------------------------------------------------------------------------
(* The list of messages (MessageList).  An identifier is never given again: *)
(* a row that somebody has read names the message it named, or none.        *)

NamesOne(f, x) == x.uid \in 1 .. lastUid[f] /\ \A y \in content[f] : y.uid = x.uid => y = x

(* The server's folders: a message is in one place of one folder.            *)
FoldersOK ==
  /\ lastUid \in [Places -> Nat] /\ content = [f \in Places |-> content[f]]
  /\ \A f \in Places : content[f] \subseteq [uid : 1 .. lastUid[f], msg : Letters]
  /\ \A f \in Places : \A x \in content[f] : NamesOne(f, x)
  /\ \A f, g \in Places : \A x \in content[f], y \in content[g] : x.msg = y.msg => f = g /\ x = y

(* What the browser holds.                                                   *)
PageOK ==
  /\ folder \in Places /\ page \in Nat \ {0} /\ steps \in 0 .. MaxSteps
  /\ asked \subseteq [folder : Places, page : Nat \ {0}]

ListOK(a) ==
  /\ a.folder \in Places /\ a.others \subseteq Nat \ {0}
  /\ a.rows \subseteq [uid : Nat, msg : Letters] /\ \A x \in a.rows : NamesOne(a.folder, x)

ListsOK == (\A a \in answers : ListOK(a)) /\ (shown # Nothing => ListOK(shown))

(* A selection that was not carried over names what was ticked.              *)
Ticked(f, uids, ms) == \A u \in uids : \E x \in ms : x.uid = u /\ NamesOne(f, x)

SelectionOK ==
  /\ carried \in BOOLEAN /\ selection \subseteq Nat /\ meant \subseteq [uid : Nat, msg : Letters]
  /\ ~carried => Ticked(folder, selection, meant)

MoveOK ==
  posted # Nothing =>
    /\ posted \in [from : Places, to : Places, uids : SUBSET Nat,
                   meant : SUBSET [uid : Nat, msg : Letters],
                   mixed : BOOLEAN, dropped : BOOLEAN, done : BOOLEAN]
    /\ ~posted.mixed => Ticked(posted.from, posted.uids, posted.meant)

ListIndInv == FoldersOK /\ PageOK /\ ListsOK /\ SelectionOK /\ MoveOK /\ OnlyTicked

(* It implies the invariant that TLC checks.                                 *)
LEMMA ListIndImplies == ListIndInv => MessageListInv
BY DEF ListIndInv, FoldersOK, PageOK, SelectionOK, MessageListInv, MListTypeOK

(* A step that leaves the server alone leaves what rows name alone.          *)
LEMMA SameServer == ASSUME FoldersOK, UNCHANGED serverVars
                    PROVE  FoldersOK' /\ \A f, x : NamesOne(f, x) => NamesOne(f, x)'
BY DEF FoldersOK, NamesOne, serverVars

(* Neither does a step that gives new identifiers only.                      *)
LEMMA RowsStayNamed ==
  ASSUME FoldersOK, FoldersOK',
         \A f \in Places : /\ lastUid[f] <= lastUid'[f]
                           /\ \A y \in content'[f] : y \in content[f] \/ y.uid > lastUid[f]
  PROVE  \A f \in Places : \A x : NamesOne(f, x) => NamesOne(f, x)'
<1> SUFFICES ASSUME NEW f \in Places, NEW x, NamesOne(f, x) PROVE NamesOne(f, x)'
  OBVIOUS
<1>1. lastUid[f] \in Nat /\ lastUid'[f] \in Nat /\ x.uid \in 1 .. lastUid[f]
  BY DEF FoldersOK, NamesOne
<1>2. x.uid \in 1 .. lastUid'[f]
  BY <1>1
<1>3. ASSUME NEW y \in content'[f], y.uid = x.uid PROVE y = x
  <2>1. ~(y.uid > lastUid[f])
    BY <1>1, <1>3
  <2> QED BY <1>3, <2>1 DEF NamesOne
<1> QED BY <1>2, <1>3 DEF NamesOne

(* Lists that were read, the selection and the move stay what they are.      *)
LEMMA HeldStays ==
  ASSUME ListIndInv, FoldersOK',
         \A f \in Places : \A x : NamesOne(f, x) => NamesOne(f, x)',
         UNCHANGED <<folder, page, shown, asked, answers, selectionVars>>, steps' \in 0 .. MaxSteps
  PROVE  PageOK' /\ ListsOK' /\ SelectionOK'
<1>1. PageOK'
  BY DEF ListIndInv, PageOK
<1>2. ListsOK'
  BY DEF ListIndInv, ListsOK, ListOK
<1>3. SelectionOK'
  BY DEF ListIndInv, PageOK, SelectionOK, Ticked, selectionVars
<1> QED BY <1>1, <1>2, <1>3

(* So do the move and what was moved.                                        *)
LEMMA MoveStays ==
  ASSUME ListIndInv, \A f \in Places : \A x : NamesOne(f, x) => NamesOne(f, x)',
         UNCHANGED <<posted, strays>>
  PROVE  MoveOK' /\ OnlyTicked'
BY DEF ListIndInv, MoveOK, Ticked, OnlyTicked

(* A step of the browser alone.                                              *)
LEMMA BrowserStep ==
  ASSUME ListIndInv, UNCHANGED <<serverVars, posted, strays>>
  PROVE  /\ FoldersOK' /\ MoveOK' /\ OnlyTicked'
         /\ \A f, x : NamesOne(f, x) => NamesOne(f, x)'
<1>1. FoldersOK' /\ \A f, x : NamesOne(f, x) => NamesOne(f, x)'
  BY SameServer DEF ListIndInv
<1> QED BY <1>1, MoveStays

(* A counted step stays within its bound.                                    *)
LEMMA CountedStep == ASSUME PageOK, Counted PROVE steps' \in 0 .. MaxSteps
BY MLAssumption DEF PageOK, Counted

-----------------------------------------------------------------------------
(* The server's steps *)

(* A message is in few places, so what a folder has can be counted.          *)
LEMMA FoldersFinite == ASSUME FoldersOK, NEW f \in Places
                       PROVE  IsFiniteSet(content[f])
<1> DEFINE message == [x \in content[f] |-> x.msg]
<1>1. message \in [content[f] -> Letters]
  BY DEF FoldersOK
<1>2. \A x, y \in content[f] : message[x] = message[y] => x = y
  BY DEF FoldersOK
<1> HIDE DEF message
<1>3. message \in Injection(content[f], Letters)
  BY <1>1, <1>2, Fun_IsInj
<1> QED BY <1>3, FS_Injection, MLAssumption

(* A list is read: it has rows of the folder.                                *)
LEMMA ListingOK == ASSUME FoldersOK, NEW r \in [folder : Places, page : Nat \ {0}]
                   PROVE  ListOK(Listing(r))
<1>1. PICK a : a = Listing(r)
  OBVIOUS
<1>2. a.folder = r.folder /\ a.rows \subseteq content[r.folder] /\ a.others \subseteq Nat \ {0}
  BY <1>1 DEF Listing, PageRows
<1>3. a.rows \subseteq [uid : Nat, msg : Letters] /\ \A x \in a.rows : NamesOne(a.folder, x)
  BY <1>2 DEF FoldersOK
<1> QED BY <1>1, <1>2, <1>3 DEF ListOK

(* The server reads a list for the browser.                                  *)
LEMMA ReadStep == ASSUME ListIndInv, NEW r \in asked, ReadList(r) PROVE ListIndInv'
<1>1. PICK a : a = Listing(r)
  OBVIOUS
<1>2. /\ asked' = asked \ {r} /\ answers' = answers \cup {a}
      /\ UNCHANGED <<serverVars, folder, page, shown, selectionVars, posted, strays, steps>>
  BY <1>1 DEF ReadList
<1>3. /\ FoldersOK' /\ MoveOK' /\ OnlyTicked'
      /\ \A f, x : NamesOne(f, x) => NamesOne(f, x)'
  BY <1>2, BrowserStep
<1>4. ListOK(a)
  BY <1>1, ListingOK DEF ListIndInv, PageOK
<1>5. ListsOK'
  BY <1>2, <1>3, <1>4 DEF ListIndInv, ListsOK, ListOK
<1>6. PageOK'
  BY <1>2 DEF ListIndInv, PageOK
<1>7. SelectionOK'
  BY <1>2, <1>3 DEF ListIndInv, SelectionOK, Ticked, selectionVars
<1> QED BY <1>3, <1>5, <1>6, <1>7 DEF ListIndInv

(* A new message gets the next identifier.                                   *)
LEMMA NewLetterStep == ASSUME ListIndInv, NEW m \in Letters, NewLetter(m) PROVE ListIndInv'
<1>1. PICK x : x = [uid |-> lastUid[Start] + 1, msg |-> m]
  OBVIOUS
<1>2. x.uid = lastUid[Start] + 1 /\ x.msg = m
  BY <1>1
<1>3. /\ \A f \in Places : \A y \in content[f] : y.msg # m
      /\ lastUid' = [lastUid EXCEPT ![Start] = @ + 1]
      /\ content' = [content EXCEPT ![Start] = @ \cup {x}]
      /\ Counted /\ UNCHANGED <<folder, page, shown, asked, answers, selectionVars, posted, strays>>
  BY <1>1 DEF NewLetter
<1>4. lastUid \in [Places -> Nat] /\ Start \in Places /\ content = [f \in Places |-> content[f]]
  BY MLAssumption DEF ListIndInv, FoldersOK
<1>5. \A f \in Places :
        /\ lastUid'[f] = IF f = Start THEN lastUid[f] + 1 ELSE lastUid[f]
        /\ content'[f] = IF f = Start THEN content[f] \cup {x} ELSE content[f]
  BY <1>3, <1>4
<1>0. \A f \in Places : /\ lastUid[f] \in Nat /\ lastUid'[f] \in Nat
                        /\ lastUid[f] <= lastUid'[f]
                        /\ f = Start => lastUid'[f] = x.uid /\ x.uid > lastUid[f] /\ x.uid \in Nat
  <2> SUFFICES ASSUME NEW f \in Places
               PROVE  /\ lastUid[f] \in Nat /\ lastUid'[f] \in Nat
                      /\ lastUid[f] <= lastUid'[f]
                      /\ f = Start => lastUid'[f] = x.uid /\ x.uid > lastUid[f] /\ x.uid \in Nat
    OBVIOUS
  <2>1. lastUid[f] \in Nat
    BY <1>4
  <2>2. lastUid'[f] = IF f = Start THEN lastUid[f] + 1 ELSE lastUid[f]
    BY <1>5
  <2>3. f = Start => x.uid = lastUid[f] + 1
    BY <1>2
  <2> QED BY <2>1, <2>2, <2>3
<1>6. FoldersOK'
  <2>1. lastUid' \in [Places -> Nat] /\ content' = [f \in Places |-> content'[f]]
    <3>1. lastUid' = [f \in Places |-> lastUid'[f]]
      BY <1>3, <1>4
    <3>2. content' = [f \in Places |-> content'[f]]
      BY <1>3, <1>4
    <3> QED BY <1>0, <3>1, <3>2
  <2>2. \A f \in Places : content'[f] \subseteq [uid : 1 .. lastUid'[f], msg : Letters]
    <3> SUFFICES ASSUME NEW f \in Places, NEW y \in content'[f]
                 PROVE  y \in [uid : 1 .. lastUid'[f], msg : Letters]
      OBVIOUS
    <3>1. CASE y \in content[f]
      <4>1. y \in [uid : 1 .. lastUid[f], msg : Letters]
        BY <3>1 DEF ListIndInv, FoldersOK
      <4>2. lastUid[f] \in Nat /\ lastUid'[f] \in Nat /\ lastUid[f] <= lastUid'[f]
        BY <1>0
      <4>3. y.uid \in 1 .. lastUid'[f]
        BY <4>1, <4>2
      <4> QED BY <4>1, <4>3
    <3>2. CASE f = Start /\ y = x
      <4>1. lastUid'[f] \in Nat /\ x.uid \in Nat /\ x.uid = lastUid'[f] /\ x.uid > lastUid[f]
        BY <1>0, <3>2
      <4>2. lastUid[f] \in Nat
        BY <1>0
      <4>3. x.uid \in 1 .. lastUid'[f]
        BY <4>1, <4>2
      <4> QED BY <1>1, <3>2, <4>3
    <3> QED BY <1>5, <3>1, <3>2
  <2>3. \A f \in Places : \A y \in content[f] : y.uid \in Nat /\ y.uid <= lastUid[f]
    BY <1>4 DEF ListIndInv, FoldersOK
  <2>4. \A f \in Places : \A y \in content'[f] : NamesOne(f, y)'
    <3> SUFFICES ASSUME NEW f \in Places, NEW y \in content'[f],
                        NEW z \in content'[f], z.uid = y.uid
                 PROVE  z = y
      BY <2>2 DEF NamesOne
    <3>1. CASE y \in content[f] /\ z \in content[f]
      BY <3>1 DEF ListIndInv, FoldersOK, NamesOne
    <3>2. f = Start => \A w \in content[f] : w.uid # x.uid
      <4>1. f = Start => x.uid > lastUid[f] /\ x.uid \in Nat /\ lastUid[f] \in Nat
        BY <1>0
      <4> QED BY <2>3, <4>1
    <3>3. \A w \in content'[f] : w \in content[f] \/ (f = Start /\ w = x)
      BY <1>5
    <3> QED BY <3>1, <3>2, <3>3
  <2>5. \A f, g \in Places : \A y \in content'[f], z \in content'[g] :
          y.msg = z.msg => f = g /\ y = z
    <3> SUFFICES ASSUME NEW f \in Places, NEW g \in Places, NEW y \in content'[f],
                        NEW z \in content'[g], y.msg = z.msg
                 PROVE  f = g /\ y = z
      OBVIOUS
    <3>1. CASE y \in content[f] /\ z \in content[g]
      BY <3>1 DEF ListIndInv, FoldersOK
    <3>2. CASE y \notin content[f]
      BY <1>2, <1>3, <1>5, <3>2
    <3>3. CASE z \notin content[g]
      BY <1>2, <1>3, <1>5, <3>3
    <3> QED BY <3>1, <3>2, <3>3
  <2> QED BY <2>1, <2>2, <2>4, <2>5 DEF FoldersOK
<1>7. \A f \in Places : /\ lastUid[f] <= lastUid'[f]
                        /\ \A y \in content'[f] : y \in content[f] \/ y.uid > lastUid[f]
  BY <1>0, <1>5
<1>8. \A f \in Places : \A y : NamesOne(f, y) => NamesOne(f, y)'
  BY <1>6, <1>7, RowsStayNamed DEF ListIndInv
<1>9. steps' \in 0 .. MaxSteps
  BY <1>3, CountedStep DEF ListIndInv
<1> QED BY <1>3, <1>6, <1>8, <1>9, HeldStays, MoveStays DEF ListIndInv

(* Another client removes one.                                               *)
LEMMA RemoveStep ==
  ASSUME ListIndInv, NEW f \in Places, NEW x \in content[f], OtherRemoves(f, x)
  PROVE  ListIndInv'
<1>1. /\ content' = [content EXCEPT ![f] = @ \ {x}] /\ lastUid' = lastUid
      /\ Counted /\ UNCHANGED <<folder, page, shown, asked, answers, selectionVars, posted, strays>>
  BY DEF OtherRemoves
<1>2. lastUid \in [Places -> Nat] /\ content = [g \in Places |-> content[g]]
  BY DEF ListIndInv, FoldersOK
<1>3. content' = [g \in Places |-> content'[g]]
     /\ \A g \in Places : content'[g] \subseteq content[g]
  BY <1>1, <1>2
<1>4. FoldersOK'
  BY <1>1, <1>3 DEF ListIndInv, FoldersOK, NamesOne
<1>5. \A g \in Places : \A y : NamesOne(g, y) => NamesOne(g, y)'
  BY <1>1, <1>3 DEF NamesOne
<1>6. steps' \in 0 .. MaxSteps
  BY <1>1, CountedStep DEF ListIndInv
<1> QED BY <1>1, <1>4, <1>5, <1>6, HeldStays, MoveStays DEF ListIndInv

(* A message's place by date among those that are moved.                     *)
UpTo(xs, x) == Cardinality({y \in xs : y.msg <= x.msg})

(* Places are counted from one, without a tie.                               *)
LEMMA NumbersDiffer ==
  ASSUME NEW xs, IsFiniteSet(xs), \A x \in xs : x.msg \in Int,
         \A x, y \in xs : x.msg = y.msg => x = y
  PROVE  /\ \A x \in xs : UpTo(xs, x) \in 1 .. Cardinality(xs)
         /\ \A x, y \in xs : UpTo(xs, x) = UpTo(xs, y) => x = y
<1>1. \A x \in xs : UpTo(xs, x) \in 1 .. Cardinality(xs)
  <2> SUFFICES ASSUME NEW x \in xs PROVE UpTo(xs, x) \in 1 .. Cardinality(xs)
    OBVIOUS
  <2>1. PICK ys : ys = {y \in xs : y.msg <= x.msg}
    OBVIOUS
  <2>2. ys \in SUBSET xs /\ x \in ys
    BY <2>1
  <2>3. IsFiniteSet(ys) /\ Cardinality(ys) <= Cardinality(xs)
    BY <2>2, FS_Subset
  <2>4. Cardinality(ys) \in Nat /\ Cardinality(xs) \in Nat /\ Cardinality(ys) # 0
    BY <2>2, <2>3, FS_CardinalityType, FS_EmptySet
  <2> QED BY <2>1, <2>3, <2>4 DEF UpTo
<1>2. ASSUME NEW x \in xs, NEW y \in xs, UpTo(xs, x) = UpTo(xs, y), x.msg <= y.msg
      PROVE  x = y
  <2>1. PICK as, bs : as = {z \in xs : z.msg <= x.msg} /\ bs = {z \in xs : z.msg <= y.msg}
    OBVIOUS
  <2>2. as \in SUBSET bs /\ bs \in SUBSET xs /\ y \in bs
    BY <1>2, <2>1
  <2>3. IsFiniteSet(bs)
    BY <2>2, FS_Subset
  <2>4. Cardinality(as) = Cardinality(bs)
    BY <1>2, <2>1 DEF UpTo
  <2>5. as = bs
    BY <2>2, <2>3, <2>4, FS_Subset
  <2>6. y.msg <= x.msg /\ x.msg \in Int /\ y.msg \in Int
    BY <2>1, <2>2, <2>5
  <2>7. x.msg = y.msg
    BY <1>2, <2>6
  <2> QED BY <2>7
<1>3. \A x, y \in xs : x.msg <= y.msg \/ y.msg <= x.msg
  OBVIOUS
<1> QED BY <1>1, <1>2, <1>3

(* A move takes messages out of a folder and gives them new identifiers in   *)
(* another.                                                                  *)
LEMMA MovedFolders ==
  ASSUME FoldersOK, NEW f \in Places, NEW g \in Places, f # g,
         NEW xs \in SUBSET content[f], content' = Without(f, g, xs),
         lastUid' = [lastUid EXCEPT ![g] = @ + Cardinality(xs)]
  PROVE  /\ FoldersOK'
         /\ \A h \in Places : /\ lastUid[h] <= lastUid'[h]
                              /\ \A y \in content'[h] : y \in content[h] \/ y.uid > lastUid[h]
<1>1. IsFiniteSet(xs) /\ Cardinality(xs) \in Nat
  BY FoldersFinite, FS_Subset, FS_CardinalityType
<1>2. \A x \in xs : x.msg \in Letters /\ x.msg \in Int
  <2>1. Letters \subseteq Int
    <3>1. PICK k : k = Cardinality(Letters)
      OBVIOUS
    <3>2. k \in Nat /\ Letters = 1 .. k
      BY <3>1, MLAssumption, FS_CardinalityType
    <3> QED BY <3>2
  <2>2. \A x \in content[f] : x.msg \in Letters
    BY DEF FoldersOK
  <2> QED BY <2>1, <2>2
<1>3. \A x \in xs : \A h \in Places : \A y \in content[h] : x.msg = y.msg => h = f /\ y = x
  BY DEF FoldersOK
<1>4. /\ \A x \in xs : UpTo(xs, x) \in 1 .. Cardinality(xs)
      /\ \A x, y \in xs : UpTo(xs, x) = UpTo(xs, y) => x = y
  BY <1>1, <1>2, <1>3, NumbersDiffer
<1>5. lastUid \in [Places -> Nat] /\ content = [h \in Places |-> content[h]]
  BY DEF FoldersOK
<1>6. PICK n : n = lastUid[g]
  OBVIOUS
<1>7. n \in Nat
  BY <1>5, <1>6
<1> DEFINE Moved(x) == [uid |-> n + UpTo(xs, x), msg |-> x.msg]
<1>8. \A x \in xs : /\ Moved(x).msg = x.msg /\ Moved(x).uid > n
                    /\ Moved(x) \in [uid : 1 .. n + Cardinality(xs), msg : Letters]
  <2> SUFFICES ASSUME NEW x \in xs
               PROVE  /\ Moved(x).msg = x.msg /\ Moved(x).uid > n
                      /\ Moved(x) \in [uid : 1 .. n + Cardinality(xs), msg : Letters]
    OBVIOUS
  <2>1. PICK k : k = UpTo(xs, x)
    OBVIOUS
  <2>2. k \in 1 .. Cardinality(xs)
    BY <1>4, <2>1
  <2>3. n + k > n /\ n + k \in 1 .. n + Cardinality(xs)
    BY <1>1, <1>7, <2>2
  <2> QED BY <1>2, <2>1, <2>3
<1>9. \A x, y \in xs : Moved(x).uid = Moved(y).uid => x = y
  <2> SUFFICES ASSUME NEW x \in xs, NEW y \in xs, n + UpTo(xs, x) = n + UpTo(xs, y)
               PROVE  x = y
    OBVIOUS
  <2>1. UpTo(xs, x) \in Int /\ UpTo(xs, y) \in Int
    BY <1>1, <1>4
  <2>2. UpTo(xs, x) = UpTo(xs, y)
    BY <1>7, <2>1
  <2> QED BY <1>4, <2>2
<1>10. content' = [content EXCEPT ![f] = @ \ xs, ![g] = @ \cup {Moved(x) : x \in xs}]
  BY <1>6 DEF Without, UpTo
<1> HIDE DEF Moved
<1>11. \A h \in Places : content'[h] = IF h = f THEN content[h] \ xs
                                       ELSE IF h = g THEN content[h] \cup {Moved(x) : x \in xs}
                                       ELSE content[h]
  BY <1>5, <1>10
<1>12. \A h \in Places : lastUid'[h] = IF h = g THEN n + Cardinality(xs) ELSE lastUid[h]
  BY <1>5, <1>6
<1>13. \A h \in Places : /\ lastUid[h] \in Nat /\ lastUid'[h] \in Nat
                         /\ lastUid[h] <= lastUid'[h]
  <2> SUFFICES ASSUME NEW h \in Places
               PROVE  /\ lastUid[h] \in Nat /\ lastUid'[h] \in Nat
                      /\ lastUid[h] <= lastUid'[h]
    OBVIOUS
  <2>1. lastUid[h] \in Nat /\ (h = g => lastUid[h] = n)
    BY <1>5, <1>6
  <2>2. lastUid'[h] = IF h = g THEN n + Cardinality(xs) ELSE lastUid[h]
    BY <1>12
  <2> QED BY <1>1, <1>7, <2>1, <2>2
<1>14. \A h \in Places : \A y \in content'[h] :
         \/ y \in content[h] /\ y \notin xs
         \/ h = g /\ \E x \in xs : y = Moved(x)
  <2> SUFFICES ASSUME NEW h \in Places, NEW y \in content'[h]
               PROVE  \/ y \in content[h] /\ y \notin xs
                      \/ h = g /\ \E x \in xs : y = Moved(x)
    OBVIOUS
  <2>1. \/ y \in content[h] /\ y \notin xs
        \/ h = g /\ \E x \in xs : y = Moved(x)
        \/ h # f /\ y \in content[h]
    BY <1>11
  <2>2. h # f /\ y \in content[h] => y \notin xs
    BY <1>3
  <2> QED BY <2>1, <2>2
<1>15. \A h \in Places : \A y \in content[h] : /\ y \in [uid : 1 .. lastUid[h], msg : Letters]
                                               /\ y.uid <= lastUid[h]
  BY <1>13 DEF FoldersOK
<1>16. \A h \in Places : \A y \in content'[h] : y \in content[h] \/ y.uid > lastUid[h]
  BY <1>6, <1>8, <1>14
<1>17. \A h \in Places : content'[h] \subseteq [uid : 1 .. lastUid'[h], msg : Letters]
  <2> SUFFICES ASSUME NEW h \in Places, NEW y \in content'[h]
               PROVE  y \in [uid : 1 .. lastUid'[h], msg : Letters]
    OBVIOUS
  <2>1. CASE y \in content[h]
    <3>1. y \in [uid : 1 .. lastUid[h], msg : Letters] /\ y.uid \in 1 .. lastUid'[h]
      BY <1>13, <1>15, <2>1
    <3> QED BY <3>1
  <2>2. CASE h = g /\ \E x \in xs : y = Moved(x)
    BY <1>8, <1>12, <2>2
  <2> QED BY <1>14, <2>1, <2>2
<1>18. \A h \in Places : \A y, z \in content'[h] : y.uid = z.uid => y = z
  <2> SUFFICES ASSUME NEW h \in Places, NEW y \in content'[h], NEW z \in content'[h], y.uid = z.uid
               PROVE  y = z
    OBVIOUS
  <2>1. CASE y \in content[h] /\ z \in content[h]
    BY <2>1 DEF FoldersOK, NamesOne
  <2>2. \A v \in content[h] : h = g => ~(v.uid > n) /\ \A x \in xs : v.uid # Moved(x).uid
    <3> SUFFICES ASSUME NEW v \in content[h], h = g
                 PROVE  ~(v.uid > n) /\ \A x \in xs : v.uid # Moved(x).uid
      OBVIOUS
    <3>1. v.uid \in Nat /\ v.uid <= n
      BY <1>6, <1>13, <1>15
    <3>2. ~(v.uid > n)
      BY <1>7, <3>1
    <3> QED BY <1>8, <3>2
  <2> QED BY <1>9, <1>14, <2>1, <2>2
<1>19. \A h, k \in Places : \A y \in content'[h], z \in content'[k] : y.msg = z.msg =>
     h = k /\ y = z
  <2> SUFFICES ASSUME NEW h \in Places, NEW k \in Places, NEW y \in content'[h],
                      NEW z \in content'[k], y.msg = z.msg
               PROVE  h = k /\ y = z
    OBVIOUS
  <2>1. CASE y \in content[h] /\ z \in content[k]
    BY <2>1 DEF FoldersOK
  <2>2. \A x \in xs : \A l \in Places : \A v \in content[l] : v \notin xs => v.msg # x.msg
    BY <1>3
  <2>3. \A x, v \in xs : x.msg = v.msg => x = v
    BY <1>3
  <2> QED BY <1>8, <1>14, <2>1, <2>2, <2>3
<1>20. lastUid' \in [Places -> Nat] /\ content' = [h \in Places |-> content'[h]]
  <2>1. lastUid' = [h \in Places |-> lastUid'[h]]
    BY <1>5
  <2>2. content' = [h \in Places |-> content'[h]]
    BY <1>5, <1>10
  <2> QED BY <1>13, <2>1, <2>2
<1>21. FoldersOK'
  <2>1. \A h \in Places : \A x \in content'[h] : NamesOne(h, x)'
    BY <1>17, <1>18 DEF NamesOne
  <2> QED BY <1>17, <1>19, <1>20, <2>1 DEF FoldersOK
<1> QED BY <1>13, <1>16, <1>21

(* The move is executed: unless its selection was carried over, it takes     *)
(* nothing but what was ticked.                                              *)
LEMMA ExecuteStep == ASSUME ListIndInv, ExecuteMove PROVE ListIndInv'
<1>1. PICK xs : xs = Named(posted.from, posted.uids)
  OBVIOUS
<1>2. /\ posted # Nothing /\ MoveOK /\ FoldersOK
      /\ IF posted.from = posted.to THEN UNCHANGED serverVars
         ELSE /\ content' = Without(posted.from, posted.to, xs)
              /\ lastUid' = [lastUid EXCEPT ![posted.to] = @ + Cardinality(xs)]
      /\ strays' = strays \cup {[msg |-> x.msg, mixed |-> posted.mixed] : x \in xs \ posted.meant}
      /\ posted' = [posted EXCEPT !.done = TRUE]
      /\ UNCHANGED <<folder, page, shown, asked, answers, selectionVars, steps>>
  BY <1>1 DEF ExecuteMove, ListIndInv
<1>3. /\ posted \in [from : Places, to : Places, uids : SUBSET Nat,
                     meant : SUBSET [uid : Nat, msg : Letters],
                     mixed : BOOLEAN, dropped : BOOLEAN, done : BOOLEAN]
      /\ ~posted.mixed => Ticked(posted.from, posted.uids, posted.meant)
  BY <1>2 DEF MoveOK
<1>4. xs \subseteq content[posted.from] /\ \A x \in xs : x.uid \in posted.uids
  BY <1>1 DEF Named
<1>5. FoldersOK' /\ \A f \in Places : \A x : NamesOne(f, x) => NamesOne(f, x)'
  <2>1. CASE posted.from = posted.to
    BY <1>2, <2>1, SameServer
  <2>2. CASE posted.from # posted.to
    <3>1. /\ FoldersOK'
          /\ \A h \in Places : /\ lastUid[h] <= lastUid'[h]
                               /\ \A y \in content'[h] : y \in content[h] \/ y.uid > lastUid[h]
      BY <1>2, <1>3, <1>4, <2>2, MovedFolders
    <3> QED BY <1>2, <3>1, RowsStayNamed
  <2> QED BY <2>1, <2>2
<1>6. OnlyTicked'
  <2>1. ~posted.mixed => xs \subseteq posted.meant
    BY <1>3, <1>4 DEF Ticked, NamesOne
  <2>2. posted.mixed \in BOOLEAN /\ \A x \in strays : x.mixed
    BY <1>3 DEF ListIndInv, OnlyTicked
  <2>3. \A z \in strays' : z \in strays \/ (z.mixed = posted.mixed /\ posted.mixed)
    BY <1>2, <1>3, <2>1
  <2> QED BY <2>2, <2>3 DEF OnlyTicked
<1>7. MoveOK'
  <2>1. /\ posted' \in [from : Places, to : Places, uids : SUBSET Nat,
                        meant : SUBSET [uid : Nat, msg : Letters],
                        mixed : BOOLEAN, dropped : BOOLEAN, done : BOOLEAN]
        /\ posted'.from = posted.from /\ posted'.uids = posted.uids
        /\ posted'.meant = posted.meant /\ posted'.mixed = posted.mixed
    BY <1>2, <1>3
  <2>2. PICK f, us, ms : f = posted.from /\ us = posted.uids /\ ms = posted.meant
    OBVIOUS
  <2>3. f \in Places /\ (~posted.mixed => Ticked(f, us, ms))
    BY <1>3, <2>2
  <2>4. ~posted.mixed => Ticked(f, us, ms)'
    BY <1>5, <2>3 DEF Ticked
  <2>5. posted'.from = f /\ posted'.uids = us /\ posted'.meant = ms
    BY <2>1, <2>2
  <2> QED BY <2>1, <2>4, <2>5 DEF MoveOK
<1>8. steps' \in 0 .. MaxSteps
  BY <1>2 DEF ListIndInv, PageOK
<1> QED BY <1>2, <1>5, <1>6, <1>7, <1>8, HeldStays DEF ListIndInv

-----------------------------------------------------------------------------
(* The browser's steps.  A request fails or a list is shown.                 *)
LEMMA AnswerStep ==
  ASSUME ListIndInv, (\E r \in asked : ListFails(r)) \/ \E a \in answers : ShowList(a)
  PROVE  ListIndInv'
<1>1. /\ asked' \subseteq asked /\ answers' \subseteq answers
      /\ shown' = shown \/ shown' \in answers
      /\ steps' \in 0 .. MaxSteps
      /\ UNCHANGED <<serverVars, folder, page, selectionVars, posted, strays>>
  BY CountedStep DEF ListFails, ShowList, ListIndInv, PageOK
<1>2. /\ FoldersOK' /\ MoveOK' /\ OnlyTicked'
      /\ \A f, x : NamesOne(f, x) => NamesOne(f, x)'
  BY <1>1, BrowserStep
<1>3. ListsOK'
  BY <1>1, <1>2 DEF ListIndInv, ListsOK, ListOK
<1>4. PageOK'
  BY <1>1 DEF ListIndInv, PageOK
<1>5. SelectionOK'
  BY <1>1, <1>2 DEF ListIndInv, SelectionOK, Ticked, selectionVars
<1> QED BY <1>2, <1>3, <1>4, <1>5 DEF ListIndInv

(* A list is asked for.                                                      *)
LEMMA FetchOK ==
  ASSUME PageOK, ListsOK, NEW f \in Places, NEW p \in Nat \ {0}, Fetch(f, p), answers' = answers,
         \A g, x : NamesOne(g, x) => NamesOne(g, x)'
  PROVE  asked' \subseteq [folder : Places, page : Nat \ {0}] /\ ListsOK'
<1>1. asked' = asked \cup {[folder |-> f, page |-> p]} /\ shown' = Nothing
  BY DEF Fetch
<1>2. asked' \subseteq [folder : Places, page : Nat \ {0}]
  BY <1>1 DEF PageOK
<1>3. ListsOK'
  BY <1>1 DEF ListsOK, ListOK
<1> QED BY <1>2, <1>3

(* The list is loaded again, or turned to another page.                      *)
LEMMA RefreshStep == ASSUME ListIndInv, AutoRefresh \/ TurnPage PROVE ListIndInv'
<1>1. /\ page' \in Nat \ {0} /\ steps' \in 0 .. MaxSteps /\ Fetch(folder, page')
      /\ UNCHANGED <<serverVars, folder, answers, selectionVars, posted, strays>>
  BY CountedStep DEF AutoRefresh, TurnPage, ListIndInv, PageOK, ListsOK, ListOK
<1>2. /\ FoldersOK' /\ MoveOK' /\ OnlyTicked'
      /\ \A f, x : NamesOne(f, x) => NamesOne(f, x)'
  BY <1>1, BrowserStep
<1>3. asked' \subseteq [folder : Places, page : Nat \ {0}] /\ ListsOK'
  BY <1>1, <1>2, FetchOK DEF ListIndInv, PageOK
<1>4. PageOK'
  BY <1>1, <1>3 DEF ListIndInv, PageOK
<1>5. SelectionOK'
  BY <1>1, <1>2 DEF ListIndInv, SelectionOK, Ticked, selectionVars
<1> QED BY <1>2, <1>3, <1>4, <1>5 DEF ListIndInv

(* The user walks to another folder, and the selection is carried over.      *)
LEMMA SwitchFolderStep ==
  ASSUME ListIndInv, NEW f \in Places, SwitchFolder(f) PROVE ListIndInv'
<1>1. /\ Counted /\ folder' = f /\ Fetch(f, page) /\ Select(selection, meant, TRUE)
      /\ UNCHANGED <<serverVars, page, answers, posted, strays>>
  BY DEF SwitchFolder
<1>2. /\ FoldersOK' /\ MoveOK' /\ OnlyTicked'
      /\ \A g, x : NamesOne(g, x) => NamesOne(g, x)'
  BY <1>1, BrowserStep
<1>3. asked' \subseteq [folder : Places, page : Nat \ {0}] /\ ListsOK'
  BY <1>1, <1>2, FetchOK DEF ListIndInv, PageOK
<1>4. PageOK'
  BY <1>1, <1>3, CountedStep DEF ListIndInv, PageOK
<1>5. SelectionOK'
  BY <1>1 DEF ListIndInv, SelectionOK, Ticked, Select
<1> QED BY <1>2, <1>3, <1>4, <1>5 DEF ListIndInv

(* He comes back from another view, to a list of its own.                    *)
LEMMA ReopenStep == ASSUME ListIndInv, NEW f \in Places, Reopen(f) PROVE ListIndInv'
<1>1. /\ Counted /\ folder' = f /\ page' = 1 /\ asked' = {[folder |-> f, page |-> 1]}
      /\ answers' = {} /\ shown' = Nothing /\ Select(selection, meant, carried \/ f # folder)
      /\ UNCHANGED <<serverVars, posted, strays>>
  BY DEF Reopen
<1>2. /\ FoldersOK' /\ MoveOK' /\ OnlyTicked'
      /\ \A g, x : NamesOne(g, x) => NamesOne(g, x)'
  BY <1>1, BrowserStep
<1>3. PageOK' /\ ListsOK'
  BY <1>1, CountedStep DEF ListIndInv, PageOK, ListsOK
<1>4. SelectionOK'
  <2>1. /\ selection' = selection /\ meant' = (IF selection = {} THEN {} ELSE meant)
        /\ carried' = (selection # {} /\ (carried \/ f # folder))
    BY <1>1 DEF Select
  <2>2. ~carried' /\ selection # {} => ~carried /\ f = folder
    BY <2>1 DEF ListIndInv, SelectionOK
  <2>3. ~carried' => Ticked(folder, selection, meant)'
    BY <1>1, <1>2, <2>1, <2>2 DEF ListIndInv, SelectionOK, Ticked
  <2> QED BY <2>1, <2>3 DEF ListIndInv, SelectionOK
<1> QED BY <1>2, <1>3, <1>4 DEF ListIndInv

(* What is left or added of a selection names what was ticked.               *)
LEMMA TickStep ==
  ASSUME ListIndInv, shown # Nothing, NEW x \in shown.rows, TickMessage(x) PROVE ListIndInv'
<1>1. /\ Counted
      /\ IF x.uid \in selection THEN Select(selection \ {x.uid}, meant \ {x}, carried)
         ELSE Select(selection \cup {x.uid}, meant \cup {x}, carried \/ shown.folder # folder)
      /\ UNCHANGED <<serverVars, folder, page, shown, asked, answers, posted, strays>>
  BY DEF TickMessage
<1>2. /\ FoldersOK' /\ MoveOK' /\ OnlyTicked'
      /\ \A g, y : NamesOne(g, y) => NamesOne(g, y)'
  BY <1>1, BrowserStep
<1>3. PageOK' /\ ListsOK'
  BY <1>1, <1>2, CountedStep DEF ListIndInv, PageOK, ListsOK, ListOK
<1>4. /\ x \in [uid : Nat, msg : Letters] /\ NamesOne(shown.folder, x)
      /\ carried \in BOOLEAN /\ selection \subseteq Nat
      /\ meant \subseteq [uid : Nat, msg : Letters]
      /\ ~carried => Ticked(folder, selection, meant)
  BY DEF ListIndInv, ListsOK, ListOK, SelectionOK
<1>5. CASE x.uid \in selection
  <2>1. /\ selection' = selection \ {x.uid}
        /\ meant' = (IF selection \ {x.uid} = {} THEN {} ELSE meant \ {x})
        /\ carried' = (selection \ {x.uid} # {} /\ carried)
    BY <1>1, <1>5 DEF Select
  <2>2. ~carried' => Ticked(folder, selection', meant')
    BY <1>4, <2>1 DEF Ticked
  <2>3. SelectionOK'
    BY <1>1, <1>2, <1>4, <2>1, <2>2 DEF SelectionOK, Ticked
  <2> QED BY <1>2, <1>3, <2>3 DEF ListIndInv
<1>6. CASE x.uid \notin selection
  <2>1. /\ selection' = selection \cup {x.uid} /\ meant' = meant \cup {x}
        /\ carried' = (carried \/ shown.folder # folder)
    BY <1>1, <1>4, <1>6 DEF Select
  <2>2. ~carried' => Ticked(folder, selection', meant')
    BY <1>4, <2>1 DEF Ticked
  <2>3. SelectionOK'
    BY <1>1, <1>2, <1>4, <2>1, <2>2 DEF SelectionOK, Ticked
  <2> QED BY <1>2, <1>3, <2>3 DEF ListIndInv
<1> QED BY <1>5, <1>6

(* All rows of the list are ticked, or none.                                 *)
LEMMA TickAllStep == ASSUME ListIndInv, TickAll PROVE ListIndInv'
<1>1. /\ Counted /\ shown # Nothing
      /\ UNCHANGED <<serverVars, folder, page, shown, asked, answers, posted, strays>>
      /\ \/ Select({}, {}, FALSE)
         \/ Select({x.uid : x \in shown.rows}, shown.rows, shown.folder # folder)
  BY DEF TickAll
<1>2. /\ FoldersOK' /\ MoveOK' /\ OnlyTicked'
      /\ \A g, y : NamesOne(g, y) => NamesOne(g, y)'
  BY <1>1, BrowserStep
<1>3. PageOK' /\ ListsOK'
  BY <1>1, <1>2, CountedStep DEF ListIndInv, PageOK, ListsOK, ListOK
<1>4. /\ shown.rows \subseteq [uid : Nat, msg : Letters]
      /\ \A x \in shown.rows : NamesOne(shown.folder, x)
  BY <1>1 DEF ListIndInv, ListsOK, ListOK
<1>5. SelectionOK'
  BY <1>1, <1>2, <1>4 DEF SelectionOK, Ticked, Select
<1> QED BY <1>2, <1>3, <1>5 DEF ListIndInv

(* A move is posted with the selection.                                      *)
LEMMA PostStep ==
  ASSUME ListIndInv, NEW g \in Places, NEW dropped \in BOOLEAN, PostMove(g, dropped)
  PROVE  ListIndInv'
<1>1. PICK p : p = [from |-> folder, to |-> g, uids |-> selection, meant |-> meant,
                    mixed |-> carried, dropped |-> dropped, done |-> FALSE]
  OBVIOUS
<1>2. /\ Counted /\ posted' = p
      /\ UNCHANGED <<serverVars, folder, page, shown, asked, answers, selectionVars, strays>>
  BY <1>1 DEF PostMove
<1>3. FoldersOK' /\ \A f, x : NamesOne(f, x) => NamesOne(f, x)'
  BY <1>2, SameServer DEF ListIndInv
<1>4. PageOK' /\ ListsOK' /\ SelectionOK'
  BY <1>2, <1>3, HeldStays, CountedStep DEF ListIndInv
<1>5. MoveOK'
  <2>1. /\ folder \in Places /\ carried \in BOOLEAN /\ selection \in SUBSET Nat
        /\ meant \in SUBSET [uid : Nat, msg : Letters]
    BY DEF ListIndInv, PageOK, SelectionOK
  <2>2. p \in [from : Places, to : Places, uids : SUBSET Nat,
               meant : SUBSET [uid : Nat, msg : Letters],
               mixed : BOOLEAN, dropped : BOOLEAN, done : BOOLEAN]
    BY <1>1, <2>1
  <2>3. /\ p.from = folder' /\ p.uids = selection' /\ p.meant = meant' /\ p.mixed = carried'
    BY <1>1, <1>2 DEF selectionVars
  <2> QED BY <1>2, <1>4, <2>2, <2>3 DEF MoveOK, SelectionOK, Ticked
<1>6. OnlyTicked'
  BY <1>2 DEF ListIndInv, OnlyTicked
<1> QED BY <1>3, <1>4, <1>5, <1>6 DEF ListIndInv

(* The move is answered, and the list asked for again.                       *)
LEMMA AnsweredStep == ASSUME ListIndInv, MoveAnswered PROVE ListIndInv'
<1>1. /\ posted # Nothing /\ Fetch(folder, page) /\ posted' = Nothing
      /\ Select({}, {}, FALSE) \/ UNCHANGED selectionVars
      /\ UNCHANGED <<serverVars, folder, page, answers, strays, steps>>
  BY DEF MoveAnswered
<1>2. FoldersOK' /\ \A f, x : NamesOne(f, x) => NamesOne(f, x)'
  BY <1>1, SameServer DEF ListIndInv
<1>3. asked' \subseteq [folder : Places, page : Nat \ {0}] /\ ListsOK'
  BY <1>1, <1>2, FetchOK DEF ListIndInv, PageOK
<1>4. PageOK'
  BY <1>1, <1>3 DEF ListIndInv, PageOK
<1>5. SelectionOK'
  <2>1. CASE Select({}, {}, FALSE)
    BY <2>1 DEF SelectionOK, Ticked, Select
  <2>2. CASE UNCHANGED selectionVars
    BY <1>1, <1>2, <2>2 DEF ListIndInv, SelectionOK, Ticked, selectionVars
  <2> QED BY <1>1, <2>1, <2>2
<1>6. MoveOK' /\ OnlyTicked'
  BY <1>1 DEF ListIndInv, MoveOK, OnlyTicked
<1> QED BY <1>2, <1>3, <1>4, <1>5, <1>6 DEF ListIndInv

-----------------------------------------------------------------------------
(* INBOX is opened for the first time.                                       *)
LEMMA ListInitially == ASSUME MListInit PROVE ListIndInv
<1>1. PICK n : n = Cardinality(Letters)
  OBVIOUS
<1>2. n \in Nat /\ Letters = 1 .. n /\ Start \in Places
  BY <1>1, MLAssumption, FS_CardinalityType
<1>3. PICK ms \in SUBSET Letters :
        /\ content = [f \in Places |-> IF f = Start THEN {[uid |-> m,
                                                           msg |-> m] : m \in ms} ELSE {}]
        /\ lastUid = [f \in Places |-> IF f = Start THEN n ELSE 0]
  BY <1>1 DEF MListInit
<1>4. \A f \in Places : \A x \in content[f] : f = Start /\ \E m \in ms : x = [uid |-> m, msg |-> m]
  BY <1>3
<1>5. \A f \in Places : \A x \in content[f] :
        /\ f = Start /\ lastUid[f] = n /\ x.uid = x.msg
        /\ x.msg \in Letters /\ x = [uid |-> x.msg, msg |-> x.msg]
  BY <1>3, <1>4
<1>6. FoldersOK
  <2>1. lastUid \in [Places -> Nat] /\ content = [f \in Places |-> content[f]]
    BY <1>2, <1>3
  <2>2. \A f \in Places : content[f] \subseteq [uid : 1 .. lastUid[f], msg : Letters]
    BY <1>2, <1>5
  <2>3. \A f \in Places : \A x \in content[f] : NamesOne(f, x)
    BY <1>5, <2>2 DEF NamesOne
  <2> QED BY <1>5, <2>1, <2>2, <2>3 DEF FoldersOK
<1>7. PageOK
  BY <1>2, MLAssumption DEF MListInit, PageOK
<1>8. ListsOK /\ SelectionOK /\ MoveOK /\ OnlyTicked
  BY DEF MListInit, ListsOK, SelectionOK, Ticked, MoveOK, OnlyTicked
<1> QED BY <1>6, <1>7, <1>8 DEF ListIndInv

(* Every step keeps the invariant.                                           *)
LEMMA ListStep == ASSUME ListIndInv, [MListNext]_mlistVars PROVE ListIndInv'
<1>1. CASE UNCHANGED mlistVars
  <2>1. UNCHANGED <<serverVars, folder, page, shown, asked, answers, selectionVars, posted,
                    strays, steps>>
    BY <1>1 DEF mlistVars, serverVars, selectionVars
  <2>2. FoldersOK' /\ MoveOK' /\ OnlyTicked' /\ \A f, x : NamesOne(f, x) => NamesOne(f, x)'
    BY <2>1, BrowserStep
  <2>3. steps' \in 0 .. MaxSteps
    BY <2>1 DEF ListIndInv, PageOK
  <2> QED BY <2>1, <2>2, <2>3, HeldStays DEF ListIndInv
<1>2. CASE PostMove(Bin, FALSE) \/ PostMove(Start, FALSE) \/ \E g \in Places : PostMove(g, TRUE)
  BY <1>2, PostStep, MLAssumption
<1>3. CASE \E f \in Places : \/ SwitchFolder(f) \/ Reopen(f)
                             \/ \E x \in content[f] : OtherRemoves(f, x)
  BY <1>3, SwitchFolderStep, ReopenStep, RemoveStep
<1>4. CASE (\E r \in asked : ReadList(r) \/ ListFails(r)) \/ \E a \in answers : ShowList(a)
  BY <1>4, ReadStep, AnswerStep
<1> QED BY <1>1, <1>2, <1>3, <1>4, ExecuteStep, AnsweredStep, RefreshStep, TickAllStep, TickStep,
           NewLetterStep DEF MListNext

(* Messages are moved only when the user has ticked them, however old his    *)
(* list is, unless the selection was carried over (move_selection).          *)
THEOREM TicksAreMeant == MListSpec => []MessageListInv
<1> QED BY ListInitially, ListStep, ListIndImplies, PTL DEF MListSpec

-----------------------------------------------------------------------------
(* In each behaviour one part runs, and the others stutter.                  *)
LEMMA OnePartRuns ==
  ASSUME [RemoteNext]_rVars PROVE [ABNext]_abVars /\ [DCNext]_dcVars /\ [MListNext]_mlistVars
<1>1. CASE RemoteNext
  BY <1>1 DEF RemoteNext, BookPart, DnsPart, ListPart
<1>2. CASE UNCHANGED rVars
  BY <1>2 DEF rVars
<1> QED BY <1>1, <1>2

(* What is recorded of an address book is true to both its sides             *)
(* (SyncAddressBookFromCDAV), whatever runs beside it.                       *)
THEOREM BookStaysTrue == RemoteSpec => []BookInv
<1>1. RemoteInit => ABInit
  BY DEF RemoteInit
<1> QED BY <1>1, OnePartRuns, EtagsTellTheTruth, PTL DEF RemoteSpec

(* A change of a contact is not undone by a sync that has not seen it.       *)
THEOREM NothingUnseenIsUndone == RemoteSpec => NothingUnseenOverwritten
<1>1. RemoteInit => ABInit
  BY DEF RemoteInit
<1> QED BY <1>1, OnePartRuns, NothingUnseenIsLost, PTL DEF RemoteSpec

(* Alarms and rows of the DNS checks, and what the list moves, are true to   *)
(* what the servers have told (check_valid_mx, move_selection).              *)
THEOREM ViewsStayTrue == RemoteSpec => []ViewsInv
<1>1. RemoteInit => DCInit /\ MListInit
  BY DEF RemoteInit
<1>2. RemoteSpec => MListSpec
  BY <1>1, OnePartRuns, PTL DEF RemoteSpec, MListSpec
<1>3. DnsInv /\ MessageListInv => ViewsInv
  BY DEF ViewsInv
<1> QED BY <1>1, <1>2, <1>3, OnePartRuns, AlarmsTellTheTruth, TicksAreMeant, PTL DEF RemoteSpec
=============================================================================
