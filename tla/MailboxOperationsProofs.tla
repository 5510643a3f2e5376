----------------------- MODULE MailboxOperationsProofs -----------------------
(* For every set of mailboxes and addresses: as long as addresses are not   *)
(* given again too early, the mail of an account is where its row says or   *)
(* waits for an order that takes it there, and only an order to delete      *)
(* removes mail.  The invariant follows every folder through the orders     *)
(* that are left, the batch handle_mailbox_operations has loaded and the    *)
(* one it is at.                                                            *)
EXTENDS MailboxOperations, TLAPS

(* Addresses are not given again while something of their former owner is    *)
(* left, all mail passes MaintainMap, and what is to be kept is asked for    *)
(* one account at a time (README.md, Known deviations).                      *)
Careful == ~Reuse /\ ~Bypass /\ "keep_many" \notin Requests

(* A move of the mailbox's folder has begun: from this address, or to it.    *)
Flying(m, a) ==
  /\ Acting("rename")
  /\ current.order.mailbox = m
  /\ a = current.order.argument \/ a = current.target

(* The address is the mailbox's, or was and waits for an order.              *)
Held(m, a) ==
  \/ address[m] = a
  \/ RenameOrder(m, a) \in orders \cup batch
  \/ Flying(m, a)

(* The folder of the address is to be removed.                               *)
Doomed(a) ==
  \/ DeleteOrder(a) \in orders \cup batch
  \/ Acting("delete") /\ current.order.argument = a

Exclusive == \A m, n \in Mailboxes, a \in Addresses : Held(m, a) /\ Held(n, a) => m = n

HeldForOne == \A m \in Mailboxes, a \in Addresses : Held(m, a) => home[a] \in {NoDir, {m}}

OneHome ==
  \A m \in Mailboxes, a, b \in Addresses : MailIn(home[a], m) /\ MailIn(home[b], m) => a = b

NoneBuried == \A a \in Addresses : buried[a] = NoSubfolders

(* Mail that is not at home is where an order will find it.                  *)
Traced ==
  \A m \in Mailboxes, a \in Addresses :
    address[m] # None /\ MailIn(home[a], m) => a = address[m] \/ RenameOrder(m, a) \in orders

NeverBack ==
  \A m \in Mailboxes, a \in Addresses : address[m] = a => RenameOrder(m, a) \notin orders \cup batch

DoomedUnused ==
  \A a \in Addresses : Doomed(a) =>
    \A m \in Mailboxes : address[m] # a /\ RenameOrder(m, a) \notin orders \cup batch

(* An order that the run knows and the database does not belonged to a       *)
(* mailbox that has been deleted.                                            *)
Outdated(o) == o.type = "rename" /\ address[o.mailbox] = None

BatchOK == \A o \in batch : o \in orders \/ Outdated(o)

CurrentOK ==
  current # None =>
    /\ current.order \notin batch
    /\ current.order \in orders \/ Outdated(current.order)
    /\ current.order.type = "rename" => current.target \in Addresses
    /\ current.step = "act" => home[current.order.argument] # NoDir
    /\ current.step = "act" /\ current.order.type = "rename"
         /\ address[current.order.mailbox] # None =>
         \/ current.target = address[current.order.mailbox]
         \/ RenameOrder(current.order.mailbox, current.target) \in orders
    /\ current.step = "done" /\ current.order \in orders => home[current.order.argument] = NoDir
    /\ current.step = "done" /\ current.order.type = "rename" =>
         MailIn(home[current.target], current.order.mailbox)

KeptSafe ==
  \A m \in kept :
    /\ address[m] = None
    /\ \A a \in Addresses : MailIn(home[a], m) \/ Flying(m, a) => ~Doomed(a)

MOIndInv ==
  /\ MOTypeOK
  /\ Exclusive /\ HeldForOne /\ OneHome /\ NoneBuried /\ Traced /\ NeverBack /\ DoomedUnused
  /\ BatchOK /\ CurrentOK /\ KeptSafe

-----------------------------------------------------------------------------
(* What orders are.                                                          *)
LEMMA RenameOrderIs ==
  ASSUME NEW m, NEW a
  PROVE  /\ RenameOrder(m, a).type = "rename"
         /\ RenameOrder(m, a).mailbox = m /\ RenameOrder(m, a).argument = a
  BY DEF RenameOrder

(* The order that a deleted mailbox leaves.                                  *)
LEMMA DeleteOrderIs ==
  ASSUME NEW a
  PROVE  /\ DeleteOrder(a).type = "delete"
         /\ DeleteOrder(a).mailbox = None /\ DeleteOrder(a).argument = a
  BY DEF DeleteOrder

(* An order is one of the two kinds, and says which by its mailbox.          *)
LEMMA OrdersAre ==
  ASSUME NEW o \in Orders
  PROVE  /\ o.type \in {"rename", "delete"} /\ o.argument \in Addresses
         /\ o.type = "rename" => o.mailbox \in Mailboxes /\ o = RenameOrder(o.mailbox, o.argument)
         /\ o.type = "delete" => o.mailbox = None /\ o = DeleteOrder(o.argument)
<1>1. CASE \E m \in Mailboxes, a \in Addresses : o = RenameOrder(m, a)
  BY <1>1, RenameOrderIs
<1>2. CASE \E a \in Addresses : o = DeleteOrder(a)
  BY <1>2, DeleteOrderIs
<1> QED BY <1>1, <1>2 DEF Orders

(* The orders a request makes are orders.                                    *)
LEMMA OrdersMade ==
  /\ \A m \in Mailboxes, a \in Addresses : RenameOrder(m, a) \in Orders
  /\ \A a \in Addresses : DeleteOrder(a) \in Orders
  BY DEF Orders

(* An order in the hands of the run, and what it says.                       *)
LEMMA CurrentIs ==
  ASSUME MOTypeOK, current # None
  PROVE  /\ current \in [order : Orders, step : {"act", "done"}, target : Addresses \cup {None}]
         /\ current.order \in Orders /\ current.step \in {"act", "done"}
         /\ current.order.type \in {"rename", "delete"} /\ current.order.argument \in Addresses
         /\ current.order.type = "rename" =>
              /\ current.order.mailbox \in Mailboxes
              /\ current.order = RenameOrder(current.order.mailbox, current.order.argument)
         /\ current.order.type = "delete" =>
              /\ current.order.mailbox = None
              /\ current.order = DeleteOrder(current.order.argument)
<1>1. /\ current \in [order : Orders, step : {"act", "done"}, target : Addresses \cup {None}]
      /\ current.order \in Orders /\ current.step \in {"act", "done"}
  BY DEF MOTypeOK
<1> QED BY <1>1, OrdersAre

(* A folder holds the mail of a set of mailboxes, or is not there.           *)
LEMMA FoldersAre ==
  /\ NoDir \in Folders
  /\ \A m \in Mailboxes : {m} \in Folders /\ {m} # NoDir
  /\ \A d \in Folders : d # NoDir => d \subseteq Mailboxes
  /\ \A d \in Folders : d # NoDir => \A r \in SUBSET d : r \in Folders /\ r # NoDir
<1>1. \A S \in SUBSET Mailboxes : S # NoDir /\ S \in Folders
  BY OrdersAssumption DEF Folders
<1>2. \A m \in Mailboxes : {m} \in SUBSET Mailboxes
  OBVIOUS
<1>3. \A d \in Folders : d # NoDir => d \in SUBSET Mailboxes
  BY DEF Folders
<1>4. NoDir \in Folders
  BY DEF Folders
<1>5. ASSUME NEW d \in Folders, d # NoDir, NEW r \in SUBSET d PROVE r \in SUBSET Mailboxes
  BY <1>3, <1>5
<1> QED BY <1>1, <1>2, <1>3, <1>4, <1>5

(* An address is its local part and its domain.                              *)
LEMMA AddressesArePairs ==
  ASSUME NEW a \in Addresses, NEW b \in Addresses, a[1] = b[1], a[2] = b[2] PROVE a = b
  BY DEF Addresses

(* Whoever holds the address of the folder finds nothing but his mail in it. *)
LEMMA HeldMail ==
  ASSUME MOIndInv, NEW m \in Mailboxes, NEW a \in Addresses, Held(m, a), home[a] # NoDir
  PROVE  home[a] = {m} /\ MailIn(home[a], m) /\ \A n \in Mailboxes : MailIn(home[a], n) => n = m
  BY DEF MOIndInv, HeldForOne, MailIn

(* An address that is free is nobody's, and no folder is on its way there.   *)
LEMMA FreeIsFresh ==
  ASSUME MOIndInv, NEW a \in Addresses, ~InUse(a), Clear(a)
  PROVE  /\ home[a] = NoDir
         /\ \A o \in orders \cup batch : o.argument # a
         /\ \A m \in Mailboxes : RenameOrder(m, a) \notin orders \cup batch
         /\ DeleteOrder(a) \notin orders \cup batch
         /\ \A m \in Mailboxes : ~Held(m, a)
         /\ ~Doomed(a)
<1>1. home[a] = NoDir /\ \A o \in orders \cup batch : o.argument # a
  BY DEF Clear
<1>2. /\ \A m \in Mailboxes : RenameOrder(m, a) \notin orders \cup batch
      /\ DeleteOrder(a) \notin orders \cup batch
  BY <1>1, RenameOrderIs, DeleteOrderIs
<1>3. \A t : Acting(t) => current.order.argument # a /\ current.target # a
  BY <1>1 DEF MOIndInv, CurrentOK, Acting, Clear
<1> QED BY <1>1, <1>2, <1>3 DEF Held, Flying, Doomed, InUse

(* What every step that leaves rows and folders alone keeps.                 *)
LEMMA QuietKeeps ==
  ASSUME MOIndInv, UNCHANGED <<address, home, buried, kept>>,
         orders' \subseteq orders, batch' \subseteq orders \cup batch,
         \A m \in Mailboxes, a \in Addresses : Held(m, a)' => Held(m, a),
         \A a \in Addresses : Doomed(a)' => Doomed(a),
         \A m \in kept, a \in Addresses : Flying(m, a)' => Flying(m, a)
  PROVE  /\ Exclusive' /\ HeldForOne' /\ OneHome' /\ NoneBuried' /\ NeverBack' /\ DoomedUnused'
         /\ KeptSafe'
<1> USE DEF MOIndInv
<1>1. Exclusive'
  BY DEF Exclusive
<1>2. HeldForOne'
  BY DEF HeldForOne
<1>3. OneHome' /\ NoneBuried'
  BY DEF OneHome, NoneBuried
<1>4. NeverBack'
  BY DEF NeverBack
<1>5. DoomedUnused'
  BY DEF DoomedUnused
<1>6. KeptSafe'
  <2>1. kept \subseteq Mailboxes
    BY DEF MOTypeOK
  <2> QED BY <2>1 DEF KeptSafe
<1> QED BY <1>1, <1>2, <1>3, <1>4, <1>5, <1>6

-----------------------------------------------------------------------------
(* Mail arrives where all mail of the mailbox is.                            *)
LEMMA DeliverStep == ASSUME Careful, MOIndInv, NEW m \in Mailboxes, Deliver(m) PROVE MOIndInv'
<1> USE OrdersAssumption DEF MOIndInv, Careful
<1> DEFINE b == address[m]
<1>1. b \in Addresses /\ ~Unavailable(m) /\ Held(m, b) /\ address[m] # None
  BY DEF Deliver, MOTypeOK, Held
<1>2. UNCHANGED <<address, orders, buried, batch, current, kept>>
  BY DEF Deliver, jobVars
<1>3. home[b] \in {NoDir, {m}}
  BY <1>1 DEF HeldForOne
<1>4. home' = [home EXCEPT ![b] = {m}]
  BY <1>3, FoldersAre DEF Deliver, Contents
<1> HIDE DEF b
<1>5. home' \in [Addresses -> Folders] /\ home'[b] = {m}
     /\ \A a \in Addresses \ {b} : home'[a] = home[a]
  BY <1>1, <1>4, FoldersAre DEF MOTypeOK
<1>6. \A n \in Mailboxes, a \in Addresses : Held(n, a)' <=> Held(n, a)
  BY <1>2 DEF Held, Flying, Acting
<1>7. \A a \in Addresses : Doomed(a)' <=> Doomed(a)
  BY <1>2 DEF Doomed, Acting
<1>8. \A n \in Mailboxes, a \in Addresses :
        MailIn(home'[a], n) => MailIn(home[a], n) \/ (n = m /\ a = b)
  BY <1>5, FoldersAre DEF MailIn
<1>9. \A a \in Addresses : MailIn(home[a], m) => a = b
  <2>1. \A a \in Addresses : RenameOrder(m, a) \notin orders
    BY <1>1, RenameOrderIs DEF Unavailable
  <2> QED BY <1>1, <2>1 DEF Traced, b
<1>10. MOTypeOK'
  BY <1>2, <1>5 DEF MOTypeOK
<1>11. Exclusive'
  BY <1>6 DEF Exclusive
<1>12. HeldForOne'
  <2>1. \A n \in Mailboxes : Held(n, b) => n = m
    BY <1>1 DEF Exclusive
  <2> QED BY <1>5, <1>6, <2>1 DEF HeldForOne
<1>13. OneHome'
  BY <1>8, <1>9 DEF OneHome
<1>14. NoneBuried' /\ NeverBack'
  BY <1>2 DEF NoneBuried, NeverBack
<1>15. Traced'
  BY <1>2, <1>8 DEF Traced, b
<1>16. DoomedUnused'
  BY <1>2, <1>7 DEF DoomedUnused
<1>17. BatchOK'
  BY <1>2 DEF BatchOK, Outdated
<1>18. CurrentOK'
  <2> SUFFICES ASSUME current # None PROVE CurrentOK'
    BY <1>2 DEF CurrentOK
  <2>1. home'[current.order.argument] = NoDir \/ home[current.order.argument] # NoDir
          => \/ home'[current.order.argument] = home[current.order.argument]
             \/ current.order.argument = b
    BY <1>5, CurrentIs
  <2>2. current.order \in orders => current.order.argument # b
    <3>1. current.order = RenameOrder(m, b) \/ current.order = DeleteOrder(b)
            => current.order \notin orders
      BY <1>1 DEF NeverBack, DoomedUnused, Doomed, b
    <3>2. current.order \in orders /\ current.order.type = "rename" =>
            current.order.argument # b \/ current.order.mailbox = m
      BY <1>1, CurrentIs DEF Exclusive, Held
    <3> QED BY <3>1, <3>2, CurrentIs
  <2>3. current.order.type = "rename" /\ MailIn(home[current.target], current.order.mailbox)
          => MailIn(home'[current.target], current.order.mailbox)
    <3>1. CASE current.target = b
      BY <1>3, <1>5, <3>1, FoldersAre DEF MailIn
    <3>2. CASE current.target # b
      BY <1>5, <3>2, CurrentIs DEF CurrentOK
    <3> QED BY <3>1, <3>2
  <2>4. home[current.order.argument] # NoDir => home'[current.order.argument] # NoDir
    BY <1>1, <1>5, CurrentIs, FoldersAre
  <2>5. current.order \in orders => home'[current.order.argument] = home[current.order.argument]
    BY <1>5, <2>2, CurrentIs
  <2> QED BY <1>2, <2>3, <2>4, <2>5 DEF CurrentOK, Outdated
<1>19. KeptSafe'
  <2>1. \A n \in kept, a \in Addresses : Flying(n, a)' <=> Flying(n, a)
    BY <1>2 DEF Flying, Acting
  <2>2. m \notin kept /\ kept \subseteq Mailboxes
    BY <1>1 DEF KeptSafe, MOTypeOK
  <2> QED BY <1>2, <1>7, <1>8, <2>1, <2>2 DEF KeptSafe
<1> QED BY <1>10, <1>11, <1>12, <1>13, <1>14, <1>15, <1>16, <1>17, <1>18, <1>19

(* A new mailbox gets an address that nothing is left of.                    *)
LEMMA CreateStep ==
  ASSUME Careful, MOIndInv, NEW m \in Mailboxes, NEW b \in Addresses, Create(m, b) PROVE MOIndInv'
<1> USE OrdersAssumption DEF MOIndInv, Careful
<1>1. address[m] = None /\ ~HasMail(m) /\ m \notin kept
     /\ \A o \in orders \cup batch : o.mailbox # m
  BY DEF Create
<1>2. ~InUse(b) /\ Clear(b)
  BY DEF Create, Free
<1>3. UNCHANGED <<orders, home, buried, batch, current, kept>>
     /\ address' = [address EXCEPT ![m] = b]
  BY DEF Create, jobVars
<1>4. /\ address' \in [Mailboxes -> Addresses \cup {None}]
      /\ address'[m] = b /\ \A n \in Mailboxes \ {m} : address'[n] = address[n]
  BY <1>3 DEF MOTypeOK
<1>5. /\ home[b] = NoDir /\ ~Doomed(b)
      /\ \A n \in Mailboxes : ~Held(n, b) /\ RenameOrder(n, b) \notin orders \cup batch
  BY <1>2, FreeIsFresh
<1>6. \A n \in Mailboxes, a \in Addresses : Held(n, a)' => Held(n, a) \/ (n = m /\ a = b)
  BY <1>3, <1>4 DEF Held, Flying, Acting
<1>7. (\A a \in Addresses : Doomed(a)' <=> Doomed(a)) /\ \A n, a : Flying(n, a)' <=> Flying(n, a)
  BY <1>3 DEF Doomed, Flying, Acting
<1>8. \A a \in Addresses : ~MailIn(home[a], m)
  BY <1>1 DEF HasMail, HomesWithMail
<1>9. current # None /\ current.order.type = "rename" => current.order.mailbox # m
  <2> SUFFICES ASSUME current # None, current.order.type = "rename", current.order.mailbox = m
               PROVE  FALSE
    OBVIOUS
  <2>1. CASE current.step = "act"
    <3>1. Held(m, current.order.argument)
      BY <2>1 DEF Held, Flying, Acting
    <3> QED BY <1>8, <2>1, <3>1, CurrentIs, HeldMail DEF CurrentOK
  <2>2. CASE current.step = "done"
    BY <1>8, <2>2, CurrentIs DEF CurrentOK
  <2> QED BY <2>1, <2>2, CurrentIs
<1>10. MOTypeOK'
  <2>1. \A x, y \in Mailboxes : address'[x] = address'[y] => x = y \/ address'[x] = None
    BY <1>2, <1>4 DEF MOTypeOK, InUse
  <2>2. \A o \in orders : o.type = "rename" => address'[o.mailbox] # None
    <3>1. \A o \in orders : o.type = "rename" => o.mailbox \in Mailboxes \ {m}
      BY <1>1, OrdersAre DEF MOTypeOK
    <3> QED BY <1>4, <3>1 DEF MOTypeOK
  <2> QED BY <1>3, <1>4, <2>1, <2>2 DEF MOTypeOK
<1>11. Exclusive'
  BY <1>5, <1>6 DEF Exclusive
<1>12. HeldForOne'
  BY <1>3, <1>5, <1>6 DEF HeldForOne
<1>13. OneHome' /\ NoneBuried'
  BY <1>3 DEF OneHome, NoneBuried
<1>14. NeverBack'
  BY <1>3, <1>4, <1>5 DEF NeverBack
<1>15. Traced'
  BY <1>3, <1>4, <1>8 DEF Traced
<1>16. DoomedUnused'
  BY <1>3, <1>4, <1>5, <1>7 DEF DoomedUnused
<1>17. BatchOK'
  <2>1. \A o \in batch : o.type = "rename" => o.mailbox \in Mailboxes \ {m}
    BY <1>1, OrdersAre DEF MOTypeOK
  <2> QED BY <1>3, <1>4, <2>1 DEF BatchOK, Outdated
<1>18. CurrentOK'
  BY <1>3, <1>4, <1>9, CurrentIs DEF CurrentOK, Outdated
<1>19. KeptSafe'
  BY <1>1, <1>3, <1>4, <1>7 DEF KeptSafe, MOTypeOK
<1> QED BY <1>10, <1>11, <1>12, <1>13, <1>14, <1>15, <1>16, <1>17, <1>18, <1>19

(* Mailboxes leave their addresses, with an order each, for fresh ones.      *)
LEMMA ReaddressStep ==
  ASSUME Careful, MOIndInv, NEW new \in [Mailboxes -> Addresses \cup {None}],
         \A m \in Mailboxes : new[m] # address[m] =>
           /\ address[m] \in Addresses /\ new[m] \in Addresses
           /\ ~InUse(new[m]) /\ Clear(new[m]),
         \A m, n \in Mailboxes : new[m] = new[n] => m = n \/ new[m] = None,
         Readdress(new)
  PROVE  MOIndInv'
<1> USE OrdersAssumption DEF MOIndInv, Careful
<1> DEFINE Renamed == {m \in Mailboxes : new[m] # address[m]}
<1>1. /\ UNCHANGED <<home, buried, batch, current, kept>> /\ address' = new
      /\ orders' = orders \cup {RenameOrder(m, address[m]) : m \in Renamed}
  BY DEF Readdress, jobVars
<1>2. \A m \in Renamed : address[m] \in Addresses /\ new[m] \in Addresses /\ address[m] # None
     /\ new[m] # None
  OBVIOUS
<1>3. \A m \in Renamed :
        /\ home[new[m]] = NoDir /\ ~Doomed(new[m])
        /\ \A n \in Mailboxes : ~Held(n, new[m]) /\ RenameOrder(n, new[m]) \notin orders \cup batch
  BY FreeIsFresh
<1>4. \A m \in Mailboxes \ Renamed : new[m] = address[m]
  OBVIOUS
<1>n. \A m, n \in Mailboxes : new[m] = new[n] => m = n \/ new[m] = None
  OBVIOUS
<1> HIDE DEF Renamed
<1>r. Renamed \subseteq Mailboxes
  BY DEF Renamed
<1>5. /\ orders \subseteq orders'
      /\ \A o \in orders' : o \in orders \/ \E m \in Renamed : o = RenameOrder(m, address[m])
      /\ \A m \in Renamed : RenameOrder(m, address[m]) \in orders'
  BY <1>1
<1>6. \A m \in Mailboxes, a \in Addresses : RenameOrder(m, a) \in orders' =>
        RenameOrder(m, a) \in orders \/ (m \in Renamed /\ a = address[m])
  BY <1>5, RenameOrderIs
<1>7. \A a : DeleteOrder(a) \in orders' <=> DeleteOrder(a) \in orders
  BY <1>5, RenameOrderIs, DeleteOrderIs
<1>8. /\ \A m, a : Flying(m, a)' <=> Flying(m, a)
      /\ \A a \in Addresses : Doomed(a)' <=> Doomed(a)
  BY <1>1, <1>7 DEF Flying, Doomed, Acting
<1>9. \A m \in Mailboxes, a \in Addresses : Held(m, a)' =>
     Held(m, a) \/ (m \in Renamed /\ a = new[m])
  BY <1>1, <1>4, <1>6, <1>8 DEF Held
<1>10. MOTypeOK'
  <2>1. orders' \subseteq Orders
    BY <1>2, <1>5, <1>r, OrdersMade DEF MOTypeOK
  <2>2. \A o \in orders' : o.type = "rename" => address'[o.mailbox] # None
    <3>1. ASSUME NEW o \in orders, o.type = "rename" PROVE address'[o.mailbox] # None
      <4>1. o.mailbox \in Mailboxes /\ address[o.mailbox] # None
        BY <3>1, OrdersAre DEF MOTypeOK
      <4> QED BY <1>1, <1>2, <1>4, <4>1
    <3>2. \A m \in Renamed : address'[RenameOrder(m, address[m]).mailbox] # None
      BY <1>1, <1>2, RenameOrderIs
    <3> QED BY <1>5, <3>1, <3>2
  <2> QED BY <1>1, <1>n, <2>1, <2>2 DEF MOTypeOK
<1>11. Exclusive'
  BY <1>1, <1>2, <1>3, <1>9, <1>n, <1>r DEF Exclusive
<1>12. HeldForOne'
  BY <1>1, <1>3, <1>9 DEF HeldForOne
<1>13. OneHome' /\ NoneBuried'
  BY <1>1 DEF OneHome, NoneBuried
<1>14. NeverBack'
  <2> SUFFICES ASSUME NEW m \in Mailboxes, NEW a \in Addresses, new[m] = a
               PROVE  RenameOrder(m, a) \notin orders' \cup batch
    BY <1>1 DEF NeverBack
  <2>1. CASE m \in Renamed
    <3>1. address[m] # new[m]
      BY <2>1 DEF Renamed
    <3> QED BY <1>3, <1>6, <2>1, <3>1
  <2>2. CASE m \notin Renamed
    BY <1>4, <1>6, <2>2 DEF NeverBack
  <2> QED BY <2>1, <2>2
<1>15. Traced'
  <2> SUFFICES ASSUME NEW m \in Mailboxes, NEW a \in Addresses, new[m] # None, MailIn(home[a], m)
               PROVE  a = new[m] \/ RenameOrder(m, a) \in orders'
    BY <1>1 DEF Traced
  <2>1. address[m] # None
    BY <1>2, <1>4
  <2>2. a = address[m] \/ RenameOrder(m, a) \in orders
    BY <2>1 DEF Traced
  <2> QED BY <1>4, <1>5, <2>2
<1>16. DoomedUnused'
  <2> SUFFICES ASSUME NEW a \in Addresses, Doomed(a), NEW m \in Mailboxes
               PROVE  new[m] # a /\ RenameOrder(m, a) \notin orders' \cup batch
    BY <1>1, <1>8 DEF DoomedUnused
  <2>1. address[m] # a /\ RenameOrder(m, a) \notin orders \cup batch
    BY DEF DoomedUnused
  <2> QED BY <1>3, <1>4, <1>6, <2>1
<1>u. \A o \in Orders : Outdated(o) => Outdated(o)'
  <2> SUFFICES ASSUME NEW o \in Orders, Outdated(o) PROVE address'[o.mailbox] = None
    BY DEF Outdated
  <2>1. o.mailbox \in Mailboxes /\ address[o.mailbox] = None
    BY OrdersAre DEF Outdated
  <2> QED BY <1>1, <1>2, <1>4, <2>1
<1>17. BatchOK'
  BY <1>1, <1>5, <1>u DEF BatchOK, MOTypeOK
<1>18. CurrentOK'
  <2> SUFFICES ASSUME current # None PROVE CurrentOK'
    BY <1>1 DEF CurrentOK
  <2>1. current.order \in orders' \/ Outdated(current.order)'
    BY <1>1, <1>5, <1>u, CurrentIs DEF CurrentOK, Outdated
  <2>2. ASSUME current.step = "act", current.order.type = "rename",
               address'[current.order.mailbox] # None
        PROVE  \/ current.target = address'[current.order.mailbox]
               \/ RenameOrder(current.order.mailbox, current.target) \in orders'
    <3> DEFINE m == current.order.mailbox
    <3>1. m \in Mailboxes
      BY <2>2, CurrentIs
    <3>2. address[m] # None
      BY <1>1, <1>2, <1>4, <2>2, <3>1
    <3>3. current.target = address[m] \/ RenameOrder(m, current.target) \in orders
      BY <2>2, <3>2 DEF CurrentOK
    <3> QED BY <1>1, <1>4, <1>5, <3>1, <3>3
  <2>3. ASSUME current.step = "done", current.order \in orders' PROVE current.order \in orders
    <3> SUFFICES ASSUME NEW m \in Renamed, current.order = RenameOrder(m, address[m]),
                        current.order \notin orders
                 PROVE  FALSE
      BY <1>5, <2>3
    <3>1. address[m] = None
      BY RenameOrderIs DEF CurrentOK, Outdated
    <3> QED BY <1>2, <3>1
  <2> QED BY <1>1, <2>1, <2>2, <2>3 DEF CurrentOK
<1>19. KeptSafe'
  <2>1. \A m \in kept : address'[m] = None
    BY <1>1, <1>2, <1>4 DEF KeptSafe, MOTypeOK
  <2> QED BY <1>1, <1>8, <2>1 DEF KeptSafe
<1> QED BY <1>10, <1>11, <1>12, <1>13, <1>14, <1>15, <1>16, <1>17, <1>18, <1>19

(* A mailbox takes another address: the row moves, an order for its folder   *)
(* is left.                                                                  *)
LEMMA RenameMailboxStep ==
  ASSUME Careful, MOIndInv, NEW m \in Mailboxes, NEW a \in Addresses, RenameMailbox(m, a)
  PROVE  MOIndInv'
<1> DEFINE new == [address EXCEPT ![m] = a]
<1>1. /\ new \in [Mailboxes -> Addresses \cup {None}] /\ new[m] = a
      /\ \A n \in Mailboxes \ {m} : new[n] = address[n]
  BY DEF MOIndInv, MOTypeOK
<1>2. address[m] \in Addresses /\ ~InUse(a) /\ Clear(a) /\ Readdress(new)
  BY DEF RenameMailbox, Free, Careful, MOIndInv, MOTypeOK
<1> HIDE DEF new
<1>3. \A x, y \in Mailboxes : new[x] = new[y] => x = y \/ new[x] = None
  BY <1>1, <1>2 DEF MOIndInv, MOTypeOK, InUse
<1>4. \A n \in Mailboxes : new[n] # address[n] =>
        address[n] \in Addresses /\ new[n] \in Addresses /\ ~InUse(new[n]) /\ Clear(new[n])
  BY <1>1, <1>2
<1> QED BY <1>1, <1>2, <1>3, <1>4, ReaddressStep

(* The mailboxes of a domain take its new name, each with its order.         *)
LEMMA RenameDomainStep ==
  ASSUME Careful, MOIndInv, NEW d \in Domains, NEW e \in Domains, RenameDomain(d, e) PROVE MOIndInv'
<1> DEFINE renamed(a) == <<a[1], e>>
           Moved == {m \in Mailboxes : address[m] # None /\ address[m][2] = d}
           new == [m \in Mailboxes |-> IF m \in Moved THEN renamed(address[m]) ELSE address[m]]
<1>1. /\ \A l \in Locals : ~InUse(<<l, e>>)
      /\ \A m \in Moved : Free(renamed(address[m]))
      /\ Readdress(new)
  BY DEF RenameDomain
<1>2. \A m \in Moved : /\ address[m] \in Addresses /\ renamed(address[m]) \in Addresses
                       /\ ~InUse(renamed(address[m])) /\ Clear(renamed(address[m]))
  BY <1>1 DEF MOIndInv, MOTypeOK, Addresses, Free, Careful
<1>3. \A m, n \in Moved : renamed(address[m]) = renamed(address[n]) => m = n
  <2> SUFFICES ASSUME NEW m \in Moved, NEW n \in Moved, renamed(address[m]) = renamed(address[n])
               PROVE  m = n
    OBVIOUS
  <2>1. address[m][1] = address[n][1] /\ address[m][2] = address[n][2]
    OBVIOUS
  <2>2. address[m] = address[n]
    BY <1>2, <2>1, AddressesArePairs
  <2> QED BY <2>2, OrdersAssumption DEF MOIndInv, MOTypeOK
<1>4. /\ \A m \in Moved : new[m] = renamed(address[m])
      /\ \A m \in Mailboxes \ Moved : new[m] = address[m]
      /\ DOMAIN new = Mailboxes /\ new = [m \in Mailboxes |-> new[m]]
  OBVIOUS
<1>5. Moved \subseteq Mailboxes
  OBVIOUS
<1> HIDE DEF new, Moved, renamed
<1>6. \A x, y \in Mailboxes : new[x] = new[y] => x = y \/ new[x] = None
  <2> SUFFICES ASSUME NEW x \in Mailboxes, NEW y \in Mailboxes, new[x] = new[y], new[x] # None
               PROVE  x = y
    OBVIOUS
  <2>1. CASE x \in Moved /\ y \in Moved
    BY <1>3, <1>4, <2>1
  <2>2. CASE x \notin Moved /\ y \notin Moved
    BY <1>4, <2>2 DEF MOIndInv, MOTypeOK
  <2>3. CASE x \in Moved /\ y \notin Moved
    BY <1>2, <1>4, <2>3 DEF InUse
  <2>4. CASE x \notin Moved /\ y \in Moved
    BY <1>2, <1>4, <2>4 DEF InUse
  <2> QED BY <2>1, <2>2, <2>3, <2>4
<1>7. \A n \in Mailboxes : new[n] # address[n] =>
        address[n] \in Addresses /\ new[n] \in Addresses /\ ~InUse(new[n]) /\ Clear(new[n])
  BY <1>2, <1>4
<1>8. new \in [Mailboxes -> Addresses \cup {None}]
  <2>1. \A n \in Mailboxes : address[n] \in Addresses \cup {None}
    BY DEF MOIndInv, MOTypeOK
  <2>2. \A n \in Mailboxes : new[n] \in Addresses \cup {None}
    BY <1>2, <1>4, <2>1
  <2> QED BY <1>4, <2>2
<1> QED BY <1>1, <1>6, <1>7, <1>8, ReaddressStep

(* Mailboxes go, with their orders; their folders are removed or kept.       *)
LEMMA ForgetStep ==
  ASSUME Careful, MOIndInv, NEW S \in SUBSET Mailboxes, \A m \in S : address[m] # None,
         NEW folders \in SUBSET {address[m] : m \in S}, Forget(S, folders),
         \/ kept' = kept
         \/ \E m \in Mailboxes : S = {m} /\ folders = {} /\ kept' = kept \cup {m}
  PROVE  MOIndInv'
<1> USE OrdersAssumption DEF MOIndInv, Careful
<1>1. /\ UNCHANGED <<home, buried, batch, current>>
      /\ address' = [m \in Mailboxes |-> IF m \in S THEN None ELSE address[m]]
      /\ orders' = {o \in orders : o.mailbox \notin S} \cup {DeleteOrder(a) : a \in folders}
  BY DEF Forget, jobVars
<1>2. \A a \in folders : a \in Addresses /\ \E m \in S : address[m] = a
  BY DEF MOTypeOK
<1>k. \/ kept' = kept
      \/ \E m \in Mailboxes : S = {m} /\ folders = {} /\ kept' = kept \cup {m}
  OBVIOUS
<1>3. /\ address' \in [Mailboxes -> Addresses \cup {None}]
      /\ \A m \in S : address'[m] = None
      /\ \A m \in Mailboxes \ S : address'[m] = address[m]
  BY <1>1 DEF MOTypeOK
<1>4. /\ \A m \in Mailboxes, a \in Addresses :
           RenameOrder(m, a) \in orders' <=> RenameOrder(m, a) \in orders /\ m \notin S
      /\ \A a : DeleteOrder(a) \in orders' <=> DeleteOrder(a) \in orders \/ a \in folders
  BY <1>1, RenameOrderIs, DeleteOrderIs
<1>5. /\ \A m, a : Flying(m, a)' <=> Flying(m, a)
      /\ \A a \in Addresses : Doomed(a)' <=> Doomed(a) \/ a \in folders
  BY <1>1, <1>4 DEF Flying, Doomed, Acting
<1>6. \A m \in Mailboxes, a \in Addresses : Held(m, a)' => Held(m, a)
  BY <1>1, <1>3, <1>4, <1>5 DEF Held
<1>7. \A a \in folders, m \in Mailboxes : Held(m, a) => m \in S /\ address[m] = a
  BY <1>2 DEF Exclusive, Held
<1>8. MOTypeOK'
  <2>1. orders' \subseteq Orders
    BY <1>1, <1>2, OrdersMade DEF MOTypeOK
  <2>2. \A o \in orders' : o.type = "rename" => address'[o.mailbox] # None
    <3> SUFFICES ASSUME NEW o \in orders', o.type = "rename" PROVE address'[o.mailbox] # None
      OBVIOUS
    <3>1. o \in orders /\ o.mailbox \notin S
      BY <1>1, DeleteOrderIs
    <3>2. o.mailbox \in Mailboxes /\ address[o.mailbox] # None
      BY <3>1, OrdersAre DEF MOTypeOK
    <3> QED BY <1>3, <3>1, <3>2
  <2>3. kept' \subseteq Mailboxes
    BY <1>k DEF MOTypeOK
  <2>4. \A x, y \in Mailboxes : address'[x] = address'[y] => x = y \/ address'[x] = None
    BY <1>3 DEF MOTypeOK
  <2> QED BY <1>1, <1>3, <2>1, <2>2, <2>3, <2>4 DEF MOTypeOK
<1>9. Exclusive' /\ HeldForOne'
  BY <1>1, <1>6 DEF Exclusive, HeldForOne
<1>10. OneHome' /\ NoneBuried'
  BY <1>1 DEF OneHome, NoneBuried
<1>11. NeverBack'
  BY <1>1, <1>3, <1>4 DEF NeverBack
<1>12. Traced'
  BY <1>1, <1>3, <1>4 DEF Traced
<1>13. DoomedUnused'
  <2> SUFFICES ASSUME NEW a \in Addresses, Doomed(a)', NEW m \in Mailboxes
               PROVE  address'[m] # a /\ RenameOrder(m, a) \notin orders' \cup batch
    BY <1>1 DEF DoomedUnused
  <2>1. CASE Doomed(a)
    BY <1>3, <1>4, <2>1 DEF DoomedUnused
  <2>2. CASE a \in folders
    <3>1. Held(m, a) => m \in S /\ address[m] = a
      BY <1>7, <2>2
    <3>2. address'[m] # a
      BY <1>3, <3>1 DEF Held
    <3>3. RenameOrder(m, a) \notin orders \cup batch
      BY <3>1 DEF Held, NeverBack
    <3> QED BY <1>4, <3>2, <3>3
  <2> QED BY <1>5, <2>1, <2>2
<1>u. \A o \in Orders : o \in orders \/ Outdated(o) => o \in orders' \/ Outdated(o)'
  <2> SUFFICES ASSUME NEW o \in Orders, o \in orders \/ Outdated(o), o \notin orders'
               PROVE  Outdated(o)'
    OBVIOUS
  <2>1. o.type = "rename" /\ o.mailbox \in Mailboxes
    BY <1>1, OrdersAre DEF Outdated
  <2>2. address'[o.mailbox] = None
    BY <1>1, <1>3, <2>1 DEF Outdated
  <2> QED BY <2>1, <2>2 DEF Outdated
<1>14. BatchOK'
  BY <1>1, <1>u DEF BatchOK, MOTypeOK
<1>15. CurrentOK'
  <2> SUFFICES ASSUME current # None PROVE CurrentOK'
    BY <1>1 DEF CurrentOK
  <2>1. current.order \in orders' \/ Outdated(current.order)'
    BY <1>1, <1>u, CurrentIs DEF CurrentOK, Outdated
  <2>2. ASSUME current.step = "act", current.order.type = "rename",
               address'[current.order.mailbox] # None
        PROVE  \/ current.target = address'[current.order.mailbox]
               \/ RenameOrder(current.order.mailbox, current.target) \in orders'
    <3>1. current.order.mailbox \in Mailboxes \ S /\ current.target \in Addresses
      BY <1>3, <2>2, CurrentIs DEF CurrentOK
    <3> QED BY <1>3, <1>4, <2>2, <3>1 DEF CurrentOK
  <2>3. ASSUME current.step = "done", current.order \in orders'
        PROVE  home[current.order.argument] = NoDir
    <3>1. CASE current.order \in orders
      BY <2>3, <3>1 DEF CurrentOK
    <3>2. CASE current.order \notin orders
      <4>1. current.order.type = "rename"
        BY <3>2 DEF CurrentOK, Outdated
      <4> QED BY <1>1, <2>3, <3>2, <4>1, DeleteOrderIs
    <3> QED BY <3>1, <3>2
  <2> QED BY <1>1, <2>1, <2>2, <2>3 DEF CurrentOK
<1>16. KeptSafe'
  <2> SUFFICES ASSUME NEW m \in kept'
               PROVE  /\ address'[m] = None
                      /\ \A a \in Addresses : MailIn(home[a], m) \/ Flying(m, a) => ~Doomed(a)'
    BY <1>1, <1>5 DEF KeptSafe
  <2>1. CASE m \in kept
    <3>1. m \in Mailboxes /\ address[m] = None /\ m \notin S
      BY <2>1 DEF KeptSafe, MOTypeOK
    <3>2. ASSUME NEW a \in Addresses, a \in folders, MailIn(home[a], m) \/ Flying(m, a) PROVE FALSE
      <4>1. PICK n \in S : address[n] = a
        BY <1>2, <3>2
      <4>2. Held(n, a)
        BY <4>1 DEF Held
      <4>3. m = n
        <5>1. CASE MailIn(home[a], m)
          BY <3>1, <4>2, <5>1, HeldMail DEF MailIn
        <5>2. CASE Flying(m, a)
          BY <3>1, <4>2, <5>2 DEF Exclusive, Held
        <5> QED BY <3>2, <5>1, <5>2
      <4> QED BY <3>1, <4>3
    <3> QED BY <1>3, <1>5, <2>1, <3>1, <3>2 DEF KeptSafe
  <2>2. CASE m \notin kept
    <3>1. m \in S /\ m \in Mailboxes /\ folders = {}
      BY <1>k, <2>2
    <3>2. address[m] # None
      BY <3>1
    <3>3. ASSUME NEW a \in Addresses, MailIn(home[a], m) PROVE ~Doomed(a)
      BY <3>1, <3>2, <3>3 DEF Traced, DoomedUnused
    <3>4. ASSUME NEW a \in Addresses, Flying(m, a) PROVE ~Doomed(a)
      <4>1. /\ current # None /\ current.step = "act" /\ current.order.type = "rename"
            /\ current.order.mailbox = m /\ (a = current.order.argument \/ a = current.target)
        BY <3>4 DEF Flying, Acting
      <4>2. current.order \in orders /\ current.order = RenameOrder(m, current.order.argument)
        BY <3>2, <4>1, CurrentIs DEF CurrentOK, Outdated
      <4>3. address[m] = a \/ RenameOrder(m, a) \in orders
        BY <3>2, <4>1, <4>2 DEF CurrentOK
      <4> QED BY <3>1, <4>3 DEF DoomedUnused
    <3> QED BY <1>3, <1>5, <3>1, <3>3, <3>4
  <2> QED BY <2>1, <2>2
<1> QED BY <1>8, <1>9, <1>10, <1>11, <1>12, <1>13, <1>14, <1>15, <1>16

(* A mailbox goes, with the order to remove its folder.                      *)
LEMMA DeleteStep ==
  ASSUME Careful, MOIndInv, NEW m \in Mailboxes, NEW keepdir \in BOOLEAN, Delete(m, keepdir)
  PROVE  MOIndInv'
<1>1. CASE keepdir
  BY <1>1, ForgetStep DEF Delete
<1>2. CASE ~keepdir
  BY <1>2, ForgetStep DEF Delete
<1> QED BY <1>1, <1>2

(* The mailboxes of a domain go with it.                                     *)
LEMMA DeleteManyStep ==
  ASSUME Careful, MOIndInv, NEW S \in SUBSET Mailboxes, NEW keep \in BOOLEAN, DeleteMany(S, keep)
  PROVE  MOIndInv'
  BY ForgetStep DEF DeleteMany, Careful

-----------------------------------------------------------------------------
(* A run begins with the rows that there are.                                *)
LEMMA StartRunStep == ASSUME Careful, MOIndInv, handle_mailbox_operations PROVE MOIndInv'
<1> USE OrdersAssumption DEF MOIndInv, Careful
<1> USE DEF handle_mailbox_operations
<1>1. MOTypeOK'
  BY DEF MOTypeOK
<1>2. \A x \in Mailboxes, y \in Addresses : Held(x, y)' => Held(x, y)
  BY DEF Held, Flying, Acting
<1>3. \A y \in Addresses : Doomed(y)' => Doomed(y)
  BY DEF Doomed, Acting
<1>4. \A x \in kept, y \in Addresses : Flying(x, y)' => Flying(x, y)
  BY DEF Flying, Acting
<1>5. /\ Exclusive' /\ HeldForOne' /\ OneHome' /\ NoneBuried' /\ NeverBack' /\ DoomedUnused'
      /\ KeptSafe'
  BY <1>2, <1>3, <1>4, QuietKeeps
<1>6. Traced'
  BY DEF Traced
<1>7. BatchOK'
  BY DEF BatchOK, Outdated
<1>8. CurrentOK'
  BY DEF CurrentOK
<1> QED BY <1>1, <1>5, <1>6, <1>7, <1>8

(* An order is dropped: there is nothing to move or to remove.               *)
LEMMA FolderNotFoundStep ==
  ASSUME Careful, MOIndInv, NEW o \in batch, FolderNotFound(o) PROVE MOIndInv'
<1> USE OrdersAssumption DEF MOIndInv, Careful
<1> USE DEF FolderNotFound
<1>1. MOTypeOK'
  BY DEF MOTypeOK
<1>2. \A x \in Mailboxes, y \in Addresses : Held(x, y)' => Held(x, y)
  BY DEF Held, Flying, Acting
<1>3. \A y \in Addresses : Doomed(y)' => Doomed(y)
  BY DEF Doomed, Acting
<1>4. \A x \in kept, y \in Addresses : Flying(x, y)' => Flying(x, y)
  BY DEF Flying, Acting
<1>5. /\ Exclusive' /\ HeldForOne' /\ OneHome' /\ NoneBuried' /\ NeverBack' /\ DoomedUnused'
      /\ KeptSafe'
  BY <1>2, <1>3, <1>4, QuietKeeps
<1>6. Traced'
  BY RenameOrderIs DEF Traced, MailIn
<1>7. BatchOK'
  BY DEF BatchOK, Outdated
<1>8. CurrentOK'
  BY DEF CurrentOK
<1> QED BY <1>1, <1>5, <1>6, <1>7, <1>8

(* The present address is read.                                              *)
LEMMA StartRenameStep == ASSUME Careful, MOIndInv, NEW o \in batch, StartRename(o) PROVE MOIndInv'
<1> USE OrdersAssumption DEF MOIndInv, Careful
<1> USE DEF StartRename, EndRun
<1>9. /\ o \in Orders /\ o.mailbox \in Mailboxes /\ o.type = "rename"
      /\ o = RenameOrder(o.mailbox, o.argument) /\ address[o.mailbox] \in Addresses \cup {None}
  BY OrdersAre DEF MOTypeOK
<1>10. address[o.mailbox] # None =>
         /\ current' = [order |-> o, step |-> "act", target |-> address[o.mailbox]]
         /\ current'.order = o /\ current'.step = "act" /\ current'.target = address[o.mailbox]
         /\ address[o.mailbox] \in Addresses /\ batch' = batch \ {o} /\ o.mailbox \notin kept
  BY <1>9 DEF KeptSafe
<1>1. MOTypeOK'
  BY <1>9, <1>10 DEF MOTypeOK
<1>2. \A x \in Mailboxes, y \in Addresses : Held(x, y)' => Held(x, y)
  BY <1>9, <1>10 DEF Held, Flying, Acting
<1>3. \A y \in Addresses : Doomed(y)' => Doomed(y)
  BY <1>9, <1>10 DEF Doomed, Acting
<1>4. \A x \in kept, y \in Addresses : Flying(x, y)' => Flying(x, y)
  BY <1>9, <1>10 DEF Flying, Acting
<1>5. /\ Exclusive' /\ HeldForOne' /\ OneHome' /\ NoneBuried' /\ NeverBack' /\ DoomedUnused'
      /\ KeptSafe'
  BY <1>2, <1>3, <1>4, QuietKeeps
<1>6. Traced'
  BY DEF Traced
<1>7. BatchOK'
  BY DEF BatchOK, Outdated
<1>8. CurrentOK'
  <2>1. CASE address[o.mailbox] = None
    BY <2>1 DEF CurrentOK
  <2>2. CASE address[o.mailbox] # None
    BY <1>9, <1>10, <2>2 DEF CurrentOK, BatchOK, Outdated
  <2> QED BY <2>1, <2>2
<1> QED BY <1>1, <1>5, <1>6, <1>7, <1>8

(* The folder to remove exists.                                              *)
LEMMA StartDeleteStep == ASSUME Careful, MOIndInv, NEW o \in batch, StartDelete(o) PROVE MOIndInv'
<1> USE OrdersAssumption DEF MOIndInv, Careful
<1> USE DEF StartDelete
<1>9. o \in Orders /\ o.type = "delete" /\ o = DeleteOrder(o.argument)
  BY OrdersAre DEF MOTypeOK
<1>10. current'.order = o /\ current'.step = "act" /\ current'.target = None
  OBVIOUS
<1>1. MOTypeOK'
  BY <1>9, <1>10 DEF MOTypeOK
<1>2. \A x \in Mailboxes, y \in Addresses : Held(x, y)' => Held(x, y)
  BY <1>9, <1>10 DEF Held, Flying, Acting
<1>3. \A y \in Addresses : Doomed(y)' => Doomed(y)
  BY <1>9, <1>10 DEF Doomed, Acting
<1>4. \A x \in kept, y \in Addresses : Flying(x, y)' => Flying(x, y)
  BY <1>9, <1>10 DEF Flying, Acting
<1>5. /\ Exclusive' /\ HeldForOne' /\ OneHome' /\ NoneBuried' /\ NeverBack' /\ DoomedUnused'
      /\ KeptSafe'
  BY <1>2, <1>3, <1>4, QuietKeeps
<1>6. Traced'
  BY DEF Traced
<1>7. BatchOK'
  BY DEF BatchOK, Outdated
<1>8. CurrentOK'
  BY <1>9, <1>10 DEF CurrentOK, BatchOK, Outdated
<1> QED BY <1>1, <1>5, <1>6, <1>7, <1>8

(* The order stays for the next run.                                         *)
LEMMA RenameFailsStep == ASSUME Careful, MOIndInv, RenameFails PROVE MOIndInv'
<1> USE OrdersAssumption DEF MOIndInv, Careful
<1> USE DEF RenameFails
<1>1. MOTypeOK'
  BY DEF MOTypeOK
<1>2. \A x \in Mailboxes, y \in Addresses : Held(x, y)' => Held(x, y)
  BY DEF Held, Flying, Acting
<1>3. \A y \in Addresses : Doomed(y)' => Doomed(y)
  BY DEF Doomed, Acting
<1>4. \A x \in kept, y \in Addresses : Flying(x, y)' => Flying(x, y)
  BY DEF Flying, Acting
<1>5. /\ Exclusive' /\ HeldForOne' /\ OneHome' /\ NoneBuried' /\ NeverBack' /\ DoomedUnused'
      /\ KeptSafe'
  BY <1>2, <1>3, <1>4, QuietKeeps
<1>6. Traced'
  BY DEF Traced
<1>7. BatchOK'
  BY DEF BatchOK, Outdated
<1>8. CurrentOK'
  BY DEF CurrentOK
<1> QED BY <1>1, <1>5, <1>6, <1>7, <1>8

(* The order goes: its folder has.                                           *)
LEMMA ExecutedStep == ASSUME Careful, MOIndInv, Executed PROVE MOIndInv'
<1> USE OrdersAssumption DEF MOIndInv, Careful
<1> USE DEF Executed
<1>1. MOTypeOK'
  BY DEF MOTypeOK
<1>2. \A x \in Mailboxes, y \in Addresses : Held(x, y)' => Held(x, y)
  BY DEF Held, Flying, Acting
<1>3. \A y \in Addresses : Doomed(y)' => Doomed(y)
  BY DEF Doomed, Acting
<1>4. \A x \in kept, y \in Addresses : Flying(x, y)' => Flying(x, y)
  BY DEF Flying, Acting
<1>5. /\ Exclusive' /\ HeldForOne' /\ OneHome' /\ NoneBuried' /\ NeverBack' /\ DoomedUnused'
      /\ KeptSafe'
  BY <1>2, <1>3, <1>4, QuietKeeps
<1>6. Traced'
  <2>1. ASSUME NEW m \in Mailboxes, NEW a \in Addresses, MailIn(home[a], m), RenameOrder(m,
               a) \in orders
        PROVE  RenameOrder(m, a) # current.order
    BY <2>1, RenameOrderIs DEF CurrentOK, MailIn
  <2> QED BY <2>1 DEF Traced
<1>7. BatchOK'
  BY DEF BatchOK, Outdated, CurrentOK
<1>8. CurrentOK'
  BY DEF CurrentOK
<1> QED BY <1>1, <1>5, <1>6, <1>7, <1>8

(* What was going on is forgotten; the orders are not.                       *)
LEMMA CrashStep == ASSUME Careful, MOIndInv, Crash PROVE MOIndInv'
<1> USE OrdersAssumption DEF MOIndInv, Careful
<1> USE DEF Crash, EndRun
<1>1. MOTypeOK'
  BY DEF MOTypeOK
<1>2. \A x \in Mailboxes, y \in Addresses : Held(x, y)' => Held(x, y)
  BY DEF Held, Flying, Acting
<1>3. \A y \in Addresses : Doomed(y)' => Doomed(y)
  BY DEF Doomed, Acting
<1>4. \A x \in kept, y \in Addresses : Flying(x, y)' => Flying(x, y)
  BY DEF Flying, Acting
<1>5. /\ Exclusive' /\ HeldForOne' /\ OneHome' /\ NoneBuried' /\ NeverBack' /\ DoomedUnused'
      /\ KeptSafe'
  BY <1>2, <1>3, <1>4, QuietKeeps
<1>6. Traced'
  BY DEF Traced
<1>7. BatchOK'
  BY DEF BatchOK, Outdated
<1>8. CurrentOK'
  BY DEF CurrentOK
<1> QED BY <1>1, <1>5, <1>6, <1>7, <1>8

(* The folder and its mail move to where its mailbox was.                    *)
LEMMA RenameMailboxDirStep == ASSUME Careful, MOIndInv, rename_mailbox PROVE MOIndInv'
<1> USE OrdersAssumption DEF MOIndInv, Careful
<1> DEFINE m == current.order.mailbox
           a == current.order.argument
           b == current.target
<1>1. /\ current # None /\ current.step = "act" /\ current.order.type = "rename"
      /\ Movable(a, b) /\ Move(a, b) /\ current' = [current EXCEPT !.step = "done"]
      /\ UNCHANGED <<address, orders, batch, kept>>
  BY DEF rename_mailbox, Acting
<1>2. /\ m \in Mailboxes /\ a \in Addresses /\ b \in Addresses /\ a # b
      /\ current.order = RenameOrder(m, a) /\ home[a] # NoDir
  BY <1>1, CurrentIs DEF CurrentOK, Movable
<1>3. Held(m, a) /\ Held(m, b) /\ Flying(m, b)
  BY <1>1, <1>2 DEF Held, Flying, Acting
<1>4. home[a] = {m} /\ home[b] = NoDir
  <2>1. home[a] = {m} /\ MailIn(home[a], m)
    BY <1>2, <1>3, HeldMail
  <2> QED BY <1>2, <1>3, <2>1, HeldMail DEF OneHome
<1>5. /\ home' = [home EXCEPT ![a] = NoDir, ![b] = {m}]
      /\ buried' = [buried EXCEPT ![a] = NoSubfolders, ![b] = NoSubfolders]
  <2>1. home' = [home EXCEPT ![a] = NoDir, ![b] = home[a]]
    BY <1>1, <1>2, <1>4 DEF Move, MOTypeOK
  <2>2. buried' = [buried EXCEPT ![a] = NoSubfolders, ![b] = buried[a]]
    BY <1>1, <1>2, <1>4 DEF Move, MOTypeOK
  <2> QED BY <1>2, <1>4, <2>1, <2>2 DEF NoneBuried
<1>6. /\ home' \in [Addresses -> Folders] /\ home'[a] = NoDir /\ home'[b] = {m} /\ home'[b] # NoDir
      /\ \A y \in Addresses \ {a, b} : home'[y] = home[y]
  BY <1>2, <1>5, FoldersAre, ZenonT(60) DEF MOTypeOK
<1>7. buried' \in [Addresses -> [Locals -> Folders]]
     /\ \A y \in Addresses : buried'[y] = NoSubfolders
  BY <1>2, <1>5 DEF MOTypeOK, NoneBuried
<1>8. /\ current' \in [order : Orders, step : {"act", "done"}, target : Addresses \cup {None}]
      /\ current'.order = current.order /\ current'.step = "done" /\ current'.target = b
  BY <1>1, CurrentIs
<1>9. /\ \A x, y : ~Flying(x, y)'
      /\ \A y \in Addresses : Doomed(y)' => Doomed(y)
      /\ \A x \in Mailboxes, y \in Addresses : Held(x, y)' => Held(x, y)
  BY <1>1, <1>8 DEF Flying, Doomed, Held, Acting
<1> HIDE DEF m, a, b
<1>10. \A x \in Mailboxes, y \in Addresses :
         MailIn(home'[y], x) => (x = m /\ y = b) \/ (x # m /\ y # a /\ y # b /\ MailIn(home[y], x))
  <2>1. \A y \in Addresses : MailIn(home[y], m) => y = a
    BY <1>2, <1>3, HeldMail DEF OneHome
  <2> QED BY <1>2, <1>6, <2>1 DEF MailIn
<1>11. MOTypeOK'
  BY <1>1, <1>6, <1>7, <1>8 DEF MOTypeOK
<1>12. Exclusive'
  BY <1>9 DEF Exclusive
<1>13. HeldForOne'
  BY <1>2, <1>3, <1>6, <1>9 DEF HeldForOne, Exclusive
<1>14. OneHome' /\ NoneBuried'
  BY <1>7, <1>10 DEF OneHome, NoneBuried
<1>15. Traced'
  <2>1. address[m] # None => b = address[m] \/ RenameOrder(m, b) \in orders
    BY <1>1 DEF CurrentOK, m, b
  <2> QED BY <1>1, <1>10, <2>1 DEF Traced
<1>16. NeverBack' /\ DoomedUnused' /\ BatchOK'
  BY <1>1, <1>9 DEF NeverBack, DoomedUnused, BatchOK, Outdated
<1>17. CurrentOK'
  BY <1>1, <1>2, <1>6, <1>8, RenameOrderIs DEF CurrentOK, Outdated, MailIn
<1>18. KeptSafe'
  BY <1>1, <1>2, <1>3, <1>9, <1>10 DEF KeptSafe, MOTypeOK
<1> QED BY <1>11, <1>12, <1>13, <1>14, <1>15, <1>16, <1>17, <1>18

(* The folder goes.                                                          *)
LEMMA DeleteMailboxDirStep == ASSUME Careful, MOIndInv, delete_mailbox PROVE MOIndInv'
<1> USE OrdersAssumption DEF MOIndInv, Careful
<1> DEFINE a == current.order.argument
<1>1. /\ current # None /\ current.step = "act" /\ current.order.type = "delete"
      /\ a \in Addresses /\ current.order = DeleteOrder(a) /\ home[a] # NoDir /\ Doomed(a)
  BY CurrentIs DEF delete_mailbox, Acting, CurrentOK, Doomed
<1>2. /\ home' \in [Addresses -> Folders] /\ (\A y \in Addresses \ {a} : home'[y] = home[y])
      /\ \A x \in Mailboxes : MailIn(home'[a], x) => MailIn(home[a], x)
      /\ home'[a] = NoDir
  BY <1>1, FoldersAre DEF delete_mailbox, MOTypeOK, MailIn
<1>3. buried' \in [Addresses -> [Locals -> Folders]]
     /\ \A y \in Addresses : buried'[y] = NoSubfolders
  BY <1>1 DEF delete_mailbox, MOTypeOK, NoneBuried
<1>4. UNCHANGED <<address, kept>> /\ UNCHANGED <<orders, batch>>
      /\ current' \in [order : Orders, step : {"act", "done"}, target : Addresses \cup {None}]
      /\ current'.order = current.order /\ current'.step = "done"
      /\ current'.target = current.target
  BY <1>1, CurrentIs DEF delete_mailbox, EndRun
<1>5. /\ \A x, y : ~Flying(x, y)'
      /\ \A y \in Addresses : Doomed(y)' => Doomed(y)
      /\ \A x \in Mailboxes, y \in Addresses : Held(x, y)' => Held(x, y)
  BY <1>1, <1>4 DEF Flying, Doomed, Held, Acting
<1>6. \A x \in Mailboxes : ~Held(x, a)
  BY <1>1 DEF DoomedUnused, Held, Flying, Acting
<1> HIDE DEF a
<1>7. MOTypeOK'
  BY <1>2, <1>3, <1>4 DEF MOTypeOK
<1>8. Exclusive'
  BY <1>5 DEF Exclusive
<1>9. HeldForOne'
  BY <1>2, <1>5, <1>6 DEF HeldForOne
<1>10. OneHome' /\ NoneBuried'
  BY <1>2, <1>3 DEF OneHome, NoneBuried
<1>11. Traced'
  <2>1. \A x \in Mailboxes, y \in Addresses : RenameOrder(x, y) \in orders =>
       RenameOrder(x, y) \in orders'
    BY <1>1, <1>4, RenameOrderIs, DeleteOrderIs
  <2>2. \A x \in Mailboxes, y \in Addresses : MailIn(home'[y], x) => MailIn(home[y], x)
    BY <1>2
  <2> QED BY <1>4, <2>1, <2>2 DEF Traced
<1>12. NeverBack' /\ DoomedUnused'
  BY <1>4, <1>5 DEF NeverBack, DoomedUnused
<1>13. BatchOK'
  BY <1>4 DEF BatchOK, Outdated
<1>14. CurrentOK'
  BY <1>1, <1>2, <1>4 DEF CurrentOK, Outdated, a
<1>15. KeptSafe'
  <2>1. \A x \in kept, y \in Addresses : MailIn(home'[y], x) => MailIn(home[y], x)
    BY <1>2 DEF MOTypeOK
  <2> QED BY <1>4, <1>5, <2>1 DEF KeptSafe
<1> QED BY <1>7, <1>8, <1>9, <1>10, <1>11, <1>12, <1>13, <1>14, <1>15

(* Some of the files go.                                                     *)
LEMMA DeleteFailsStep == ASSUME Careful, MOIndInv, DeleteFails PROVE MOIndInv'
<1> USE OrdersAssumption DEF MOIndInv, Careful
<1> DEFINE a == current.order.argument
<1>1. /\ current # None /\ current.step = "act" /\ current.order.type = "delete"
      /\ a \in Addresses /\ current.order = DeleteOrder(a) /\ home[a] # NoDir /\ Doomed(a)
  BY CurrentIs DEF DeleteFails, Acting, CurrentOK, Doomed
<1>2. /\ home' \in [Addresses -> Folders] /\ (\A y \in Addresses \ {a} : home'[y] = home[y])
      /\ \A x \in Mailboxes : MailIn(home'[a], x) => MailIn(home[a], x)
      /\ TRUE
  BY <1>1, FoldersAre DEF DeleteFails, MOTypeOK, MailIn
<1>3. buried' \in [Addresses -> [Locals -> Folders]]
     /\ \A y \in Addresses : buried'[y] = NoSubfolders
  BY <1>1 DEF DeleteFails, MOTypeOK, NoneBuried
<1>4. UNCHANGED <<address, kept>> /\ orders' = orders \ {current.order}
      /\ batch' = {} /\ current' = None
  BY <1>1, CurrentIs DEF DeleteFails, EndRun
<1>5. /\ \A x, y : ~Flying(x, y)'
      /\ \A y \in Addresses : Doomed(y)' => Doomed(y)
      /\ \A x \in Mailboxes, y \in Addresses : Held(x, y)' => Held(x, y)
  BY <1>1, <1>4 DEF Flying, Doomed, Held, Acting
<1>6. \A x \in Mailboxes : ~Held(x, a)
  BY <1>1 DEF DoomedUnused, Held, Flying, Acting
<1> HIDE DEF a
<1>7. MOTypeOK'
  BY <1>2, <1>3, <1>4 DEF MOTypeOK
<1>8. Exclusive'
  BY <1>5 DEF Exclusive
<1>9. HeldForOne'
  BY <1>2, <1>5, <1>6 DEF HeldForOne
<1>10. OneHome' /\ NoneBuried'
  BY <1>2, <1>3 DEF OneHome, NoneBuried
<1>11. Traced'
  <2>1. \A x \in Mailboxes, y \in Addresses : RenameOrder(x, y) \in orders =>
       RenameOrder(x, y) \in orders'
    BY <1>1, <1>4, RenameOrderIs, DeleteOrderIs
  <2>2. \A x \in Mailboxes, y \in Addresses : MailIn(home'[y], x) => MailIn(home[y], x)
    BY <1>2
  <2> QED BY <1>4, <2>1, <2>2 DEF Traced
<1>12. NeverBack' /\ DoomedUnused'
  BY <1>4, <1>5 DEF NeverBack, DoomedUnused
<1>13. BatchOK'
  BY <1>4 DEF BatchOK, Outdated
<1>14. CurrentOK'
  BY <1>1, <1>2, <1>4 DEF CurrentOK, Outdated, a
<1>15. KeptSafe'
  <2>1. \A x \in kept, y \in Addresses : MailIn(home'[y], x) => MailIn(home[y], x)
    BY <1>2 DEF MOTypeOK
  <2> QED BY <1>4, <1>5, <2>1 DEF KeptSafe
<1> QED BY <1>7, <1>8, <1>9, <1>10, <1>11, <1>12, <1>13, <1>14, <1>15

-----------------------------------------------------------------------------
(* Every request, delivery, step and end of the job.                         *)
LEMMA MOStepKeeps == ASSUME Careful, MOIndInv, [Next]_vars PROVE MOIndInv'
<1>1. CASE UNCHANGED vars
  <2>1. UNCHANGED <<address, orders, home, buried, batch, current, kept>>
    BY <1>1 DEF vars, jobVars
  <2> QED BY <2>1 DEF MOIndInv, MOTypeOK, Exclusive, HeldForOne, OneHome, NoneBuried, Traced,
       NeverBack,
        DoomedUnused, BatchOK, CurrentOK, KeptSafe, Held, Flying, Doomed, Acting, Outdated
<1>2. ASSUME Request PROVE MOIndInv'
  BY <1>2, CreateStep, RenameMailboxStep, DeleteStep, RenameDomainStep, DeleteManyStep DEF Request
<1>3. ASSUME JobStep PROVE MOIndInv'
  BY <1>3, StartRunStep, FolderNotFoundStep, StartRenameStep, StartDeleteStep, RenameMailboxDirStep,
     RenameFailsStep, DeleteMailboxDirStep, DeleteFailsStep, ExecutedStep DEF JobStep
<1>4. ASSUME Next PROVE MOIndInv'
  BY <1>2, <1>3, <1>4, DeliverStep, CrashStep DEF Next
<1> QED BY <1>1, <1>4

(* The first state has no mailboxes.                                         *)
LEMMA MOInitOK == ASSUME Init PROVE MOIndInv
<1> USE OrdersAssumption, FoldersAre DEF Init
<1>1. MOTypeOK
  BY DEF MOTypeOK, NoSubfolders
<1>2. \A m \in Mailboxes, a \in Addresses : ~Held(m, a)
  BY DEF Held, Flying, Acting
<1>3. Exclusive /\ HeldForOne
  BY <1>2 DEF Exclusive, HeldForOne
<1>4. OneHome /\ NoneBuried /\ Traced
  BY DEF OneHome, NoneBuried, Traced, MailIn
<1>5. NeverBack /\ DoomedUnused /\ BatchOK /\ CurrentOK /\ KeptSafe
  BY DEF NeverBack, DoomedUnused, Doomed, Acting, BatchOK, CurrentOK, KeptSafe
<1> QED BY <1>1, <1>3, <1>4, <1>5 DEF MOIndInv

(* The invariant of rows, orders and folders, of every run the assumption    *)
(* allows.                                                                   *)
LEMMA OrdersKeepMail == ASSUME Careful PROVE Spec => []MOIndInv
<1>1. Init => MOIndInv
  BY MOInitOK
<1>2. MOIndInv /\ [Next]_vars => MOIndInv'
  BY MOStepKeeps
<1> QED BY <1>1, <1>2, PTL DEF Spec

(* handle_mailbox_operations (admin/jobs.py) and the requests that leave it   *)
(* orders: a mailbox without an order has all its mail where Dovecot looks   *)
(* for it, and nobody finds another's there.                                 *)
THEOREM MailComesHome == ASSUME Careful PROVE Spec => []MailInPlace
<1>1. ASSUME MOIndInv PROVE MailInPlace
  <2> USE <1>1 DEF MOIndInv
  <2>1. \A m \in Mailboxes : BuriedMail(m) = {}
    BY DEF NoneBuried, NoSubfolders, BuriedMail, MailIn
  <2>2. MailAtHome
    <3> SUFFICES ASSUME NEW m \in Mailboxes, address[m] # None, ~Unavailable(m)
                 PROVE  \A a \in Addresses : MailIn(home[a], m) => a = address[m]
      BY <2>1 DEF MailAtHome, HomesWithMail
    <3>1. \A a \in Addresses : RenameOrder(m, a) \notin orders
      BY RenameOrderIs DEF Unavailable
    <3> QED BY <3>1 DEF Traced
  <2>3. MailPrivate
    <3> SUFFICES ASSUME NEW m \in Mailboxes, NEW n \in Mailboxes, address[m] # None,
                        MailIn(home[address[m]], n)
                 PROVE  m = n
      BY DEF MailPrivate
    <3>1. address[m] \in Addresses /\ Held(m, address[m]) /\ home[address[m]] # NoDir
      BY DEF MOTypeOK, Held, MailIn
    <3> QED BY <3>1, HeldMail
  <2> QED BY <2>2, <2>3 DEF MailInPlace
<1> QED BY <1>1, OrdersKeepMail, PTL

(* What is removed was doomed, and nothing doomed is of a mailbox that exists *)
(* or that was to be kept.                                                   *)
LEMMA NoMailGoes ==
  ASSUME Careful, MOIndInv, [Next]_vars, NEW m \in Mailboxes, HasMail(m),
         (address[m] # None /\ address'[m] # None) \/ m \in kept
  PROVE  HasMail(m)'
<1> USE DEF MOIndInv
<1>1. PICK a \in Addresses : MailIn(home[a], m)
  BY DEF HasMail, HomesWithMail, BuriedMail, NoneBuried, NoSubfolders, MailIn
<1>2. SUFFICES \E b \in Addresses : MailIn(home'[b], m)
  BY DEF HasMail, HomesWithMail
<1>3. ~Doomed(a)
  BY <1>1 DEF Traced, DoomedUnused, KeptSafe
<1>4. CASE home' = home
  BY <1>1, <1>4
<1>5. ASSUME NEW n \in Mailboxes, Deliver(n) PROVE \E b \in Addresses : MailIn(home'[b], m)
  <2>1. address[n] \in Addresses /\ home' = [home EXCEPT ![address[n]] = Contents(@) \cup {n}]
    BY <1>5 DEF Deliver, MOTypeOK
  <2>2. home'[a] = home[a] \/ home'[a] = home[a] \cup {n}
    BY <1>1, <2>1 DEF MailIn, Contents, MOTypeOK
  <2>3. home'[a] # NoDir
    <3>1. home[a] \subseteq Mailboxes
      BY <1>1, FoldersAre DEF MailIn, MOTypeOK
    <3> QED BY <1>1, <2>2, <3>1, OrdersAssumption DEF MailIn
  <2> QED BY <1>1, <2>2, <2>3 DEF MailIn
<1>6. CASE rename_mailbox
  <2> DEFINE o == current.order
             b == current.target
  <2>1. /\ current # None /\ current.step = "act" /\ o.type = "rename"
        /\ Movable(o.argument, b) /\ Move(o.argument, b)
    BY <1>6 DEF rename_mailbox, Acting
  <2>2. /\ o.mailbox \in Mailboxes /\ o.argument \in Addresses /\ b \in Addresses /\ o.argument # b
        /\ home[o.argument] # NoDir
    BY <2>1, CurrentIs DEF CurrentOK, Movable
  <2>3. Held(o.mailbox, o.argument) /\ Held(o.mailbox, b)
    BY <2>1, <2>2 DEF Held, Flying, Acting
  <2>4. home[o.argument] = {o.mailbox} /\ home[b] = NoDir
    <3>1. home[o.argument] = {o.mailbox} /\ MailIn(home[o.argument], o.mailbox)
      BY <2>2, <2>3, HeldMail
    <3> QED BY <2>2, <2>3, <3>1, HeldMail DEF OneHome
  <2>5. home' = [home EXCEPT ![o.argument] = NoDir, ![b] = home[o.argument]]
    BY <2>1, <2>2, <2>4 DEF Move, MOTypeOK
  <2>6. home'[b] = home[o.argument] /\ \A y \in Addresses \ {o.argument, b} : home'[y] = home[y]
    BY <2>2, <2>5 DEF MOTypeOK
  <2>7. CASE a = o.argument
    BY <1>1, <2>2, <2>6, <2>7
  <2>8. CASE a # o.argument
    <3>1. a # b
      BY <1>1, <2>4 DEF MailIn
    <3> QED BY <1>1, <2>6, <2>8, <3>1
  <2> QED BY <2>7, <2>8
<1>7. CASE delete_mailbox \/ DeleteFails
  <2> DEFINE x == current.order.argument
  <2>1. x \in Addresses /\ Doomed(x)
    BY <1>7, CurrentIs DEF delete_mailbox, DeleteFails, Acting, Doomed
  <2>2. \A y \in Addresses \ {x} : home'[y] = home[y]
    BY <1>7, <2>1 DEF delete_mailbox, DeleteFails, MOTypeOK
  <2> QED BY <1>1, <1>3, <2>1, <2>2
<1>8. Request => home' = home
  BY DEF Request, Create, RenameMailbox, RenameDomain, Readdress, Delete, DeleteMany, Forget
<1>9. JobStep => home' = home \/ rename_mailbox \/ delete_mailbox \/ DeleteFails
  BY DEF JobStep, handle_mailbox_operations, FolderNotFound, StartRename, StartDelete,
       RenameFails, Executed
<1>10. Crash \/ UNCHANGED vars => home' = home
  BY DEF Crash, vars
<1> QED BY <1>4, <1>5, <1>6, <1>7, <1>8, <1>9, <1>10 DEF Next

(* The job removes no mail of a mailbox that exists, nor of one that was      *)
(* deleted with its folder to be kept.                                       *)
THEOREM NoMailIsRemoved == ASSUME Careful PROVE Spec => NoMailRemoved
<1>1. MOIndInv /\ [Next]_vars =>
        [\A m \in Mailboxes :
            address[m] # None /\ address'[m] # None /\ HasMail(m) => HasMail(m)']_vars
  BY NoMailGoes
<1>2. MOIndInv /\ [Next]_vars => [\A m \in kept : HasMail(m) => HasMail(m)']_vars
  BY NoMailGoes DEF MOIndInv, MOTypeOK
<1> QED BY <1>1, <1>2, OrdersKeepMail, PTL DEF Spec, NoMailRemoved, NothingLost, KeptFoldersStay
==============================================================================
