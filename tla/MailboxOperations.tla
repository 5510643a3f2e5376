-------------------------- MODULE MailboxOperations --------------------------
(***************************************************************************)
(* Renaming and deleting mailboxes on the file system.                     *)
(*                                                                         *)
(* A web request changes the database in one transaction and leaves an     *)
(* order, a MailboxOperation, for every folder to move or remove.  Once a  *)
(* minute the only worker of the "dovecot" queue runs                      *)
(* handle_mailbox_operations (modoboa/admin/jobs.py), which commits after  *)
(* every statement.  Mail arrives at any time; Postfix asks MaintainMap    *)
(* whether a mailbox is available.                                         *)
(*                                                                         *)
(* The parameter handle_mailboxes is on and doveadm runs on this host.     *)
(* Dovecot's homes are <domain>/<local part>, so an address also stands    *)
(* for its folder.                                                         *)
(***************************************************************************)
EXTENDS Integers, FiniteSets

CONSTANTS
  Mailboxes,  \* primary keys of mailboxes
  Locals,     \* local parts
  Domains,    \* domain names
  None,       \* Python's None; the address of a row that does not exist
  NoDir,      \* there is no such folder
  Requests,   \* the kinds of requests of this instance, of "create",
              \* "rename", "rename_domain", "delete", "delete_many", "keep_many"
  Reuse,      \* may an address be given while something of its former owner,
              \* a folder or an order, is left?
  Bypass,     \* may mail come from a client that Postfix lets pass before it
              \* looks into sql-maintain.cf?
  MaxOrders,  \* bound: requests arrive only while fewer orders wait
  Faults      \* the faults of this instance: "fs", "crash"

Addresses == Locals \X Domains

ASSUME OrdersAssumption ==
  /\ \A x \in Mailboxes \cup Addresses : x # None
  /\ \A S \in SUBSET Mailboxes : S # NoDir
  /\ Requests \subseteq {"create", "rename", "rename_domain", "delete",
                         "delete_many", "keep_many"}
  /\ Reuse \in BOOLEAN /\ Bypass \in BOOLEAN
  /\ MaxOrders \in Nat
  /\ Faults \subseteq {"fs", "crash"}

VARIABLES
  address,  \* address of each mailbox, None when there is no such row
  orders,   \* the rows of MailboxOperation; equal rows count as one
  home,     \* whose mail Dovecot finds in the folder of each address
  buried,   \* whose mail lies in a subfolder of it, under that name
  batch,    \* what is left of the rows that the current run has read
  current,  \* the order the run is working on, None between two orders
  kept      \* history: the mailboxes deleted with their folder to be kept

jobVars == <<batch, current>>
vars == <<address, orders, home, buried, batch, current, kept>>

NoSubfolders == [l \in Locals |-> NoDir]
RenameOrder(m, a) == [type |-> "rename", mailbox |-> m, argument |-> a]
DeleteOrder(a) == [type |-> "delete", mailbox |-> None, argument |-> a]
Orders == {RenameOrder(m, a) : m \in Mailboxes, a \in Addresses}
          \cup {DeleteOrder(a) : a \in Addresses}

Init ==
  /\ address = [m \in Mailboxes |-> None]
  /\ orders = {}
  /\ home = [a \in Addresses |-> NoDir]
  /\ buried = [a \in Addresses |-> NoSubfolders]
  /\ batch = {}
  /\ current = None
  /\ kept = {}

-----------------------------------------------------------------------------
(* Mail *)

(* The folders at or below which some of the mailbox's mail is.            *)
MailIn(dir, m) == dir # NoDir /\ m \in dir
HomesWithMail(m) == {a \in Addresses : MailIn(home[a], m)}
BuriedMail(m) == {a \in Addresses : \E l \in Locals : MailIn(buried[a][l], m)}
HasMail(m) == HomesWithMail(m) \cup BuriedMail(m) # {}

Contents(dir) == IF dir = NoDir THEN {} ELSE dir

(* MaintainMap: a mailbox with an order is unavailable.                    *)
Unavailable(m) == \E o \in orders : o.mailbox = m

(* Mutant: Postfix does not ask MaintainMap.                               *)
DeliverAlways(m) ==
  /\ address[m] # None
  /\ home' = [home EXCEPT ![address[m]] = Contents(@) \cup {m}]
  /\ UNCHANGED <<address, orders, buried, jobVars, kept>>

(* Mail for a mailbox arrives; Dovecot creates the folder if need be.      *)
Deliver(m) ==
  /\ address[m] # None
  /\ Bypass \/ ~Unavailable(m)
  /\ home' = [home EXCEPT ![address[m]] = Contents(@) \cup {m}]
  /\ UNCHANGED <<address, orders, buried, jobVars, kept>>

-----------------------------------------------------------------------------
(* Requests *)

InUse(a) == \E m \in Mailboxes : address[m] = a

(* Nothing of a former owner is left: no folder, no order to execute, and   *)
(* no folder on its way.                                                    *)
Clear(a) ==
  /\ home[a] = NoDir
  /\ \A o \in orders \cup batch : o.argument # a
  /\ current # None => current.target # a

(* Mailbox.save refuses an address in use, and looks at nothing else.      *)
Free(a) == ~InUse(a) /\ (Reuse \/ Clear(a))

Room(n) == Cardinality(orders) + n <= MaxOrders

Create(m, a) ==
  /\ "create" \in Requests
  /\ address[m] = None
  /\ ~HasMail(m) /\ m \notin kept /\ \A o \in orders \cup batch : o.mailbox # m
  /\ Free(a)
  /\ address' = [address EXCEPT ![m] = a]
  /\ UNCHANGED <<orders, home, buried, jobVars, kept>>

(* Mailbox.rename_dir, for every mailbox whose address changes.            *)
Readdress(new) ==
  LET Renamed == {m \in Mailboxes : new[m] # address[m]} IN
  /\ Renamed # {} /\ Room(Cardinality(Renamed))
  /\ address' = new
  /\ orders' = orders \cup {RenameOrder(m, address[m]) : m \in Renamed}
  /\ UNCHANGED <<home, buried, jobVars, kept>>

RenameMailbox(m, a) ==
  /\ "rename" \in Requests
  /\ address[m] # None
  /\ Free(a)
  /\ Readdress([address EXCEPT ![m] = a])

(* The post_save receiver of a domain gives every mailbox an order.        *)
RenameDomain(d, e) ==
  LET renamed(a) == <<a[1], e>>
      Moved == {m \in Mailboxes : address[m] # None /\ address[m][2] = d} IN
  /\ "rename_domain" \in Requests
  /\ \A l \in Locals : ~InUse(<<l, e>>)
  /\ \A m \in Moved : Free(renamed(address[m]))
  /\ Readdress([m \in Mailboxes |-> IF m \in Moved THEN renamed(address[m])
                                                 ELSE address[m]])

(* The rows and, by cascade, their orders go; the folders to remove get an  *)
(* order each.                                                              *)
Forget(S, folders) ==
  /\ Room(Cardinality(folders))
  /\ address' = [m \in Mailboxes |-> IF m \in S THEN None ELSE address[m]]
  /\ orders' = {o \in orders : o.mailbox \notin S}
               \cup {DeleteOrder(a) : a \in folders}
  /\ UNCHANGED <<home, buried, jobVars>>

(* Deleting an account: the request's keepdir reaches the handler.         *)
Delete(m, keepdir) ==
  /\ "delete" \in Requests
  /\ address[m] # None
  /\ Forget({m}, IF keepdir THEN {} ELSE {address[m]})
  /\ kept' = IF keepdir THEN kept \cup {m} ELSE kept

(* Deleting a domain with its mailboxes, or several accounts: the request's *)
(* keep_folder or keepdir is validated and then ignored.                    *)
DeleteMany(S, keep) ==
  /\ "delete_many" \in Requests
  /\ keep => "keep_many" \in Requests
  /\ S # {} /\ \A m \in S : address[m] # None
  /\ Forget(S, {address[m] : m \in S})
  /\ kept' = IF keep THEN kept \cup S ELSE kept

-----------------------------------------------------------------------------
(* The job *)

(* MailboxOperation.objects.all(): read at once, in no particular order.   *)
handle_mailbox_operations ==
  /\ batch = {} /\ current = None
  /\ batch' = orders
  /\ UNCHANGED <<address, orders, home, buried, current, kept>>

EndRun == batch' = {} /\ current' = None

(* Mutant: an order whose folder does not exist stays.                     *)
FolderNotFoundKept(o) ==
  /\ current = None /\ o \in batch
  /\ home[o.argument] = NoDir
  /\ batch' = batch \ {o}
  /\ UNCHANGED <<address, orders, home, buried, current, kept>>

(* The folder named by the order does not exist: the order is dropped.      *)
FolderNotFound(o) ==
  /\ current = None /\ o \in batch
  /\ home[o.argument] = NoDir
  /\ orders' = orders \ {o}
  /\ batch' = batch \ {o}
  /\ UNCHANGED <<address, home, buried, current, kept>>

(* operation.mailbox is read now, not when the order was: the folder is to  *)
(* move to the present home.  A mailbox deleted meanwhile ends the run.     *)
StartRename(o) ==
  /\ current = None /\ o \in batch
  /\ o.type = "rename"
  /\ home[o.argument] # NoDir
  /\ IF address[o.mailbox] = None
       THEN EndRun
       ELSE /\ batch' = batch \ {o}
            /\ current' = [order |-> o, step |-> "act", target |-> address[o.mailbox]]
  /\ UNCHANGED <<address, orders, home, buried, kept>>

StartDelete(o) ==
  /\ current = None /\ o \in batch
  /\ o.type = "delete"
  /\ home[o.argument] # NoDir
  /\ batch' = batch \ {o}
  /\ current' = [order |-> o, step |-> "act", target |-> None]
  /\ UNCHANGED <<address, orders, home, buried, kept>>

Acting(type) == current # None /\ current.step = "act" /\ current.order.type = type

(* mv moves the folder into its target when that exists, and refuses to     *)
(* move a folder into itself or over a subfolder that is not empty.         *)
Movable(a, b) == a # b /\ (home[b] # NoDir => buried[b][a[1]] = NoDir)

Move(a, b) ==
  /\ home' = [home EXCEPT ![a] = NoDir, ![b] = IF @ = NoDir THEN home[a] ELSE @]
  /\ buried' = [buried EXCEPT
       ![a] = NoSubfolders,
       ![b] = IF home[b] = NoDir THEN buried[a]
              ELSE [@ EXCEPT ![a[1]] =
                     home[a] \cup UNION {Contents(buried[a][l]) : l \in Locals}]]

rename_mailbox ==
  /\ Acting("rename")
  /\ Movable(current.order.argument, current.target)
  /\ Move(current.order.argument, current.target)
  /\ current' = [current EXCEPT !.step = "done"]
  /\ UNCHANGED <<address, orders, batch, kept>>

(* makedirs or mv fails: the order stays for the next run.                  *)
RenameFails ==
  /\ Acting("rename")
  /\ "fs" \in Faults \/ ~Movable(current.order.argument, current.target)
  /\ current' = None
  /\ UNCHANGED <<address, orders, home, buried, batch, kept>>

(* Mutant: rmtree of the folder's parent.                                  *)
delete_mailbox_parent ==
  LET a == current.order.argument IN
  /\ Acting("delete")
  /\ home' = [b \in Addresses |-> IF b[2] = a[2] THEN NoDir ELSE home[b]]
  /\ buried' = [b \in Addresses |-> IF b[2] = a[2] THEN NoSubfolders ELSE buried[b]]
  /\ current' = [current EXCEPT !.step = "done"]
  /\ UNCHANGED <<address, orders, batch, kept>>

delete_mailbox ==
  LET a == current.order.argument IN
  /\ Acting("delete")
  /\ home' = [home EXCEPT ![a] = NoDir]
  /\ buried' = [buried EXCEPT ![a] = NoSubfolders]
  /\ current' = [current EXCEPT !.step = "done"]
  /\ UNCHANGED <<address, orders, batch, kept>>

(* rmtree fails on some of the files: the error handler deletes the order,  *)
(* and deleting it a second time raises, which ends the run.                *)
DeleteFails ==
  LET a == current.order.argument IN
  /\ "fs" \in Faults
  /\ Acting("delete")
  /\ \E rest \in SUBSET home[a] : home' = [home EXCEPT ![a] = rest]
  /\ orders' = orders \ {current.order}
  /\ EndRun
  /\ UNCHANGED <<address, buried, kept>>

(* operation.delete() after a success.                                     *)
Executed ==
  /\ current # None /\ current.step = "done"
  /\ orders' = orders \ {current.order}
  /\ current' = None
  /\ UNCHANGED <<address, home, buried, batch, kept>>

(* The worker is killed, or a command raises.                               *)
Crash ==
  /\ "crash" \in Faults
  /\ EndRun
  /\ UNCHANGED <<address, orders, home, buried, kept>>

-----------------------------------------------------------------------------
Request ==
  \/ \E m \in Mailboxes :
       \/ \E a \in Addresses : Create(m, a) \/ RenameMailbox(m, a)
       \/ \E keepdir \in BOOLEAN : Delete(m, keepdir)
  \/ \E d, e \in Domains : RenameDomain(d, e)
  \/ \E S \in SUBSET Mailboxes, keep \in BOOLEAN : DeleteMany(S, keep)

JobStep ==
  \/ handle_mailbox_operations
  \/ \E o \in batch : FolderNotFound(o) \/ StartRename(o) \/ StartDelete(o)
  \/ rename_mailbox \/ RenameFails
  \/ delete_mailbox \/ DeleteFails
  \/ Executed

Next ==
  \/ Request
  \/ \E m \in Mailboxes : Deliver(m)
  \/ JobStep
  \/ Crash

Spec == Init /\ [][Next]_vars

(* The job is started every minute and takes its time.                      *)
FairSpec == Spec /\ WF_vars(JobStep)

-----------------------------------------------------------------------------
(* Properties *)

Folders == (SUBSET Mailboxes) \cup {NoDir}

(* ... including that two mailboxes never share an address, and that an     *)
(* order to rename belongs to a mailbox that exists.                        *)
MOTypeOK ==
  /\ address \in [Mailboxes -> Addresses \cup {None}]
  /\ \A m, n \in Mailboxes : address[m] = address[n] => m = n \/ address[m] = None
  /\ orders \subseteq Orders
  /\ \A o \in orders : o.type = "rename" => address[o.mailbox] # None
  /\ home \in [Addresses -> Folders]
  /\ buried \in [Addresses -> [Locals -> Folders]]
  /\ batch \subseteq Orders
  /\ current \in [order : Orders, step : {"act", "done"},
                  target : Addresses \cup {None}] \cup {None}
  /\ kept \subseteq Mailboxes

(* "Rename mailboxes on the filesystem when they get renamed": a mailbox     *)
(* without an order has all its mail where Dovecot looks for it, whatever   *)
(* renames, failures and crashes came before, and in whichever order its    *)
(* orders were executed.                                                    *)
MailAtHome ==
  \A m \in Mailboxes :
    address[m] # None /\ ~Unavailable(m) =>
      HomesWithMail(m) \subseteq {address[m]} /\ BuriedMail(m) = {}

(* Nobody finds somebody else's mail in their mailbox.                      *)
MailPrivate ==
  \A m, n \in Mailboxes :
    m # n /\ address[m] # None => ~MailIn(home[address[m]], n)

(* Every mailbox's mail, and nobody else's, is where its owner looks.       *)
MailInPlace == MOTypeOK /\ MailAtHome /\ MailPrivate

(* The job removes no mail of a mailbox that is not deleted.                *)
NothingLost ==
  [][\A m \in Mailboxes : address[m] # None /\ address'[m] # None /\ HasMail(m)
                            => HasMail(m)']_vars

(* The job removes no mail of a mailbox that is not deleted, and "the       *)
(* folders of a mailbox deleted with keepdir=true are preserved".           *)
KeptFoldersStay == [][\A m \in kept : HasMail(m) => HasMail(m)']_vars
NoMailRemoved == NothingLost /\ KeptFoldersStay

(* "The mailbox will be considered unavailable until the order is           *)
(* executed": and not for ever.                                             *)
AvailableAgain ==
  \A o \in Orders : o \in orders ~> o \notin orders

(* "Remove mailboxes on the filesystem when they get removed": unless the    *)
(* folder was to be kept, no mail of a removed mailbox stays.               *)
(* Not what the code does: README.md, Known deviations.                    *)
RemovedForGood ==
  \A m \in Mailboxes :
    address[m] = None /\ m \notin kept ~> ~HasMail(m) \/ address[m] # None
=============================================================================
