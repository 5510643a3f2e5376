----------------------------- MODULE Identities -----------------------------
(***************************************************************************)
(* Addresses and what points to them: domains, mailboxes, quota rows,      *)
(* aliases, their recipients, and domain aliases (modoboa/admin/handlers,  *)
(* models/mailbox, models/alias, models/domain).                           *)
(*                                                                         *)
(* Postfix and Dovecot find a user by address, so the same address is      *)
(* stored many times: a mailbox has it in its local part and its domain's  *)
(* name, its quota row, its internal "self alias", that alias's recipient  *)
(* and the recipient of every alias that forwards to it.  Signal receivers *)
(* keep the copies together.  A request is one transaction, and a request  *)
(* that raises changes nothing: an action is a request that succeeds.      *)
(***************************************************************************)
EXTENDS Naturals, FiniteSets, SequencesExt

CONSTANTS
  Names,        \* domain names
  AliasNames,   \* names of domain aliases
  Locals,       \* local parts
  Domains,      \* primary keys of domains
  Mailboxes,    \* primary keys of mailboxes
  Pks,          \* primary keys of aliases
  Longer,       \* pairs of names of which the first begins the second
  AutoRemoval,  \* the parameter auto_account_removal
  Requests,     \* what is requested in this instance
  MaxRecipients,\* bound: recipients given to an alias in one request
  None

ASSUME IdentitiesAssumption ==
  /\ Names \cap AliasNames = {}
  /\ None \notin Names \cup AliasNames \cup Locals \cup Domains \cup Mailboxes \cup Pks
  /\ None \notin [local : Locals, dom : Domains]
  /\ None \notin [address : [local : Locals \cup {""}, name : Names \cup AliasNames],
                  dom : Domains \cup {None}, internal : BOOLEAN]
  /\ "" \notin Locals
  /\ IsFiniteSet(Names) /\ IsFiniteSet(Locals) /\ IsFiniteSet(Pks) /\ IsFiniteSet(Mailboxes)
  /\ Longer \subseteq Names \X Names
  /\ AutoRemoval \in BOOLEAN
  /\ MaxRecipients \in Nat

VARIABLES
  dom,     \* the name of each domain
  mbox,    \* the local part and the domain of each mailbox
  alias,   \* the rows of Alias
  rcpts,   \* the rows of AliasRecipient: r_mailbox is mbox, r_alias is ref
  quota,   \* the usernames of the rows of Quota
  dalias,  \* the target of each domain alias
  stale    \* history: mailboxes whose domain was renamed since they got it

vars == <<dom, mbox, alias, rcpts, quota, dalias, stale>>
aliasVars == <<alias, rcpts>>

Init ==
  /\ dom \in [Domains -> Names]
  /\ \A d, e \in Domains : dom[d] = dom[e] => d = e
  /\ mbox = [m \in Mailboxes |-> None]
  /\ alias = [a \in Pks |-> None]
  /\ rcpts = {}
  /\ quota = {}
  /\ dalias = [n \in AliasNames |-> None]
  /\ stale = {}

-----------------------------------------------------------------------------
(* Addresses *)

At(l, n) == [local |-> l, name |-> n]
Far == At("", "")                           \* somewhere on the Internet
LocalAddresses == {At(l, n) : l \in Locals, n \in Names}

Address(m) == At(mbox[m].local, dom[mbox[m].dom])
MailboxAt(x) == {m \in Mailboxes : mbox[m] # None /\ Address(m) = x}
IsLocal(x) == \E d \in Domains : dom[d] = x.name
AliasAt(x) == {a \in Pks : alias[a] # None /\ alias[a].address = x}
RecipientsOf(R, a) == {r \in R : r.alias = a}

Row(a, x, m, b) == [alias |-> a, address |-> x, mbox |-> m, ref |-> b]

(* unique_together of Alias and of AliasRecipient.                         *)
UniqueAliases(A) ==
  \A a, b \in Pks :
    A[a] # None /\ A[b] # None /\ A[a].address = A[b].address
      /\ A[a].internal = A[b].internal => a = b
UniqueRecipients(R) ==
  \A r, s \in R :
    /\ r.alias = s.alias
    /\ (r.mbox # None /\ r.mbox = s.mbox) \/ (r.ref # None /\ r.ref = s.ref)
    => r = s

-----------------------------------------------------------------------------
(* Deletions.  A pair of tables goes through the receivers one by one.     *)

(* Aliases go with their recipients and with the recipients they are.      *)
DropAliases(db, S) ==
  [alias |-> [a \in Pks |-> IF a \in S THEN None ELSE db.alias[a]],
   rcpts |-> {r \in db.rcpts : r.alias \notin S /\ r.ref \notin S}]

(* Mutant: an alias stays when its last recipient goes.                    *)
ReleaseOnly(db, r) == [db EXCEPT !.rcpts = @ \ {r}]

(* The mailbox leaves an alias, which goes if it was the last recipient.   *)
Release(db, r) ==
  LET rest == db.rcpts \ {r} IN
  IF RecipientsOf(rest, r.alias) = {} THEN DropAliases(db, {r.alias})
  ELSE [db EXCEPT !.rcpts = rest]

(* mailbox_deleted_handler releases the mailboxes from their aliases, in    *)
(* the order of the rows; remove_alias_for_mailbox removes every alias at   *)
(* the addresses of the mailboxes, internal or not.                         *)
Deleted(M) ==
  LET Links == {r \in rcpts : r.mbox \in M}
      Selves == {a \in Pks : alias[a] # None /\ \E m \in M : alias[a].address = Address(m)} IN
  {DropAliases(FoldLeft(Release, [alias |-> alias, rcpts |-> rcpts], s), Selves) :
     s \in SetToSeqs(Links)}

-----------------------------------------------------------------------------
(* Mailboxes *)

Free == {a \in Pks : alias[a] = None}
NewPk == CHOOSE a \in Free : TRUE

(* manage_alias_for_mailbox: get_or_create with the address, the domain and *)
(* internal=True.  That fails when another domain's alias has the address.  *)
SelfAliasRow(x, d) == [address |-> x, dom |-> d, internal |-> TRUE]
GetOrCreate(x, d) ==
  LET Found == {a \in Pks : alias[a] = SelfAliasRow(x, d)} IN
  IF Found # {} THEN CHOOSE a \in Found : TRUE ELSE NewPk

CreateMailbox(m, l, d) ==
  LET x == At(l, dom[d])
      a == GetOrCreate(x, d) IN
  /\ mbox[m] = None
  /\ dom[d] # None
  /\ MailboxAt(x) = {}
  /\ Free # {}
  /\ mbox' = [mbox EXCEPT ![m] = [local |-> l, dom |-> d]]
  /\ quota' = quota \cup {x}
  /\ alias' = [alias EXCEPT ![a] = SelfAliasRow(x, d)]
  /\ UniqueAliases(alias')
  /\ rcpts' = rcpts \cup {Row(a, x, m, None)}
  /\ stale' = stale \ {m}
  /\ UNCHANGED <<dom, dalias>>

(* The recipients of self aliases that the receiver looks for with get().  *)
SelfRecipients(m) ==
  {r \in rcpts : /\ r.mbox = m /\ r.address = Address(m)
                 /\ alias[r.alias].internal /\ alias[r.alias].address = Address(m)}

(* Mutant: only the self alias follows.                                    *)
FollowSelf(m, r, x) ==
  {IF s = r THEN [s EXCEPT !.address = x] ELSE s : s \in rcpts}

(* The recipients after mailbox m got address x: that of its self alias, r, *)
(* and those of the aliases that administrators made.                       *)
Follow(m, r, x) ==
  {IF s = r \/ (s.mbox = m /\ ~alias[s.alias].internal) THEN [s EXCEPT !.address = x]
   ELSE s : s \in rcpts}

(* update_from_dict, rename, save and manage_alias_for_mailbox.  It fails   *)
(* without a quota row, without a self alias, or when the new address has   *)
(* a mailbox, a quota row or an internal alias.                             *)
RenameMailbox(m, l, d) ==
  LET x == At(l, dom[d]) IN
  /\ mbox[m] # None /\ dom[d] # None
  /\ x # Address(m)
  /\ Address(m) \in quota /\ x \notin quota
  /\ MailboxAt(x) = {}
  /\ \E r \in SelfRecipients(m) :
       /\ SelfRecipients(m) = {r}
       /\ alias' = [alias EXCEPT ![r.alias] = SelfAliasRow(x, d)]
       /\ UniqueAliases(alias')
       /\ rcpts' = Follow(m, r, x)
  /\ mbox' = [mbox EXCEPT ![m] = [local |-> l, dom |-> d]]
  /\ quota' = (quota \ {Address(m)}) \cup {x}
  /\ stale' = stale \ {m}
  /\ UNCHANGED <<dom, dalias>>

DeleteMailbox(m) ==
  /\ mbox[m] # None
  /\ \E db \in Deleted({m}) : alias' = db.alias /\ rcpts' = db.rcpts
  /\ mbox' = [mbox EXCEPT ![m] = None]
  /\ quota' = quota \ {Address(m)}
  /\ stale' = stale \ {m}
  /\ UNCHANGED <<dom, dalias>>

-----------------------------------------------------------------------------
(* Domains *)

CreateDomain(d, n) ==
  /\ dom[d] = None
  /\ \A e \in Domains : dom[e] # n
  /\ dom' = [dom EXCEPT ![d] = n]
  /\ UNCHANGED <<mbox, aliasVars, quota, dalias, stale>>

(* The rows of Quota selected by username__contains="@n".                  *)
QuotasLike(n) == {x \in quota : x.name = n \/ <<n, x.name>> \in Longer}

(* Mutant: the quota rows keep the old name.                               *)
QuotaRenamedNot(o, n) == quota

(* The rows of the domain get its new name; those of a longer name become   *)
(* rows of a name that nobody has.                                          *)
QuotaRenamed(o, n) ==
  (quota \ QuotasLike(o)) \cup {At(x.local, n) : x \in {y \in QuotasLike(o) : y.name = o}}

AliasesRenamed(d, n) ==
  [a \in Pks |-> IF alias[a] # None /\ alias[a].dom = d
                 THEN [alias[a] EXCEPT !.address.name = n] ELSE alias[a]]

(* Domain.save and update_domain_mxs_and_mailboxes: the aliases of the      *)
(* domain get its new name, the recipients keep the old one.                *)
RenameDomain(d, n) ==
  /\ "rename_domain" \in Requests
  /\ dom[d] # None
  /\ \A e \in Domains : dom[e] # n
  /\ dom' = [dom EXCEPT ![d] = n]
  /\ quota' = QuotaRenamed(dom[d], n)
  /\ alias' = AliasesRenamed(d, n)
  /\ UniqueAliases(alias')
  /\ stale' = stale \cup {m \in Mailboxes : mbox[m] # None /\ mbox[m].dom = d}
  /\ UNCHANGED <<mbox, rcpts, dalias>>

(* Domain.delete: its accounts or its mailboxes go, with their receivers,   *)
(* then its aliases and its domain aliases.                                 *)
DeleteDomain(d) ==
  LET M == {m \in Mailboxes : mbox[m] # None /\ mbox[m].dom = d}
      N == {n \in AliasNames : dalias[n] = d}
      Own == {a \in Pks : /\ alias[a] # None
                          /\ \/ alias[a].dom = d
                             \/ \E n \in N : alias[a].address = At("", n)} IN
  /\ dom[d] # None
  /\ \E db \in Deleted(M) :
       /\ alias' = DropAliases(db, Own).alias
       /\ rcpts' = DropAliases(db, Own).rcpts
  /\ quota' = quota \ ({Address(m) : m \in M}
                        \cup (IF AutoRemoval \/ M = {} THEN {} ELSE QuotasLike(dom[d])))
  /\ mbox' = [m \in Mailboxes |-> IF m \in M THEN None ELSE mbox[m]]
  /\ dalias' = [n \in AliasNames |-> IF n \in N THEN None ELSE dalias[n]]
  /\ dom' = [dom EXCEPT ![d] = None]
  /\ stale' = stale \ M

-----------------------------------------------------------------------------
(* Domain aliases *)

CreateDomainAlias(n, d) ==
  /\ dalias[n] = None /\ dom[d] # None
  /\ Free # {}
  /\ dalias' = [dalias EXCEPT ![n] = d]
  /\ alias' = [alias EXCEPT ![NewPk] = SelfAliasRow(At("", n), None)]
  /\ UniqueAliases(alias')
  /\ rcpts' = rcpts \cup {Row(NewPk, At("", dom[d]), None, None)}
  /\ UNCHANGED <<dom, mbox, quota, stale>>

(* The receiver does nothing when the row is not a new one.                *)
UpdateDomainAlias(n, k, d) ==
  /\ dalias[n] # None /\ dom[d] # None
  /\ IF k = n THEN "retarget" \in Requests
     ELSE "rename_alias" \in Requests /\ dalias[k] = None
  /\ dalias' = [dalias EXCEPT ![n] = None, ![k] = d]
  /\ UNCHANGED <<dom, mbox, aliasVars, quota, stale>>

DeleteDomainAlias(n) ==
  LET Internal == AliasAt(At("", n))
      db == DropAliases([alias |-> alias, rcpts |-> rcpts], Internal) IN
  /\ dalias[n] # None
  /\ dalias' = [dalias EXCEPT ![n] = None]
  /\ alias' = db.alias /\ rcpts' = db.rcpts
  /\ UNCHANGED <<dom, mbox, quota, stale>>

-----------------------------------------------------------------------------
(* Aliases *)

(* What add_recipients links the recipient x of an alias to: the mailbox or *)
(* the alias it names, nothing when it is of another server; it raises when *)
(* nobody has a local address, or the alias itself.                         *)
Link(x, own) ==
  IF ~IsLocal(x) THEN {[mbox |-> None, ref |-> None]}
  ELSE IF MailboxAt(x) # {} THEN {[mbox |-> m, ref |-> None] : m \in MailboxAt(x)}
  ELSE IF x = own THEN {}
  ELSE {[mbox |-> None, ref |-> a] : a \in AliasAt(x)}

(* The rows of alias a, named own, after add_recipients(X).                *)
Added(a, own, X) ==
  LET New == {x \in X : \A r \in RecipientsOf(rcpts, a) : r.address # x} IN
  {R \in {rcpts \cup {Row(a, x, f[x].mbox, f[x].ref) : x \in New} :
            f \in {g \in [New -> UNION {Link(x, own) : x \in New}] :
                     \A x \in New : g[x] \in Link(x, own)}} :
     UniqueRecipients(R)}

(* set_recipients: add, then remove the others.                            *)
SetRecipients(a, own, X) ==
  {R \ {r \in R : r.alias = a /\ r.address \notin X} : R \in Added(a, own, X)}

(* The recipients an administrator names: mailboxes, aliases, other servers. *)
Targets ==
  {x \in LocalAddresses : MailboxAt(x) # {} \/ ("chain" \in Requests /\ IsLocal(x))}
    \cup {Far}
RecipientSets == {X \in SUBSET Targets : X # {} /\ Cardinality(X) <= MaxRecipients}

(* Mutant: internal aliases may be edited.                                 *)
Existing(a) == alias[a] # None

(* The aliases that users of the API see.                                  *)
External(a) == alias[a] # None /\ ~alias[a].internal
Taken(x) == \E a \in Pks : External(a) /\ alias[a].address = x

CreateAlias(x, X) ==
  /\ IsLocal(x)
  /\ ~Taken(x)
  /\ Free # {}
  /\ \E d \in Domains :
       /\ dom[d] = x.name
       /\ alias' = [alias EXCEPT ![NewPk] = [address |-> x, dom |-> d, internal |-> FALSE]]
  /\ rcpts' \in SetRecipients(NewPk, x, X)
  /\ UNCHANGED <<dom, mbox, quota, dalias, stale>>

(* AliasSerializer.update writes the address and not the domain.           *)
UpdateAlias(a, x, X) ==
  /\ External(a)
  /\ IsLocal(x)
  /\ x = alias[a].address \/ ("move" \in Requests /\ ~Taken(x))
  /\ alias' = [alias EXCEPT ![a].address = x]
  /\ rcpts' \in SetRecipients(a, x, X)
  /\ UNCHANGED <<dom, mbox, quota, dalias, stale>>

DeleteAlias(a) ==
  LET db == DropAliases([alias |-> alias, rcpts |-> rcpts], {a}) IN
  /\ External(a)
  /\ alias' = db.alias /\ rcpts' = db.rcpts
  /\ UNCHANGED <<dom, mbox, quota, dalias, stale>>

(* sometimes_mailbox_have_no_alias, for one mailbox.                       *)
Repair(m) ==
  LET x == Address(m)
      a == GetOrCreate(x, mbox[m].dom) IN
  /\ mbox[m] # None
  /\ Free # {}
  /\ alias' = [alias EXCEPT ![a] = SelfAliasRow(x, mbox[m].dom)]
  /\ UniqueAliases(alias')
  /\ rcpts' = rcpts \cup {Row(a, x, m, None)}
  /\ UniqueRecipients(rcpts')
  /\ UNCHANGED <<dom, mbox, quota, dalias, stale>>

Next ==
  \/ \E m \in Mailboxes : DeleteMailbox(m) \/ Repair(m)
  \/ \E m \in Mailboxes, l \in Locals, d \in Domains :
       CreateMailbox(m, l, d) \/ RenameMailbox(m, l, d)
  \/ \E d \in Domains, n \in Names : CreateDomain(d, n) \/ RenameDomain(d, n)
  \/ \E d \in Domains : DeleteDomain(d)
  \/ \E n \in AliasNames, d \in Domains :
       \/ CreateDomainAlias(n, d)
       \/ \E k \in AliasNames : UpdateDomainAlias(n, k, d)
  \/ \E n \in AliasNames : DeleteDomainAlias(n)
  \/ \E x \in LocalAddresses, X \in RecipientSets :
       CreateAlias(x, X) \/ \E a \in Pks : UpdateAlias(a, x, X)
  \/ \E a \in Pks : DeleteAlias(a)

Spec == Init /\ [][Next]_vars

-----------------------------------------------------------------------------
(* Properties *)

(* ... including the unique and foreign keys of the tables.                *)
IdTypeOK ==
  /\ dom \in [Domains -> Names \cup {None}]
  /\ \A d, e \in Domains : dom[d] = dom[e] => d = e \/ dom[d] = None
  /\ mbox \in [Mailboxes -> [local : Locals, dom : Domains] \cup {None}]
  /\ \A m \in Mailboxes : mbox[m] # None => dom[mbox[m].dom] # None /\ MailboxAt(Address(m)) = {m}
  /\ \A a \in Pks : alias[a] # None =>
       /\ alias[a].address \in LocalAddresses \cup [local : {""}, name : AliasNames]
       /\ alias[a].dom # None => dom[alias[a].dom] # None
       /\ alias[a].internal \in BOOLEAN
  /\ UniqueAliases(alias)
  /\ \A r \in rcpts :
       /\ alias[r.alias] # None
       /\ r.mbox # None => mbox[r.mbox] # None /\ r.ref = None
       /\ r.ref # None => alias[r.ref] # None
  /\ UniqueRecipients(rcpts)
  /\ quota \subseteq LocalAddresses
  /\ dalias \in [AliasNames -> Domains \cup {None}]
  /\ \A n \in AliasNames : dalias[n] # None => dom[dalias[n]] # None
  /\ stale \subseteq Mailboxes

(* manage_alias_for_mailbox: a mailbox has one self alias, at its address,  *)
(* which delivers to it.                                                    *)
HasSelfAlias(m) ==
  \E a \in Pks :
    /\ {b \in AliasAt(Address(m)) : alias[b].internal} = {a}
    /\ alias[a].dom = mbox[m].dom
    /\ RecipientsOf(rcpts, a) = {Row(a, Address(m), m, None)}

(* However mailboxes, aliases and domains are created, moved and deleted:   *)
(* every mailbox has its self alias, unless its domain was renamed.         *)
SelfAliasKept == \A m \in Mailboxes : mbox[m] # None /\ m \notin stale => HasSelfAlias(m)

(* An internal alias belongs to a mailbox or to a domain alias.             *)
NoOrphanSelfAlias ==
  \A a \in Pks :
    alias[a] # None /\ alias[a].internal =>
      IF alias[a].address.local = "" THEN dalias[alias[a].address.name] # None
      ELSE MailboxAt(alias[a].address) # {}

(* Mailboxes and their self aliases are one.                                *)
SelfAliases == IdTypeOK /\ SelfAliasKept /\ NoOrphanSelfAlias

(* Quota has no foreign key: its rows are those of the mailboxes all the    *)
(* same, under their present addresses.                                     *)
QuotaInStep == quota = {Address(m) : m \in {k \in Mailboxes : mbox[k] # None}}

(* A recipient linked to a mailbox names it, also after the mailbox has     *)
(* moved: its mail is not sent to whoever gets the old address.             *)
RecipientsFollow ==
  \A r \in rcpts :
    r.mbox # None /\ r.mbox \notin stale => r.address = Address(r.mbox)

(* An alias belongs to the domain of its address, whose administrators see  *)
(* it and with which it is deleted.                                         *)
AliasInItsDomain ==
  \A a \in Pks :
    alias[a] # None /\ alias[a].dom # None => alias[a].address.name = dom[alias[a].dom]

(* What names an address follows it: self aliases, quotas, recipients and   *)
(* aliases (handlers.py, Alias.save, Quota of admin/models/mailbox.py).     *)
NamesFollow == SelfAliases /\ QuotaInStep /\ RecipientsFollow /\ AliasInItsDomain

(* "It manually removes the mailbox from the aliases it is linked to and    *)
(* then remove all empty aliases": an alias is left without recipients only *)
(* when an alias that was its recipient goes.                               *)
Emptied(a) ==
  /\ alias[a] # None /\ alias'[a] # None
  /\ RecipientsOf(rcpts, a) # {} /\ RecipientsOf(rcpts', a) = {}
LeavesNoEmptyAlias ==
  [][\A a \in Pks : Emptied(a) =>
       \E r \in RecipientsOf(rcpts, a) : r.ref # None /\ alias'[r.ref] = None]_vars

(* An alias always has a recipient.                                        *)
(* Not what the code does: README.md, Known deviations.                    *)
NoEmptyAlias == \A a \in Pks : alias[a] # None => RecipientsOf(rcpts, a) # {}

(* Mail for a domain alias goes to its target.                              *)
(* Not what the code does: README.md, Known deviations.                    *)
DomainAliasRoutes ==
  \A n \in AliasNames :
    dalias[n] # None =>
      \E a \in AliasAt(At("", n)) :
        {r.address : r \in RecipientsOf(rcpts, a)} = {At("", dom[dalias[n]])}

(* The repair command can give a mailbox the self alias it has lost.        *)
(* Not what the code does: README.md, Known deviations.                    *)
Repairable ==
  \A m \in Mailboxes :
    mbox[m] # None =>
      LET a == GetOrCreate(Address(m), mbox[m].dom) IN
      UniqueRecipients(rcpts \cup {Row(a, Address(m), m, None)})
=============================================================================
