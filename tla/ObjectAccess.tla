---------------------------- MODULE ObjectAccess ----------------------------
(***************************************************************************)
(* Who may manage what (modoboa/lib/permissions.py and its callers).       *)
(*                                                                         *)
(* A row ObjectAccess(user, object, is_owner) lets an administrator see an *)
(* account, a domain or a mailbox; the row with is_owner names its owner.  *)
(* The rows follow the objects only as far as each operation keeps them:   *)
(* there is no constraint in the database.  A request is one transaction,  *)
(* and one action here; limits (ResourcePools) may refuse any creation.    *)
(***************************************************************************)
EXTENDS Naturals

CONSTANTS
  People,     \* accounts
  Places,     \* domains
  Root,       \* the account that load_initial_data creates
  Given,      \* the roles that requests of this instance give
  MaxChanges, \* bound: requests that do not create an account or a domain
  Nobody      \* no account, no role, no domain

Roles == {"SimpleUsers", "DomainAdmins", "Resellers", "SuperAdmins"}

ASSUME AccessAssumption ==
  /\ Root \in People
  /\ Nobody \notin People \cup Places \cup Roles
  /\ MaxChanges \in Nat

VARIABLES
  role,     \* the role of each account, Nobody for an account there is not
  places,   \* the domains there are
  box,     \* the domain of the mailbox of each account
  grants,   \* the ObjectAccess rows: who sees, and who owns, which object
  raised,   \* history: accounts that have been resellers or super admins
  changes   \* history: requests counted for MaxChanges

oaVars == <<role, places, box, grants, raised, changes>>

UserOf(a) == <<"user", a>>
MailboxOf(a) == <<"mailbox", a>>
DomainOf(d) == <<"domain", d>>
Objects == {UserOf(a) : a \in People} \cup {MailboxOf(a) : a \in People}
             \cup {DomainOf(d) : d \in Places}

Accounts == {a \in People : role[a] # Nobody}
LiveObjects == {UserOf(a) : a \in Accounts} \cup {DomainOf(d) : d \in places}
                 \cup {MailboxOf(a) : a \in {b \in People : box[b] # Nobody}}

Supers == {a \in People : role[a] = "SuperAdmins"}
Administers(r) == r \in {"DomainAdmins", "Resellers", "SuperAdmins"}
AddsDomains(r) == r \in {"Resellers", "SuperAdmins"}

OAInit ==
  /\ role = [a \in People |-> IF a = Root THEN "SuperAdmins" ELSE Nobody]
  /\ places = {}
  /\ box = [a \in People |-> Nobody]
  /\ grants = [see |-> {<<Root, UserOf(Root)>>}, own |-> {<<Root, UserOf(Root)>>}]
  /\ raised = {Root}
  /\ changes = 0

-----------------------------------------------------------------------------
(* Operations on the rows *)

Owners(g, o) == {x \in People : <<x, o>> \in g.own}
AdminsOf(g, d) == {x \in People \ Supers : <<x, DomainOf(d)>> \in g.see}

(* grant_access_to_objects, and grant_access_to_object with is_owner=False: *)
(* the latter also ends the ownership that a row may have stood for.        *)
SeeAll(g, rows) == [see |-> g.see \cup rows, own |-> g.own]
Grant(g, rows) == [see |-> g.see \cup rows, own |-> g.own \ rows]

(* grant_access_to_object(user, obj, True): a new row comes with one for    *)
(* every super admin.                                                       *)
GrantOwner(g, u, os) ==
  [see |-> g.see \cup ({u} \X os)
                 \cup (Supers \X {o \in os : <<u, o>> \notin g.see}),
   own |-> g.own \cup ({u} \X os)]

(* Mutant: the object is left to nobody.                                    *)
UngrantOnly(g, x, os, su) ==
  [see |-> g.see \ ({x} \X os), own |-> g.own \ ({x} \X os)]

(* Mutant: the super admin is made an owner whoever else is.                *)
UngrantToSuper(g, x, os, su) ==
  GrantOwner([see |-> g.see \ ({x} \X os), own |-> g.own \ ({x} \X os)], su, os)

(* ungrant_access_to_object(obj, user): what has no owner afterwards goes   *)
(* to a super admin, su.                                                    *)
Ungrant(g, x, os, su) ==
  LET left == [see |-> g.see \ ({x} \X os), own |-> g.own \ ({x} \X os)] IN
  GrantOwner(left, su, {o \in os : Owners(left, o) = {}})

(* All rows of an object that goes, and all rows of an account.             *)
ForgetObjects(g, os) == [see |-> {r \in g.see : r[2] \notin os},
                  own |-> {r \in g.own : r[2] \notin os}]

DropRowsOf(g, a) == [see |-> {r \in g.see : r[1] # a}, own |-> {r \in g.own : r[1] # a}]

can_access(u, o) ==
  \/ u \in Supers
  \/ <<u, o>> \in grants.see
  \/ o[1] # "user" /\ \E x \in Owners(grants, o) : <<u, UserOf(x)>> \in grants.see

(* What an administrator of a domain is given: the domain, its mailboxes    *)
(* and their accounts, those of higher administrators excepted.             *)
Scope(d) ==
  {DomainOf(d)} \cup
    UNION {{MailboxOf(a), UserOf(a)} :
             a \in {b \in Accounts : box[b] = d /\ ~AddsDomains(role[b])}}

(* Mutant: domain administrators do not see new mailboxes.                  *)
MailboxCreatedForOwner(g, u, a, r, d) == GrantOwner(g, u, {MailboxOf(a)})

(* Mailbox.post_create, for the mailbox of a in d; the role that counts is  *)
(* the one the account has at that moment.                                  *)
MailboxCreated(g, u, a, r, d) ==
  LET owned == GrantOwner(g, u, {MailboxOf(a)}) IN
  IF AddsDomains(r) THEN owned
  ELSE Grant(owned, (AdminsOf(g, d) \ {u}) \X {MailboxOf(a), UserOf(a)})

(* What User.role = r does to the rows, handlers of account_role_changed    *)
(* included; the objects are those there are when it happens.               *)
RoleSet(g, a, r, objects) ==
  IF r = "SuperAdmins" THEN SeeAll(g, {a} \X objects)
  ELSE LET kept == IF role[a] = "SuperAdmins" \/ r = "SimpleUsers"
                     THEN DropRowsOf(g, a) ELSE g IN
       IF r = "SimpleUsers" THEN kept ELSE SeeAll(kept, {<<a, UserOf(a)>>})

(* AccountSerializer.set_permissions                                        *)
set_permissions(g, a, r, ds, su) ==
  LET current == {d \in places : <<a, DomainOf(d)>> \in g.see}
      gone == UNION {Scope(d) : d \in current \ ds}
      new == UNION {Scope(d) : d \in ds \ current} IN
  IF r \in {"DomainAdmins", "Resellers"}
    THEN Grant(Ungrant(g, a, gone, su), {a} \X new) ELSE g

-----------------------------------------------------------------------------
(* Requests, by an administrator u *)

get_account_roles(u) ==
  CASE role[u] = "SuperAdmins" -> Roles
    [] role[u] = "Resellers" -> {"SimpleUsers", "DomainAdmins"}
    [] OTHER -> {"SimpleUsers"}

(* The accounts that the API shows u: rows count, even for super admins.    *)
Shown(u, a) == Administers(role[u]) /\ a \in Accounts /\ <<u, UserOf(a)>> \in grants.see

CreateDomain(u, d) ==
  /\ AddsDomains(role[u])
  /\ d \notin places
  /\ places' = places \cup {d}
  /\ grants' = GrantOwner(grants, u, {DomainOf(d)})
  /\ UNCHANGED <<role, box, raised>>

(* The mailboxes go with the domain, their accounts stay.                   *)
DeleteDomain(u, d) ==
  LET boxes == {a \in Accounts : box[a] = d} IN
  /\ AddsDomains(role[u])
  /\ d \in places /\ box[u] # d
  /\ can_access(u, DomainOf(d))
  /\ places' = places \ {d}
  /\ box' = [a \in People |-> IF box[a] = d THEN Nobody ELSE box[a]]
  /\ grants' = ForgetObjects(grants, {DomainOf(d)} \cup {MailboxOf(a) : a \in boxes})
  /\ UNCHANGED <<role, raised>>

(* WritableAccountSerializer.create: the account, its mailbox, and only     *)
(* then the role and the domains of an administrator.                       *)
CreateAccount(u, a, r, d, ds) ==
  LET made == GrantOwner(grants, u, {UserOf(a)})
      boxed == IF d = Nobody THEN made ELSE MailboxCreated(made, u, a, Nobody, d)
      objects == LiveObjects \cup {UserOf(a)}
                   \cup (IF d = Nobody THEN {} ELSE {MailboxOf(a)})
      ranked == RoleSet(boxed, a, r, objects)
      own == IF d \in ds /\ r = "DomainAdmins"
               THEN {<<a, MailboxOf(a)>>} ELSE {} IN
  /\ Administers(role[u])
  /\ role[a] = Nobody
  /\ r \in get_account_roles(u)
  /\ r = "SimpleUsers" => d # Nobody
  /\ d # Nobody => d \in places /\ can_access(u, DomainOf(d))
  /\ \A x \in ds : can_access(u, DomainOf(x))
  /\ role' = [role EXCEPT ![a] = r]
  /\ box' = [box EXCEPT ![a] = d]
  /\ grants' = SeeAll(set_permissions(ranked, a, r, ds, u), own)
  /\ raised' = IF AddsDomains(r) THEN raised \cup {a} ELSE raised
  /\ UNCHANGED places

(* account_auto_created: somebody known to the LDAP server logs in for the  *)
(* first time; the domain is created when it is missing.                    *)
AutoCreate(a, d, su) ==
  LET dom == IF d \in places THEN grants ELSE GrantOwner(grants, su, {DomainOf(d)})
      made == GrantOwner(dom, su, {UserOf(a)}) IN
  /\ role[a] = Nobody
  /\ role' = [role EXCEPT ![a] = "SimpleUsers"]
  /\ places' = places \cup {d}
  /\ box' = [box EXCEPT ![a] = d]
  /\ grants' = MailboxCreated(made, su, a, "SimpleUsers", d)
  /\ UNCHANGED raised

(* An account that had no mailbox is given one.                             *)
AddMailbox(u, a, d) ==
  /\ Shown(u, a) /\ box[a] = Nobody
  /\ d \in places /\ can_access(u, DomainOf(d))
  /\ box' = [box EXCEPT ![a] = d]
  /\ grants' = MailboxCreated(grants, u, a, role[a], d)
  /\ UNCHANGED <<role, places, raised>>

(* validate_role: nobody changes his own role.                              *)
MayUpdate(u, a, r) ==
  /\ Shown(u, a)
  /\ r \in IF u = a THEN {role[u]} ELSE get_account_roles(u)

(* The account API, version 2: a new role.                                  *)
SetRole(u, a, r) ==
  /\ MayUpdate(u, a, r) /\ r # role[a]
  /\ role' = [role EXCEPT ![a] = r]
  /\ grants' = RoleSet(grants, a, r, LiveObjects)
  /\ raised' = IF AddsDomains(r) THEN raised \cup {a} ELSE raised
  /\ UNCHANGED <<places, box>>

(* The account API, version 1: the domains of an administrator as well;     *)
(* those that the request does not name are taken away.                     *)
SetDomains(u, a, ds, su) ==
  /\ MayUpdate(u, a, role[a])
  /\ \A d \in ds : can_access(u, DomainOf(d))
  /\ grants' = set_permissions(grants, a, role[a], ds, su)
  /\ UNCHANGED <<role, places, box, raised>>

(* update_permissions: what a owned goes to the owner of a, or to u when a  *)
(* owned itself.  Without an owner the request fails.                       *)
DeleteAccount(u, a) ==
  /\ Shown(u, a) /\ u # a
  /\ \E o \in Owners(grants, UserOf(a)) :
       LET heir == IF o = a THEN u ELSE o
           left == {x \in Objects : <<a, x>> \in grants.own} IN
       grants' = ForgetObjects(DropRowsOf(GrantOwner(grants, heir, left), a),
                        {UserOf(a), MailboxOf(a)})
  /\ role' = [role EXCEPT ![a] = Nobody]
  /\ box' = [box EXCEPT ![a] = Nobody]
  /\ raised' = raised \ {a}
  /\ UNCHANGED places

(* The administrators of a domain.                                          *)
Manages(u, d, x) ==
  /\ AddsDomains(role[u])
  /\ d \in places /\ (u \in Supers \/ <<u, DomainOf(d)>> \in grants.see)
  /\ x \in Accounts /\ can_access(u, UserOf(x))

add_admin(u, d, x) ==
  /\ Manages(u, d, x)
  /\ grants' = Grant(grants, {x} \X Scope(d))
  /\ UNCHANGED <<role, places, box, raised>>

remove_admin(u, d, x, su) ==
  /\ Manages(u, d, x)
  /\ grants' = Ungrant(grants, x, Scope(d), su)
  /\ UNCHANGED <<role, places, box, raised>>

(* The command "repair": what has no owner gets one, an administrator of    *)
(* its domain if there is one.                                              *)
fix_owner(o, x) ==
  LET d == IF o[1] = "mailbox" THEN box[o[2]] ELSE o[2]
      admins == IF o[1] = "user" THEN {} ELSE AdminsOf(grants, d) IN
  /\ o \in LiveObjects /\ Owners(grants, o) = {}
  /\ x \in IF admins = {} THEN Supers ELSE admins
  /\ grants' = GrantOwner(grants, x, {o})
  /\ UNCHANGED <<role, places, box, raised>>

-----------------------------------------------------------------------------
Creation ==
  \/ \E u \in Accounts, a \in People, r \in Given, d \in Places \cup {Nobody} :
       \E ds \in SUBSET places : CreateAccount(u, a, r, d, ds)
  \/ \E u \in Accounts, d \in Places : CreateDomain(u, d)
  \/ \E a \in People, d \in Places, su \in Supers : AutoCreate(a, d, su)

AccountRequest(u, a) ==
  \/ \E d \in places : AddMailbox(u, a, d)
  \/ \E r \in Given : SetRole(u, a, r)
  \/ \E ds \in SUBSET places, su \in Supers : SetDomains(u, a, ds, su)
  \/ DeleteAccount(u, a)

DomainRequest(u, d) ==
  \/ DeleteDomain(u, d)
  \/ \E x \in People : add_admin(u, d, x)
  \/ \E x \in People, su \in Supers : remove_admin(u, d, x, su)

Change ==
  \/ \E u \in Accounts, a \in People : AccountRequest(u, a)
  \/ \E u \in Accounts, d \in Places : DomainRequest(u, d)
  \/ \E o \in Objects, x \in People : fix_owner(o, x)

OANext ==
  \/ Creation /\ UNCHANGED changes
  \/ changes < MaxChanges /\ Change /\ changes' = changes + 1

OASpec == OAInit /\ [][OANext]_oaVars

-----------------------------------------------------------------------------
(* Properties *)

OATypeOK ==
  /\ role \in [People -> Roles \cup {Nobody}]
  /\ places \subseteq Places
  /\ box \in [People -> Places \cup {Nobody}]
  /\ grants \in [see : SUBSET (People \X Objects), own : SUBSET grants.see]
  /\ raised \subseteq People
  /\ changes \in 0 .. MaxChanges

(* "The user is the unique object's owner": get_object_owner, which every   *)
(* deletion calls, fails on a second one.                                   *)
OneOwner == \A o \in Objects : \A x, y \in Owners(grants, o) : x = y

(* No row outlives its account or its object, so that no limit counts what  *)
(* has been deleted and no listing meets a missing object.                  *)
RowsOfTheLiving ==
  /\ \A row \in grants.see : row[1] \in Accounts /\ row[2] \in LiveObjects
  /\ \A a \in People : box[a] # Nobody => a \in Accounts /\ box[a] \in places

(* One owner of what exists, and no rows of what does not.                  *)
AccessInv == OATypeOK /\ OneOwner /\ RowsOfTheLiving

(* "If it was the owner, we give the ownership to the first super admin we  *)
(* find": an object whose owner loses his row, or is deleted, has another   *)
(* owner at once, unless he lost it by a change of his role.                *)
OwnershipPassedOn ==
  [][\A row \in grants.own :
       /\ row \notin grants'.see /\ row[2] \in LiveObjects'
       /\ role'[row[1]] \in {role[row[1]], Nobody}
       => Owners(grants', row[2]) # {}]_oaVars

(* An administrator of a domain, unless it came to him from an account that *)
(* was deleted, sees its mailboxes and their accounts, so long as these have *)
(* never been of higher administrators.                                     *)
AdminsSeeMailboxes ==
  \A d \in places : \A x \in AdminsOf(grants, d) \ Owners(grants, DomainOf(d)) :
    \A a \in Accounts \ raised :
      box[a] = d => {x} \X {MailboxOf(a), UserOf(a)} \subseteq grants.see

(* Every object has an owner.                                               *)
(* Not what the code does: README.md, Known deviations.                     *)
OwnerExists == \A o \in LiveObjects : Owners(grants, o) # {}

(* Every super admin has a row for every object, without which the API does *)
(* not show him an account.                                                 *)
(* Not what the code does: README.md, Known deviations.                     *)
SupersSeeAll == Supers \X LiveObjects \subseteq grants.see
=============================================================================
