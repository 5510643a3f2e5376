------------------------ MODULE AdministrationProofs ------------------------
(* For every value of the constants: the invariants of the rows of access,  *)
(* of the second factors of accounts, of the global parameters, of the keys *)
(* of domains, of the export to LDAP and of the limits of accounts, each    *)
(* with the inductive invariant that carries it; and from them what holds   *)
(* of the components that MCAdministration composes.                        *)
EXTENDS MCAdministration, FiniteSetTheorems, TLAPS

-----------------------------------------------------------------------------
(* The rows that say who sees and who owns an object (ObjectAccess): no      *)
(* object ever has two owners, and no row outlives its account or its        *)
(* object; whoever loses an account passes on what he owned; and the         *)
(* administrators of a domain see its mailboxes.  First what each operation  *)
(* on the rows keeps, then one lemma per request, for each of the three.     *)

(* Rows of the accounts A about the objects L, with one owner each.          *)
Good(g, A, L) ==
  /\ g = [see |-> g.see, own |-> g.own]
  /\ g.see \subseteq A \X L
  /\ g.own \subseteq g.see
  /\ \A o \in L : \A x, y \in A : <<x, o>> \in g.own /\ <<y, o>> \in g.own => x = y

(* No one but u owns any of these objects.                                   *)
FreeFor(g, u, os) == \A row \in g.own : row[2] \in os => row[1] = u

LEMMA SeeAllGood ==
  ASSUME NEW A, NEW L, NEW g, NEW rows, Good(g, A, L), rows \subseteq A \X L
  PROVE  Good(SeeAll(g, rows), A, L) /\ SeeAll(g, rows).own = g.own
BY DEF Good, SeeAll

LEMMA GrantGood ==
  ASSUME NEW A, NEW L, NEW g, NEW rows, Good(g, A, L), rows \subseteq A \X L
  PROVE  Good(Grant(g, rows), A, L) /\ Grant(g, rows).own \subseteq g.own
BY DEF Good, Grant

LEMMA GrantOwnerGood ==
  ASSUME NEW A, NEW L, NEW g, NEW u \in A, NEW os \in SUBSET L, Good(g, A, L),
         Supers \subseteq A, FreeFor(g, u, os)
  PROVE  /\ Good(GrantOwner(g, u, os), A, L)
         /\ GrantOwner(g, u, os).own = g.own \cup ({u} \X os)
<1> DEFINE h == GrantOwner(g, u, os)
<1>1. /\ h.see = g.see \cup ({u} \X os) \cup (Supers \X {o \in os : <<u, o>> \notin g.see})
      /\ h.own = g.own \cup ({u} \X os)
      /\ h = [see |-> h.see, own |-> h.own]
  BY DEF GrantOwner
<1>2. h.see \subseteq A \X L
  BY <1>1 DEF Good
<1>3. h.own \subseteq h.see
  BY <1>1 DEF Good
<1>4. ASSUME NEW o \in L, NEW x \in A, NEW y \in A, <<x, o>> \in h.own, <<y, o>> \in h.own
      PROVE  x = y
  <2> HIDE DEF h
  <2>1. CASE o \in os
    <3>1. \A z \in A : <<z, o>> \in h.own => z = u
      BY <1>1, <2>1 DEF FreeFor
    <3> QED BY <1>4, <3>1
  <2>2. CASE o \notin os
    <3>1. \A z \in A : <<z, o>> \in h.own => <<z, o>> \in g.own
      BY <1>1, <2>2
    <3> QED BY <1>4, <3>1 DEF Good
  <2> QED BY <2>1, <2>2
<1> QED BY <1>1, <1>2, <1>3, <1>4 DEF Good

(* ... above all when no one owns them yet.                                  *)
LEMMA NewObjects ==
  ASSUME NEW A, NEW L, NEW g, NEW u, NEW os, Good(g, A, L), os \cap L = {}
  PROVE  FreeFor(g, u, os)
BY DEF Good, FreeFor

LEMMA MoreGood ==
  ASSUME NEW A, NEW L, NEW B, NEW M, NEW g, Good(g, A, L), A \subseteq B, L \subseteq M
  PROVE  Good(g, B, M)
<1>1. \A x, o : <<x, o>> \in g.own => x \in A /\ o \in L
  BY DEF Good
<1> QED BY <1>1 DEF Good

LEMMA UngrantGood ==
  ASSUME NEW A \in SUBSET People, NEW L, NEW g, NEW x, NEW su \in A, NEW os \in SUBSET L,
         Good(g, A, L), Supers \subseteq A
  PROVE  Good(Ungrant(g, x, os, su), A, L)
<1> DEFINE rest == [see |-> g.see \ ({x} \X os), own |-> g.own \ ({x} \X os)]
           free == {o \in os : Owners(rest, o) = {}}
<1>1. Good(rest, A, L)
  BY DEF Good
<1>2. FreeFor(rest, su, free)
  <2> SUFFICES ASSUME NEW row \in rest.own, row[2] \in free
               PROVE  FALSE
    BY DEF FreeFor
  <2>1. row \in A \X L
    BY <1>1 DEF Good
  <2>2. row = <<row[1], row[2]>> /\ row[1] \in People
    BY <2>1
  <2>3. row[1] \in Owners(rest, row[2])
    BY <2>2 DEF Owners
  <2> QED BY <2>3
<1>3. Ungrant(g, x, os, su) = GrantOwner(rest, su, free)
  BY DEF Ungrant
<1> HIDE DEF rest, free
<1>4. free \in SUBSET L
  BY DEF free
<1> QED BY <1>1, <1>2, <1>3, <1>4, GrantOwnerGood

LEMMA DropGood ==
  ASSUME NEW A, NEW L, NEW g, NEW a, Good(g, A, L)
  PROVE  /\ Good(DropRowsOf(g, a), A \ {a}, L)
         /\ DropRowsOf(g, a).own = {r \in g.own : r[1] # a}
BY DEF Good, DropRowsOf

LEMMA ForgetGood ==
  ASSUME NEW A, NEW L, NEW g, NEW os, Good(g, A, L)
  PROVE  Good(ForgetObjects(g, os), A, L \ os)
BY DEF Good, ForgetObjects

-----------------------------------------------------------------------------
(* What the operations of several rows keep                                  *)

LEMMA MailboxGood ==
  ASSUME NEW A \in SUBSET People, NEW L, NEW g, NEW u \in A, NEW a, NEW r, NEW d,
         Good(g, A, L), {MailboxOf(a), UserOf(a)} \subseteq L, Supers \subseteq A,
         FreeFor(g, u, {MailboxOf(a)})
  PROVE  Good(MailboxCreated(g, u, a, r, d), A, L)
<1> DEFINE owned == GrantOwner(g, u, {MailboxOf(a)})
           rows == (AdminsOf(g, d) \ {u}) \X {MailboxOf(a), UserOf(a)}
<1>1. Good(owned, A, L)
  BY GrantOwnerGood
<1>2. rows \subseteq A \X L
  BY DEF AdminsOf, Good
<1>3. MailboxCreated(g, u, a, r, d) \in {owned, Grant(owned, rows)}
  BY DEF MailboxCreated
<1> HIDE DEF owned, rows
<1> QED BY <1>1, <1>2, <1>3, GrantGood

LEMMA RoleSetGood ==
  ASSUME NEW A, NEW L, NEW g, NEW a \in A, NEW r, NEW objects \in SUBSET L,
         Good(g, A, L), UserOf(a) \in L
  PROVE  Good(RoleSet(g, a, r, objects), A, L)
<1>1. Good(DropRowsOf(g, a), A, L)
  BY DropGood, MoreGood, A \ {a} \subseteq A
<1>2. PICK rows \in {g, DropRowsOf(g, a)} :
        RoleSet(g, a, r, objects) \in
          {SeeAll(g, {a} \X objects), rows, SeeAll(rows, {<<a, UserOf(a)>>})}
  BY DEF RoleSet
<1>3. Good(SeeAll(g, {a} \X objects), A, L)
  <2>1. {a} \X objects \subseteq A \X L
    OBVIOUS
  <2> QED BY <2>1, SeeAllGood
<1>4. Good(rows, A, L)
  BY <1>1, <1>2
<1>5. Good(SeeAll(rows, {<<a, UserOf(a)>>}), A, L)
  <2>1. {<<a, UserOf(a)>>} \subseteq A \X L
    OBVIOUS
  <2> QED BY <1>4, <2>1, SeeAllGood
<1> QED BY <1>2, <1>3, <1>4, <1>5

LEMMA SetPermissionsGood ==
  ASSUME NEW A \in SUBSET People, NEW L, NEW g, NEW a \in A, NEW r, NEW su \in A,
         NEW ds \in SUBSET places, Good(g, A, L), Supers \subseteq A,
         \A d \in places : Scope(d) \subseteq L
  PROVE  Good(set_permissions(g, a, r, ds, su), A, L)
<1> DEFINE placed == {d \in places : <<a, DomainOf(d)>> \in g.see}
           gone == UNION {Scope(d) : d \in placed \ ds}
           new == UNION {Scope(d) : d \in ds \ placed}
<1>1. gone \in SUBSET L /\ new \in SUBSET L
  OBVIOUS
<1>2. set_permissions(g, a, r, ds, su) \in {Grant(Ungrant(g, a, gone, su), {a} \X new), g}
  BY DEF set_permissions
<1> HIDE DEF gone, new
<1>3. Good(Ungrant(g, a, gone, su), A, L)
  BY <1>1, UngrantGood
<1>4. {a} \X new \subseteq A \X L
  BY <1>1
<1>5. Good(Grant(Ungrant(g, a, gone, su), {a} \X new), A, L)
  BY <1>3, <1>4, GrantGood
<1> QED BY <1>2, <1>5

-----------------------------------------------------------------------------
(* The state                                                                 *)

(* What AccessInv says of the rows is that they are good.                    *)
Shape ==
  /\ role \in [People -> Roles \cup {Nobody}]
  /\ places \subseteq Places
  /\ box \in [People -> Places \cup {Nobody}]
  /\ raised \subseteq People
  /\ changes \in 0 .. MaxChanges
  /\ \A a \in People : box[a] # Nobody => a \in Accounts /\ box[a] \in places

LEMMA Living ==
  ASSUME Shape
  PROVE  /\ Accounts \subseteq People /\ Supers \subseteq Accounts
         /\ LiveObjects \subseteq Objects
         /\ \A a \in Accounts : UserOf(a) \in LiveObjects
         /\ \A d \in places : Scope(d) \subseteq LiveObjects
<1>1. \A d \in places, b \in Accounts : box[b] = d => MailboxOf(b) \in LiveObjects
  BY AccessAssumption DEF Shape, LiveObjects, Accounts
<1>2. \A a \in Accounts : UserOf(a) \in LiveObjects
  BY DEF LiveObjects
<1>3. \A d \in places : DomainOf(d) \in LiveObjects
  BY DEF LiveObjects
<1>4. \A d \in places : Scope(d) \subseteq LiveObjects
  BY <1>1, <1>2, <1>3 DEF Scope
<1>5. Accounts \subseteq People /\ Supers \subseteq Accounts
  BY AccessAssumption DEF Accounts, Supers, Roles
<1>6. LiveObjects \subseteq Objects
  BY DEF LiveObjects, Objects, Accounts, Shape
<1> QED BY <1>2, <1>4, <1>5, <1>6

LEMMA GoodNow ==
  ASSUME AccessInv
  PROVE  Shape /\ Good(grants, Accounts, LiveObjects)
<1> USE DEF AccessInv
<1>1. Shape
  BY DEF OATypeOK, RowsOfTheLiving, Shape
<1>2. grants = [see |-> grants.see, own |-> grants.own] /\ grants.own \subseteq grants.see
  BY DEF OATypeOK
<1>3. grants.see \subseteq Accounts \X LiveObjects
  BY DEF OATypeOK, RowsOfTheLiving
<1>4. \A o \in LiveObjects : \A x, y \in Accounts :
        <<x, o>> \in grants.own /\ <<y, o>> \in grants.own => x = y
  BY <1>1, Living DEF OneOwner, Owners
<1> QED BY <1>1, <1>2, <1>3, <1>4 DEF Good

LEMMA GoodNext ==
  ASSUME Shape', Good(grants', Accounts', LiveObjects')
  PROVE  AccessInv'
<1>1. Accounts' \subseteq People /\ LiveObjects' \subseteq Objects
  BY DEF Accounts, LiveObjects, Objects, Shape
<1>2. grants' \in [see : SUBSET (People \X Objects), own : SUBSET grants'.see]
  BY <1>1 DEF Good
<1>3. \A o \in Objects : \A x, y \in People :
        <<x, o>> \in grants'.own /\ <<y, o>> \in grants'.own => x = y
  BY DEF Good
<1>4. OneOwner'
  BY <1>3 DEF OneOwner, Owners
<1>5. RowsOfTheLiving'
  BY DEF RowsOfTheLiving, Good, Shape
<1>6. OATypeOK'
  BY <1>2 DEF OATypeOK, Shape
<1> QED BY <1>4, <1>5, <1>6 DEF AccessInv

-----------------------------------------------------------------------------
(* One lemma per request                                                     *)

LEMMA InitGood ==
  ASSUME OAInit
  PROVE  AccessInv
<1>1. /\ Accounts = {Root} /\ LiveObjects = {UserOf(Root)} /\ UserOf(Root) \in Objects
  BY AccessAssumption DEF OAInit, Accounts, LiveObjects, Roles, Objects
<1>2. OATypeOK
  BY <1>1, AccessAssumption DEF OAInit, OATypeOK, Roles
<1>3. OneOwner
  BY DEF OAInit, OneOwner, Owners
<1>4. RowsOfTheLiving
  BY <1>1 DEF OAInit, RowsOfTheLiving
<1> QED BY <1>2, <1>3, <1>4 DEF AccessInv

LEMMA CreateDomainStep ==
  ASSUME AccessInv, changes' \in 0 .. MaxChanges,
         NEW u \in Accounts, NEW d \in Places,
         CreateDomain(u, d)
  PROVE  AccessInv'
<1> USE DEF CreateDomain
<1> DEFINE L == LiveObjects \cup {DomainOf(d)}
<1>1. Shape /\ Good(grants, Accounts, LiveObjects)
  BY GoodNow
<1>2. Accounts' = Accounts /\ LiveObjects' = L
  BY DEF Accounts, LiveObjects
<1>3. Shape'
  BY <1>1, <1>2 DEF Shape
<1>4. {DomainOf(d)} \cap LiveObjects = {}
  BY DEF LiveObjects, DomainOf, UserOf, MailboxOf
<1>5. FreeFor(grants, u, {DomainOf(d)})
  BY <1>1, <1>4, NewObjects
<1>6. Good(grants, Accounts, L)
  BY <1>1, MoreGood
<1>7. Good(grants', Accounts, L)
  BY <1>1, <1>5, <1>6, Living, GrantOwnerGood
<1> QED BY <1>2, <1>3, <1>7, GoodNext

LEMMA DeleteDomainStep ==
  ASSUME AccessInv, changes' \in 0 .. MaxChanges,
         NEW u \in Accounts, NEW d \in places,
         DeleteDomain(u, d)
  PROVE  AccessInv'
<1> USE DEF DeleteDomain
<1> DEFINE gone == {DomainOf(d)} \cup {MailboxOf(a) : a \in {b \in Accounts : box[b] = d}}
<1>1. Shape /\ Good(grants, Accounts, LiveObjects)
  BY GoodNow
<1>2. Accounts' = Accounts
  BY DEF Accounts
<1>3. \A a \in People : box'[a] # Nobody => box'[a] = box[a] /\ box[a] # d
  BY <1>1 DEF Shape
<1>4. Shape'
  BY <1>1, <1>2, <1>3 DEF Shape
<1>5. LiveObjects \ gone \subseteq LiveObjects'
  <2> SUFFICES ASSUME NEW o \in LiveObjects \ gone
               PROVE  o \in LiveObjects'
    OBVIOUS
  <2>1. CASE o \in {UserOf(a) : a \in Accounts}
    BY <1>2, <2>1 DEF LiveObjects
  <2>2. CASE o \in {DomainOf(e) : e \in places}
    BY <2>2 DEF LiveObjects
  <2>3. CASE o \in {MailboxOf(a) : a \in {b \in People : box[b] # Nobody}}
    <3>1. PICK a \in People : box[a] # Nobody /\ o = MailboxOf(a)
      BY <2>3
    <3>2. box'[a] = box[a]
      BY <1>1, <3>1 DEF Shape
    <3> QED BY <3>1, <3>2 DEF LiveObjects
  <2> QED BY <2>1, <2>2, <2>3 DEF LiveObjects
<1>6. Good(grants', Accounts, LiveObjects \ gone)
  BY <1>1, ForgetGood
<1>7. Good(grants', Accounts', LiveObjects')
  BY <1>2, <1>5, <1>6, MoreGood
<1> QED BY <1>4, <1>7, GoodNext

LEMMA CreateAccountStep ==
  ASSUME AccessInv, changes' \in 0 .. MaxChanges,
         NEW u \in Accounts, NEW a \in People, NEW r,
         NEW d \in Places \cup {Nobody}, NEW ds \in SUBSET places,
         CreateAccount(u, a, r, d, ds)
  PROVE  AccessInv'
<1> DEFINE A == Accounts \cup {a}
           L == LiveObjects \cup {UserOf(a)} \cup (IF d = Nobody THEN {} ELSE {MailboxOf(a)})
           made == GrantOwner(grants, u, {UserOf(a)})
           boxed == IF d = Nobody THEN made ELSE MailboxCreated(made, u, a, Nobody, d)
           ranked == RoleSet(boxed, a, r, L)
           given == set_permissions(ranked, a, r, ds, u)
           own == IF d \in ds /\ r = "DomainAdmins" THEN {<<a, MailboxOf(a)>>} ELSE {}
<1>1. Shape /\ Good(grants, Accounts, LiveObjects)
  BY GoodNow
<1>2. /\ a \notin Accounts /\ box[a] = Nobody /\ r \in Roles
      /\ role' = [role EXCEPT ![a] = r] /\ box' = [box EXCEPT ![a] = d]
      /\ places' = places /\ d \in places \cup {Nobody}
      /\ raised' \in {raised, raised \cup {a}}
  BY <1>1 DEF CreateAccount, Accounts, Shape, get_account_roles, Roles
<1>3. Accounts' = A
  BY <1>1, <1>2, AccessAssumption DEF Accounts, Shape
<1>4. LiveObjects' = L
  <2>1. {UserOf(x) : x \in Accounts'} = {UserOf(x) : x \in Accounts} \cup {UserOf(a)}
    BY <1>3
  <2>2. {MailboxOf(x) : x \in {b \in People : box'[b] # Nobody}} =
          {MailboxOf(x) : x \in {b \in People : box[b] # Nobody}}
            \cup (IF d = Nobody THEN {} ELSE {MailboxOf(a)})
    BY <1>1, <1>2 DEF Shape
  <2> QED BY <1>2, <2>1, <2>2 DEF LiveObjects
<1>5. Shape'
  BY <1>1, <1>2, <1>3 DEF Shape
<1>6. UserOf(a) \notin LiveObjects /\ MailboxOf(a) \notin LiveObjects
  BY <1>2 DEF LiveObjects, UserOf, MailboxOf, DomainOf
<1>7. /\ Supers \subseteq A /\ A \in SUBSET People /\ u \in A /\ a \in A
      /\ \A e \in places : Scope(e) \subseteq L
  BY <1>1, Living
<1>8. Good(grants, A, L)
  BY <1>1, MoreGood
<1>9. /\ FreeFor(grants, u, {UserOf(a)})
      /\ FreeFor(grants, u, {MailboxOf(a)})
  BY <1>1, <1>6, NewObjects
<1>10. Good(made, A, L) /\ made.own = grants.own \cup ({u} \X {UserOf(a)})
  <2> DEFINE os == {UserOf(a)}
  <2>1. os \in SUBSET L /\ FreeFor(grants, u, os) /\ u \in A
    BY <1>9
  <2> HIDE DEF A, L, os
  <2>2. /\ Good(GrantOwner(grants, u, os), A, L)
        /\ GrantOwner(grants, u, os).own = grants.own \cup ({u} \X os)
    BY <1>7, <1>8, <2>1, GrantOwnerGood
  <2> QED BY <2>2 DEF os
<1>11. FreeFor(made, u, {MailboxOf(a)})
  BY <1>9, <1>10 DEF FreeFor
<1> HIDE DEF made
<1>12. Good(boxed, A, L)
  BY <1>7, <1>10, <1>11, MailboxGood
<1> HIDE DEF boxed
<1>13. Good(ranked, A, L)
  BY <1>7, <1>12, RoleSetGood
<1> HIDE DEF ranked
<1>14. Good(given, A, L)
  BY <1>7, <1>13, SetPermissionsGood
<1>15. own \subseteq A \X L
  BY AccessAssumption, <1>1 DEF Shape
<1>16. grants' = SeeAll(given, own)
  BY DEF CreateAccount, given, ranked, boxed, made
<1> HIDE DEF given, own, A, L
<1>17. Good(grants', A, L)
  BY <1>14, <1>15, <1>16, SeeAllGood
<1> QED BY <1>3, <1>4, <1>5, <1>17, GoodNext

LEMMA AutoCreateStep ==
  ASSUME AccessInv, changes' \in 0 .. MaxChanges,
         NEW a \in People, NEW d \in Places,
         NEW su \in Supers, AutoCreate(a, d, su)
  PROVE  AccessInv'
<1> DEFINE A == Accounts \cup {a}
           L == LiveObjects \cup {DomainOf(d), UserOf(a), MailboxOf(a)}
           ds == {DomainOf(d)}
           us == {UserOf(a)}
           ms == {MailboxOf(a)}
           dom == IF d \in places THEN grants ELSE GrantOwner(grants, su, ds)
           made == GrantOwner(dom, su, us)
<1>1. Shape /\ Good(grants, Accounts, LiveObjects)
  BY GoodNow
<1>2. /\ a \notin Accounts /\ box[a] = Nobody
      /\ role' = [role EXCEPT ![a] = "SimpleUsers"] /\ box' = [box EXCEPT ![a] = d]
      /\ places' = places \cup {d} /\ raised' = raised
  BY <1>1 DEF AutoCreate, Accounts, Shape
<1>3. Accounts' = A
  BY <1>1, <1>2, AccessAssumption DEF Accounts, Shape, Roles
<1>4. LiveObjects' = L
  <2>1. {UserOf(x) : x \in Accounts'} = {UserOf(x) : x \in Accounts} \cup {UserOf(a)}
    BY <1>3
  <2>2. {MailboxOf(x) : x \in {b \in People : box'[b] # Nobody}} =
          {MailboxOf(x) : x \in {b \in People : box[b] # Nobody}} \cup {MailboxOf(a)}
    BY <1>1, <1>2, AccessAssumption DEF Shape
  <2> QED BY <1>2, <2>1, <2>2 DEF LiveObjects
<1>5. Shape'
  BY <1>1, <1>2, <1>3 DEF Shape, Roles
<1>6. us \cap LiveObjects = {} /\ ms \cap LiveObjects = {}
  BY <1>2 DEF LiveObjects, UserOf, MailboxOf, DomainOf
<1>7. d \notin places => ds \cap LiveObjects = {}
  BY DEF LiveObjects, UserOf, MailboxOf, DomainOf
<1>8. Supers \subseteq A /\ A \in SUBSET People /\ su \in A
  BY <1>1, Living
<1>9. Good(grants, A, L)
  BY <1>1, MoreGood
<1>10. /\ ds \in SUBSET L /\ us \in SUBSET L /\ ms \in SUBSET L
       /\ \A o \in ds : o \notin us \cup ms
       /\ \A o \in us : o \notin ms
  BY DEF DomainOf, UserOf, MailboxOf
<1> HIDE DEF A, L, ds, us, ms
<1>11. /\ FreeFor(grants, su, us) /\ FreeFor(grants, su, ms)
       /\ d \notin places => FreeFor(grants, su, ds)
  BY <1>1, <1>6, <1>7, NewObjects
<1>12. Good(dom, A, L) /\ dom.own \subseteq grants.own \cup ({su} \X ds)
  <2>1. CASE d \in places
    BY <1>9, <2>1
  <2>2. CASE d \notin places
    BY <1>8, <1>9, <1>10, <1>11, <2>2, GrantOwnerGood
  <2> QED BY <2>1, <2>2
<1>13. FreeFor(dom, su, us) /\ FreeFor(dom, su, ms)
  BY <1>11, <1>12 DEF FreeFor
<1> HIDE DEF dom
<1>14. Good(made, A, L) /\ made.own = dom.own \cup ({su} \X us)
  BY <1>8, <1>10, <1>12, <1>13, GrantOwnerGood
<1> HIDE DEF made
<1>15. FreeFor(made, su, ms)
  BY <1>13, <1>14 DEF FreeFor
<1>16. {MailboxOf(a), UserOf(a)} \subseteq L
  BY DEF L
<1>17. Good(MailboxCreated(made, su, a, "SimpleUsers", d), A, L)
  BY <1>8, <1>14, <1>15, <1>16, MailboxGood DEF ms
<1>18. grants' = MailboxCreated(made, su, a, "SimpleUsers", d)
  BY DEF AutoCreate, made, dom, ds, us
<1> QED BY <1>3, <1>4, <1>5, <1>17, <1>18, GoodNext

LEMMA AddMailboxStep ==
  ASSUME AccessInv, changes' \in 0 .. MaxChanges,
         NEW u \in Accounts, NEW a \in People, NEW d \in places,
         AddMailbox(u, a, d)
  PROVE  AccessInv'
<1> DEFINE L == LiveObjects \cup {MailboxOf(a)}
           ms == {MailboxOf(a)}
<1>1. Shape /\ Good(grants, Accounts, LiveObjects)
  BY GoodNow
<1>2. /\ a \in Accounts /\ box[a] = Nobody /\ box' = [box EXCEPT ![a] = d]
      /\ UNCHANGED <<role, places, raised>> /\ d # Nobody
  BY <1>1, AccessAssumption DEF AddMailbox, Shown, Shape
<1>3. Accounts' = Accounts
  BY <1>2 DEF Accounts
<1>4. LiveObjects' = L
  <2>1. {MailboxOf(x) : x \in {b \in People : box'[b] # Nobody}} =
          {MailboxOf(x) : x \in {b \in People : box[b] # Nobody}} \cup {MailboxOf(a)}
    BY <1>1, <1>2 DEF Shape
  <2> QED BY <1>2, <1>3, <2>1 DEF LiveObjects
<1>5. Shape'
  BY <1>1, <1>2, <1>3 DEF Shape
<1>6. ms \cap LiveObjects = {}
  BY <1>2 DEF LiveObjects, UserOf, MailboxOf, DomainOf
<1>7. FreeFor(grants, u, ms)
  BY <1>1, <1>6, NewObjects
<1>8. Good(grants, Accounts, L)
  BY <1>1, MoreGood
<1>9. {MailboxOf(a), UserOf(a)} \subseteq L
  BY <1>2 DEF LiveObjects
<1>10. Accounts \in SUBSET People /\ Supers \subseteq Accounts
  BY <1>1, Living
<1> HIDE DEF L
<1>11. Good(MailboxCreated(grants, u, a, role[a], d), Accounts, L)
  BY <1>7, <1>8, <1>9, <1>10, MailboxGood
<1>12. grants' = MailboxCreated(grants, u, a, role[a], d)
  BY DEF AddMailbox
<1> QED BY <1>3, <1>4, <1>5, <1>11, <1>12, GoodNext

LEMMA SetRoleStep ==
  ASSUME AccessInv, changes' \in 0 .. MaxChanges,
         NEW u \in Accounts, NEW a \in People, NEW r,
         SetRole(u, a, r)
  PROVE  AccessInv'
<1>1. Shape /\ Good(grants, Accounts, LiveObjects)
  BY GoodNow
<1>2. /\ a \in Accounts /\ r \in Roles
      /\ role' = [role EXCEPT ![a] = r] /\ grants' = RoleSet(grants, a, r, LiveObjects)
      /\ raised' \in {raised, raised \cup {a}} /\ UNCHANGED <<places, box>>
  BY <1>1 DEF SetRole, MayUpdate, Shown, get_account_roles, Roles
<1>3. Accounts' = Accounts
  BY <1>1, <1>2, AccessAssumption DEF Accounts, Shape
<1>4. LiveObjects' = LiveObjects
  BY <1>2, <1>3 DEF LiveObjects
<1>5. Shape'
  BY <1>1, <1>2, <1>3 DEF Shape
<1>6. UserOf(a) \in LiveObjects
  BY <1>1, <1>2, Living
<1>7. Good(grants', Accounts, LiveObjects)
  BY <1>1, <1>2, <1>6, RoleSetGood
<1> QED BY <1>3, <1>4, <1>5, <1>7, GoodNext

(* Requests that change nothing but rows.                                    *)
LEMMA RowsOnly ==
  ASSUME AccessInv, changes' \in 0 .. MaxChanges, UNCHANGED <<role, places, box, raised>>,
         Good(grants', Accounts, LiveObjects)
  PROVE  AccessInv'
<1>1. Shape /\ Good(grants, Accounts, LiveObjects)
  BY GoodNow
<1>2. Accounts' = Accounts /\ LiveObjects' = LiveObjects
  BY DEF Accounts, LiveObjects
<1>3. Shape'
  BY <1>1, <1>2 DEF Shape
<1> QED BY <1>2, <1>3, GoodNext

LEMMA SetDomainsStep ==
  ASSUME AccessInv, changes' \in 0 .. MaxChanges,
         NEW u \in Accounts, NEW a \in People,
         NEW ds \in SUBSET places, NEW su \in Supers, SetDomains(u, a, ds, su)
  PROVE  AccessInv'
<1>1. Shape /\ Good(grants, Accounts, LiveObjects)
  BY GoodNow
<1>2. /\ a \in Accounts /\ grants' = set_permissions(grants, a, role[a], ds, su)
      /\ UNCHANGED <<role, places, box, raised>>
  BY DEF SetDomains, MayUpdate, Shown
<1>3. /\ Accounts \in SUBSET People /\ Supers \subseteq Accounts /\ su \in Accounts
      /\ \A d \in places : Scope(d) \subseteq LiveObjects
  BY <1>1, Living
<1>4. Good(grants', Accounts, LiveObjects)
  BY <1>1, <1>2, <1>3, SetPermissionsGood
<1> QED BY <1>2, <1>4, RowsOnly

LEMMA AddAdminStep ==
  ASSUME AccessInv, changes' \in 0 .. MaxChanges,
         NEW u \in Accounts, NEW d \in places, NEW x \in People,
         add_admin(u, d, x)
  PROVE  AccessInv'
<1>1. Shape /\ Good(grants, Accounts, LiveObjects)
  BY GoodNow
<1>2. {x} \X Scope(d) \subseteq Accounts \X LiveObjects
  BY <1>1, Living DEF add_admin, Manages
<1>3. Good(Grant(grants, {x} \X Scope(d)), Accounts, LiveObjects)
  BY <1>1, <1>2, GrantGood
<1> QED BY <1>3, RowsOnly DEF add_admin

LEMMA RemoveAdminStep ==
  ASSUME AccessInv, changes' \in 0 .. MaxChanges,
         NEW u \in Accounts, NEW d \in places, NEW x \in People,
         NEW su \in Supers, remove_admin(u, d, x, su)
  PROVE  AccessInv'
<1>1. Shape /\ Good(grants, Accounts, LiveObjects)
  BY GoodNow
<1>2. /\ Accounts \in SUBSET People /\ Supers \subseteq Accounts /\ su \in Accounts
      /\ Scope(d) \in SUBSET LiveObjects
  BY <1>1, Living
<1>3. Good(Ungrant(grants, x, Scope(d), su), Accounts, LiveObjects)
  BY <1>1, <1>2, UngrantGood
<1> QED BY <1>3, RowsOnly DEF remove_admin

LEMMA FixOwnerStep ==
  ASSUME AccessInv, changes' \in 0 .. MaxChanges,
         NEW o \in Objects, NEW x \in People, fix_owner(o, x)
  PROVE  AccessInv'
<1> DEFINE os == {o}
<1>1. Shape /\ Good(grants, Accounts, LiveObjects)
  BY GoodNow
<1>2. o \in LiveObjects /\ Owners(grants, o) = {} /\ grants' = GrantOwner(grants, x, os)
  BY DEF fix_owner
<1>3. Supers \subseteq Accounts
  BY <1>1, Living
<1>4. x \in Accounts
  <2>1. x \in Supers \/ \E d : x \in AdminsOf(grants, d)
    BY DEF fix_owner
  <2>2. \A d : AdminsOf(grants, d) \subseteq Accounts
    BY <1>1 DEF AdminsOf, Good
  <2> QED BY <1>3, <2>1, <2>2
<1>5. FreeFor(grants, x, os)
  <2>1. \A row \in grants.own : row = <<row[1], row[2]>> /\ row[1] \in People
    BY <1>1, Living DEF Good
  <2>2. \A row \in grants.own : row[2] # o
    BY <1>2, <2>1 DEF Owners
  <2> QED BY <2>2 DEF FreeFor
<1>6. os \in SUBSET LiveObjects
  BY <1>2
<1> HIDE DEF os
<1>7. Good(GrantOwner(grants, x, os), Accounts, LiveObjects)
  BY <1>1, <1>3, <1>4, <1>5, <1>6, GrantOwnerGood
<1> QED BY <1>2, <1>7, RowsOnly DEF fix_owner

(* For a moment both the account that goes and its heir own what it leaves.  *)
LEMMA HeirGood ==
  ASSUME NEW A, NEW L, NEW g, NEW a \in A, NEW heir \in A, heir # a, Good(g, A, L),
         Supers \subseteq A, NEW owned \in SUBSET L, \A o \in L : o \in owned <=> <<a, o>> \in g.own
  PROVE  Good(DropRowsOf(GrantOwner(g, heir, owned), a), A \ {a}, L)
<1> DEFINE h == GrantOwner(g, heir, owned)
           k == DropRowsOf(h, a)
<1>1. \A o \in owned : \A x \in A : <<x, o>> \in g.own => x = a
  BY DEF Good
<1>2. /\ h.see = g.see \cup ({heir} \X owned)
                      \cup (Supers \X {o \in owned : <<heir, o>> \notin g.see})
      /\ h.own = g.own \cup ({heir} \X owned)
  BY DEF GrantOwner
<1>3. h.see \subseteq A \X L /\ h.own \subseteq h.see
  BY <1>1, <1>2 DEF Good
<1> HIDE DEF h
<1>4. /\ k = [see |-> k.see, own |-> k.own]
      /\ k.see = {r \in h.see : r[1] # a} /\ k.own = {r \in h.own : r[1] # a}
  BY DEF DropRowsOf
<1>5. k.see \subseteq (A \ {a}) \X L /\ k.own \subseteq k.see
  BY <1>3, <1>4
<1>6. ASSUME NEW o \in L, NEW x \in A \ {a}, NEW y \in A \ {a},
             <<x, o>> \in k.own, <<y, o>> \in k.own
      PROVE  x = y
  <2>1. <<x, o>> \in h.own /\ <<y, o>> \in h.own
    BY <1>4, <1>6
  <2>2. CASE o \in owned
    <3>1. \A z \in A \ {a} : <<z, o>> \in h.own => z = heir
      BY <1>1, <1>2, <2>2
    <3> QED BY <2>1, <3>1
  <2>3. CASE o \notin owned
    <3>1. \A z \in A : <<z, o>> \in h.own => <<z, o>> \in g.own
      BY <1>2, <2>3
    <3> QED BY <2>1, <3>1 DEF Good
  <2> QED BY <2>2, <2>3
<1> HIDE DEF k
<1>7. Good(k, A \ {a}, L)
  BY <1>4, <1>5, <1>6 DEF Good
<1> QED BY <1>7 DEF k, h

LEMMA DeleteAccountStep ==
  ASSUME AccessInv, changes' \in 0 .. MaxChanges,
         NEW u \in Accounts, NEW a \in People,
         DeleteAccount(u, a)
  PROVE  AccessInv'
<1> DEFINE owned == {x \in Objects : <<a, x>> \in grants.own}
           gone == {UserOf(a), MailboxOf(a)}
           heir(o) == IF o = a THEN u ELSE o
           given(o) == DropRowsOf(GrantOwner(grants, heir(o), owned), a)
<1>1. Shape /\ Good(grants, Accounts, LiveObjects)
  BY GoodNow
<1>2. /\ a \in Accounts /\ u # a
      /\ role' = [role EXCEPT ![a] = Nobody] /\ box' = [box EXCEPT ![a] = Nobody]
      /\ places' = places /\ raised' = raised \ {a}
  BY DEF DeleteAccount, Shown
<1>3. PICK o \in Owners(grants, UserOf(a)) : grants' = ForgetObjects(given(o), gone)
  BY DEF DeleteAccount
<1>4. heir(o) \in Accounts /\ heir(o) # a
  BY <1>1, <1>2, <1>3 DEF Owners, Good
<1>5. Accounts' = Accounts \ {a}
  BY <1>1, <1>2 DEF Accounts, Shape
<1>6. LiveObjects \ gone \subseteq LiveObjects'
  <2> SUFFICES ASSUME NEW x \in LiveObjects \ gone
               PROVE  x \in LiveObjects'
    OBVIOUS
  <2>1. CASE x \in {UserOf(b) : b \in Accounts}
    BY <1>5, <2>1 DEF LiveObjects
  <2>2. CASE x \in {DomainOf(e) : e \in places}
    BY <1>2, <2>2 DEF LiveObjects
  <2>3. CASE x \in {MailboxOf(b) : b \in {c \in People : box[c] # Nobody}}
    <3>1. PICK b \in People : box[b] # Nobody /\ x = MailboxOf(b)
      BY <2>3
    <3>2. box'[b] # Nobody
      BY <1>1, <1>2, <3>1 DEF Shape
    <3> QED BY <3>1, <3>2 DEF LiveObjects
  <2> QED BY <2>1, <2>2, <2>3 DEF LiveObjects
<1>7. Shape'
  BY <1>1, <1>2, <1>5 DEF Shape
<1>8. owned \in SUBSET LiveObjects /\ \A x \in LiveObjects : x \in owned <=> <<a, x>> \in grants.own
  BY <1>1, Living DEF Good
<1>9. Supers \subseteq Accounts
  BY <1>1, Living
<1> HIDE DEF owned, heir
<1>10. Good(given(o), Accounts \ {a}, LiveObjects)
  BY <1>1, <1>2, <1>4, <1>8, <1>9, HeirGood
<1> HIDE DEF given, gone
<1>11. Good(grants', Accounts \ {a}, LiveObjects \ gone)
  BY <1>3, <1>10, ForgetGood
<1>12. Good(grants', Accounts', LiveObjects')
  BY <1>5, <1>6, <1>11, MoreGood
<1> QED BY <1>7, <1>12, GoodNext

-----------------------------------------------------------------------------
(* Whatever administrators of whatever roles do, every row names an account  *)
(* and an object that exist, and no object has two owners.                   *)
THEOREM RowsStayConsistent == OASpec => []AccessInv
<1>1. OAInit => AccessInv
  BY InitGood
<1>2. AccessInv /\ [OANext]_oaVars => AccessInv'
  <2> SUFFICES ASSUME AccessInv, [OANext]_oaVars
               PROVE  AccessInv'
    OBVIOUS
  <2>1. /\ changes \in 0 .. MaxChanges /\ MaxChanges \in Nat
        /\ Accounts \subseteq People /\ Supers \subseteq People
    BY AccessAssumption DEF AccessInv, OATypeOK, Accounts, Supers
  <2>2. CASE Creation /\ UNCHANGED changes
    <3>1. changes' \in 0 .. MaxChanges
      BY <2>1, <2>2
    <3>2. ASSUME NEW u \in Accounts, NEW a \in People, NEW r,
                 NEW d \in Places \cup {Nobody}, NEW ds \in SUBSET places,
                 CreateAccount(u, a, r, d, ds)
          PROVE  AccessInv'
      BY <3>1, <3>2, CreateAccountStep
    <3>3. ASSUME NEW u \in Accounts, NEW d \in Places, CreateDomain(u, d)
          PROVE  AccessInv'
      BY <3>1, <3>3, CreateDomainStep
    <3>4. ASSUME NEW a \in People, NEW d \in Places, NEW su \in Supers, AutoCreate(a, d, su)
          PROVE  AccessInv'
      BY <3>1, <3>4, AutoCreateStep
    <3> QED BY <2>2, <3>2, <3>3, <3>4 DEF Creation
  <2>3. CASE changes < MaxChanges /\ Change /\ changes' = changes + 1
    <3>1. changes' \in 0 .. MaxChanges
      BY <2>1, <2>3
    <3>2. ASSUME NEW u \in Accounts, NEW a \in People, AccountRequest(u, a)
          PROVE  AccessInv'
      <4>1. ASSUME NEW d \in places, AddMailbox(u, a, d)
            PROVE  AccessInv'
        BY <3>1, <4>1, AddMailboxStep
      <4>2. ASSUME NEW r \in Given, SetRole(u, a, r)
            PROVE  AccessInv'
        BY <3>1, <4>2, SetRoleStep
      <4>3. ASSUME NEW ds \in SUBSET places, NEW su \in Supers, SetDomains(u, a, ds, su)
            PROVE  AccessInv'
        BY <3>1, <4>3, SetDomainsStep
      <4>4. CASE DeleteAccount(u, a)
        BY <3>1, <4>4, DeleteAccountStep
      <4> QED BY <3>2, <4>1, <4>2, <4>3, <4>4 DEF AccountRequest
    <3>3. ASSUME NEW u \in Accounts, NEW d \in Places, DomainRequest(u, d)
          PROVE  AccessInv'
      <4>1. d \in places
        BY <3>3 DEF DomainRequest, DeleteDomain, add_admin, remove_admin, Manages
      <4>2. CASE DeleteDomain(u, d)
        BY <3>1, <4>1, <4>2, DeleteDomainStep
      <4>3. ASSUME NEW x \in People, add_admin(u, d, x)
            PROVE  AccessInv'
        BY <3>1, <4>1, <4>3, AddAdminStep
      <4>4. ASSUME NEW x \in People, NEW su \in Supers, remove_admin(u, d, x, su)
            PROVE  AccessInv'
        BY <3>1, <4>1, <4>4, RemoveAdminStep
      <4> QED BY <3>3, <4>2, <4>3, <4>4 DEF DomainRequest
    <3>4. ASSUME NEW o \in Objects, NEW x \in People, fix_owner(o, x)
          PROVE  AccessInv'
      BY <3>1, <3>4, FixOwnerStep
    <3> QED BY <2>3, <3>2, <3>3, <3>4 DEF Change
  <2>4. CASE UNCHANGED oaVars
    BY <2>4 DEF oaVars, AccessInv, OATypeOK, OneOwner, Owners, RowsOfTheLiving, LiveObjects,
                Accounts
  <2> QED BY <2>2, <2>3, <2>4 DEF OANext
<1> QED BY <1>1, <1>2, PTL DEF OASpec

(* get_object_owner, which every deletion calls, never meets two owners.     *)
THEOREM OwnerIsUnique == OASpec => []OneOwner
<1>1. AccessInv => OneOwner
  BY DEF AccessInv
<1> QED BY <1>1, RowsStayConsistent, PTL

-----------------------------------------------------------------------------
(* Ownership: who loses a row that made him an owner leaves another owner.   *)
Passes ==
  \A row \in grants.own :
    /\ row \notin grants'.see /\ row[2] \in LiveObjects'
    /\ role'[row[1]] \in {role[row[1]], Nobody}
    => Owners(grants', row[2]) # {}

LEMMA GrowingPasses ==
  ASSUME AccessInv, grants.see \subseteq grants'.see
  PROVE  Passes
BY DEF AccessInv, OATypeOK, Passes

(* Only rows of a are lost, by a change of its role.                         *)
LEMMA RolePasses ==
  ASSUME AccessInv, NEW a, role'[a] \notin {role[a], Nobody},
         \A r \in grants.see : r[1] # a => r \in grants'.see
  PROVE  Passes
BY DEF AccessInv, OATypeOK, Passes

LEMMA MailboxCreatedGrows ==
  ASSUME NEW g, NEW u, NEW a, NEW r, NEW d
  PROVE  g.see \subseteq MailboxCreated(g, u, a, r, d).see
BY DEF MailboxCreated, GrantOwner, Grant

LEMMA RoleSetKeeps ==
  ASSUME NEW g, NEW a, NEW r, NEW objects
  PROVE  \A row \in g.see : row[1] # a => row \in RoleSet(g, a, r, objects).see
BY DEF RoleSet, SeeAll, DropRowsOf

(* Those who have lost their rows are replaced by the super admin unless     *)
(* there is another owner.                                                   *)
LEMMA UngrantPasses ==
  ASSUME NEW g, NEW x, NEW os, NEW su \in People
  PROVE  /\ \A row \in g.see : row \notin {x} \X os => row \in Ungrant(g, x, os, su).see
         /\ \A o \in os : \E y \in Owners(Ungrant(g, x, os, su), o) : y # x \/ y = su
<1> DEFINE rest == [see |-> g.see \ ({x} \X os), own |-> g.own \ ({x} \X os)]
           free == {o \in os : Owners(rest, o) = {}}
<1>1. Ungrant(g, x, os, su) = GrantOwner(rest, su, free)
  BY DEF Ungrant
<1>2. ASSUME NEW o \in os
      PROVE  \E y \in Owners(GrantOwner(rest, su, free), o) : y # x \/ y = su
  <2>1. CASE Owners(rest, o) = {}
    BY <2>1 DEF Owners, GrantOwner
  <2>2. CASE Owners(rest, o) # {}
    <3>1. PICK y \in Owners(rest, o) : TRUE
      BY <2>2
    <3> QED BY <3>1 DEF Owners, GrantOwner
  <2> QED BY <2>1, <2>2
<1>3. rest.see \subseteq GrantOwner(rest, su, free).see
  BY DEF GrantOwner
<1> QED BY <1>1, <1>2, <1>3

LEMMA SetPermissionsPasses ==
  ASSUME NEW g, NEW a, NEW r, NEW ds, NEW su \in People
  PROVE  LET h == set_permissions(g, a, r, ds, su) IN
         /\ \A row \in g.see : row[1] # a => row \in h.see
         /\ a # su => \A o : <<a, o>> \in g.see /\ <<a, o>> \notin h.see => Owners(h, o) # {}
<1> DEFINE placed == {d \in places : <<a, DomainOf(d)>> \in g.see}
           gone == UNION {Scope(d) : d \in placed \ ds}
           new == UNION {Scope(d) : d \in ds \ placed}
           mid == Ungrant(g, a, gone, su)
<1>1. CASE r \in {"DomainAdmins", "Resellers"}
  <2>1. set_permissions(g, a, r, ds, su) = Grant(mid, {a} \X new)
    BY <1>1 DEF set_permissions
  <2> HIDE DEF placed, gone, new
  <2>2. /\ \A row \in g.see : row \notin {a} \X gone => row \in mid.see
        /\ \A o \in gone : \E y \in Owners(mid, o) : y # a \/ y = su
    BY UngrantPasses
  <2>3. mid.see \subseteq Grant(mid, {a} \X new).see
    BY DEF Grant
  <2>4. ASSUME a # su, NEW o, <<a, o>> \in g.see, <<a, o>> \notin Grant(mid, {a} \X new).see
        PROVE  Owners(Grant(mid, {a} \X new), o) # {}
    <3>1. o \in gone
      BY <2>2, <2>3, <2>4
    <3>2. PICK y \in Owners(mid, o) : y # a
      BY <2>2, <2>4, <3>1
    <3> QED BY <3>2 DEF Owners, Grant
  <2> QED BY <2>1, <2>2, <2>3, <2>4
<1>2. CASE r \notin {"DomainAdmins", "Resellers"}
  BY <1>2 DEF set_permissions
<1> QED BY <1>1, <1>2

LEMMA CreateAccountPasses ==
  ASSUME AccessInv, NEW u \in Accounts, NEW a \in People, NEW r, NEW d, NEW ds,
         CreateAccount(u, a, r, d, ds)
  PROVE  Passes
<1> DEFINE made == GrantOwner(grants, u, {UserOf(a)})
           boxed == IF d = Nobody THEN made ELSE MailboxCreated(made, u, a, Nobody, d)
           objects == LiveObjects \cup {UserOf(a)} \cup (IF d = Nobody THEN {} ELSE {MailboxOf(a)})
           ranked == RoleSet(boxed, a, r, objects)
<1>1. grants.see \subseteq boxed.see
  <2>1. grants.see \subseteq made.see
    BY DEF GrantOwner
  <2>2. made.see \subseteq MailboxCreated(made, u, a, Nobody, d).see
    BY MailboxCreatedGrows
  <2> QED BY <2>1, <2>2
<1>2. \A row \in boxed.see : row[1] # a => row \in ranked.see
  BY RoleSetKeeps
<1>3. \A row \in ranked.see : row[1] # a => row \in set_permissions(ranked, a, r, ds, u).see
  <2> HIDE DEF ranked
  <2> QED BY SetPermissionsPasses DEF Accounts
<1>4. set_permissions(ranked, a, r, ds, u).see \subseteq grants'.see
  BY DEF CreateAccount, SeeAll
<1>5. role[a] = Nobody /\ role'[a] # Nobody
  BY AccessAssumption DEF CreateAccount, get_account_roles, AccessInv, OATypeOK, Roles
<1> HIDE DEF boxed, ranked
<1> QED BY <1>1, <1>2, <1>3, <1>4, <1>5, RolePasses

LEMMA DeleteDomainPasses ==
  ASSUME AccessInv, NEW u, NEW d, DeleteDomain(u, d)
  PROVE  Passes
<1> DEFINE gone == {DomainOf(d)} \cup {MailboxOf(a) : a \in {b \in Accounts : box[b] = d}}
<1>1. \A r \in grants.see : r[2] \notin gone => r \in grants'.see
  BY DEF DeleteDomain, ForgetObjects
<1>2. gone \cap LiveObjects' = {}
  BY AccessAssumption
  DEF DeleteDomain, LiveObjects, DomainOf, MailboxOf, UserOf, AccessInv, OATypeOK, RowsOfTheLiving
<1> QED BY <1>1, <1>2 DEF Passes, AccessInv, OATypeOK

LEMMA DeleteAccountPasses ==
  ASSUME AccessInv, NEW u \in Accounts, NEW a \in People, DeleteAccount(u, a)
  PROVE  Passes
<1>1. PICK o \in Owners(grants, UserOf(a)) :
        LET heir == IF o = a THEN u ELSE o
            owned == {x \in Objects : <<a, x>> \in grants.own}
        IN grants' = ForgetObjects(DropRowsOf(GrantOwner(grants, heir, owned), a),
                                   {UserOf(a), MailboxOf(a)})
  BY DEF DeleteAccount
<1>2. \A r \in grants.see : r[1] # a /\ r[2] \notin {UserOf(a), MailboxOf(a)} => r \in grants'.see
  BY <1>1 DEF ForgetObjects, DropRowsOf, GrantOwner
<1>3. /\ role[a] # Nobody /\ role'[a] = Nobody /\ box'[a] = Nobody
  BY DEF DeleteAccount, Shown, Accounts, AccessInv, OATypeOK
<1>4. UserOf(a) \notin LiveObjects' /\ MailboxOf(a) \notin LiveObjects'
  BY <1>3 DEF LiveObjects, Accounts, UserOf, MailboxOf, DomainOf
<1>5. ASSUME NEW r \in grants.own, r[1] = a, r[2] \in LiveObjects'
      PROVE  Owners(grants', r[2]) # {}
  <2> DEFINE heir == IF o = a THEN u ELSE o
             owned == {x \in Objects : <<a, x>> \in grants.own}
             handed == GrantOwner(grants, heir, owned)
  <2>1. heir # a /\ heir \in People
    <3>1. u # a /\ o \in People
      BY DEF DeleteAccount, Owners
    <3> QED BY <3>1 DEF Accounts
  <2>2. r[2] \in owned /\ r = <<a, r[2]>>
    BY <1>5 DEF AccessInv, OATypeOK
  <2>3. <<heir, r[2]>> \in handed.own
    BY <2>2 DEF GrantOwner
  <2> HIDE DEF handed
  <2>4. grants' = ForgetObjects(DropRowsOf(handed, a), {UserOf(a), MailboxOf(a)})
    BY <1>1 DEF handed
  <2>5. <<heir, r[2]>> \in grants'.own
    BY <1>4, <1>5, <2>1, <2>3, <2>4 DEF ForgetObjects, DropRowsOf
  <2> QED BY <2>1, <2>5 DEF Owners
<1> QED BY <1>2, <1>4, <1>5 DEF Passes, AccessInv, OATypeOK

(* Domains are taken from an administrator, who is no super admin, or by a   *)
(* request that may take them from the very super admin who is the heir.     *)
LEMMA SetDomainsPasses ==
  ASSUME AccessInv, NEW u, NEW a \in People, NEW ds, NEW su \in Supers, SetDomains(u, a, ds, su)
  PROVE  Passes
<1>1. CASE role[a] \in {"DomainAdmins", "Resellers"}
  <2>1. a # su /\ su \in People
    BY <1>1 DEF Supers
  <2>2. /\ \A row \in grants.see : row[1] # a => row \in grants'.see
        /\ \A o : <<a, o>> \in grants.see /\ <<a, o>> \notin grants'.see => Owners(grants', o) # {}
    BY <2>1, SetPermissionsPasses DEF SetDomains
  <2>3. ASSUME NEW row \in grants.own, row \notin grants'.see
        PROVE  Owners(grants', row[2]) # {}
    <3>1. row \in grants.see /\ row = <<row[1], row[2]>>
      BY DEF AccessInv, OATypeOK
    <3> QED BY <2>2, <2>3, <3>1
  <2> QED BY <2>3 DEF Passes
<1>2. CASE role[a] \notin {"DomainAdmins", "Resellers"}
  BY <1>2, GrowingPasses DEF SetDomains, set_permissions
<1> QED BY <1>1, <1>2

LEMMA RemoveAdminPasses ==
  ASSUME AccessInv, NEW u, NEW d, NEW x, NEW su \in Supers, remove_admin(u, d, x, su)
  PROVE  Passes
<1>1. /\ \A row \in grants.see : row \notin {x} \X Scope(d) => row \in grants'.see
      /\ \A o \in Scope(d) : Owners(grants', o) # {}
  BY UngrantPasses DEF remove_admin, Supers
<1> QED BY <1>1 DEF Passes, AccessInv, OATypeOK

LEMMA OtherPasses ==
  ASSUME AccessInv, NEW u, NEW a \in People, NEW d, NEW x, NEW o, NEW r,
         \/ CreateDomain(u, d) \/ AutoCreate(a, d, u) \/ AddMailbox(u, a, d)
         \/ add_admin(u, d, x) \/ fix_owner(o, x) \/ SetRole(u, a, r)
  PROVE  Passes
<1>1. CASE CreateDomain(u, d)
  BY <1>1, GrowingPasses DEF CreateDomain, GrantOwner
<1>5. CASE add_admin(u, d, x)
  BY <1>5, GrowingPasses DEF add_admin, Grant
<1>6. CASE fix_owner(o, x)
  <2>1. grants.see \subseteq GrantOwner(grants, x, {o}).see
    BY DEF GrantOwner
  <2>2. grants' = GrantOwner(grants, x, {o})
    BY <1>6 DEF fix_owner
  <2> QED BY <2>1, <2>2, GrowingPasses
<1>2. CASE AutoCreate(a, d, u)
  <2> DEFINE dom == IF d \in places THEN grants ELSE GrantOwner(grants, u, {DomainOf(d)})
             made == GrantOwner(dom, u, {UserOf(a)})
  <2>1. grants.see \subseteq made.see
    BY DEF GrantOwner
  <2>2. grants' = MailboxCreated(made, u, a, "SimpleUsers", d)
    BY <1>2 DEF AutoCreate
  <2> HIDE DEF made
  <2> QED BY <2>1, <2>2, MailboxCreatedGrows, GrowingPasses
<1>3. CASE AddMailbox(u, a, d)
  BY <1>3, MailboxCreatedGrows, GrowingPasses DEF AddMailbox
<1>4. CASE SetRole(u, a, r)
  <2>1. role[a] # Nobody /\ r \in Roles /\ r # role[a]
    BY <1>4 DEF SetRole, MayUpdate, Shown, Accounts, get_account_roles, Roles
  <2>2. role'[a] = r
    BY <1>4 DEF SetRole, AccessInv, OATypeOK
  <2> QED BY <1>4, <2>1, <2>2, RoleSetKeeps, RolePasses, AccessAssumption DEF SetRole
<1> QED BY <1>1, <1>2, <1>3, <1>4, <1>5, <1>6

(* An object whose owner loses his row, or is deleted, has another owner at  *)
(* once, unless he lost it by a change of his role: however administrators   *)
(* take domains from each other, delete domains and delete accounts.         *)
THEOREM OwnershipIsPassedOn == OASpec => OwnershipPassedOn
<1>1. AccessInv /\ [OANext]_oaVars => [Passes]_oaVars
  <2> SUFFICES ASSUME AccessInv, OANext PROVE Passes
    OBVIOUS
  <2>1. CASE Creation
    <3>1. ASSUME NEW u \in Accounts, NEW a \in People, NEW r \in Given,
                 NEW d \in Places \cup {Nobody}, NEW ds \in SUBSET places,
                 CreateAccount(u, a, r, d, ds)
          PROVE  Passes
      BY <3>1, CreateAccountPasses
    <3>2. ASSUME NEW u \in Accounts, NEW d \in Places, CreateDomain(u, d)
          PROVE  Passes
      BY <3>2, AccessAssumption, OtherPasses
    <3>3. ASSUME NEW a \in People, NEW d \in Places, NEW su \in Supers, AutoCreate(a, d, su)
          PROVE  Passes
      BY <3>3, OtherPasses
    <3> QED BY <2>1, <3>1, <3>2, <3>3 DEF Creation
  <2>2. CASE Change
    <3>1. ASSUME NEW u \in Accounts, NEW a \in People, AccountRequest(u, a)
          PROVE  Passes
      BY <3>1, OtherPasses, SetDomainsPasses, DeleteAccountPasses DEF AccountRequest
    <3>2. ASSUME NEW u \in Accounts, NEW d \in Places, DomainRequest(u, d)
          PROVE  Passes
      BY <3>2, DeleteDomainPasses, OtherPasses, RemoveAdminPasses DEF DomainRequest
    <3> QED BY <2>2, <3>1, <3>2, OtherPasses DEF Change
  <2> QED BY <2>1, <2>2 DEF OANext
<1>2. OASpec => [][AccessInv /\ [OANext]_oaVars]_oaVars
  BY RowsStayConsistent, PTL DEF OASpec
<1>3. [Passes]_oaVars <=> [\A row \in grants.own :
        /\ row \notin grants'.see /\ row[2] \in LiveObjects'
        /\ role'[row[1]] \in {role[row[1]], Nobody}
        => Owners(grants', row[2]) # {}]_oaVars
  BY DEF Passes
<1> QED BY <1>1, <1>2, <1>3, RowsStayConsistent, PTL DEF OwnershipPassedOn, OASpec

-----------------------------------------------------------------------------
(* What administrators of domains see.                                       *)

(* The administrators among P of the domain d, owners aside, see the account *)
(* a and its mailbox.                                                        *)
Covers(g, P, d, a) ==
  \A x \in P : <<x, DomainOf(d)>> \in g.see \ g.own =>
    <<x, MailboxOf(a)>> \in g.see /\ <<x, UserOf(a)>> \in g.see

(* Whoever may add domains has been raised to it.                            *)
RaisedKnown == \A a \in Accounts : AddsDomains(role[a]) => a \in raised

Common == People \ Supers
CoverInv ==
  /\ RaisedKnown
  /\ \A a \in Accounts \ raised : box[a] \in places => Covers(grants, Common, box[a], a)

LEMMA CoverIsVisibility ==
  ASSUME AccessInv
  PROVE  AdminsSeeMailboxes <=>
           \A a \in Accounts \ raised : box[a] \in places => Covers(grants, Common, box[a], a)
<1>1. \A x, d : x \in AdminsOf(grants, d) \ Owners(grants, DomainOf(d))
                   <=> x \in Common /\ <<x, DomainOf(d)>> \in grants.see \ grants.own
  BY DEF AdminsOf, Owners, Common
<1>2. \A x, a : {x} \X {MailboxOf(a), UserOf(a)} \subseteq grants.see
                   <=> <<x, MailboxOf(a)>> \in grants.see /\ <<x, UserOf(a)>> \in grants.see
  OBVIOUS
<1>3. AdminsSeeMailboxes <=>
        \A d \in places : \A x \in AdminsOf(grants, d) \ Owners(grants, DomainOf(d)) :
          \A a \in Accounts \ raised :
            box[a] = d => <<x, MailboxOf(a)>> \in grants.see /\ <<x, UserOf(a)>> \in grants.see
  BY <1>2 DEF AdminsSeeMailboxes
<1> QED BY <1>1, <1>3 DEF Covers

LEMMA Distinct ==
  /\ \A d, a : DomainOf(d) # MailboxOf(a) /\ DomainOf(d) # UserOf(a)
  /\ \A a, b : MailboxOf(a) # UserOf(b)
  /\ \A a, b : MailboxOf(a) = MailboxOf(b) => a = b
  /\ \A a, b : UserOf(a) = UserOf(b) => a = b
  /\ \A d, e : DomainOf(d) = DomainOf(e) => d = e
BY DEF DomainOf, MailboxOf, UserOf

(* An owner's new row does not make him an administrator.                    *)
LEMMA GrantOwnerCovers ==
  ASSUME NEW g, NEW P, P \cap Supers = {}, NEW d, NEW a, Covers(g, P, d, a), NEW u, NEW os
  PROVE  Covers(GrantOwner(g, u, os), P, d, a)
BY DEF Covers, GrantOwner

(* Rows of objects that are no domains.                                      *)
LEMMA GrantCovers ==
  ASSUME NEW g, NEW P, NEW d, NEW a, Covers(g, P, d, a), NEW rows,
         \A x : <<x, DomainOf(d)>> \notin rows
  PROVE  Covers(Grant(g, rows), P, d, a) /\ Covers(SeeAll(g, rows), P, d, a)
BY DEF Covers, Grant, SeeAll

(* A new mailbox is shown to every administrator of its domain.              *)
LEMMA MailboxCreatedCovers ==
  ASSUME NEW g, NEW P, P = Common, NEW u, NEW a, NEW r, NEW d, NEW e, NEW b
  PROVE  /\ Covers(g, P, e, b) => Covers(MailboxCreated(g, u, a, r, d), P, e, b)
         /\ ~AddsDomains(r) /\ (u \in P => <<u, UserOf(a)>> \in g.see)
              => Covers(MailboxCreated(g, u, a, r, d), P, d, a)
<1> DEFINE owned == GrantOwner(g, u, {MailboxOf(a)})
           rows == (AdminsOf(g, d) \ {u}) \X {MailboxOf(a), UserOf(a)}
<1>1. MailboxCreated(g, u, a, r, d) = IF AddsDomains(r) THEN owned ELSE Grant(owned, rows)
  BY DEF MailboxCreated
<1>2. \A x, f : <<x, DomainOf(f)>> \notin rows
  BY Distinct
<1>3. ASSUME Covers(g, P, e, b) PROVE Covers(owned, P, e, b)
  BY <1>3, GrantOwnerCovers DEF Common
<1>4. ASSUME Covers(g, P, e, b) PROVE Covers(Grant(owned, rows), P, e, b)
  <2> HIDE DEF owned, rows
  <2> QED BY <1>2, <1>3, <1>4, GrantCovers
<1>5. ASSUME u \in P => <<u, UserOf(a)>> \in g.see
      PROVE  Covers(Grant(owned, rows), P, d, a)
  BY <1>5, Distinct DEF Covers, Grant, GrantOwner, AdminsOf, Common
<1> QED BY <1>1, <1>3, <1>4, <1>5

LEMMA ScopeFacts ==
  ASSUME NEW d, NEW e, NEW a
  PROVE  /\ DomainOf(e) \in Scope(d) <=> e = d
         /\ MailboxOf(a) \in Scope(d) \/ UserOf(a) \in Scope(d)
              <=> a \in Accounts /\ box[a] = d /\ ~AddsDomains(role[a])
         /\ MailboxOf(a) \in Scope(d) <=> UserOf(a) \in Scope(d)
BY DEF Scope, DomainOf, MailboxOf, UserOf

(* Who loses the scope of some domains keeps that of others.                 *)
LEMMA UngrantCovers ==
  ASSUME NEW g, NEW P, P = Common, NEW x, NEW ds, NEW su \in Supers,
         NEW a \in Accounts, Covers(g, P, box[a], a)
  PROVE  Covers(Ungrant(g, x, UNION {Scope(d) : d \in ds}, su), P, box[a], a)
<1> DEFINE os == UNION {Scope(d) : d \in ds}
           rest == [see |-> g.see \ ({x} \X os), own |-> g.own \ ({x} \X os)]
           free == {o \in os : Owners(rest, o) = {}}
<1>1. /\ DomainOf(box[a]) \in os <=> box[a] \in ds
      /\ MailboxOf(a) \in os \/ UserOf(a) \in os => box[a] \in ds
  BY ScopeFacts
<1>2. Covers(rest, P, box[a], a)
  <2> HIDE DEF os
  <2> QED BY <1>1 DEF Covers
<1>3. Ungrant(g, x, os, su) = GrantOwner(rest, su, free)
  BY DEF Ungrant
<1> HIDE DEF rest, free, os
<1>4. Covers(GrantOwner(rest, su, free), P, box[a], a)
  BY <1>2, GrantOwnerCovers DEF Common
<1> QED BY <1>3, <1>4 DEF os

(* Who is given the scope of some domains sees all there is in them.         *)
LEMMA GrantScopeCovers ==
  ASSUME NEW g, NEW P, NEW x, NEW ds, NEW a \in Accounts, ~AddsDomains(role[a]),
         Covers(g, P, box[a], a)
  PROVE  Covers(Grant(g, {x} \X UNION {Scope(d) : d \in ds}), P, box[a], a)
<1> DEFINE os == UNION {Scope(d) : d \in ds}
<1>1. /\ DomainOf(box[a]) \in os <=> box[a] \in ds
      /\ box[a] \in ds => MailboxOf(a) \in os /\ UserOf(a) \in os
  <2>1. MailboxOf(a) \in Scope(box[a]) /\ UserOf(a) \in Scope(box[a])
    BY ScopeFacts
  <2>2. \A d : DomainOf(box[a]) \in Scope(d) <=> box[a] = d
    BY ScopeFacts
  <2> QED BY <2>1, <2>2
<1> HIDE DEF os
<1>2. Covers(Grant(g, {x} \X os), P, box[a], a)
  BY <1>1 DEF Covers, Grant
<1> QED BY <1>2 DEF os

LEMMA SetPermissionsCovers ==
  ASSUME NEW g, NEW x, NEW r, NEW ds, NEW su \in Supers,
         NEW a \in Accounts, ~AddsDomains(role[a]), Covers(g, Common, box[a], a)
  PROVE  Covers(set_permissions(g, x, r, ds, su), Common, box[a], a)
BY UngrantCovers, GrantScopeCovers DEF set_permissions

LEMMA Monotone ==
  ASSUME NEW g, NEW h, NEW P, NEW Q \in SUBSET P, NEW d, NEW a, Covers(g, P, d, a),
         \A x \in Q : <<x, DomainOf(d)>> \in h.see \ h.own => <<x, DomainOf(d)>> \in g.see \ g.own,
         \A x \in Q : \A o \in {MailboxOf(a), UserOf(a)} : <<x, o>> \in g.see => <<x, o>> \in h.see
  PROVE  Covers(h, Q, d, a)
BY DEF Covers

LEMMA CreateDomainCovers ==
  ASSUME AccessInv, CoverInv, NEW u, NEW d \in Places, CreateDomain(u, d)
  PROVE  CoverInv'
<1>1. \A a \in Accounts : box[a] \in places' => box[a] \in places
  BY AccessAssumption DEF CreateDomain, AccessInv, RowsOfTheLiving, Accounts, OATypeOK
<1>2. \A a \in Accounts \ raised : box[a] \in places => Covers(grants', Common, box[a], a)
  BY GrantOwnerCovers DEF CoverInv, CreateDomain, Common
<1> QED BY <1>1, <1>2 DEF CoverInv, RaisedKnown, CreateDomain, Common, Supers, Accounts, Covers

LEMMA DeleteDomainCovers ==
  ASSUME AccessInv, CoverInv, NEW u, NEW d \in places, DeleteDomain(u, d)
  PROVE  CoverInv'
<1> DEFINE os == {DomainOf(d)} \cup {MailboxOf(a) : a \in {b \in Accounts : box[b] = d}}
<1>1. ASSUME NEW a \in Accounts \ raised, box'[a] \in places'
      PROVE  Covers(grants', Common, box'[a], a)
  <2>1. a \in People /\ box[a] # d /\ box'[a] = box[a] /\ box[a] \in places
    BY <1>1, AccessAssumption DEF DeleteDomain, Accounts, AccessInv, OATypeOK
  <2>2. MailboxOf(a) \notin os /\ UserOf(a) \notin os /\ DomainOf(box[a]) \notin os
    BY <2>1, Distinct
  <2>3. grants' = ForgetObjects(grants, os)
    BY DEF DeleteDomain
  <2> HIDE DEF os
  <2>4. Covers(grants, Common, box[a], a)
    BY <1>1, <2>1 DEF CoverInv
  <2> QED BY <2>1, <2>2, <2>3, <2>4 DEF ForgetObjects, Covers
<1> QED BY <1>1 DEF CoverInv, RaisedKnown, DeleteDomain, Common, Supers, Accounts, Covers

LEMMA AutoCreateCovers ==
  ASSUME AccessInv, CoverInv, NEW a \in People, NEW d \in Places, NEW su \in Supers,
         AutoCreate(a, d, su)
  PROVE  CoverInv'
<1> DEFINE dom == IF d \in places THEN grants ELSE GrantOwner(grants, su, {DomainOf(d)})
           made == GrantOwner(dom, su, {UserOf(a)})
<1>1. /\ Accounts' = Accounts \cup {a} /\ a \notin Accounts /\ Supers' = Supers /\ raised' = raised
      /\ \A b \in Accounts : role'[b] = role[b] /\ box'[b] = box[b]
      /\ role'[a] = "SimpleUsers" /\ box'[a] = d
      /\ \A b \in Accounts : box[b] \in places' => box[b] \in places
      /\ grants' = MailboxCreated(made, su, a, "SimpleUsers", d)
  BY AccessAssumption
  DEF AutoCreate, Accounts, Supers, AccessInv, OATypeOK, RowsOfTheLiving, Roles
<1>2. Common' = Common /\ su \notin Common
  BY <1>1 DEF Common
<1>3. ASSUME NEW b \in Accounts \ raised, box[b] \in places
      PROVE  Covers(grants', Common, box[b], b)
  <2>1. Covers(dom, Common, box[b], b)
    BY <1>3, GrantOwnerCovers DEF CoverInv, Common
  <2> HIDE DEF dom
  <2>2. Covers(made, Common, box[b], b)
    BY <2>1, GrantOwnerCovers DEF Common
  <2> HIDE DEF made
  <2> QED BY <1>1, <2>2, MailboxCreatedCovers
<1>4. Covers(grants', Common, d, a)
  <2> HIDE DEF made
  <2> QED BY <1>1, <1>2, MailboxCreatedCovers DEF AddsDomains
<1>5. RaisedKnown'
  BY <1>1 DEF RaisedKnown, CoverInv, AddsDomains
<1>6. \A b \in Accounts' \ raised' : box'[b] \in places' => Covers(grants', Common', box'[b], b)
  BY <1>1, <1>2, <1>3, <1>4
<1> QED BY <1>5, <1>6 DEF CoverInv, Covers

LEMMA AddMailboxCovers ==
  ASSUME AccessInv, CoverInv, NEW u, NEW a, NEW d, AddMailbox(u, a, d)
  PROVE  CoverInv'
<1>1. /\ Accounts' = Accounts /\ Supers' = Supers /\ raised' = raised /\ role' = role
      /\ a \in Accounts /\ box'[a] = d /\ \A b \in Accounts \ {a} : box'[b] = box[b]
      /\ grants' = MailboxCreated(grants, u, a, role[a], d)
      /\ places' = places /\ Common' = Common /\ <<u, UserOf(a)>> \in grants.see
  BY DEF AddMailbox, Shown, Accounts, Supers, Common, AccessInv, OATypeOK
<1>2. ASSUME NEW b \in Accounts \ raised, b # a, box[b] \in places
      PROVE  Covers(grants', Common, box[b], b)
  BY <1>1, <1>2, MailboxCreatedCovers DEF CoverInv
<1>3. ASSUME a \notin raised PROVE Covers(grants', Common, d, a)
  BY <1>1, <1>3, MailboxCreatedCovers DEF CoverInv, RaisedKnown
<1> QED BY <1>1, <1>2, <1>3 DEF CoverInv, RaisedKnown, Covers

LEMMA SetRoleCovers ==
  ASSUME AccessInv, CoverInv, NEW u, NEW a \in People, NEW r, SetRole(u, a, r)
  PROVE  CoverInv'
<1>1. /\ a \in Accounts /\ r \in Roles /\ role' = [role EXCEPT ![a] = r]
      /\ grants' = RoleSet(grants, a, r, LiveObjects) /\ places' = places /\ box' = box
      /\ raised' = IF AddsDomains(r) THEN raised \cup {a} ELSE raised
  BY DEF SetRole, MayUpdate, Shown, get_account_roles, Accounts, AccessInv, OATypeOK, Roles
<1>2. Accounts' = Accounts /\ RaisedKnown'
  BY <1>1, AccessAssumption
  DEF Accounts, RaisedKnown, CoverInv, AccessInv, OATypeOK, Roles, AddsDomains
<1>3. ASSUME NEW b \in Accounts \ raised', box[b] \in places
      PROVE  Covers(grants', Common', box[b], b)
  <2>1. Covers(grants, Common, box[b], b)
    BY <1>1, <1>3 DEF CoverInv
  <2>2. ASSUME NEW x \in Common', <<x, DomainOf(box[b])>> \in grants'.see \ grants'.own
        PROVE  <<x, MailboxOf(b)>> \in grants'.see /\ <<x, UserOf(b)>> \in grants'.see
    <3>1. CASE x # a
      <4>1. x \in Common
        BY <1>1, <2>2, <3>1 DEF Common, Supers, AccessInv, OATypeOK
      <4>2. \A o : /\ <<x, o>> \in grants'.see <=> <<x, o>> \in grants.see
                   /\ <<x, o>> \in grants'.own <=> <<x, o>> \in grants.own
        BY <1>1, <3>1 DEF RoleSet, SeeAll, DropRowsOf
      <4> QED BY <2>1, <2>2, <4>1, <4>2 DEF Covers
    <3>2. CASE x = a
      <4>1. r # "SuperAdmins" /\ DomainOf(box[b]) # UserOf(a)
        BY <1>1, <2>2, <3>2, Distinct DEF Common, Supers, AccessInv, OATypeOK
      <4>2. role[a] # "SuperAdmins" /\ r # "SimpleUsers"
        BY <1>1, <2>2, <3>2, <4>1 DEF RoleSet, SeeAll, DropRowsOf
      <4>3. grants'.see = grants.see \cup {<<a, UserOf(a)>>} /\ grants'.own = grants.own
        BY <1>1, <4>1, <4>2 DEF RoleSet, SeeAll
      <4>4. a \in Common
        BY <4>2 DEF Common, Supers
      <4> QED BY <2>1, <2>2, <3>2, <4>1, <4>3, <4>4 DEF Covers
    <3> QED BY <3>1, <3>2
  <2> QED BY <2>2 DEF Covers
<1> QED BY <1>1, <1>2, <1>3 DEF CoverInv, Covers

LEMMA DeleteAccountCovers ==
  ASSUME AccessInv, CoverInv, NEW u \in Accounts, NEW a \in People, DeleteAccount(u, a)
  PROVE  CoverInv'
<1>1. PICK o \in Owners(grants, UserOf(a)) :
        LET heir == IF o = a THEN u ELSE o
            owned == {x \in Objects : <<a, x>> \in grants.own}
        IN grants' = ForgetObjects(DropRowsOf(GrantOwner(grants, heir, owned), a),
                                   {UserOf(a), MailboxOf(a)})
  BY DEF DeleteAccount
<1> DEFINE heir == IF o = a THEN u ELSE o
           owned == {x \in Objects : <<a, x>> \in grants.own}
           given == GrantOwner(grants, heir, owned)
<1>2. /\ role' = [role EXCEPT ![a] = Nobody] /\ places' = places /\ raised' = raised \ {a}
      /\ Accounts' = Accounts \ {a} /\ \A b \in Accounts \ {a} : box'[b] = box[b]
      /\ Common' = Common \cup {a}
  BY AccessAssumption
  DEF DeleteAccount, Accounts, Common, Supers, AccessInv, OATypeOK, Roles
<1>3. ASSUME NEW b \in Accounts' \ raised', box'[b] \in places'
      PROVE  Covers(grants', Common', box'[b], b)
  <2>1. Covers(grants, Common, box[b], b) /\ b # a
    BY <1>2, <1>3 DEF CoverInv
  <2>2. Covers(given, Common, box[b], b)
    BY <2>1, GrantOwnerCovers DEF Common
  <2>3. grants' = ForgetObjects(DropRowsOf(given, a), {UserOf(a), MailboxOf(a)})
    BY <1>1
  <2> HIDE DEF given
  <2>4. \A x : x # a => /\ <<x, MailboxOf(b)>> \in given.see => <<x, MailboxOf(b)>> \in grants'.see
                        /\ <<x, UserOf(b)>> \in given.see => <<x, UserOf(b)>> \in grants'.see
    BY <2>1, <2>3, Distinct DEF ForgetObjects, DropRowsOf
  <2>5. \A x, d : <<x, DomainOf(d)>> \in grants'.see \ grants'.own
                    => x # a /\ <<x, DomainOf(d)>> \in given.see \ given.own
    BY <2>3, Distinct DEF ForgetObjects, DropRowsOf
  <2> QED BY <1>2, <1>3, <2>2, <2>4, <2>5 DEF Covers
<1>4. RaisedKnown'
  BY <1>2 DEF RaisedKnown, CoverInv, Accounts, AccessInv, OATypeOK
<1> QED BY <1>3, <1>4 DEF CoverInv, Covers

LEMMA SetDomainsCovers ==
  ASSUME AccessInv, CoverInv, NEW u, NEW a \in People, NEW ds, NEW su \in Supers,
         SetDomains(u, a, ds, su)
  PROVE  CoverInv'
<1>1. \A b \in Accounts \ raised : box[b] \in places => Covers(grants', Common, box[b], b)
  BY SetPermissionsCovers DEF SetDomains, CoverInv, RaisedKnown
<1> QED BY <1>1 DEF SetDomains, CoverInv, RaisedKnown, Accounts, Common, Supers, Covers

LEMMA AddAdminCovers ==
  ASSUME AccessInv, CoverInv, NEW u, NEW d, NEW x, add_admin(u, d, x)
  PROVE  CoverInv'
<1>1. Scope(d) = UNION {Scope(e) : e \in {d}}
  OBVIOUS
<1>2. ASSUME NEW b \in Accounts \ raised, box[b] \in places
      PROVE  Covers(grants', Common, box[b], b)
  <2>1. Covers(grants, Common, box[b], b) /\ ~AddsDomains(role[b])
    BY <1>2 DEF CoverInv, RaisedKnown
  <2>2. Covers(Grant(grants, {x} \X UNION {Scope(e) : e \in {d}}), Common, box[b], b)
    BY <2>1, GrantScopeCovers
  <2> QED BY <1>1, <2>2 DEF add_admin
<1> QED BY <1>2 DEF add_admin, CoverInv, RaisedKnown, Accounts, Common, Supers, Covers

LEMMA RemoveAdminCovers ==
  ASSUME AccessInv, CoverInv, NEW u, NEW d, NEW x, NEW su \in Supers, remove_admin(u, d, x, su)
  PROVE  CoverInv'
<1>1. Scope(d) = UNION {Scope(e) : e \in {d}}
  OBVIOUS
<1>2. ASSUME NEW b \in Accounts \ raised, box[b] \in places
      PROVE  Covers(grants', Common, box[b], b)
  <2>1. Covers(grants, Common, box[b], b)
    BY <1>2 DEF CoverInv
  <2>2. Covers(Ungrant(grants, x, UNION {Scope(e) : e \in {d}}, su), Common, box[b], b)
    BY <2>1, UngrantCovers
  <2> QED BY <1>1, <2>2 DEF remove_admin
<1> QED BY <1>2 DEF remove_admin, CoverInv, RaisedKnown, Accounts, Common, Supers, Covers

LEMMA FixOwnerCovers ==
  ASSUME AccessInv, CoverInv, NEW o, NEW x, fix_owner(o, x)
  PROVE  CoverInv'
<1>1. \A b \in Accounts \ raised : box[b] \in places => Covers(grants', Common, box[b], b)
  BY GrantOwnerCovers DEF fix_owner, CoverInv, Common
<1> QED BY <1>1 DEF fix_owner, CoverInv, RaisedKnown, Accounts, Common, Supers, Covers

LEMMA CreateAccountCovers ==
  ASSUME AccessInv, CoverInv, NEW u \in Accounts, NEW a \in People, NEW r,
         NEW d \in Places \cup {Nobody}, NEW ds \in SUBSET places,
         CreateAccount(u, a, r, d, ds)
  PROVE  CoverInv'
<1> DEFINE made == GrantOwner(grants, u, {UserOf(a)})
           boxed == IF d = Nobody THEN made ELSE MailboxCreated(made, u, a, Nobody, d)
           objects == LiveObjects \cup {UserOf(a)} \cup (IF d = Nobody THEN {} ELSE {MailboxOf(a)})
           ranked == RoleSet(boxed, a, r, objects)
           own == IF d \in ds /\ r = "DomainAdmins" THEN {<<a, MailboxOf(a)>>} ELSE {}
           final == set_permissions(ranked, a, r, ds, u)
           new == UNION {Scope(e) : e \in ds}
<1>1. /\ grants' = SeeAll(final, own) /\ r \in Roles /\ a \notin Accounts /\ role[a] = Nobody
      /\ role' = [role EXCEPT ![a] = r] /\ box' = [box EXCEPT ![a] = d] /\ places' = places
      /\ raised' = (IF AddsDomains(r) THEN raised \cup {a} ELSE raised)
      /\ d = Nobody \/ d \in places
  BY DEF CreateAccount, get_account_roles, Accounts, Roles
<1>2. /\ Accounts' = Accounts \cup {a} /\ Common' \subseteq Common
      /\ \A b \in Accounts : role'[b] = role[b] /\ box'[b] = box[b]
      /\ role'[a] = r /\ box'[a] = d
      /\ a \in Common' => r # "SuperAdmins"
      /\ Nobody \notin places /\ ~AddsDomains(Nobody)
  BY <1>1, AccessAssumption
  DEF Accounts, Common, Supers, AccessInv, OATypeOK, Roles, AddsDomains
<1>3. ASSUME NEW b \in Accounts \ raised, box[b] \in places
      PROVE  Covers(boxed, Common, box[b], b)
  <2>1. Covers(made, Common, box[b], b)
    BY <1>3, GrantOwnerCovers DEF CoverInv, Common
  <2> HIDE DEF made
  <2> QED BY <2>1, MailboxCreatedCovers
<1>4. ASSUME d # Nobody PROVE Covers(boxed, Common, d, a)
  <2>1. <<u, UserOf(a)>> \in made.see
    BY DEF GrantOwner
  <2> HIDE DEF made
  <2> QED BY <1>2, <1>4, <2>1, MailboxCreatedCovers
<1>5. \A row \in boxed.see : row[1] # a
  <2>1. \A row \in made.see : row[1] # a
    BY <1>1, AccessAssumption DEF GrantOwner, Supers, Accounts, AccessInv, RowsOfTheLiving, Roles
  <2> HIDE DEF made
  <2>2. \A row \in MailboxCreated(made, u, a, Nobody, d).see : row[1] # a
    <3> DEFINE owned == GrantOwner(made, u, {MailboxOf(a)})
    <3>1. \A row \in owned.see : row[1] # a
      BY <1>1, <2>1, AccessAssumption DEF GrantOwner, Supers, Accounts, Roles
    <3>2. a \notin AdminsOf(made, d)
      BY <2>1 DEF AdminsOf
    <3>3. \A row \in Grant(owned, (AdminsOf(made, d) \ {u}) \X {MailboxOf(a), UserOf(a)}).see :
            row[1] # a
      BY <3>1, <3>2 DEF Grant
    <3> HIDE DEF owned
    <3> QED BY <3>1, <3>3 DEF MailboxCreated, owned
  <2> QED BY <2>1, <2>2
<1> HIDE DEF boxed
<1>6. /\ r \in {"DomainAdmins", "Resellers"} =>
           /\ ranked.see = boxed.see \cup {<<a, UserOf(a)>>} /\ ranked.own = boxed.own
           /\ final.see = ranked.see \cup ({a} \X new) /\ final.own = ranked.own \ ({a} \X new)
      /\ r \notin {"DomainAdmins", "Resellers"} => final = ranked
  <2>1. ASSUME r \in {"DomainAdmins", "Resellers"}
        PROVE  ranked.see = boxed.see \cup {<<a, UserOf(a)>>} /\ ranked.own = boxed.own
    BY <2>1, <1>1, AccessAssumption DEF RoleSet, SeeAll, Roles
  <2> HIDE DEF ranked
  <2> DEFINE placed == {e \in places : <<a, DomainOf(e)>> \in ranked.see}
  <2>2. ASSUME r \in {"DomainAdmins", "Resellers"}
        PROVE  placed = {}
    BY <2>1, <2>2, <1>5, Distinct
  <2>3. /\ Ungrant(ranked, a, {}, u).see = ranked.see
        /\ Ungrant(ranked, a, {}, u).own = ranked.own
    <3>1. {a} \X {} = {} /\ {u} \X {} = {} /\ Supers \X {} = {}
      OBVIOUS
    <3> QED BY <3>1 DEF Ungrant, GrantOwner
  <2>4. r \in {"DomainAdmins", "Resellers"} =>
          final = Grant(Ungrant(ranked, a, UNION {Scope(e) : e \in placed \ ds}, u),
                        {a} \X UNION {Scope(e) : e \in ds \ placed})
    BY DEF set_permissions
  <2>5. ASSUME r \in {"DomainAdmins", "Resellers"}
        PROVE  final = Grant(Ungrant(ranked, a, {}, u), {a} \X new)
    <3>1. UNION {Scope(e) : e \in placed \ ds} = {} /\ ds \ placed = ds
      BY <2>2, <2>5
    <3> HIDE DEF placed, final
    <3> QED BY <2>4, <2>5, <3>1
  <2>6. r \notin {"DomainAdmins", "Resellers"} => final = ranked
    BY DEF set_permissions
  <2> HIDE DEF final, new
  <2> QED BY <2>1, <2>3, <2>5, <2>6 DEF Grant
<1>7. \A x, o : x # a => /\ <<x, o>> \in grants'.see <=> <<x, o>> \in boxed.see
                         /\ <<x, o>> \in grants'.own <=> <<x, o>> \in boxed.own
  <2>1. r \notin {"DomainAdmins", "Resellers"} =>
          \A x, o : x # a => /\ <<x, o>> \in ranked.see <=> <<x, o>> \in boxed.see
                             /\ <<x, o>> \in ranked.own <=> <<x, o>> \in boxed.own
    BY DEF RoleSet, SeeAll, DropRowsOf
  <2>2. /\ \A x, o : x # a => <<x, o>> \in grants'.see <=> <<x, o>> \in final.see
        /\ grants'.own = final.own
    BY <1>1 DEF SeeAll
  <2> HIDE DEF final, ranked, new
  <2> QED BY <1>6, <2>1, <2>2
<1>8. ASSUME NEW b \in Accounts' \ raised', box'[b] \in places',
             Covers(boxed, Common, box'[b], b),
             a \in Common', <<a, DomainOf(box'[b])>> \in grants'.see \ grants'.own
      PROVE  <<a, MailboxOf(b)>> \in grants'.see /\ <<a, UserOf(b)>> \in grants'.see
  <2>1. r # "SuperAdmins" /\ <<a, DomainOf(box'[b])>> \in final.see
    <3> HIDE DEF final
    <3>1. grants'.see = final.see \cup own
      BY <1>1 DEF SeeAll
    <3>2. <<a, DomainOf(box'[b])>> \notin own
      BY Distinct
    <3> HIDE DEF own
    <3> QED BY <1>2, <1>8, <3>1, <3>2
  <2>2. r # "SimpleUsers"
    <3>1. r = "SimpleUsers" => \A row \in ranked.see : row[1] # a
      BY <1>1, AccessAssumption DEF RoleSet, DropRowsOf, Roles
    <3> HIDE DEF ranked, final
    <3> QED BY <1>6, <2>1, <3>1
  <2>3. r \in {"DomainAdmins", "Resellers"}
    BY <1>1, <2>1, <2>2 DEF Roles
  <2> HIDE DEF ranked, final
  <2>4. DomainOf(box'[b]) \in new /\ {a} \X new \subseteq grants'.see
        /\ <<a, UserOf(a)>> \in grants'.see
    BY <1>1, <1>5, <1>6, <2>1, <2>3, Distinct DEF SeeAll
  <2>5. box'[b] \in ds
    BY <2>4, ScopeFacts
  <2>6. CASE b = a
    <3>1. r = "DomainAdmins" /\ d \in ds
      BY <1>1, <1>2, <1>8, <2>3, <2>5, <2>6 DEF AddsDomains
    <3> QED BY <1>1, <2>4, <2>6, <3>1 DEF SeeAll
  <2>7. CASE b # a
    <3>1. b \in Accounts \ raised /\ box'[b] = box[b] /\ ~AddsDomains(role[b])
      BY <1>1, <1>2, <1>8, <2>7 DEF CoverInv, RaisedKnown
    <3>2. MailboxOf(b) \in Scope(box[b]) /\ UserOf(b) \in Scope(box[b])
      BY <3>1, ScopeFacts
    <3> QED BY <2>4, <2>5, <3>1, <3>2
  <2> QED BY <2>6, <2>7
<1> HIDE DEF ranked, final, new, own
<1>9. ASSUME NEW b \in Accounts' \ raised', box'[b] \in places'
      PROVE  Covers(grants', Common', box'[b], b)
  <2>1. Covers(boxed, Common, box'[b], b)
    BY <1>1, <1>2, <1>3, <1>4, <1>9
  <2> QED BY <1>2, <1>7, <1>8, <1>9, <2>1 DEF Covers
<1>10. RaisedKnown'
  BY <1>1, <1>2 DEF RaisedKnown, CoverInv
<1> QED BY <1>9, <1>10 DEF CoverInv, Covers

(* An administrator of a domain, unless he owns it, sees all its mailboxes   *)
(* and their accounts, whatever was created, moved, promoted and taken away  *)
(* in which order, so long as these have never been of higher administrators.*)
THEOREM AdminsAlwaysSeeMailboxes == OASpec => []AdminsSeeMailboxes
<1>1. OAInit => CoverInv
  BY AccessAssumption DEF OAInit, CoverInv, RaisedKnown, Accounts
<1>2. AccessInv /\ CoverInv /\ [OANext]_oaVars => CoverInv'
  <2> SUFFICES ASSUME AccessInv, CoverInv, [OANext]_oaVars PROVE CoverInv'
    OBVIOUS
  <2>1. CASE Creation
    <3>1. ASSUME NEW u \in Accounts, NEW a \in People, NEW r \in Given,
                 NEW d \in Places \cup {Nobody}, NEW ds \in SUBSET places,
                 CreateAccount(u, a, r, d, ds)
          PROVE  CoverInv'
      BY <3>1, CreateAccountCovers
    <3> QED BY <2>1, <3>1, CreateDomainCovers, AutoCreateCovers DEF Creation
  <2>2. CASE Change
    <3>1. ASSUME NEW u \in Accounts, NEW a \in People, AccountRequest(u, a)
          PROVE  CoverInv'
      BY <3>1, AddMailboxCovers, SetRoleCovers, SetDomainsCovers, DeleteAccountCovers
      DEF AccountRequest
    <3>2. ASSUME NEW u \in Accounts, NEW d \in Places, DomainRequest(u, d)
          PROVE  CoverInv'
      BY <3>2, DeleteDomainCovers, AddAdminCovers, RemoveAdminCovers
      DEF DomainRequest, DeleteDomain
    <3> QED BY <2>2, <3>1, <3>2, FixOwnerCovers DEF Change
  <2>3. CASE UNCHANGED oaVars
    BY <2>3 DEF oaVars, CoverInv, RaisedKnown, Accounts, Common, Supers, Covers
  <2> QED BY <2>1, <2>2, <2>3 DEF OANext
<1>3. AccessInv /\ CoverInv => AdminsSeeMailboxes
  BY CoverIsVisibility DEF CoverInv
<1> QED BY <1>1, <1>2, <1>3, RowsStayConsistent, PTL DEF OASpec

-----------------------------------------------------------------------------
(* The second factors of accounts (SecondFactors).                          *)

(* What request q has loaded and done so far, when it runs alone.            *)
Agrees(f) ==
  /\ f.webauthn <=> fido # {}
  /\ f.totp => device
  /\ codes <=> tfa_enabled(f)
Progress(q) ==
  LET pc == login[q].pc
      loaded == login[q].flag IN
  /\ pc \in {"confirm", "disable", "register", "destroy"} => loaded = flag /\ Agrees(flag)
  /\ pc = "confirm" => device
  /\ pc = "register" => login[q].key # {}
  /\ pc = "flag" => loaded = flag /\ ~flag.webauthn /\ fido # {} /\ (flag.totp => device)
  /\ pc = "codes" => flag.webauthn /\ fido # {} /\ (flag.totp => device)
  /\ pc = "destroy" => flag.webauthn
  /\ pc = "count" => loaded = flag /\ flag.webauthn /\ (flag.totp => device) /\ codes
  /\ pc = "drop" =>
       /\ loaded.webauthn <=> fido # {}
       /\ loaded.totp => device
       /\ tfa_enabled(loaded) => codes
  /\ pc = "save" => Agrees(loaded)

(* One request at a time, and its intermediate state.                        *)
OneByOne ==
  undisturbed => \A q \in Logins : login[q] # Outside =>
    /\ \A r \in Logins : login[r] # Outside => r = q
    /\ Progress(q)

SFIndInv == SFTypeOK /\ FactorsAgree /\ OneByOne

(* The record of a handler that is not running is at no step of a request.   *)
LEMMA NoRequest == Outside.pc = "none"
  BY DEF Outside

(* tfa_setup draws the secret of a device nobody has confirmed, and leaves   *)
(* the rest alone.                                                           *)
LEMMA TfaSetupStep == ASSUME SFIndInv,  tfa_setup PROVE SFIndInv'
<1> USE NoRequest DEF SFIndInv, tfa_setup
<1>1. SFTypeOK'
  BY DEF SFTypeOK
<1>2. FactorsAgree'
  BY DEF SFTypeOK, FactorsAgree, OneByOne, Progress, Agrees, tfa_enabled
<1>3. OneByOne'
  BY DEF SFTypeOK, FactorsAgree, OneByOne, Progress, Agrees, tfa_enabled
<1> QED BY <1>1, <1>2, <1>3

(* A confirming request reads the user, and finds the device there is.       *)
LEMMA TfaSetupCheckStep == ASSUME SFIndInv, NEW q \in Logins, tfa_setup_check(q) PROVE SFIndInv'
<1> USE NoRequest DEF SFIndInv, tfa_setup_check, Loads
<1>0. /\ login'[q].pc = "confirm"
      /\ login'[q].flag = flag
      /\ login'[q].key = {}
  BY DEF SFTypeOK
<1>1. SFTypeOK'
  BY DEF SFTypeOK
<1>2. FactorsAgree'
  BY DEF SFTypeOK, FactorsAgree, OneByOne, Progress, Agrees, tfa_enabled
<1>3. ASSUME undisturbed' PROVE \A r \in Logins : r # q => login'[r] = Outside
  BY <1>3 DEF SFTypeOK, OneByOne
<1>4. ASSUME undisturbed' PROVE Progress(q)'
  BY <1>0, <1>4 DEF SFTypeOK, FactorsAgree, OneByOne, Progress, Agrees, tfa_enabled
<1>5. OneByOne'
  BY <1>3, <1>4 DEF OneByOne
<1> QED BY <1>1, <1>2, <1>5

(* The codes are there; the request goes on to save the flag it has raised.  *)
LEMMA ConfirmStep == ASSUME SFIndInv, NEW q \in Logins, Confirm(q) PROVE SFIndInv'
<1> USE NoRequest DEF SFIndInv, Confirm, Then
<1>0. /\ login'[q].pc = "save"
      /\ login'[q].flag = [login[q].flag EXCEPT !.totp = TRUE]
      /\ login'[q].key = login[q].key
  BY DEF SFTypeOK
<1>1. SFTypeOK'
  BY DEF SFTypeOK
<1>2. FactorsAgree'
  BY DEF SFTypeOK, FactorsAgree, OneByOne, Progress, Agrees, tfa_enabled
<1>3. ASSUME undisturbed' PROVE \A r \in Logins : r # q => login'[r] = Outside
  BY <1>3 DEF SFTypeOK, OneByOne
<1>4. ASSUME undisturbed' PROVE Progress(q)'
  BY <1>0, <1>4 DEF SFTypeOK, FactorsAgree, OneByOne, Progress, Agrees, tfa_enabled
<1>5. OneByOne'
  BY <1>3, <1>4 DEF OneByOne
<1> QED BY <1>1, <1>2, <1>5

(* A request to switch the second factor off enters its handler.             *)
LEMMA TfaDisableStep == ASSUME SFIndInv, NEW q \in Logins, tfa_disable(q) PROVE SFIndInv'
<1> USE NoRequest DEF SFIndInv, tfa_disable, Loads
<1>0. /\ login'[q].pc = "disable"
      /\ login'[q].flag = flag
      /\ login'[q].key = {}
  BY DEF SFTypeOK
<1>1. SFTypeOK'
  BY DEF SFTypeOK
<1>2. FactorsAgree'
  BY DEF SFTypeOK, FactorsAgree, OneByOne, Progress, Agrees, tfa_enabled
<1>3. ASSUME undisturbed' PROVE \A r \in Logins : r # q => login'[r] = Outside
  BY <1>3 DEF SFTypeOK, OneByOne
<1>4. ASSUME undisturbed' PROVE Progress(q)'
  BY <1>0, <1>4 DEF SFTypeOK, FactorsAgree, OneByOne, Progress, Agrees, tfa_enabled
<1>5. OneByOne'
  BY <1>3, <1>4 DEF OneByOne
<1> QED BY <1>1, <1>2, <1>5

(* The disabling request removes the devices of the user.                    *)
LEMMA RemoveDeviceStep == ASSUME SFIndInv, NEW q \in Logins, RemoveDevice(q) PROVE SFIndInv'
<1> USE NoRequest DEF SFIndInv, RemoveDevice, Then
<1>0. /\ login'[q].pc = "drop"
      /\ login'[q].flag = [login[q].flag EXCEPT !.totp = FALSE]
      /\ login'[q].key = login[q].key
  BY DEF SFTypeOK
<1>1. SFTypeOK'
  BY DEF SFTypeOK
<1>2. FactorsAgree'
  BY DEF SFTypeOK, FactorsAgree, OneByOne, Progress, Agrees, tfa_enabled
<1>3. ASSUME undisturbed' PROVE \A r \in Logins : r # q => login'[r] = Outside
  BY <1>3 DEF SFTypeOK, OneByOne
<1>4. ASSUME undisturbed' PROVE Progress(q)'
  BY <1>0, <1>4 DEF SFTypeOK, FactorsAgree, OneByOne, Progress, Agrees, tfa_enabled
<1>5. OneByOne'
  BY <1>3, <1>4 DEF OneByOne
<1> QED BY <1>1, <1>2, <1>5

(* The codes go with the last factor the request knows of; it goes on to     *)
(* save.                                                                     *)
LEMMA DropCodesStep == ASSUME SFIndInv, NEW q \in Logins, DropCodes(q) PROVE SFIndInv'
<1> USE NoRequest DEF SFIndInv, DropCodes, Then
<1>0. /\ login'[q].pc = "save"
      /\ login'[q].flag = login[q].flag
      /\ login'[q].key = login[q].key
  BY DEF SFTypeOK
<1>1. SFTypeOK'
  BY DEF SFTypeOK
<1>2. FactorsAgree'
  BY DEF SFTypeOK, FactorsAgree, OneByOne, Progress, Agrees, tfa_enabled
<1>3. ASSUME undisturbed' PROVE \A r \in Logins : r # q => login'[r] = Outside
  BY <1>3 DEF SFTypeOK, OneByOne
<1>4. ASSUME undisturbed' PROVE Progress(q)'
  BY <1>0, <1>4 DEF SFTypeOK, FactorsAgree, OneByOne, Progress, Agrees, tfa_enabled
<1>5. OneByOne'
  BY <1>3, <1>4 DEF OneByOne
<1> QED BY <1>1, <1>2, <1>5

(* A key registration has loaded the user.                                   *)
LEMMA RegistrationStep ==
  ASSUME SFIndInv, NEW q \in Logins, NEW k \in FidoKeys, registration_end(q, k) PROVE SFIndInv'
<1> USE NoRequest DEF SFIndInv, registration_end, Loads
<1>0. /\ login'[q].pc = "register"
      /\ login'[q].flag = flag
      /\ login'[q].key = {k}
  BY DEF SFTypeOK
<1>1. SFTypeOK'
  BY DEF SFTypeOK
<1>2. FactorsAgree'
  BY DEF SFTypeOK, FactorsAgree, OneByOne, Progress, Agrees, tfa_enabled
<1>3. ASSUME undisturbed' PROVE \A r \in Logins : r # q => login'[r] = Outside
  BY <1>3 DEF SFTypeOK, OneByOne
<1>4. ASSUME undisturbed' PROVE Progress(q)'
  BY <1>0, <1>4 DEF SFTypeOK, FactorsAgree, OneByOne, Progress, Agrees, tfa_enabled
<1>5. OneByOne'
  BY <1>3, <1>4 DEF OneByOne
<1> QED BY <1>1, <1>2, <1>5

(* The key is there before the flag; the flag is skipped when it was loaded  *)
(* as set.                                                                   *)
LEMMA CreateKeyStep == ASSUME SFIndInv, NEW q \in Logins, CreateKey(q) PROVE SFIndInv'
<1> USE NoRequest DEF SFIndInv, CreateKey, Then
<1>0. /\ login'[q].pc = (IF login[q].flag.webauthn THEN "codes" ELSE "flag")
      /\ login'[q].flag = login[q].flag
      /\ login'[q].key = login[q].key
  BY DEF SFTypeOK
<1>1. SFTypeOK'
  BY DEF SFTypeOK
<1>2. FactorsAgree'
  BY DEF SFTypeOK, FactorsAgree, OneByOne, Progress, Agrees, tfa_enabled
<1>3. ASSUME undisturbed' PROVE \A r \in Logins : r # q => login'[r] = Outside
  BY <1>3 DEF SFTypeOK, OneByOne
<1>4. ASSUME undisturbed' PROVE Progress(q)'
  BY <1>0, <1>4 DEF SFTypeOK, FactorsAgree, OneByOne, Progress, Agrees, tfa_enabled
<1>5. OneByOne'
  BY <1>3, <1>4 DEF OneByOne
<1> QED BY <1>1, <1>2, <1>5

(* The flag a registration saves, after the key it speaks of is there.       *)
LEMMA SaveKeyFlagStep == ASSUME SFIndInv, NEW q \in Logins, SaveKeyFlag(q) PROVE SFIndInv'
<1> USE NoRequest DEF SFIndInv, SaveKeyFlag, Then
<1>0. /\ login'[q].pc = "codes"
      /\ login'[q].flag = flag'
      /\ login'[q].key = login[q].key
  BY DEF SFTypeOK
<1>1. SFTypeOK'
  BY DEF SFTypeOK
<1>2. FactorsAgree'
  BY DEF SFTypeOK, FactorsAgree, OneByOne, Progress, Agrees, tfa_enabled
<1>3. ASSUME undisturbed' PROVE \A r \in Logins : r # q => login'[r] = Outside
  BY <1>3 DEF SFTypeOK, OneByOne
<1>4. ASSUME undisturbed' PROVE Progress(q)'
  BY <1>0, <1>4 DEF SFTypeOK, FactorsAgree, OneByOne, Progress, Agrees, tfa_enabled
<1>5. OneByOne'
  BY <1>3, <1>4 DEF OneByOne
<1> QED BY <1>1, <1>2, <1>5

(* The recovery codes that end a registration.                               *)
LEMMA CreateCodesStep == ASSUME SFIndInv, NEW q \in Logins, CreateCodes(q) PROVE SFIndInv'
<1> USE NoRequest DEF SFIndInv, CreateCodes, Done
<1>1. SFTypeOK'
  BY DEF SFTypeOK
<1>2. FactorsAgree'
  BY DEF SFTypeOK, FactorsAgree, OneByOne, Progress, Agrees, tfa_enabled
<1>3. OneByOne'
  BY DEF SFTypeOK, FactorsAgree, OneByOne, Progress, Agrees, tfa_enabled
<1> QED BY <1>1, <1>2, <1>3

(* The deletion of a key enters its handler.                                 *)
LEMMA DestroyStep ==
  ASSUME SFIndInv, NEW q \in Logins, NEW k \in FidoKeys, destroy(q, k) PROVE SFIndInv'
<1> USE NoRequest DEF SFIndInv, destroy, Loads
<1>0. /\ login'[q].pc = "destroy"
      /\ login'[q].flag = flag
      /\ login'[q].key = {k}
  BY DEF SFTypeOK
<1>1. SFTypeOK'
  BY DEF SFTypeOK
<1>2. FactorsAgree'
  BY DEF SFTypeOK, FactorsAgree, OneByOne, Progress, Agrees, tfa_enabled
<1>3. ASSUME undisturbed' PROVE \A r \in Logins : r # q => login'[r] = Outside
  BY <1>3 DEF SFTypeOK, OneByOne
<1>4. ASSUME undisturbed' PROVE Progress(q)'
  BY <1>0, <1>4 DEF SFTypeOK, FactorsAgree, OneByOne, Progress, Agrees, tfa_enabled
<1>5. OneByOne'
  BY <1>3, <1>4 DEF OneByOne
<1> QED BY <1>1, <1>2, <1>5

(* The key goes; the flag is settled by the steps that follow.               *)
LEMMA DeleteKeyStep == ASSUME SFIndInv, NEW q \in Logins, DeleteKey(q) PROVE SFIndInv'
<1> USE NoRequest DEF SFIndInv, DeleteKey, Then
<1>0. /\ login'[q].pc = "count"
      /\ login'[q].flag = login[q].flag
      /\ login'[q].key = login[q].key
  BY DEF SFTypeOK
<1>1. SFTypeOK'
  BY DEF SFTypeOK
<1>2. FactorsAgree'
  BY DEF SFTypeOK, FactorsAgree, OneByOne, Progress, Agrees, tfa_enabled
<1>3. ASSUME undisturbed' PROVE \A r \in Logins : r # q => login'[r] = Outside
  BY <1>3 DEF SFTypeOK, OneByOne
<1>4. ASSUME undisturbed' PROVE Progress(q)'
  BY <1>0, <1>4 DEF SFTypeOK, FactorsAgree, OneByOne, Progress, Agrees, tfa_enabled
<1>5. OneByOne'
  BY <1>3, <1>4 DEF OneByOne
<1> QED BY <1>1, <1>2, <1>5

(* The count of the keys that are left decides what the request saves.       *)
LEMMA CountKeysStep == ASSUME SFIndInv, NEW q \in Logins, CountKeys(q) PROVE SFIndInv'
<1> USE NoRequest DEF SFIndInv, CountKeys
<1>1. CASE fido # {}
  <2> USE <1>1 DEF Done
  <2>1. SFTypeOK'
    BY DEF SFTypeOK
  <2>2. FactorsAgree'
    BY DEF SFTypeOK, FactorsAgree, OneByOne, Progress, Agrees, tfa_enabled
  <2>3. OneByOne'
    BY ZenonT(60) DEF SFTypeOK, FactorsAgree, OneByOne, Progress, Agrees, tfa_enabled
  <2> QED BY <2>1, <2>2, <2>3
<1>2. CASE fido = {}
  <2>a. /\ Then(q, "drop", [login[q].flag EXCEPT !.webauthn = FALSE])
        /\ login[q].pc = "count" /\ UNCHANGED <<flag, device, fido, codes>>
    BY <1>2
  <2> HIDE DEF CountKeys
  <2> USE <1>2, <2>a DEF Then
  <2>0. /\ login'[q].pc = "drop"
        /\ login'[q].flag = [login[q].flag EXCEPT !.webauthn = FALSE]
        /\ login'[q].key = login[q].key
    BY DEF SFTypeOK
  <2>1. SFTypeOK'
    BY DEF SFTypeOK
  <2>2. FactorsAgree'
    BY <2>0 DEF SFTypeOK, FactorsAgree, OneByOne, Progress, Agrees, tfa_enabled
  <2>3. ASSUME undisturbed' PROVE \A r \in Logins : r # q => login'[r] = Outside
    BY <2>3 DEF SFTypeOK, OneByOne
  <2>4. ASSUME undisturbed' PROVE Progress(q)'
    BY <2>0, <2>4 DEF SFTypeOK, FactorsAgree, OneByOne, Progress, Agrees, tfa_enabled
  <2>5. OneByOne'
    BY <2>3, <2>4 DEF OneByOne
  <2> QED BY <2>1, <2>2, <2>5
<1> QED BY <1>1, <1>2

(* Another request that will save the row has loaded it.                     *)
LEMMA SaveProfileStep == ASSUME SFIndInv, NEW q \in Logins, SaveProfile(q) PROVE SFIndInv'
<1> USE NoRequest DEF SFIndInv, SaveProfile, Loads
<1>0. /\ login'[q].pc = "save"
      /\ login'[q].flag = flag
      /\ login'[q].key = {}
  BY DEF SFTypeOK
<1>1. SFTypeOK'
  BY DEF SFTypeOK
<1>2. FactorsAgree'
  BY DEF SFTypeOK, FactorsAgree, OneByOne, Progress, Agrees, tfa_enabled
<1>3. ASSUME undisturbed' PROVE \A r \in Logins : r # q => login'[r] = Outside
  BY <1>3 DEF SFTypeOK, OneByOne
<1>4. ASSUME undisturbed' PROVE Progress(q)'
  BY <1>0, <1>4 DEF SFTypeOK, FactorsAgree, OneByOne, Progress, Agrees, tfa_enabled
<1>5. OneByOne'
  BY <1>3, <1>4 DEF OneByOne
<1> QED BY <1>1, <1>2, <1>5

(* The save that ends the request of a user.                                 *)
LEMMA SaveStep == ASSUME SFIndInv, NEW q \in Logins, Save(q) PROVE SFIndInv'
<1> USE NoRequest DEF SFIndInv, Save, Done
<1>1. SFTypeOK'
  BY DEF SFTypeOK
<1>2. FactorsAgree'
  BY DEF SFTypeOK, FactorsAgree, OneByOne, Progress, Agrees, tfa_enabled
<1>3. OneByOne'
  BY DEF SFTypeOK, FactorsAgree, OneByOne, Progress, Agrees, tfa_enabled
<1> QED BY <1>1, <1>2, <1>3

(* A request whose process dies leaves what its finished steps wrote.        *)
LEMMA FactorsKilledStep == ASSUME SFIndInv, NEW q \in Logins, RequestKilled(q) PROVE SFIndInv'
<1> USE NoRequest DEF SFIndInv, RequestKilled
<1>1. SFTypeOK'
  BY DEF SFTypeOK
<1>2. FactorsAgree'
  BY DEF SFTypeOK, FactorsAgree, OneByOne, Progress, Agrees, tfa_enabled
<1>3. OneByOne'
  BY DEF SFTypeOK, FactorsAgree, OneByOne, Progress, Agrees, tfa_enabled
<1> QED BY <1>1, <1>2, <1>3

(* Each request, alone, leads from agreement to agreement.                   *)
LEMMA SFStepKeeps == ASSUME SFIndInv, [SFNext]_sfVars PROVE SFIndInv'
<1>1. CASE UNCHANGED sfVars
  BY <1>1 DEF sfVars, SFIndInv, SFTypeOK, FactorsAgree, OneByOne, Progress, Agrees
<1>2. ASSUME SFNext PROVE SFIndInv'
  BY <1>2, TfaSetupStep, TfaSetupCheckStep, ConfirmStep, TfaDisableStep, RemoveDeviceStep,
     DropCodesStep, RegistrationStep, CreateKeyStep, SaveKeyFlagStep, CreateCodesStep, DestroyStep,
     DeleteKeyStep, CountKeysStep, SaveProfileStep, SaveStep, FactorsKilledStep DEF SFNext
<1> QED BY <1>1, <1>2

(* The second factor views (core/api/v2, core/fido2_auth.py): as long as the  *)
(* requests of a user run one after the other and to their ends, the flags   *)
(* say which factors there are, and there are recovery codes exactly as long *)
(* as there is one.                                                          *)
THEOREM FactorsAlwaysAgree == SFSpec => []FactorsInv
<1>1. SFInit => SFIndInv
  <2> SUFFICES ASSUME SFInit PROVE SFIndInv
    OBVIOUS
  <2>1. SFTypeOK
    BY DEF SFInit, SFTypeOK
  <2>2. ~flag.totp /\ ~flag.webauthn
    BY DEF SFInit
  <2>3. FactorsAgree
    BY <2>2 DEF SFInit, FactorsAgree, tfa_enabled
  <2>4. OneByOne
    BY DEF SFInit, OneByOne
  <2> QED BY <2>1, <2>3, <2>4 DEF SFIndInv
<1>2. SFIndInv /\ [SFNext]_sfVars => SFIndInv'
  BY SFStepKeeps
<1>3. SFIndInv => FactorsInv
  BY DEF SFIndInv, FactorsInv
<1> QED BY <1>1, <1>2, <1>3, PTL DEF SFSpec

-----------------------------------------------------------------------------
(* The global parameters (GlobalParameters).                                *)

(* What forms and requests, and the job, may hold.                           *)
Forms == [{"ldap", "logo"} -> Nat] \cup [{"size"} -> Nat]
Values == [Parameters -> Nat]
SheetRows ==
  [at : {"closed"}]
  \cup [at : {"open"}, app : {"core", "limits"}, old : BOOLEAN, form : Forms]
  \cup [at : {"saving"}, app : {"core", "limits"}, old : BOOLEAN, chosen : Parameters,
        value : Values]
  \cup [at : {"uploading"}, app : {"core"}, old : BOOLEAN, older : BOOLEAN, need : BOOLEAN,
        form : Forms, value : Values]
ApiRows ==
  [at : {"idle"}] \cup [at : {"asked"}, old : BOOLEAN, copy : [value : Values, need : BOOLEAN]]

GivenValues(value) == \A p \in Parameters : value[p] \in 0 .. values

(* A copy that nobody has overtaken agrees with the row, but for what is     *)
(* being chosen.                                                             *)
SheetOK(s) ==
  /\ sheet[s].at = "open" =>
       /\ DOMAIN sheet[s].form = ParametersOf(sheet[s].app)
       /\ \A p \in ParametersOf(sheet[s].app) : sheet[s].form[p] \in 0 .. values
       /\ ~sheet[s].old =>
            \A p \in ParametersOf(sheet[s].app) : sheet[s].form[p] = config.value[p]
  /\ sheet[s].at = "saving" =>
       /\ sheet[s].chosen \in ParametersOf(sheet[s].app)
       /\ GivenValues(sheet[s].value)
       /\ ~sheet[s].old =>
            \A p \in Parameters \ {sheet[s].chosen} : sheet[s].value[p] = config.value[p]
  /\ sheet[s].at = "uploading" =>
       /\ DOMAIN sheet[s].form = ParametersOf("core")
       /\ GivenValues(sheet[s].value)
       /\ \A p \in ParametersOf("core") : sheet[s].form[p] \in 0 .. values
       /\ ~sheet[s].older => \A p \in ParametersOf("core") : sheet[s].form[p] = sheet[s].value[p]
       /\ ~sheet[s].old =>
            /\ \A p \in Parameters \ {"logo"} : sheet[s].value[p] = config.value[p]
            /\ config.need => sheet[s].need

SheetsOK == sheet \in [Sheets -> SheetRows] /\ \A s \in Sheets : SheetOK(s)

ApiOK ==
  /\ api \in ApiRows
  /\ api.at = "asked" =>
       /\ GivenValues(api.copy.value)
       /\ ~api.old => /\ \A p \in Parameters : api.copy.value[p] = config.value[p]
                      /\ config.need => api.copy.need

(* While the command runs the flag is up, or its fall was missed: an empty   *)
(* file is never taken for a finished one.                                   *)
UpdateOK ==
  /\ update.at \in {"idle", "needed", "open", "write", "done"}
  /\ update.at # "idle" => config.need \/ missed
  /\ update.at \in {"open", "write"} =>
       update \in [at : {"open", "write"}, value : 0 .. values]
  /\ update.at = "done" => /\ update.value \in 0 .. values
                           /\ kind[update.value] = "ldap" => dovecot = update.value

GPIndInv == ParametersInv /\ GivenValues(config.value) /\ SheetsOK /\ ApiOK /\ UpdateOK

-----------------------------------------------------------------------------
(* The parameters a settings row can hold, written out.                      *)
LEMMA ParametersAre ==
  /\ ParametersOf("core") = {"ldap", "logo"} /\ ParametersOf("limits") = {"size"}
  /\ Parameters = {"ldap", "logo", "size"}
  BY DEF ParametersOf, Parameters

(* The record of a request that is not running.                              *)
LEMMA RestIs ==
  /\ Closed \in SheetRows /\ Closed.at = "closed"
  /\ NoRunYet \in ApiRows /\ NoRunYet.at = "idle"
<1>1. Closed \in [at : {"closed"}] /\ Closed.at = "closed"
  BY DEF Closed
<1>2. NoRunYet \in [at : {"idle"}] /\ NoRunYet.at = "idle"
  BY DEF NoRunYet
<1> QED BY <1>1, <1>2 DEF SheetRows, ApiRows

(* What has been overtaken is what it was, and old.                          *)
LEMMA StaleSheet ==
  ASSUME NEW r \in SheetRows
  PROVE  /\ Stale(r) \in SheetRows /\ Stale(r).at = r.at
         /\ r.at = "open" => Stale(r).old /\ Stale(r).app = r.app /\ Stale(r).form = r.form
         /\ r.at = "saving" => /\ Stale(r).old /\ Stale(r).app = r.app
                               /\ Stale(r).chosen = r.chosen /\ Stale(r).value = r.value
         /\ r.at = "uploading" => /\ Stale(r).old /\ Stale(r).older = r.older
                                  /\ Stale(r).form = r.form /\ Stale(r).value = r.value
<1>1. CASE r \in [at : {"closed"}]
  BY <1>1 DEF Stale, SheetRows
<1>2. CASE r \in [at : {"open"}, app : {"core", "limits"}, old : BOOLEAN, form : Forms]
  <2>1. Stale(r) = [r EXCEPT !.old = TRUE]
    BY <1>2 DEF Stale
  <2> QED BY <1>2, <2>1 DEF SheetRows
<1>3. CASE r \in [at : {"saving"}, app : {"core", "limits"}, old : BOOLEAN, chosen : Parameters,
                  value : Values]
  <2>1. Stale(r) = [r EXCEPT !.old = TRUE]
    BY <1>3 DEF Stale
  <2> QED BY <1>3, <2>1 DEF SheetRows
<1>4. CASE r \in [at : {"uploading"}, app : {"core"}, old : BOOLEAN, older : BOOLEAN,
                  need : BOOLEAN,
                  form : Forms, value : Values]
  <2>1. Stale(r) = [r EXCEPT !.old = TRUE]
    BY <1>4 DEF Stale
  <2> QED BY <1>4, <2>1 DEF SheetRows
<1> QED BY <1>1, <1>2, <1>3, <1>4 DEF SheetRows

(* What a request holds of a row is only marked as old when the row is       *)
(* saved over it.                                                            *)
LEMMA StaleApi ==
  ASSUME NEW r \in ApiRows
  PROVE  /\ Stale(r) \in ApiRows /\ Stale(r).at = r.at
         /\ r.at = "asked" => Stale(r).old /\ Stale(r).copy = r.copy
<1>1. CASE r \in [at : {"idle"}]
  BY <1>1 DEF Stale, ApiRows
<1>2. CASE r \in [at : {"asked"}, old : BOOLEAN, copy : [value : Values, need : BOOLEAN]]
  <2>1. Stale(r) = [r EXCEPT !.old = TRUE]
    BY <1>2 DEF Stale
  <2> QED BY <1>2, <2>1 DEF ApiRows
<1> QED BY <1>1, <1>2 DEF ApiRows

(* What a form in each state is.                                             *)
LEMMA SheetIs ==
  ASSUME NEW r \in SheetRows
  PROVE  /\ r.at \in {"closed", "open", "saving", "uploading"}
         /\ r.at = "open" =>
              r \in [at : {"open"}, app : {"core", "limits"}, old : BOOLEAN, form : Forms]
         /\ r.at = "saving" => r \in [at : {"saving"}, app : {"core", "limits"}, old : BOOLEAN,
                                      chosen : Parameters, value : Values]
         /\ r.at = "uploading" => r \in [at : {"uploading"}, app : {"core"}, old : BOOLEAN,
                                         older : BOOLEAN, need : BOOLEAN, form : Forms,
                                              value : Values]
  BY DEF SheetRows

-----------------------------------------------------------------------------
(* A commit: what was chosen is there, and whatever else has changed was     *)
(* changed by a copy that was old.                                           *)
LEMMA CommitKeeps ==
  ASSUME GPIndInv, NEW value \in Values, NEW need \in BOOLEAN, NEW old \in BOOLEAN,
         NEW chosen \in SUBSET Parameters, Commit(value, need, old, chosen),
         GivenValues(value), need \/ "ldap" \notin chosen,
         ~old => /\ \A p \in Parameters \ chosen : value[p] = config.value[p]
                 /\ config.need => need,
         UNCHANGED <<kind, dovecot, values, update>>, DOMAIN sheet' = Sheets
  PROVE  ParametersInv' /\ GivenValues(config.value)' /\ UpdateOK'
              /\ config' = [value |-> value, need |-> need]
<1> USE ParametersAssumption, ParametersAre DEF GPIndInv, ParametersInv
<1>1. /\ config' = [value |-> value, need |-> need] /\ config'.value = value /\ config'.need = need
      /\ meant' = [p \in Parameters |-> IF p \in chosen THEN value[p] ELSE meant[p]]
      /\ undone' = (undone \ chosen) \cup
           (IF old THEN {p \in Parameters \ chosen : value[p] # config.value[p]} ELSE {})
      /\ missed' = (~need /\ (missed \/ (old /\ (config.need \/ value["ldap"]
                                                                  # config.value["ldap"]))))
  BY DEF Commit
<1>2. GivenValues(config.value)'
  BY <1>1 DEF GivenValues
<1>3. GPTypeOK'
  <2>1. value \in [Parameters -> 0 .. MaxSaves]
    BY DEF GivenValues, Values, GPTypeOK
  <2>2. undone' \subseteq Parameters
    BY <1>1 DEF GPTypeOK
  <2>3. missed' \in BOOLEAN
    BY <1>1
  <2> QED BY <1>1, <2>1, <2>2, <2>3 DEF GPTypeOK
<1>4. ParametersKept'
  <2> SUFFICES ASSUME NEW p \in Parameters, p \notin undone' PROVE value[p] = meant'[p]
    BY <1>1 DEF ParametersKept
  <2>1. CASE p \in chosen
    BY <1>1, <2>1
  <2>2. CASE p \notin chosen
    BY <1>1, <2>2 DEF ParametersKept
  <2> QED BY <2>1, <2>2
<1>5. DovecotFollows'
  <2> SUFFICES ASSUME ~need, ~missed', kind[value["ldap"]] = "ldap" PROVE dovecot = value["ldap"]
    BY <1>1 DEF DovecotFollows
  <2>1. ~missed /\ ~config.need /\ value["ldap"] = config.value["ldap"]
    BY <1>1
  <2> QED BY <2>1 DEF DovecotFollows
<1>6. UpdateOK'
  <2>1. config.need \/ missed => need \/ missed'
    BY <1>1
  <2> QED BY <1>1, <2>1 DEF UpdateOK
<1> QED BY <1>1, <1>2, <1>3, <1>4, <1>5, <1>6

(* Every other form, and the job, has been overtaken.                        *)
LEMMA OvertakenSheet ==
  ASSUME GPIndInv, NEW t \in Sheets, sheet'[t] = Stale(sheet[t]), UNCHANGED values PROVE SheetOK(t)'
<1>1. sheet[t] \in SheetRows /\ SheetOK(t)
  BY DEF GPIndInv, SheetsOK
<1>2. /\ sheet'[t].at = sheet[t].at
      /\ sheet[t].at = "open" => /\ sheet'[t].old /\ sheet'[t].app = sheet[t].app
                                 /\ sheet'[t].form = sheet[t].form
      /\ sheet[t].at = "saving" => /\ sheet'[t].old /\ sheet'[t].app = sheet[t].app
                                   /\ sheet'[t].chosen = sheet[t].chosen
                                   /\ sheet'[t].value = sheet[t].value
      /\ sheet[t].at = "uploading" => /\ sheet'[t].old /\ sheet'[t].older = sheet[t].older
                                      /\ sheet'[t].form = sheet[t].form
                                      /\ sheet'[t].value = sheet[t].value
  BY <1>1, StaleSheet
<1> QED BY <1>1, <1>2 DEF SheetOK, GivenValues

(* ... so that the invariant of the request survives the save of another.    *)
LEMMA OvertakenApi ==
  ASSUME GPIndInv, api' = Stale(api), UNCHANGED values PROVE ApiOK'
<1>1. /\ api \in ApiRows /\ api' \in ApiRows /\ api'.at = api.at
      /\ api.at = "asked" => api'.old /\ api'.copy = api.copy
  BY StaleApi DEF GPIndInv, ApiOK
<1> QED BY <1>1 DEF GPIndInv, ApiOK, GivenValues

(* The form shows the row as it is.                                          *)
LEMMA OpenFormStep ==
  ASSUME GPIndInv, NEW s \in Sheets, NEW app \in {"core", "limits"}, OpenForm(s, app)
  PROVE  GPIndInv'
<1> USE ParametersAssumption, ParametersAre, RestIs DEF GPIndInv, ParametersInv
<1> DEFINE r == [at |-> "open", app |-> app, old |-> FALSE,
                  form |-> [p \in ParametersOf(app) |-> config.value[p]]]
<1>r. /\ r \in SheetRows /\ r.at = "open" /\ r.app = app /\ ~r.old
      /\ DOMAIN r.form = ParametersOf(app)
      /\ \A p \in ParametersOf(app) : r.form[p] = config.value[p]
  <2>1. r.form \in Forms
    BY DEF Forms, GivenValues
  <2> QED BY <2>1 DEF SheetRows
<1>s. sheet' = [sheet EXCEPT ![s] = r] /\ UNCHANGED <<config, values>>
  BY DEF OpenForm
<1> HIDE DEF r
<1>t. /\ sheet' \in [Sheets -> SheetRows] /\ sheet'[s] = r
      /\ \A t \in Sheets \ {s} : sheet'[t] = sheet[t]
  BY <1>r, <1>s DEF SheetsOK
<1>1. GPTypeOK'
  BY DEF OpenForm, GPTypeOK
<1>2. ParametersKept'
  BY DEF OpenForm, ParametersKept
<1>3. DovecotFollows'
  BY DEF OpenForm, DovecotFollows
<1>4. GivenValues(config.value)'
  BY DEF OpenForm, GivenValues
<1>5. SheetsOK'
  <2>1. SheetOK(s)'
    BY <1>r, <1>s, <1>t DEF SheetOK, GivenValues
  <2>2. \A t \in Sheets \ {s} : SheetOK(t)'
    BY <1>s, <1>t DEF SheetsOK, SheetOK, GivenValues
  <2> QED BY <1>t, <2>1, <2>2 DEF SheetsOK
<1>6. ApiOK'
  BY DEF OpenForm, ApiOK, GivenValues
<1>7. UpdateOK'
  BY DEF OpenForm, UpdateOK
<1> QED BY <1>1, <1>2, <1>3, <1>4, <1>5, <1>6, <1>7

(* The form is closed.                                                       *)
LEMMA CloseFormStep == ASSUME GPIndInv, NEW s \in Sheets, CloseForm(s) PROVE GPIndInv'
<1> USE ParametersAssumption, ParametersAre, RestIs DEF GPIndInv, ParametersInv
<1>1. GPTypeOK'
  BY DEF CloseForm, GPTypeOK
<1>2. ParametersKept'
  BY DEF CloseForm, ParametersKept
<1>3. DovecotFollows'
  BY DEF CloseForm, DovecotFollows
<1>4. GivenValues(config.value)'
  BY DEF CloseForm, GivenValues
<1>5. SheetsOK'
  BY DEF CloseForm, SheetsOK, SheetOK, GivenValues
<1>6. ApiOK'
  BY DEF CloseForm, ApiOK, GivenValues
<1>7. UpdateOK'
  BY DEF CloseForm, UpdateOK
<1> QED BY <1>1, <1>2, <1>3, <1>4, <1>5, <1>6, <1>7

(* What the request will save: the form, and the rest of the row.            *)
LEMMA SaveFormStep ==
  ASSUME GPIndInv, NEW s \in Sheets, NEW p \in Parameters, NEW k \in {"none", "ldap", "refused"},
         SaveForm(s, p, k)
  PROVE  GPIndInv'
<1> USE ParametersAssumption, ParametersAre, RestIs DEF GPIndInv, ParametersInv
<1> DEFINE new == [sheet[s].form EXCEPT ![p] = values']
           v == set_values(config.value, new)
           r == [at |-> "saving", app |-> sheet[s].app, old |-> sheet[s].old, chosen |-> p,
                 value |-> v]
<1>s. /\ sheet[s].at = "open" /\ p \in ParametersOf(sheet[s].app)
      /\ values < MaxSaves /\ values' = values + 1
      /\ kind' = [kind EXCEPT ![values'] = k]
      /\ sheet' = [sheet EXCEPT ![s] = r]
      /\ UNCHANGED <<config, dovecot, api, update, meant, undone, missed>>
  BY DEF SaveForm
<1>n. values \in Nat /\ values' \in Nat /\ values' \in 0 .. values' /\ values' \in 0 .. MaxSaves
      /\ \A x \in 0 .. values : x \in 0 .. values' /\ x # values' /\ x \in 0 .. MaxSaves
  BY <1>s DEF GPTypeOK
<1>k. kind' \in [0 .. MaxSaves -> {"none", "ldap", "refused"}]
     /\ \A x \in 0 .. values : kind'[x] = kind[x]
  BY <1>n, <1>s DEF GPTypeOK
<1>c. config.value["ldap"] \in 0 .. values
  BY DEF GivenValues
<1>o. /\ sheet[s] \in [at : {"open"}, app : {"core", "limits"}, old : BOOLEAN, form : Forms]
      /\ DOMAIN sheet[s].form = ParametersOf(sheet[s].app)
      /\ \A q \in ParametersOf(sheet[s].app) : sheet[s].form[q] \in 0 .. values
  BY <1>s, SheetIs DEF SheetsOK, SheetOK
<1>m. new = [q \in ParametersOf(sheet[s].app) |-> IF q = p THEN values' ELSE sheet[s].form[q]]
  BY <1>o, <1>s DEF Forms
<1>v. /\ DOMAIN v = Parameters
      /\ \A q \in Parameters : v[q] = IF q = p THEN values'
                                      ELSE IF q \in ParametersOf(sheet[s].app) THEN sheet[s].form[q]
                                      ELSE config.value[q]
      /\ v = [q \in Parameters |-> v[q]]
  BY <1>m, <1>s DEF set_values
<1>w. v \in Values /\ \A q \in Parameters : v[q] \in 0 .. values'
  <2>1. \A q \in Parameters : v[q] \in 0 .. values'
    BY <1>v, <1>n, <1>o DEF GivenValues
  <2> QED BY <1>v, <1>n, <2>1 DEF Values
<1> HIDE DEF new, v
<1>r. /\ r \in SheetRows /\ r.at = "saving" /\ r.app = sheet[s].app /\ r.old = sheet[s].old
      /\ r.chosen = p /\ r.value = v
  BY <1>o, <1>w DEF SheetRows
<1> HIDE DEF r
<1>t. /\ sheet' \in [Sheets -> SheetRows] /\ sheet'[s] = r
      /\ \A t \in Sheets \ {s} : sheet'[t] = sheet[t]
  BY <1>r, <1>s DEF SheetsOK
<1>1. GPTypeOK'
  BY <1>n, <1>k, <1>s, <1>t DEF GPTypeOK
<1>2. ParametersKept'
  BY <1>s DEF ParametersKept
<1>3. DovecotFollows'
  BY <1>c, <1>k, <1>s DEF DovecotFollows
<1>4. GivenValues(config.value)'
  BY <1>n, <1>s DEF GivenValues
<1>5. SheetsOK'
  <2>1. SheetOK(s)'
    <3>1. ~sheet[s].old => \A q \in Parameters \ {p} : v[q] = config.value[q]
      BY <1>s, <1>v DEF SheetsOK, SheetOK
    <3> QED BY <1>r, <1>s, <1>t, <1>w, <3>1 DEF SheetOK, GivenValues
  <2>2. \A t \in Sheets \ {s} : SheetOK(t)'
    BY <1>n, <1>s, <1>t DEF SheetsOK, SheetOK, GivenValues
  <2> QED BY <1>t, <2>1, <2>2 DEF SheetsOK
<1>6. ApiOK'
  BY <1>n, <1>s DEF ApiOK, GivenValues
<1>7. UpdateOK'
  BY <1>n, <1>k, <1>s DEF UpdateOK
<1> QED BY <1>1, <1>2, <1>3, <1>4, <1>5, <1>6, <1>7

(* A logo: the rest of the row as it is, the form as it will be.             *)
LEMMA UploadLogoStep == ASSUME GPIndInv, NEW s \in Sheets, UploadLogo(s) PROVE GPIndInv'
<1> USE ParametersAssumption, ParametersAre, RestIs DEF GPIndInv, ParametersInv
<1> DEFINE form == [sheet[s].form EXCEPT !["logo"] = values']
           v == set_values(config.value, [p \in {"logo"} |-> values'])
           r == [at |-> "uploading", app |-> "core", old |-> FALSE, older |-> sheet[s].old,
                 need |-> config.need, form |-> form, value |-> v]
<1>s. /\ sheet[s].at = "open" /\ sheet[s].app = "core"
      /\ values < MaxSaves /\ values' = values + 1
      /\ sheet' = [sheet EXCEPT ![s] = r]
      /\ UNCHANGED <<config, kind, dovecot, api, update, meant, undone, missed>>
  BY DEF UploadLogo
<1>n. values \in Nat /\ values' \in Nat /\ values' \in 0 .. values' /\ values' \in 0 .. MaxSaves
      /\ \A x \in 0 .. values : x \in 0 .. values' /\ x # values' /\ x \in 0 .. MaxSaves
  BY <1>s DEF GPTypeOK
<1>o. /\ sheet[s] \in [at : {"open"}, app : {"core", "limits"}, old : BOOLEAN, form : Forms]
      /\ DOMAIN sheet[s].form = ParametersOf("core")
      /\ \A q \in ParametersOf("core") : sheet[s].form[q] \in 0 .. values
  BY <1>s, SheetIs DEF SheetsOK, SheetOK
<1>m. form = [q \in ParametersOf("core") |-> IF q = "logo" THEN values' ELSE sheet[s].form[q]]
  BY <1>o, <1>s DEF Forms
<1>f. /\ form \in Forms /\ DOMAIN form = ParametersOf("core")
      /\ \A q \in ParametersOf("core") : form[q] \in 0 .. values' /\ form[q] \in Nat
  <2>1. \A q \in ParametersOf("core") : form[q] \in 0 .. values'
    BY <1>m, <1>n, <1>o
  <2>2. \A q \in ParametersOf("core") : form[q] \in Nat
    <3> SUFFICES ASSUME NEW q \in ParametersOf("core") PROVE form[q] \in Nat
      OBVIOUS
    <3>1. form[q] \in 0 .. values' /\ values' \in Nat
      BY <1>n, <2>1
    <3> HIDE DEF form
    <3> QED BY <3>1
  <2>3. form = [q \in {"ldap", "logo"} |-> form[q]] /\ DOMAIN form = {"ldap", "logo"}
    BY <1>m
  <2> HIDE DEF form
  <2>4. form \in [{"ldap", "logo"} -> Nat]
    BY <2>2, <2>3
  <2> QED BY <2>1, <2>2, <2>3, <2>4 DEF Forms
<1>v. /\ v = [q \in Parameters |-> IF q = "logo" THEN values' ELSE config.value[q]]
      /\ \A q \in Parameters : v[q] \in 0 .. values'
  BY <1>n DEF set_values, GivenValues
<1>w. v \in Values
  BY <1>v, <1>n DEF Values
<1>e. ~sheet[s].old => \A q \in ParametersOf("core") : form[q] = v[q]
  BY <1>m, <1>s, <1>v DEF SheetsOK, SheetOK
<1> HIDE DEF form, v
<1>r. /\ r \in SheetRows /\ r.at = "uploading" /\ ~r.old /\ r.older = sheet[s].old
      /\ r.need = config.need /\ r.form = form /\ r.value = v
  <2>1. config.need \in BOOLEAN /\ sheet[s].old \in BOOLEAN
    BY <1>o DEF GPTypeOK
  <2> QED BY <1>f, <1>w, <2>1 DEF SheetRows
<1> HIDE DEF r
<1>t. /\ sheet' \in [Sheets -> SheetRows] /\ sheet'[s] = r
      /\ \A t \in Sheets \ {s} : sheet'[t] = sheet[t]
  BY <1>r, <1>s DEF SheetsOK
<1>1. GPTypeOK'
  BY <1>n, <1>s, <1>t DEF GPTypeOK
<1>2. ParametersKept'
  BY <1>s DEF ParametersKept
<1>3. DovecotFollows'
  BY <1>s DEF DovecotFollows
<1>4. GivenValues(config.value)'
  BY <1>n, <1>s DEF GivenValues
<1>5. SheetsOK'
  <2>1. SheetOK(s)'
    BY <1>e, <1>f, <1>r, <1>s, <1>t, <1>v DEF SheetOK, GivenValues
  <2>2. \A t \in Sheets \ {s} : SheetOK(t)'
    BY <1>n, <1>s, <1>t DEF SheetsOK, SheetOK, GivenValues
  <2> QED BY <1>t, <2>1, <2>2 DEF SheetsOK
<1>6. ApiOK'
  BY <1>n, <1>s DEF ApiOK, GivenValues
<1>7. UpdateOK'
  BY <1>n, <1>s DEF UpdateOK
<1> QED BY <1>1, <1>2, <1>3, <1>4, <1>5, <1>6, <1>7

(* A form is committed: for core, the flag goes up.                          *)
LEMMA CommitFormStep == ASSUME GPIndInv, NEW s \in Sheets, CommitForm(s) PROVE GPIndInv'
<1> USE ParametersAssumption, ParametersAre, RestIs DEF GPIndInv, ParametersInv
<1>1. /\ sheet[s].at = "saving"
      /\ Commit(sheet[s].value, config.need \/ sheet[s].app = "core", sheet[s].old,
                {sheet[s].chosen})
      /\ sheet' = [[t \in Sheets |-> Stale(sheet[t])] EXCEPT ![s] = Closed]
      /\ api' = Stale(api) /\ UNCHANGED <<kind, dovecot, update, values>>
  BY DEF CommitForm
<1>2. /\ sheet[s] \in [at : {"saving"}, app : {"core", "limits"}, old : BOOLEAN,
                       chosen : Parameters, value : Values]
      /\ SheetOK(s)
  BY <1>1, SheetIs DEF SheetsOK
<1>3. /\ sheet' \in [Sheets -> SheetRows] /\ sheet'[s] = Closed
      /\ \A t \in Sheets \ {s} : sheet'[t] = Stale(sheet[t])
  BY <1>1, StaleSheet DEF SheetsOK
<1>4. ParametersInv' /\ GivenValues(config.value)' /\ UpdateOK'
  <2>1. "ldap" \in {sheet[s].chosen} => sheet[s].app = "core"
    BY <1>1, <1>2 DEF SheetOK
  <2>2. ~sheet[s].old =>
       \A p \in Parameters \ {sheet[s].chosen} : sheet[s].value[p] = config.value[p]
    BY <1>1, <1>2 DEF SheetOK
  <2>3. GivenValues(sheet[s].value)
    BY <1>1, <1>2 DEF SheetOK
  <2> DEFINE need == config.need \/ sheet[s].app = "core"
  <2>4. need \in BOOLEAN /\ (config.need => need) /\ (need \/ "ldap" \notin {sheet[s].chosen})
    BY <2>1
  <2>5. /\ sheet[s].value \in Values /\ sheet[s].old \in BOOLEAN
        /\ {sheet[s].chosen} \in SUBSET Parameters /\ DOMAIN sheet' = Sheets
    BY <1>2, <1>3
  <2>6. Commit(sheet[s].value, need, sheet[s].old, {sheet[s].chosen})
    BY <1>1
  <2> HIDE DEF ParametersInv, GPIndInv, need
  <2>7. GPIndInv /\ UNCHANGED <<kind, dovecot, values, update>>
    BY <1>1
  <2> QED BY <2>2, <2>3, <2>4, <2>5, <2>6, <2>7, CommitKeeps
<1>5. SheetsOK'
  <2>1. \A t \in Sheets \ {s} : SheetOK(t)'
    BY <1>1, <1>3, OvertakenSheet
  <2>2. SheetOK(s)'
    BY <1>3 DEF SheetOK
  <2> QED BY <1>3, <2>1, <2>2 DEF SheetsOK
<1>6. ApiOK'
  BY <1>1, OvertakenApi
<1> QED BY <1>4, <1>5, <1>6

(* A logo is committed: the form that sent it is as new as it was.           *)
LEMMA CommitLogoStep == ASSUME GPIndInv, NEW s \in Sheets, CommitLogo(s) PROVE GPIndInv'
<1> USE ParametersAssumption, ParametersAre, RestIs DEF GPIndInv, ParametersInv
<1> DEFINE r == [at |-> "open", app |-> "core", old |-> TRUE, form |-> sheet[s].form]
<1>1. /\ sheet[s].at = "uploading"
      /\ Commit(sheet[s].value, sheet[s].need, sheet[s].old, {"logo"})
      /\ api' = Stale(api) /\ UNCHANGED <<kind, dovecot, update, values>>
  BY DEF CommitLogo
<1>2. /\ sheet[s] \in [at : {"uploading"}, app : {"core"}, old : BOOLEAN, older : BOOLEAN,
                       need : BOOLEAN, form : Forms, value : Values]
      /\ SheetOK(s)
  BY <1>1, SheetIs DEF SheetsOK
<1>o. sheet' = [[t \in Sheets |-> Stale(sheet[t])] EXCEPT ![s] =
                  [at |-> "open", app |-> "core", old |-> @.old \/ @.older, form |-> @.form]]
  BY DEF CommitLogo
<1>p. /\ Stale(sheet[s]).old /\ Stale(sheet[s]).older = sheet[s].older
      /\ Stale(sheet[s]).form = sheet[s].form
  BY <1>1, StaleSheet DEF SheetsOK
<1>r. /\ r \in SheetRows /\ r.at = "open" /\ r.app = "core" /\ r.old
      /\ r.form = sheet[s].form
  BY <1>2 DEF SheetRows
<1>q. /\ sheet \in [Sheets -> SheetRows]
      /\ \A t \in Sheets : Stale(sheet[t]) \in SheetRows
  BY StaleSheet DEF SheetsOK
<1>3. /\ sheet' \in [Sheets -> SheetRows] /\ sheet'[s].at = "open" /\ sheet'[s].app = "core"
      /\ sheet'[s].form = sheet[s].form /\ sheet'[s].old
      /\ \A t \in Sheets \ {s} : sheet'[t] = Stale(sheet[t])
  <2>1. sheet' = [[t \in Sheets |-> Stale(sheet[t])] EXCEPT ![s] =
                    [at |-> "open", app |-> "core",
                     old |-> Stale(sheet[s]).old \/ Stale(sheet[s]).older,
                     form |-> Stale(sheet[s]).form]]
    BY <1>o
  <2>2. (Stale(sheet[s]).old \/ Stale(sheet[s]).older) = TRUE
    BY <1>p
  <2>3. sheet' = [[t \in Sheets |-> Stale(sheet[t])] EXCEPT ![s] = r]
    BY <1>p, <2>1, <2>2
  <2>4. sheet'[s] = r /\ \A t \in Sheets \ {s} : sheet'[t] = Stale(sheet[t])
    BY <2>3
  <2>5. sheet' = [t \in Sheets |-> IF t = s THEN r ELSE Stale(sheet[t])]
    BY <2>3
  <2> HIDE DEF r
  <2>6. sheet' \in [Sheets -> SheetRows]
    BY <1>q, <1>r, <2>5
  <2> QED BY <1>r, <2>4, <2>6
<1>4. ParametersInv' /\ GivenValues(config.value)' /\ UpdateOK'
  <2>1. "ldap" \notin {"logo"} /\ {"logo"} \in SUBSET Parameters
    OBVIOUS
  <2>2. ~sheet[s].old => /\ \A p \in Parameters \ {"logo"} : sheet[s].value[p] = config.value[p]
                         /\ config.need => sheet[s].need
    BY <1>1, <1>2 DEF SheetOK
  <2>3. GivenValues(sheet[s].value)
    BY <1>1, <1>2 DEF SheetOK
  <2>4. DOMAIN sheet' = Sheets
    BY <1>3
  <2> HIDE DEF ParametersInv
  <2> QED BY <1>1, <1>2, <2>1, <2>2, <2>3, <2>4, CommitKeeps
<1>5. SheetsOK'
  <2>1. \A t \in Sheets \ {s} : SheetOK(t)'
    BY <1>1, <1>3, OvertakenSheet
  <2>2. SheetOK(s)'
    BY <1>1, <1>2, <1>3 DEF SheetOK
  <2> QED BY <1>3, <2>1, <2>2 DEF SheetsOK
<1>6. ApiOK'
  BY <1>1, OvertakenApi
<1> QED BY <1>4, <1>5, <1>6

(* The job loads the row.                                                    *)
LEMMA AskServerStep == ASSUME GPIndInv, AskServer PROVE GPIndInv'
<1> USE ParametersAssumption, ParametersAre, RestIs DEF GPIndInv, ParametersInv
<1>a. api' = [at |-> "asked", old |-> FALSE, copy |-> config] /\ UNCHANGED <<config, values>>
  BY DEF AskServer
<1>b. api' \in ApiRows /\ api'.copy = config
  <2>1. config \in [value : Values, need : BOOLEAN]
    BY DEF GPTypeOK, Values
  <2> QED BY <1>a, <2>1 DEF ApiRows
<1>1. GPTypeOK'
  BY DEF AskServer, GPTypeOK
<1>2. ParametersKept'
  BY DEF AskServer, ParametersKept
<1>3. DovecotFollows'
  BY DEF AskServer, DovecotFollows
<1>4. GivenValues(config.value)'
  BY DEF AskServer, GivenValues
<1>5. SheetsOK'
  BY DEF AskServer, SheetsOK, SheetOK, GivenValues
<1>6. ApiOK'
  BY <1>a, <1>b DEF ApiOK, GivenValues
<1>7. UpdateOK'
  BY DEF AskServer, UpdateOK
<1> QED BY <1>1, <1>2, <1>3, <1>4, <1>5, <1>6, <1>7

(* Nothing is saved.                                                         *)
LEMMA ServerFailsStep == ASSUME GPIndInv, ServerFails PROVE GPIndInv'
<1> USE ParametersAssumption, ParametersAre, RestIs DEF GPIndInv, ParametersInv
<1>1. GPTypeOK'
  BY DEF ServerFails, GPTypeOK
<1>2. ParametersKept'
  BY DEF ServerFails, ParametersKept
<1>3. DovecotFollows'
  BY DEF ServerFails, DovecotFollows
<1>4. GivenValues(config.value)'
  BY DEF ServerFails, GivenValues
<1>5. SheetsOK'
  BY DEF ServerFails, SheetsOK, SheetOK, GivenValues
<1>6. ApiOK'
  BY DEF ServerFails, ApiOK
<1>7. UpdateOK'
  BY DEF ServerFails, UpdateOK
<1> QED BY <1>1, <1>2, <1>3, <1>4, <1>5, <1>6, <1>7

(* The job saves the row as it had loaded it.                                *)
LEMMA ServerAnswersStep == ASSUME GPIndInv, ServerAnswers PROVE GPIndInv'
<1> USE ParametersAssumption, ParametersAre, RestIs DEF GPIndInv, ParametersInv
<1>1. /\ api.at = "asked" /\ api' = NoRunYet
      /\ Commit(api.copy.value, api.copy.need, api.old, {})
      /\ sheet' = [t \in Sheets |-> Stale(sheet[t])]
      /\ UNCHANGED <<kind, dovecot, update, values>>
  BY DEF ServerAnswers
<1>2. api \in [at : {"asked"}, old : BOOLEAN, copy : [value : Values, need : BOOLEAN]]
  BY <1>1 DEF ApiOK, ApiRows
<1>3. sheet' \in [Sheets -> SheetRows] /\ \A t \in Sheets : sheet'[t] = Stale(sheet[t])
  BY <1>1, StaleSheet DEF SheetsOK
<1>4. ParametersInv' /\ GivenValues(config.value)' /\ UpdateOK'
  <2>1. GivenValues(api.copy.value) /\ "ldap" \notin {} /\ {} \in SUBSET Parameters
    BY <1>1 DEF ApiOK
  <2>2. ~api.old => /\ \A p \in Parameters \ {} : api.copy.value[p] = config.value[p]
                    /\ config.need => api.copy.need
    BY <1>1 DEF ApiOK
  <2>3. DOMAIN sheet' = Sheets
    BY <1>3
  <2> HIDE DEF ParametersInv
  <2> QED BY <1>1, <1>2, <2>1, <2>2, <2>3, CommitKeeps
<1>5. SheetsOK'
  BY <1>1, <1>3, OvertakenSheet DEF SheetsOK
<1>6. ApiOK'
  BY <1>1 DEF ApiOK
<1> QED BY <1>4, <1>5, <1>6

(* The flag is up.                                                           *)
LEMMA CheckFlagStep == ASSUME GPIndInv, CheckFlag PROVE GPIndInv'
<1> USE ParametersAssumption, ParametersAre, RestIs DEF GPIndInv, ParametersInv
<1>1. GPTypeOK'
  BY DEF CheckFlag, GPTypeOK
<1>2. ParametersKept'
  BY DEF CheckFlag, ParametersKept
<1>3. DovecotFollows'
  BY DEF CheckFlag, DovecotFollows
<1>4. GivenValues(config.value)'
  BY DEF CheckFlag, GivenValues
<1>5. SheetsOK'
  BY DEF CheckFlag, SheetsOK, SheetOK, GivenValues
<1>6. ApiOK'
  BY DEF CheckFlag, ApiOK, GivenValues
<1>7. UpdateOK'
  BY DEF CheckFlag, UpdateOK
<1> QED BY <1>1, <1>2, <1>3, <1>4, <1>5, <1>6, <1>7

(* The value that the file will have.                                        *)
LEMMA ReadParametersStep == ASSUME GPIndInv, ReadParameters PROVE GPIndInv'
<1> USE ParametersAssumption, ParametersAre, RestIs DEF GPIndInv, ParametersInv
<1>1. GPTypeOK'
  BY DEF ReadParameters, GPTypeOK
<1>2. ParametersKept'
  BY DEF ReadParameters, ParametersKept
<1>3. DovecotFollows'
  BY DEF ReadParameters, DovecotFollows
<1>4. GivenValues(config.value)'
  BY DEF ReadParameters, GivenValues
<1>5. SheetsOK'
  BY DEF ReadParameters, SheetsOK, SheetOK, GivenValues
<1>6. ApiOK'
  BY DEF ReadParameters, ApiOK, GivenValues
<1>7. UpdateOK'
  <2> DEFINE v == config.value["ldap"]
  <2>1. v \in 0 .. values
    BY DEF GivenValues
  <2>2. CASE kind[v] = "refused"
    BY <2>2 DEF ReadParameters, UpdateOK
  <2>3. CASE kind[v] = "ldap"
    <3>1. update' = [at |-> "open", value |-> v]
      BY <2>3 DEF ReadParameters
    <3> QED BY <2>1, <3>1 DEF ReadParameters, UpdateOK
  <2>4. CASE kind[v] \notin {"refused", "ldap"}
    <3>1. update' = [at |-> "done", value |-> v]
      BY <2>4 DEF ReadParameters
    <3> QED BY <2>1, <2>4, <3>1 DEF ReadParameters, UpdateOK
  <2> QED BY <2>2, <2>3, <2>4
<1> QED BY <1>1, <1>2, <1>3, <1>4, <1>5, <1>6, <1>7

(* The file is empty; the flag is up, or its fall was missed.                *)
LEMMA OpenFileStep == ASSUME GPIndInv, OpenFile PROVE GPIndInv'
<1> USE ParametersAssumption, ParametersAre, RestIs DEF GPIndInv, ParametersInv
<1>1. GPTypeOK'
  BY DEF OpenFile, GPTypeOK
<1>2. ParametersKept'
  BY DEF OpenFile, ParametersKept
<1>3. DovecotFollows'
  BY DEF OpenFile, UpdateOK, DovecotFollows
<1>4. GivenValues(config.value)'
  BY DEF OpenFile, GivenValues
<1>5. SheetsOK'
  BY DEF OpenFile, SheetsOK, SheetOK, GivenValues
<1>6. ApiOK'
  BY DEF OpenFile, ApiOK, GivenValues
<1>7. UpdateOK'
  BY DEF OpenFile, UpdateOK
<1> QED BY <1>1, <1>2, <1>3, <1>4, <1>5, <1>6, <1>7

(* The file has the value that was read.                                     *)
LEMMA WriteFileStep == ASSUME GPIndInv, WriteFile PROVE GPIndInv'
<1> USE ParametersAssumption, ParametersAre, RestIs DEF GPIndInv, ParametersInv
<1>1. GPTypeOK'
  <2>1. update.value \in 0 .. values
    BY DEF WriteFile, UpdateOK
  <2> QED BY <2>1 DEF WriteFile, GPTypeOK
<1>2. ParametersKept'
  BY DEF WriteFile, ParametersKept
<1>3. DovecotFollows'
  BY DEF WriteFile, UpdateOK, DovecotFollows
<1>4. GivenValues(config.value)'
  BY DEF WriteFile, GivenValues
<1>5. SheetsOK'
  BY DEF WriteFile, SheetsOK, SheetOK, GivenValues
<1>6. ApiOK'
  BY DEF WriteFile, ApiOK, GivenValues
<1>7. UpdateOK'
  BY DEF WriteFile, UpdateOK
<1> QED BY <1>1, <1>2, <1>3, <1>4, <1>5, <1>6, <1>7

(* The flag falls: what was read is there, or its change is missed.          *)
LEMMA ClearFlagStep == ASSUME GPIndInv, ClearFlag PROVE GPIndInv'
<1> USE ParametersAssumption, ParametersAre, RestIs DEF GPIndInv, ParametersInv
<1>c. /\ config'.value = config.value /\ ~config'.need
      /\ config' \in [value : [Parameters -> 0 .. MaxSaves], need : BOOLEAN]
      /\ UNCHANGED <<kind, dovecot, sheet, api, values, meant, undone>>
  BY DEF ClearFlag, GPTypeOK
<1>1. GPTypeOK'
  BY <1>c DEF ClearFlag, GPTypeOK
<1>2. ParametersKept'
  BY <1>c DEF ParametersKept
<1>3. DovecotFollows'
  BY <1>c DEF ClearFlag, UpdateOK, DovecotFollows
<1>4. GivenValues(config.value)'
  BY <1>c DEF GivenValues
<1>5. SheetsOK'
  BY <1>c DEF SheetsOK, SheetOK, GivenValues
<1>6. ApiOK'
  BY <1>c DEF ApiOK, GivenValues
<1>7. UpdateOK'
  BY DEF ClearFlag, UpdateOK
<1> QED BY <1>1, <1>2, <1>3, <1>4, <1>5, <1>6, <1>7

(* The file is left as it is, and the flag with it.                          *)
LEMMA ParametersKilledStep == ASSUME GPIndInv, Killed PROVE GPIndInv'
<1> USE ParametersAssumption, ParametersAre, RestIs DEF GPIndInv, ParametersInv
<1>1. GPTypeOK'
  BY DEF Killed, GPTypeOK
<1>2. ParametersKept'
  BY DEF Killed, ParametersKept
<1>3. DovecotFollows'
  BY DEF Killed, DovecotFollows
<1>4. GivenValues(config.value)'
  BY DEF Killed, GivenValues
<1>5. SheetsOK'
  BY DEF Killed, SheetsOK, SheetOK, GivenValues
<1>6. ApiOK'
  BY DEF Killed, ApiOK, GivenValues
<1>7. UpdateOK'
  BY DEF Killed, UpdateOK
<1> QED BY <1>1, <1>2, <1>3, <1>4, <1>5, <1>6, <1>7

-----------------------------------------------------------------------------
(* Every step of the settings of the site keeps the invariant.               *)
LEMMA GPStepKeeps == ASSUME GPIndInv, [GPNext]_gpVars PROVE GPIndInv'
<1>1. CASE UNCHANGED gpVars
  BY <1>1 DEF gpVars, GPIndInv, ParametersInv, GPTypeOK, ParametersKept, DovecotFollows,
       GivenValues,
       SheetsOK, SheetOK, ApiOK, UpdateOK
<1>2. ASSUME GPNext PROVE GPIndInv'
  BY <1>2, OpenFormStep, SaveFormStep, CloseFormStep, CommitFormStep, UploadLogoStep,
       CommitLogoStep,
     AskServerStep, ServerAnswersStep, ServerFailsStep, CheckFlagStep, ReadParametersStep,
     OpenFileStep,
     WriteFileStep, ClearFlagStep, ParametersKilledStep DEF GPNext
<1> QED BY <1>1, <1>2

(* set_values and the saves of LocalConfig (core/models.py, lib/middleware),  *)
(* and update_dovecot_conf: only an old form or copy sets a parameter back,  *)
(* and while the flag is down Dovecot has the present settings.              *)
THEOREM ParametersAreKept == GPSpec => []ParametersInv
<1>1. ASSUME GPInit PROVE GPIndInv
  <2>1. GPTypeOK
    <3>1. 0 \in 0 .. MaxSaves
      BY ParametersAssumption
    <3>2. config \in [value : [Parameters -> 0 .. MaxSaves], need : BOOLEAN]
      BY <1>1, <3>1 DEF GPInit
    <3>3. kind \in [0 .. MaxSaves -> {"none", "ldap", "refused"}]
      BY <1>1 DEF GPInit
    <3>4. DOMAIN sheet = Sheets /\ undone \subseteq Parameters /\ missed \in BOOLEAN
      BY <1>1 DEF GPInit
    <3> QED BY <1>1, <3>1, <3>2, <3>3, <3>4 DEF GPInit, GPTypeOK
  <2> USE <1>1, ParametersAssumption, ParametersAre, RestIs DEF GPInit
  <2>2. ParametersKept /\ DovecotFollows /\ GivenValues(config.value)
    BY DEF ParametersKept, DovecotFollows, GivenValues
  <2>3. SheetsOK /\ ApiOK /\ UpdateOK
    BY DEF SheetsOK, SheetOK, ApiOK, UpdateOK
  <2> QED BY <2>1, <2>2, <2>3 DEF GPIndInv, ParametersInv
<1>2. GPIndInv /\ [GPNext]_gpVars => GPIndInv'
  BY GPStepKeeps
<1>3. GPIndInv => ParametersInv
  BY DEF GPIndInv
<1> QED BY <1>1, <1>2, <1>3, PTL DEF GPSpec

-----------------------------------------------------------------------------
(* The keys of domains (DkimKeys).                                          *)

(* Rows of domains, and what the command is given to do.                     *)
DomainRow == [name : DomainNames \cup {NoName}, on : BOOLEAN,
              path : DomainNames \cup {NoName}, key : 0 .. MaxKeys]
Tasks == [row : DomainRows, name : DomainNames]

(* Every key that a row names is in its file, and is its own unless the file *)
(* was robbed: DKIM may be off.                                              *)
Paired ==
  /\ keys \in 0 .. MaxKeys /\ calm \in BOOLEAN
  /\ \A d \in DomainRows :
       /\ domain[d].on => domain[d].name \in DomainNames
       /\ domain[d].path # NoName =>
            /\ file[domain[d].path] # 0
            /\ d \in robbed \/ domain[d].key = file[domain[d].path]

(* A request that has loaded a row holds the present key of it, or none.     *)
PendingOK ==
  /\ DOMAIN pending \subseteq DomainRows
  /\ \A d, e \in DOMAIN pending : d = e
  /\ \A d \in DOMAIN pending :
       /\ pending[d] \in DomainRow /\ pending[d].name \in DomainNames
       /\ \A e \in DomainRows \ {d} : domain[e].name # pending[d].name
       /\ pending[d].path # NoName =>
            pending[d].path = domain[d].path /\ pending[d].key = domain[d].key

(* The rows that the command has still to do have no key.                    *)
CommandOK ==
  /\ command \in [pc : {"idle", "next", "save"}, todo : SUBSET Tasks, done : SUBSET DomainRows,
                  job : Tasks \cup {NoTask}]
  /\ command.pc = "idle" => command = NoCommand
  /\ \A j \in command.todo : domain[j.row].path = NoName
  /\ \A j, k \in command.todo : j.row = k.row => j = k
  /\ command.pc = "save" =>
       /\ command.job \in Tasks /\ domain[command.job.row].path = NoName
       /\ file[command.job.name] # 0
       /\ \A j \in command.todo : j.row # command.job.row

InHand(j) == j \in command.todo \/ (command.pc = "save" /\ j = command.job)
Treated(d) == d \in command.done \/ \E ds \in updates : d \in ds

(* In calm one thing happens at a time: a request, then its job, then the    *)
(* update of the map.                                                        *)
OneAtATime ==
  /\ DOMAIN pending # {} => command = NoCommand /\ updates = {}
  /\ command # NoCommand => dkim_queue = {} /\ updates = {}
  /\ updates # {} => dkim_queue = {}
  /\ \A ds, es \in updates : ds = es
  /\ \A m, n \in dkim_queue : m = n

(* A row that wants a key is somewhere on its way to one, and a row that has *)
(* one is in the map or on its way there.                                    *)
OnTheWay ==
  /\ \A j \in Tasks : InHand(j) => domain[j.row].name = j.name /\ domain[j.row].on
  /\ \A d \in DomainRows : Treated(d) =>
       domain[d].on /\ domain[d].path \in {NoName, domain[d].name}
  /\ ~Unreadable =>
       /\ \A d \in DomainRows : domain[d].on /\ domain[d].path = NoName =>
            \/ domain[d].name \in dkim_queue \/ Treated(d)
            \/ \E j \in Tasks : InHand(j) /\ j.row = d
       /\ \A d \in DomainRows : domain[d].path # NoName =>
            key_map[domain[d].path] = domain[d].path \/ Treated(d)
       /\ \A d \in DOMAIN pending : pending[d].on /\ pending[d].path = NoName =>
            pending[d].name \in dkim_queue

CalmOK == calm => OneAtATime /\ OnTheWay

DKIndInv == DKTypeOK /\ Paired /\ PendingOK /\ CommandOK /\ CalmOK

-----------------------------------------------------------------------------
(* The record of a worker that is running no command.                        *)
LEMMA NoCommandIs ==
  /\ NoCommand.pc = "idle" /\ NoCommand.todo = {} /\ NoCommand.done = {}
  /\ NoCommand \in [pc : {"idle", "next", "save"}, todo : SUBSET Tasks, done : SUBSET DomainRows,
                    job : Tasks \cup {NoTask}]
  BY DEF NoCommand

(* The row of a domain that is not there.                                    *)
LEMMA GoneIs ==
  /\ Gone \in DomainRow /\ Gone.name = NoName /\ ~Gone.on /\ Gone.path = NoName /\ Gone.key = 0
  BY DkimAssumption DEF Gone, DomainRow

(* What the properties say follows from the invariant.                       *)
LEMMA DKIndInvIsSafe == DKIndInv => KeyInv
<1> SUFFICES ASSUME DKIndInv PROVE KeyInv
  OBVIOUS
<1>1. KeyPair
  BY DEF DKIndInv, Paired, KeyPair
<1>2. SignedWhenQuiet
  <2> SUFFICES ASSUME calm, AtRest, ~Unreadable, NEW d \in DomainRows, domain[d].on
               PROVE  domain[d].path # NoName /\ key_map[domain[d].path] = domain[d].path
    BY DEF SignedWhenQuiet
  <2>1. OnTheWay /\ dkim_queue = {} /\ updates = {} /\ command.todo = {} /\ command.done = {}
        /\ command.pc = "idle"
    BY NoCommandIs DEF DKIndInv, CalmOK, AtRest
  <2>2. ~Treated(d) /\ \A j \in Tasks : ~InHand(j)
    BY <2>1 DEF Treated, InHand
  <2> QED BY <2>1, <2>2 DEF OnTheWay
<1> QED BY <1>1, <1>2 DEF DKIndInv, KeyInv

-----------------------------------------------------------------------------
(* A request: what it will commit, and the job that it has enqueued.         *)
LEMMA EnqueuesKeeps ==
  ASSUME DKIndInv, NEW d \in DomainRows, NEW row \in DomainRow, NEW jobs \in SUBSET {row.name},
         Enqueues(d, row, jobs), row.name \in DomainNames,
         \A e \in DomainRows \ {d} : domain[e].name # row.name,
         row.path # NoName => row.path = domain[d].path /\ row.key = domain[d].key,
         row.on /\ row.path = NoName /\ row.name \notin jobs =>
           domain[d].on /\ domain[d].path = NoName
  PROVE  DKIndInv'
<1>1. /\ DOMAIN pending = {} /\ pending' = [x \in {d} |-> row] /\ dkim_queue' = dkim_queue \cup jobs
      /\ calm => AtRest
      /\ UNCHANGED <<domain, file, keys, command, updates, key_map, calm, robbed>>
  BY DEF Enqueues, NoRequests
<1>2. DOMAIN pending' = {d} /\ pending'[d] = row
  BY <1>1
<1>3. DKTypeOK'
  BY <1>1 DEF DKIndInv, DKTypeOK, Live
<1>4. Paired'
  BY <1>1 DEF DKIndInv, Paired
<1>5. PendingOK'
  BY <1>1, <1>2 DEF PendingOK
<1>6. CommandOK'
  BY <1>1 DEF DKIndInv, CommandOK
<1>7. CalmOK'
  <2> SUFFICES ASSUME calm PROVE OneAtATime' /\ OnTheWay'
    BY <1>1 DEF CalmOK
  <2>1. OneAtATime /\ OnTheWay /\ dkim_queue = {} /\ updates = {} /\ command = NoCommand
    BY <1>1 DEF DKIndInv, CalmOK, AtRest
  <2>2. OneAtATime'
    BY <1>1, <2>1 DEF OneAtATime
  <2>3. ~Treated(d) /\ \A j \in Tasks : ~InHand(j)
    BY <2>1, NoCommandIs DEF Treated, InHand
  <2>4. ~Unreadable => (row.on /\ row.path = NoName => row.name \in dkim_queue')
    BY <1>1, <2>1, <2>3 DEF OnTheWay
  <2>5. /\ Unreadable' = Unreadable
        /\ \A e : Treated(e)' = Treated(e)
        /\ \A j : InHand(j)' = InHand(j)
    BY <1>1 DEF Unreadable, Treated, InHand
  <2> QED BY <1>1, <1>2, <2>1, <2>2, <2>4, <2>5 DEF OnTheWay
<1> QED BY <1>3, <1>4, <1>5, <1>6, <1>7 DEF DKIndInv

(* A domain is created, with the job its key waits for if it is to be        *)
(* signed.                                                                   *)
LEMMA CreateRowStep ==
  ASSUME DKIndInv, NEW d \in DomainRows, NEW n \in DomainNames, NEW on \in BOOLEAN,
         CreateRow(d, n, on)
  PROVE  DKIndInv'
<1> DEFINE row == [name |-> n, on |-> on, path |-> NoName, key |-> 0]
           jobs == IF on THEN {n} ELSE {}
<1>1. row \in DomainRow /\ row.name = n /\ row.on = on /\ row.path = NoName
  BY DkimAssumption DEF DomainRow
<1>2. Enqueues(d, row, jobs) /\ jobs \in SUBSET {row.name} /\ (row.on => row.name \in jobs)
  BY DEF CreateRow
<1>3. \A e \in DomainRows : domain[e].name # n
  BY DEF CreateRow, NameFree
<1> HIDE DEF row, jobs
<1> QED BY <1>1, <1>2, <1>3, EnqueuesKeeps

(* DKIM is switched on for a domain that had no key.                         *)
LEMMA EnableDkimStep ==
  ASSUME DKIndInv, NEW d \in DomainRows, EnableDkim(d) PROVE DKIndInv'
<1> DEFINE row == [domain[d] EXCEPT !.on = TRUE]
           jobs == {domain[d].name}
<1>0. domain[d] \in DomainRow /\ domain[d].name \in DomainNames
  BY DEF DKIndInv, DKTypeOK, DomainRow, EnableDkim, Live
<1>1. row \in DomainRow /\ row.name = domain[d].name /\ row.path = domain[d].path
      /\ row.key = domain[d].key
  BY <1>0 DEF DomainRow
<1>2. Enqueues(d, row, jobs) /\ jobs \in SUBSET {row.name} /\ row.name \in jobs
  BY <1>1 DEF EnableDkim
<1>3. \A e \in DomainRows \ {d} : domain[e].name # domain[d].name
  BY <1>0, DkimAssumption DEF DKIndInv, DKTypeOK, Live
<1> HIDE DEF row, jobs
<1> QED BY <1>0, <1>1, <1>2, <1>3, EnqueuesKeeps

(* DKIM is switched off: the key stays on disk, the row no longer signs.     *)
LEMMA DisableDkimStep ==
  ASSUME DKIndInv, NEW d \in DomainRows, DisableDkim(d) PROVE DKIndInv'
<1> DEFINE row == [domain[d] EXCEPT !.on = FALSE, !.path = NoName]
<1>0. domain[d] \in DomainRow /\ domain[d].name \in DomainNames
  BY DEF DKIndInv, DKTypeOK, DomainRow, DisableDkim, Live
<1>1. row \in DomainRow /\ row.name = domain[d].name /\ ~row.on /\ row.path = NoName
  BY <1>0 DEF DomainRow
<1>2. Enqueues(d, row, {})
  BY DEF DisableDkim, PathDisabled
<1>3. \A e \in DomainRows \ {d} : domain[e].name # domain[d].name
  BY <1>0, DkimAssumption DEF DKIndInv, DKTypeOK, Live
<1> HIDE DEF row
<1> QED BY <1>0, <1>1, <1>2, <1>3, EnqueuesKeeps

(* Another key length asks for another key.                                  *)
LEMMA ChangeLengthStep ==
  ASSUME DKIndInv, NEW d \in DomainRows, ChangeLength(d) PROVE DKIndInv'
<1> DEFINE row == [domain[d] EXCEPT !.path = NoName, !.key = 0]
           jobs == {domain[d].name}
<1>0. domain[d] \in DomainRow /\ domain[d].name \in DomainNames
  BY DEF DKIndInv, DKTypeOK, DomainRow, ChangeLength, Live
<1>1. row \in DomainRow /\ row.name = domain[d].name /\ row.path = NoName
  <2> DEFINE r == [domain[d] EXCEPT !.path = NoName]
  <2>1. r \in DomainRow /\ r.name = domain[d].name /\ r.path = NoName
    BY <1>0 DEF DomainRow
  <2>2. row = [r EXCEPT !.key = 0] /\ 0 \in 0 .. MaxKeys
    BY DkimAssumption
  <2> HIDE DEF row, r
  <2> QED BY <2>1, <2>2 DEF DomainRow
<1>2. Enqueues(d, row, jobs) /\ jobs \in SUBSET {row.name} /\ row.name \in jobs
  BY <1>1 DEF ChangeLength
<1>3. \A e \in DomainRows \ {d} : domain[e].name # domain[d].name
  BY <1>0, DkimAssumption DEF DKIndInv, DKTypeOK, Live
<1> HIDE DEF row, jobs
<1> QED BY <1>0, <1>1, <1>2, <1>3, EnqueuesKeeps

(* A domain takes another name, its key stays where it was written.          *)
LEMMA RenameRowStep ==
  ASSUME DKIndInv, NEW d \in DomainRows, NEW n \in DomainNames, RenameRow(d, n) PROVE DKIndInv'
<1> DEFINE row == [domain[d] EXCEPT !.name = n]
<1>0. domain[d] \in DomainRow
  BY DEF DKIndInv, DKTypeOK, DomainRow
<1>1. row \in DomainRow /\ row.name = n /\ row.path = domain[d].path /\ row.on = domain[d].on
      /\ row.key = domain[d].key
  BY <1>0 DEF DomainRow
<1>2. Enqueues(d, row, {})
  BY DEF RenameRow
<1>3. \A e \in DomainRows : domain[e].name # n
  BY DEF RenameRow, NameFree
<1> HIDE DEF row
<1> QED BY <1>1, <1>2, <1>3, EnqueuesKeeps

(* The commit writes a row whose key is the present one, or none.            *)
LEMMA CommitRowStep == ASSUME DKIndInv, CommitRow PROVE DKIndInv'
<1> USE DkimAssumption
<1>1. PICK d \in DOMAIN pending :
        /\ domain' = [domain EXCEPT ![d] = pending[d]]
        /\ robbed' = IF pending[d].path = NoName THEN robbed \ {d} ELSE robbed
  BY DEF CommitRow
<1>2. /\ pending' = [x \in {} |-> Gone] /\ DOMAIN pending' = {}
      /\ UNCHANGED <<file, keys, requests, dkim_queue, command, updates, key_map, calm>>
  BY DEF CommitRow
<1> DEFINE row == pending[d]
<1>3. /\ d \in DomainRows /\ row \in DomainRow /\ row.name \in DomainNames
      /\ \A e \in DomainRows \ {d} : domain[e].name # row.name
      /\ row.path # NoName => row.path = domain[d].path /\ row.key = domain[d].key
  BY DEF DKIndInv, PendingOK
<1> HIDE DEF row
<1>4. /\ domain \in [DomainRows -> DomainRow] /\ domain' \in [DomainRows -> DomainRow]
      /\ domain'[d] = row /\ \A e \in DomainRows \ {d} : domain'[e] = domain[e]
  BY <1>1, <1>3 DEF DKIndInv, DKTypeOK, DomainRow, row
<1>5. /\ robbed' \subseteq DomainRows
      /\ \A e \in DomainRows : e \in robbed /\ (e # d \/ row.path # NoName) => e \in robbed'
  BY <1>1, <1>3 DEF DKIndInv, DKTypeOK, row
<1>6. DKTypeOK'
  <2>1. \A e, f \in DomainRows : Live(e)' /\ domain'[e].name = domain'[f].name => e = f
    BY <1>3, <1>4 DEF DKIndInv, DKTypeOK, Live
  <2>2. \A e \in DomainRows : domain'[e].on /\ domain'[e].path # NoName => file[domain'[e].path] # 0
    BY <1>3, <1>4 DEF DKIndInv, Paired
  <2> QED BY <1>2, <1>4, <1>5, <2>1, <2>2 DEF DKIndInv, DKTypeOK, DomainRow
<1>7. Paired'
  BY <1>2, <1>3, <1>4, <1>5 DEF DKIndInv, Paired
<1>8. PendingOK'
  BY <1>2 DEF PendingOK
<1>9. CommandOK'
  <2>1. \A e \in DomainRows : domain[e].path = NoName => domain'[e].path = NoName
    BY <1>3, <1>4
  <2> QED BY <1>2, <2>1 DEF DKIndInv, CommandOK, Tasks
<1>10. CalmOK'
  <2> SUFFICES ASSUME calm PROVE OneAtATime' /\ OnTheWay'
    BY <1>2 DEF CalmOK
  <2>1. OneAtATime /\ OnTheWay /\ updates = {} /\ command = NoCommand
    BY <1>1 DEF DKIndInv, CalmOK, OneAtATime
  <2>2. OneAtATime'
    BY <1>2, <2>1 DEF OneAtATime
  <2>3. /\ Unreadable' = Unreadable
        /\ \A e : Treated(e)' = Treated(e)
        /\ \A j : InHand(j)' = InHand(j)
    BY <1>2 DEF Unreadable, Treated, InHand
  <2>4. (\A e : ~Treated(e)) /\ \A j : ~InHand(j)
    BY <2>1, NoCommandIs DEF Treated, InHand
  <2>5. ASSUME ~Unreadable, NEW e \in DomainRows, domain'[e].on, domain'[e].path = NoName
        PROVE  domain'[e].name \in dkim_queue
    <3>1. CASE e = d
      BY <1>1, <1>4, <2>1, <2>5, <3>1 DEF OnTheWay, row
    <3>2. CASE e # d
      BY <1>4, <2>1, <2>4, <2>5, <3>2 DEF OnTheWay
    <3> QED BY <3>1, <3>2
  <2>6. ASSUME ~Unreadable, NEW e \in DomainRows, domain'[e].path # NoName
        PROVE  key_map[domain'[e].path] = domain'[e].path
    BY <1>3, <1>4, <2>1, <2>4, <2>6 DEF OnTheWay
  <2> QED BY <1>2, <2>2, <2>3, <2>4, <2>5, <2>6 DEF OnTheWay
<1> QED BY <1>6, <1>7, <1>8, <1>9, <1>10 DEF DKIndInv

(* A domain that has a key goes, and its lines of the maps with it.          *)
LEMMA DeleteSignedStep ==
  ASSUME DKIndInv, NEW d \in DomainRows, DeleteSigned(d) PROVE DKIndInv'
<1> USE DkimAssumption
<1>1. /\ DOMAIN pending = {}
      /\ calm => AtRest
      /\ domain' = [domain EXCEPT ![d] = Gone] /\ robbed' = robbed \ {d}
      /\ UNCHANGED <<file, keys, pending, dkim_queue, command, updates, key_map, calm>>
  BY DEF DeleteSigned, NoRequests
<1>4. /\ domain \in [DomainRows -> DomainRow] /\ domain' \in [DomainRows -> DomainRow]
      /\ domain'[d] = Gone /\ \A e \in DomainRows \ {d} : domain'[e] = domain[e]
  BY <1>1, GoneIs DEF DKIndInv, DKTypeOK, DomainRow
<1>6. DKTypeOK'
  <2>1. \A e, f \in DomainRows : Live(e)' /\ domain'[e].name = domain'[f].name => e = f
    BY <1>4, GoneIs DEF DKIndInv, DKTypeOK, Live
  <2>2. \A e \in DomainRows : domain'[e].on /\ domain'[e].path # NoName => file[domain'[e].path] # 0
    BY <1>4, GoneIs DEF DKIndInv, Paired
  <2> QED BY <1>1, <1>4, <2>1, <2>2 DEF DKIndInv, DKTypeOK, DomainRow
<1>7. Paired'
  BY <1>1, <1>4, GoneIs DEF DKIndInv, Paired
<1>8. PendingOK'
  BY <1>1 DEF PendingOK
<1>9. CommandOK'
  <2>1. \A e \in DomainRows : domain[e].path = NoName => domain'[e].path = NoName
    BY <1>4, GoneIs
  <2> QED BY <1>1, <2>1 DEF DKIndInv, CommandOK, Tasks
<1>10. CalmOK'
  <2> SUFFICES ASSUME calm PROVE OneAtATime' /\ OnTheWay'
    BY <1>1 DEF CalmOK
  <2>1. OneAtATime /\ OnTheWay /\ dkim_queue = {} /\ updates = {} /\ command = NoCommand
    BY <1>1 DEF DKIndInv, CalmOK, AtRest
  <2>2. OneAtATime'
    BY <1>1, <2>1 DEF OneAtATime
  <2>3. /\ Unreadable' = Unreadable
        /\ \A e : Treated(e)' = Treated(e)
        /\ \A j : InHand(j)' = InHand(j)
    BY <1>1 DEF Unreadable, Treated, InHand
  <2>4. (\A e : ~Treated(e)) /\ \A j : ~InHand(j)
    BY <2>1, NoCommandIs DEF Treated, InHand
  <2> QED BY <1>1, <1>4, <2>1, <2>2, <2>3, <2>4, GoneIs DEF OnTheWay
<1> QED BY <1>6, <1>7, <1>8, <1>9, <1>10 DEF DKIndInv

-----------------------------------------------------------------------------
(* The command starts with rows that have no key.                            *)
LEMMA StartsKeeps ==
  ASSUME DKIndInv, command = NoCommand, NEW ds \in SUBSET Wanting, Starts(ds),
         dkim_queue' \subseteq dkim_queue,
         UNCHANGED <<domain, file, keys, pending, updates, key_map, calm, robbed>>,
         calm => /\ DOMAIN pending = {} /\ dkim_queue' = {} /\ updates = {}
                 /\ \A d \in Wanting : domain[d].name \in dkim_queue => d \in ds
  PROVE  DKIndInv'
<1> DEFINE todo == {[row |-> d, name |-> domain[d].name] : d \in ds}
<1>1. \A d \in ds : /\ d \in DomainRows /\ domain[d].on /\ domain[d].path = NoName
                    /\ domain[d].name \in DomainNames
  BY DEF Wanting, DKIndInv, Paired
<1>2. \A j \in todo : j \in Tasks /\ j.row \in ds
     /\ j = [row |-> j.row, name |-> domain[j.row].name]
                      /\ domain[j.row].name = j.name
  BY <1>1 DEF Tasks
<1>3. \A d \in ds : \E j \in todo : j.row = d
  <2> SUFFICES ASSUME NEW d \in ds PROVE \E j \in todo : j.row = d
    OBVIOUS
  <2>1. [row |-> d, name |-> domain[d].name] \in todo
    OBVIOUS
  <2> HIDE DEF todo
  <2> QED BY <2>1
<1>4. ds # {} => command' = [NoCommand EXCEPT !.pc = "next", !.todo = todo]
  BY DEF Starts
<1>n. ds = {} => command' = NoCommand
  BY DEF Starts
<1> HIDE DEF todo
<1>5. /\ ds # {} => /\ command'.pc = "next" /\ command'.todo = todo /\ command'.done = {}
                    /\ command' \in [pc : {"idle", "next", "save"}, todo : SUBSET Tasks,
                                     done : SUBSET DomainRows, job : Tasks \cup {NoTask}]
  BY <1>2, <1>4 DEF NoCommand
<1>6. DKTypeOK'
  BY <1>5, <1>n, NoCommandIs DEF DKIndInv, DKTypeOK, Live
<1>7. Paired'
  BY DEF DKIndInv, Paired
<1>8. PendingOK'
  BY DEF DKIndInv, PendingOK
<1>9. CommandOK'
  <2>1. CASE ds = {}
    BY <1>n, <2>1, NoCommandIs DEF CommandOK
  <2>2. CASE ds # {}
    BY <1>1, <1>2, <1>5, <2>2 DEF CommandOK
  <2> QED BY <2>1, <2>2
<1>10. CalmOK'
  <2> SUFFICES ASSUME calm PROVE OneAtATime' /\ OnTheWay'
    BY DEF CalmOK
  <2>1. OneAtATime /\ OnTheWay /\ updates = {} /\ dkim_queue' = {} /\ DOMAIN pending = {}
    BY DEF DKIndInv, CalmOK
  <2>2. OneAtATime'
    BY <2>1 DEF OneAtATime
  <2>3. /\ Unreadable' = Unreadable
        /\ \A e : ~Treated(e)' /\ ~Treated(e)
        /\ \A j : ~InHand(j) /\ (InHand(j)' => j \in todo)
        /\ \A j \in todo : InHand(j)'
    <3>1. ds = {} => todo = {}
      BY <1>2
    <3> QED BY <1>5, <1>n, <2>1, <3>1, NoCommandIs DEF Unreadable, Treated, InHand
  <2>4. ASSUME ~Unreadable, NEW e \in DomainRows, domain[e].on, domain[e].path = NoName
        PROVE  \E j \in Tasks : InHand(j)' /\ j.row = e
    <3>1. e \in ds
      BY <2>1, <2>3, <2>4 DEF OnTheWay, Wanting
    <3> QED BY <1>2, <1>3, <2>3, <3>1
  <2> QED BY <1>1, <1>2, <2>1, <2>2, <2>3, <2>4 DEF OnTheWay
<1> QED BY <1>6, <1>7, <1>8, <1>9, <1>10 DEF DKIndInv

(* The worker takes the first job of its queue.                              *)
LEMMA TakeJobStep ==
  ASSUME DKIndInv, NEW n \in dkim_queue, TakeJob(n) PROVE DKIndInv'
<1> DEFINE ds == {d \in Wanting : domain[d].name = n}
<1>1. /\ command = NoCommand /\ dkim_queue' = dkim_queue \ {n} /\ Starts(ds)
      /\ calm => NoRequests
      /\ UNCHANGED <<domain, file, keys, pending, updates, key_map, calm, robbed>>
  BY DEF TakeJob
<1>2. ASSUME calm PROVE dkim_queue = {n} /\ updates = {} /\ DOMAIN pending = {}
  BY <1>1, <1>2 DEF DKIndInv, CalmOK, OneAtATime, NoRequests
<1> QED BY <1>1, <1>2, StartsKeeps

(* The command without a domain goes through every domain that lacks a key.  *)
LEMMA GenerateAllStep == ASSUME DKIndInv, GenerateAll PROVE DKIndInv'
<1>1. /\ command = NoCommand /\ dkim_queue' = dkim_queue /\ Starts(Wanting)
      /\ calm => AtRest
      /\ UNCHANGED <<domain, file, keys, pending, updates, key_map, calm, robbed>>
  BY DEF GenerateAll
<1> QED BY <1>1, StartsKeeps DEF AtRest, NoRequests

-----------------------------------------------------------------------------
(* A key is written over the file of the name: whoever else names that file  *)
(* is robbed of his.                                                         *)
LEMMA GenerateStep ==
  ASSUME DKIndInv, NEW j \in command.todo, Generate(j) PROVE DKIndInv'
<1> DEFINE c == [command EXCEPT !.pc = "save", !.todo = command.todo \ {j}, !.job = j]
<1>1. /\ command.pc = "next" /\ keys < MaxKeys /\ keys' = keys + 1
      /\ file' = [file EXCEPT ![j.name] = keys + 1]
      /\ robbed' = robbed \cup {d \in DomainRows \ {j.row} : domain[d].path = j.name}
      /\ command' = c
      /\ UNCHANGED <<domain, pending, dkim_queue, updates, key_map, calm>>
  BY DEF Generate
<1>2. /\ j \in Tasks /\ j.row \in DomainRows /\ j.name \in DomainNames
      /\ domain[j.row].path = NoName
      /\ \A k \in command.todo \ {j} : k.row # j.row
  BY DEF DKIndInv, CommandOK, Tasks
<1>3. /\ c \in [pc : {"idle", "next", "save"}, todo : SUBSET Tasks, done : SUBSET DomainRows,
                job : Tasks \cup {NoTask}]
      /\ c.pc = "save" /\ c.todo = command.todo \ {j} /\ c.job = j /\ c.done = command.done
  <2>1. command \in [pc : {"idle", "next", "save"}, todo : SUBSET Tasks, done : SUBSET DomainRows,
                     job : Tasks \cup {NoTask}]
    BY DEF DKIndInv, CommandOK
  <2> HIDE DEF DKIndInv
  <2> QED BY <1>2, <2>1
<1> HIDE DEF c
<1>n. keys \in Nat /\ keys' \in Nat /\ keys' # 0 /\ keys' \in 0 .. MaxKeys
      /\ \A x \in 0 .. keys : x \in 0 .. keys'
  BY <1>1, DkimAssumption DEF DKIndInv, Paired
<1>4. /\ file' \in [DomainNames -> 0 .. keys'] /\ file'[j.name] = keys'
      /\ \A n \in DomainNames \ {j.name} : file'[n] = file[n]
  <2>1. keys' \in 0 .. keys' /\ file \in [DomainNames -> 0 .. keys]
    BY <1>n DEF DKIndInv, DKTypeOK
  <2>2. file' = [n \in DomainNames |-> IF n = j.name THEN keys' ELSE file[n]]
    BY <1>1, <1>2, <2>1
  <2> QED BY <1>2, <1>n, <2>1, <2>2
<1>5. \A d \in DomainRows : domain[d].path # NoName => domain[d].path \in DomainNames
  BY DEF DKIndInv, DKTypeOK
<1>7. Paired'
  <2> SUFFICES ASSUME NEW d \in DomainRows, domain[d].path # NoName
               PROVE  /\ file'[domain[d].path] # 0
                      /\ d \in robbed' \/ domain[d].key = file'[domain[d].path]
    BY <1>1, <1>n DEF DKIndInv, Paired
  <2>1. CASE domain[d].path = j.name
    BY <1>1, <1>2, <1>4, <1>n, <2>1
  <2>2. CASE domain[d].path # j.name
    BY <1>1, <1>4, <1>5, <2>2 DEF DKIndInv, Paired
  <2> QED BY <2>1, <2>2
<1>6. DKTypeOK'
  <2>1. robbed' \subseteq DomainRows
    BY <1>1 DEF DKIndInv, DKTypeOK
  <2>2. \A d \in DomainRows : domain[d].on /\ domain[d].path # NoName => file'[domain[d].path] # 0
    BY <1>1, <1>7 DEF Paired
  <2> QED BY <1>1, <1>3, <1>4, <2>1, <2>2 DEF DKIndInv, DKTypeOK, Live
<1>8. PendingOK'
  BY <1>1 DEF DKIndInv, PendingOK
<1>9. CommandOK'
  BY <1>1, <1>2, <1>3, <1>4, <1>n DEF DKIndInv, CommandOK
<1>10. CalmOK'
  <2> SUFFICES ASSUME calm PROVE OneAtATime' /\ OnTheWay'
    BY <1>1 DEF CalmOK
  <2>1. OneAtATime /\ OnTheWay /\ command # NoCommand
    BY <1>1, NoCommandIs DEF DKIndInv, CalmOK
  <2>2. OneAtATime'
    BY <1>1, <2>1 DEF OneAtATime
  <2>3. /\ Unreadable' = Unreadable
        /\ \A e : Treated(e)' = Treated(e)
        /\ \A k : InHand(k)' = InHand(k)
    BY <1>1, <1>3 DEF Unreadable, Treated, InHand
  <2> QED BY <1>1, <2>1, <2>2, <2>3 DEF OnTheWay
<1> QED BY <1>6, <1>7, <1>8, <1>9, <1>10 DEF DKIndInv

(* One row less to do: the key is saved, or there is none.                   *)
LEMMA SaveKeyStep == ASSUME DKIndInv, SaveKey PROVE DKIndInv'
<1> USE DkimAssumption
<1> DEFINE j == command.job
           c == [command EXCEPT !.pc = "next", !.done = command.done \cup {j.row}, !.job = NoTask]
           row == [domain[j.row] EXCEPT !.path = j.name, !.key = file[j.name]]
<1>1. /\ command.pc = "save"
      /\ UNCHANGED <<file, keys, pending, dkim_queue, updates, key_map, calm, robbed>>
  BY DEF SaveKey
<1>2. /\ j \in Tasks /\ j.row \in DomainRows /\ j.name \in DomainNames /\ j.name # NoName
      /\ domain[j.row].path = NoName /\ file[j.name] # 0
      /\ \A k \in command.todo : k.row # j.row
  BY <1>1 DEF DKIndInv, CommandOK, Tasks
<1>3. /\ c \in [pc : {"idle", "next", "save"}, todo : SUBSET Tasks, done : SUBSET DomainRows,
                job : Tasks \cup {NoTask}]
      /\ c.pc = "next" /\ c.todo = command.todo /\ c.done = command.done \cup {j.row}
  <2>1. command \in [pc : {"idle", "next", "save"}, todo : SUBSET Tasks, done : SUBSET DomainRows,
                     job : Tasks \cup {NoTask}]
    BY DEF DKIndInv, CommandOK
  <2> HIDE DEF DKIndInv
  <2> QED BY <1>2, <2>1
<1>4. /\ row \in DomainRow /\ row.name = domain[j.row].name /\ row.on = domain[j.row].on
      /\ row.path = j.name /\ row.key = file[j.name]
  <2>1. domain[j.row] \in DomainRow /\ file[j.name] \in 0 .. MaxKeys
    <3>1. file[j.name] \in 0 .. keys /\ keys \in 0 .. MaxKeys
      BY <1>2 DEF DKIndInv, DKTypeOK, Paired
    <3>2. domain[j.row] \in DomainRow
      BY <1>2 DEF DKIndInv, DKTypeOK, DomainRow
    <3> QED BY <3>1, <3>2
  <2> DEFINE r == [domain[j.row] EXCEPT !.path = j.name]
  <2>2. /\ r \in DomainRow /\ r.name = domain[j.row].name /\ r.on = domain[j.row].on
        /\ r.path = j.name
    BY <1>2, <2>1 DEF DomainRow
  <2>3. row = [r EXCEPT !.key = file[j.name]]
    OBVIOUS
  <2> HIDE DEF row, r
  <2> QED BY <2>1, <2>2, <2>3 DEF DomainRow
<1>5. CASE ~Live(j.row)
  <2>1. command' = NoCommand /\ domain' = domain
    BY <1>5 DEF SaveKey
  <2>2. ~calm
    <3>1. calm => domain[j.row].name = j.name
      BY <1>1, <1>2 DEF DKIndInv, CalmOK, OnTheWay, InHand
    <3> QED BY <1>2, <1>5, <3>1 DEF Live
  <2>3. DKTypeOK'
    BY <1>1, <2>1, NoCommandIs DEF DKIndInv, DKTypeOK, Live
  <2>4. Paired' /\ PendingOK' /\ CalmOK'
    BY <1>1, <2>1, <2>2 DEF DKIndInv, Paired, PendingOK, CalmOK
  <2>5. CommandOK'
    BY <2>1, NoCommandIs DEF CommandOK
  <2> QED BY <2>3, <2>4, <2>5 DEF DKIndInv
<1>6. CASE Live(j.row)
  <2>1. command' = c
    BY <1>6 DEF SaveKey
  <2>2. domain' = [domain EXCEPT ![j.row] = row]
    BY <1>6 DEF SaveKey, SavedKey
  <2> HIDE DEF c, row
  <2>3. /\ domain \in [DomainRows -> DomainRow] /\ domain' \in [DomainRows -> DomainRow]
        /\ domain'[j.row] = row /\ \A e \in DomainRows \ {j.row} : domain'[e] = domain[e]
        /\ \A e \in DomainRows : domain'[e].name = domain[e].name /\ domain'[e].on = domain[e].on
    <3>1. domain \in [DomainRows -> DomainRow]
      BY DEF DKIndInv, DKTypeOK, DomainRow
    <3> QED BY <1>2, <1>4, <2>2, <3>1
  <2> HIDE DEF j
  <2>4. Paired'
    BY <1>1, <1>2, <1>4, <2>3 DEF DKIndInv, Paired
  <2>5. DKTypeOK'
    <3>1. \A e, f \in DomainRows : Live(e)' /\ domain'[e].name = domain'[f].name => e = f
      BY <2>3 DEF DKIndInv, DKTypeOK, Live
    <3>2. \A e \in DomainRows : domain'[e].on /\ domain'[e].path # NoName =>
         file'[domain'[e].path] # 0
      BY <2>4 DEF Paired
    <3> QED BY <1>1, <1>3, <2>1, <2>3, <3>1, <3>2 DEF DKIndInv, DKTypeOK, DomainRow
  <2>6. PendingOK'
    <3>1. \A d \in DOMAIN pending : pending[d].path # NoName => d # j.row
      BY <1>2 DEF DKIndInv, PendingOK
    <3> QED BY <1>1, <2>3, <3>1 DEF DKIndInv, PendingOK
  <2>7. CommandOK'
    BY <1>2, <1>3, <2>1, <2>3 DEF DKIndInv, CommandOK, Tasks
  <2>8. CalmOK'
    <3> SUFFICES ASSUME calm PROVE OneAtATime' /\ OnTheWay'
      BY <1>1 DEF CalmOK
    <3>1. OneAtATime /\ OnTheWay /\ command # NoCommand
      BY <1>1, NoCommandIs DEF DKIndInv, CalmOK
    <3>2. OneAtATime'
      BY <1>1, <3>1 DEF OneAtATime
    <3>3. /\ Unreadable' = Unreadable
          /\ \A e : Treated(e)' = (Treated(e) \/ e = j.row)
          /\ \A k : InHand(k) = (InHand(k)' \/ k = j)
          /\ InHand(j)
      BY <1>1, <1>3, <2>1 DEF Unreadable, Treated, InHand, j
    <3>4. \A k \in Tasks : InHand(k)' => domain'[k.row].name = k.name /\ domain'[k.row].on
      BY <2>3, <3>1, <3>3 DEF OnTheWay, Tasks
    <3>5. domain[j.row].name = j.name /\ domain[j.row].on
      BY <1>2, <3>1, <3>3 DEF OnTheWay
    <3>6. \A d \in DomainRows : Treated(d)' =>
            domain'[d].on /\ domain'[d].path \in {NoName, domain'[d].name}
      BY <1>4, <2>3, <3>1, <3>3, <3>5, ZenonT(60) DEF OnTheWay
    <3>7. ASSUME ~Unreadable, NEW e \in DomainRows, domain'[e].on, domain'[e].path = NoName
          PROVE  \/ domain'[e].name \in dkim_queue' \/ Treated(e)'
                 \/ \E k \in Tasks : InHand(k)' /\ k.row = e
      <4>1. e # j.row
        BY <1>2, <1>4, <2>3, <3>7
      <4> QED BY <1>1, <2>3, <3>1, <3>3, <3>7, <4>1 DEF OnTheWay
    <3>8. ASSUME ~Unreadable, NEW e \in DomainRows, domain'[e].path # NoName
          PROVE  key_map'[domain'[e].path] = domain'[e].path \/ Treated(e)'
      <4>1. CASE e = j.row
        BY <3>3, <4>1
      <4>2. CASE e # j.row
        BY <1>1, <2>3, <3>1, <3>3, <3>8, <4>2 DEF OnTheWay
      <4> QED BY <4>1, <4>2
    <3>9. ~Unreadable => \A d \in DOMAIN pending' : pending'[d].on /\ pending'[d].path = NoName =>
            pending'[d].name \in dkim_queue'
      BY <1>1, <3>1 DEF OnTheWay
    <3> QED BY <3>2, <3>3, <3>4, <3>6, <3>7, <3>8, <3>9 DEF OnTheWay
  <2> QED BY <2>4, <2>5, <2>6, <2>7, <2>8 DEF DKIndInv
<1> QED BY <1>5, <1>6

(* ... the row is treated without a key: what is left to do is less.         *)
LEMMA FailureKeeps ==
  ASSUME DKIndInv, NEW k \in Tasks, InHand(k),
         command' \in [pc : {"idle", "next", "save"}, todo : SUBSET Tasks, done : SUBSET DomainRows,
                       job : Tasks \cup {NoTask}],
         command'.pc = "next", command'.todo = command.todo \ {k},
         command'.done = command.done \cup {k.row},
         \A i : InHand(i) => InHand(i)' \/ i = k,
         command.pc \in {"next", "save"},
         UNCHANGED <<domain, file, keys, pending, dkim_queue, updates, key_map, calm, robbed>>
  PROVE  DKIndInv'
<1>1. k.row \in DomainRows
  BY DEF Tasks
<1>2. domain[k.row].path = NoName
  BY DEF DKIndInv, CommandOK, InHand
<1>3. DKTypeOK'
  BY DEF DKIndInv, DKTypeOK, Live
<1>4. Paired' /\ PendingOK'
  BY DEF DKIndInv, Paired, PendingOK
<1>5. CommandOK'
  BY DEF DKIndInv, CommandOK
<1>6. CalmOK'
  <2> SUFFICES ASSUME calm PROVE OneAtATime' /\ OnTheWay'
    BY DEF CalmOK
  <2>1. OneAtATime /\ OnTheWay /\ command # NoCommand
    BY NoCommandIs DEF DKIndInv, CalmOK
  <2>2. OneAtATime'
    BY <2>1 DEF OneAtATime
  <2>3. /\ Unreadable' = Unreadable
        /\ \A e : Treated(e)' = (Treated(e) \/ e = k.row)
        /\ \A i : InHand(i)' => InHand(i)
    BY DEF Unreadable, Treated, InHand
  <2>4. domain[k.row].on
    BY <2>1 DEF OnTheWay
  <2> QED BY <1>1, <1>2, <2>1, <2>2, <2>3, <2>4 DEF OnTheWay
<1> QED BY <1>3, <1>4, <1>5, <1>6 DEF DKIndInv

(* openssl writes the private key and fails on the public one.               *)
LEMMA PublicKeyFailsStep == ASSUME DKIndInv, PublicKeyFails PROVE DKIndInv'
<1> DEFINE k == command.job
           c == [command EXCEPT !.pc = "next", !.done = command.done \cup {k.row}, !.job = NoTask]
<1>1. /\ command.pc = "save" /\ command' = c
      /\ UNCHANGED <<domain, file, keys, pending, dkim_queue, updates, key_map, calm, robbed>>
  BY DEF PublicKeyFails
<1>2. /\ k \in Tasks /\ k.row \in DomainRows /\ k \notin command.todo
      /\ command \in [pc : {"idle", "next", "save"}, todo : SUBSET Tasks, done : SUBSET DomainRows,
                      job : Tasks \cup {NoTask}]
  BY <1>1 DEF DKIndInv, CommandOK, Tasks
<1>3. /\ c \in [pc : {"idle", "next", "save"}, todo : SUBSET Tasks, done : SUBSET DomainRows,
                job : Tasks \cup {NoTask}]
      /\ c.pc = "next" /\ c.todo = command.todo /\ c.done = command.done \cup {k.row}
  <2> HIDE DEF DKIndInv
  <2> QED BY <1>2
<1> HIDE DEF c
<1>4. InHand(k) /\ command.todo \ {k} = command.todo /\ \A i : InHand(i) => InHand(i)' \/ i = k
  BY <1>1, <1>2, <1>3 DEF InHand
<1> HIDE DEF k
<1> QED BY <1>1, <1>2, <1>3, <1>4, FailureKeeps

(* openssl fails on the private key: the domain stays without one.           *)
LEMMA GenerateFailsStep ==
  ASSUME DKIndInv, NEW k \in command.todo, GenerateFails(k) PROVE DKIndInv'
<1> DEFINE c == [command EXCEPT !.todo = command.todo \ {k}, !.done = command.done \cup {k.row}]
<1>1. /\ command.pc = "next" /\ command' = c
      /\ UNCHANGED <<domain, file, keys, pending, dkim_queue, updates, key_map, calm, robbed>>
  BY DEF GenerateFails
<1>2. /\ k \in Tasks /\ k.row \in DomainRows
      /\ command \in [pc : {"idle", "next", "save"}, todo : SUBSET Tasks, done : SUBSET DomainRows,
                      job : Tasks \cup {NoTask}]
  BY <1>1 DEF DKIndInv, CommandOK, Tasks
<1>3. /\ c \in [pc : {"idle", "next", "save"}, todo : SUBSET Tasks, done : SUBSET DomainRows,
                job : Tasks \cup {NoTask}]
      /\ c.pc = "next" /\ c.todo = command.todo \ {k} /\ c.done = command.done \cup {k.row}
  <2> HIDE DEF DKIndInv
  <2> QED BY <1>1, <1>2
<1> HIDE DEF c
<1>4. InHand(k) /\ \A i : InHand(i) => InHand(i)' \/ i = k
  BY <1>1, <1>2, <1>3 DEF InHand
<1> QED BY <1>1, <1>2, <1>3, <1>4, FailureKeeps

(* The command ends after its last domain.                                   *)
LEMMA EndCommandStep == ASSUME DKIndInv, EndCommand PROVE DKIndInv'
<1>1. /\ command.pc = "next" /\ command.todo = {} /\ updates' = updates \cup {command.done}
      /\ command' = NoCommand /\ command.done \subseteq DomainRows
      /\ UNCHANGED <<domain, file, keys, pending, dkim_queue, key_map, calm, robbed>>
  BY DEF EndCommand, Signalled, DKIndInv, CommandOK
<1>3. DKTypeOK'
  BY <1>1, NoCommandIs DEF DKIndInv, DKTypeOK, Live
<1>4. Paired' /\ PendingOK'
  BY <1>1 DEF DKIndInv, Paired, PendingOK
<1>5. CommandOK'
  BY <1>1, NoCommandIs DEF CommandOK
<1>6. CalmOK'
  <2> SUFFICES ASSUME calm PROVE OneAtATime' /\ OnTheWay'
    BY <1>1 DEF CalmOK
  <2>1. OneAtATime /\ OnTheWay /\ command # NoCommand
    BY <1>1, NoCommandIs DEF DKIndInv, CalmOK
  <2>2. OneAtATime'
    BY <1>1, <2>1 DEF OneAtATime
  <2>3. /\ Unreadable' = Unreadable
        /\ \A e : Treated(e)' = Treated(e)
        /\ \A i : ~InHand(i)' /\ ~InHand(i)
    BY <1>1, NoCommandIs DEF Unreadable, Treated, InHand
  <2> QED BY <1>1, <2>1, <2>2, <2>3 DEF OnTheWay
<1> QED BY <1>3, <1>4, <1>5, <1>6 DEF DKIndInv

(* The map takes the keys of the rows treated; a row without one makes it    *)
(* unreadable.                                                               *)
LEMMA UpdateMapStep ==
  ASSUME DKIndInv, NEW ds \in updates, UpdateMap(ds) PROVE DKIndInv'
<1> USE DkimAssumption
<1>1. /\ updates' = updates \ {ds} /\ ds \subseteq DomainRows
      /\ key_map' = IF Unreadable THEN key_map ELSE [n \in DomainNames |-> Entry(n, ds)]
      /\ UNCHANGED <<domain, file, keys, pending, dkim_queue, command, calm, robbed>>
  BY DEF UpdateMap, DKIndInv, DKTypeOK
<1>2. ASSUME NEW n \in DomainNames
      PROVE  \/ Entry(n, ds) = key_map[n] /\ \A d \in ds : domain[d].name # n
             \/ \E d \in ds : domain[d].name = n
                              /\ Entry(n, ds) = (IF domain[d].on THEN domain[d].path ELSE NoEntry)
  <2> DEFINE rows == {d \in ds : domain[d].name = n}
  <2>1. CASE rows = {}
    BY <2>1 DEF Entry
  <2>2. CASE rows # {}
    <3> DEFINE d == CHOOSE x \in rows : TRUE
    <3>1. d \in rows
      BY <2>2
    <3>2. Entry(n, ds) = IF domain[d].on THEN domain[d].path ELSE NoEntry
      BY <2>2 DEF Entry
    <3> HIDE DEF d
    <3> QED BY <3>1, <3>2
  <2> QED BY <2>1, <2>2
<1>3. DKTypeOK'
  <2>1. ASSUME NEW n \in DomainNames PROVE Entry(n, ds) \in DomainNames \cup {NoName, NoEntry}
    BY <1>1, <1>2, <2>1 DEF DKIndInv, DKTypeOK
  <2>2. key_map' \in [DomainNames -> DomainNames \cup {NoName, NoEntry}]
    <3> HIDE DEF NoEntry
    <3> QED BY <1>1, <2>1 DEF DKIndInv, DKTypeOK
  <2> QED BY <1>1, <2>2 DEF DKIndInv, DKTypeOK, Live
<1>4. Paired' /\ PendingOK'
  BY <1>1 DEF DKIndInv, Paired, PendingOK
<1>5. CommandOK'
  BY <1>1 DEF DKIndInv, CommandOK
<1>6. CalmOK'
  <2> SUFFICES ASSUME calm PROVE OneAtATime' /\ OnTheWay'
    BY <1>1 DEF CalmOK
  <2>1. OneAtATime /\ OnTheWay /\ command = NoCommand /\ dkim_queue = {}
    BY <1>1 DEF DKIndInv, CalmOK, OneAtATime
  <2>2. OneAtATime'
    BY <1>1, <2>1 DEF OneAtATime
  <2>3. /\ \A e : (Treated(e) = (e \in ds)) /\ ~Treated(e)'
        /\ \A i : ~InHand(i)' /\ ~InHand(i)
    BY <1>1, <2>1, NoCommandIs DEF OneAtATime, Treated, InHand
  <2>4. CASE Unreadable
    <3>1. Unreadable'
      BY <1>1, <2>4 DEF Unreadable
    <3> QED BY <2>2, <2>3, <3>1 DEF OnTheWay
  <2>5. CASE ~Unreadable
    <3>1. key_map' = [n \in DomainNames |-> Entry(n, ds)]
      BY <1>1, <2>5
    <3>2. \A d \in ds : d \in DomainRows /\ domain[d].on
         /\ domain[d].path \in {NoName, domain[d].name}
                        /\ domain[d].name \in DomainNames
      BY <1>1, <2>1, <2>3 DEF OnTheWay, DKIndInv, Paired
    <3>3. \A d, e \in DomainRows : domain[d].name \in DomainNames
         /\ domain[d].name = domain[e].name => d = e
      BY DEF DKIndInv, DKTypeOK, Live
    <3>4. ASSUME ~Unreadable', NEW d \in ds
          PROVE  domain[d].path = domain[d].name /\ key_map'[domain[d].name] = domain[d].name
      <4>1. key_map'[domain[d].name] = domain[d].path
        <5>1. Entry(domain[d].name, ds) = domain[d].path
          BY <1>1, <1>2, <3>2, <3>3, <3>4
        <5> QED BY <3>1, <3>2, <3>4, <5>1
      <4>2. key_map'[domain[d].name] # NoName
        BY <3>2, <3>4 DEF Unreadable
      <4> QED BY <3>2, <3>4, <4>1, <4>2
    <3>5. ASSUME ~Unreadable', NEW e \in DomainRows, domain[e].path # NoName
          PROVE  key_map'[domain[e].path] = domain[e].path
      <4>1. domain[e].path \in DomainNames
        BY <3>5 DEF DKIndInv, DKTypeOK
      <4>2. CASE e \in ds
        BY <3>4, <3>5, <4>2
      <4>3. CASE e \notin ds
        <5>1. key_map[domain[e].path] = domain[e].path
          BY <2>1, <2>3, <2>5, <3>5, <4>3 DEF OnTheWay
        <5>2. CASE \E d \in ds : domain[d].name = domain[e].path
          BY <3>4, <3>5, <5>2
        <5>3. CASE \A d \in ds : domain[d].name # domain[e].path
          BY <1>2, <3>1, <4>1, <5>1, <5>3
        <5> QED BY <5>2, <5>3
      <4> QED BY <4>2, <4>3
    <3>6. ASSUME ~Unreadable', NEW e \in DomainRows, domain[e].on, domain[e].path = NoName
          PROVE  FALSE
      <4>1. e \in ds
        BY <2>1, <2>3, <2>5, <3>6 DEF OnTheWay
      <4> QED BY <3>2, <3>4, <3>6, <4>1
    <3>7. ~Unreadable => \A d \in DOMAIN pending : pending[d].on /\ pending[d].path = NoName =>
            pending[d].name \in dkim_queue
      BY <2>1 DEF OnTheWay
    <3> QED BY <1>1, <2>2, <2>3, <2>5, <3>5, <3>6, <3>7 DEF OnTheWay
  <2> QED BY <2>4, <2>5
<1> QED BY <1>3, <1>4, <1>5, <1>6 DEF DKIndInv

-----------------------------------------------------------------------------
(* Every step of the keys keeps the invariant.                               *)
LEMMA DKStepKeeps == ASSUME DKIndInv, [DKNext]_dkVars PROVE DKIndInv'
<1>1. CASE UNCHANGED dkVars
  <2>1. UNCHANGED <<domain, file, keys, pending, dkim_queue, command, updates, key_map, calm,
                    robbed>>
    BY <1>1 DEF dkVars
  <2>2. DKTypeOK' /\ Paired' /\ PendingOK'
    BY <2>1 DEF DKIndInv, DKTypeOK, Paired, PendingOK, Live
  <2>3. CommandOK'
    BY <2>1 DEF DKIndInv, CommandOK
  <2>4. CalmOK'
    BY <2>1 DEF DKIndInv, CalmOK, OneAtATime, OnTheWay, InHand, Treated, Unreadable
  <2> QED BY <2>2, <2>3, <2>4 DEF DKIndInv
<1>2. ASSUME NEW d \in DomainRows, DomainStep(d) PROVE DKIndInv'
  BY <1>2, CreateRowStep, EnableDkimStep, DisableDkimStep, ChangeLengthStep, RenameRowStep,
     DeleteSignedStep DEF DomainStep
<1>3. ASSUME CommandStep PROVE DKIndInv'
  BY <1>3, TakeJobStep, GenerateStep, GenerateFailsStep, SaveKeyStep, PublicKeyFailsStep,
     EndCommandStep DEF CommandStep
<1> QED BY <1>1, <1>2, <1>3, CommitRowStep, GenerateAllStep, UpdateMapStep DEF DKNext

(* create_new_dkim_key, manage_dkim_keys and update_rspamd_maps (admin/lib,  *)
(* rspamd): the public key of a domain is that of the key with which its     *)
(* messages are signed unless a namesake has written over it, and what wants *)
(* DKIM is signed when nothing is left to do.                                *)
THEOREM KeysAgree == DKSpec => []KeyInv
<1>1. ASSUME DKInit PROVE DKIndInv
  <2> USE <1>1, DkimAssumption, GoneIs, NoCommandIs DEF DKInit
  <2>1. DKTypeOK
    BY DEF DKTypeOK, Live, DomainRow
  <2>2. Paired /\ PendingOK
    BY DEF Paired, PendingOK
  <2>3. CommandOK
    BY DEF CommandOK
  <2>4. CalmOK
    BY DEF CalmOK, OneAtATime, OnTheWay, InHand, Treated
  <2> QED BY <2>1, <2>2, <2>3, <2>4 DEF DKIndInv
<1>2. DKIndInv /\ [DKNext]_dkVars => DKIndInv'
  BY DKStepKeeps
<1>3. DKIndInv => KeyInv
  BY DKIndInvIsSafe
<1> QED BY <1>1, <1>2, <1>3, PTL DEF DKSpec

-----------------------------------------------------------------------------
(* The directory of accounts (LdapDirectory).                               *)

(* A request in progress.                                                    *)
LdapRequest == [pc : {"loaded", "saved", "deleting", "locked"}, user : LdapUsers, was : Row,
                row : Row,
            again : BOOLEAN]

HandsAre ==
  /\ users \in [LdapUsers -> Row \cup {NoUser, Erased}]
  /\ entries \in [Uids -> Secrets \cup {NoLdapEntry, Locked}]
  /\ hand \in [Hands -> LdapRequest \cup {Empty}]
  /\ \A h \in Hands : Begun(h) => users[hand[h].user] # NoUser
  /\ \A h \in Hands : hand[h].pc \in {"deleting", "locked"} => hand[h].row = hand[h].was

(* A name belongs to one account, or is given to one by a request that holds *)
(* the lock of its row.                                                      *)
NamesApart ==
  /\ \A u, v \in LdapUsers :
       UserExists(u) /\ UserExists(v) /\ users[u].name = users[v].name => u = v
  /\ \A h \in Hands, v \in LdapUsers :
       hand[h].pc = "saved" /\ UserExists(v) /\ users[v].name = hand[h].row.name =>
         v = hand[h].user
  /\ \A g, h \in Hands :
       /\ hand[g].pc = "saved" /\ hand[h].pc = "saved"
       /\ hand[g].user = hand[h].user \/ hand[g].row.name = hand[h].row.name
       => g = h

(* A request that was not overtaken since finds the entry that it has        *)
(* written, ...                                                              *)
SavedOK ==
  \A h \in Hands :
    hand[h].pc = "saved" /\ ~hand[h].again /\ hand[h].row.role = "user" =>
      entries[hand[h].row.name] = Wanted(hand[h].row)

(* ... or emptied.                                                           *)
LockedOK ==
  \A h \in Hands : hand[h].pc = "locked" /\ ~hand[h].again =>
    /\ \A x \in Hands : ~Locks(x, hand[h].user)
    /\ /\ UserExists(hand[h].user) /\ users[hand[h].user].role = "user"
       /\ users[hand[h].user].name = hand[h].was.name
       => entries[hand[h].was.name] \notin Secrets

LDIndInv == LdapInv /\ HandsAre /\ NamesApart /\ SavedOK /\ LockedOK

-----------------------------------------------------------------------------
(* The record of a hand that holds no user.                                  *)
LEMMA EmptyIs == Empty.pc = "idle"
  BY DEF Empty

(* What a hand holds, written out.                                           *)
LEMMA HandIs ==
  ASSUME HandsAre, NEW h \in Hands
  PROVE  /\ hand[h].pc \in {"idle", "loaded", "saved", "deleting", "locked"}
         /\ hand[h].pc # "idle" => hand[h] \in LdapRequest /\ users[hand[h].user] # NoUser
         /\ hand[h].pc = "idle" => hand[h] = Empty
  BY EmptyIs DEF HandsAre, LdapRequest, Begun

(* What the row of a user is, written out.                                   *)
LEMMA UserIs ==
  ASSUME HandsAre, NEW u \in LdapUsers
  PROVE  /\ UserExists(u) => users[u] \in Row
         /\ users[u] \in Row => UserExists(u)
         /\ ~UserExists(u) => users[u] \in {NoUser, Erased}
  BY LdapAssumption DEF HandsAre, UserExists

(* Requests that are overtaken stay what they are.                           *)
LEMMA OvertakenIs ==
  ASSUME HandsAre, NEW h \in Hands, NEW r \in LdapRequest, NEW u \in LdapUsers, NEW n \in Uids,
         NEW S \in SUBSET {"saved", "locked"}, hand' = Overtaken(h, r, u, n, S)
  PROVE  /\ hand' \in [Hands -> LdapRequest \cup {Empty}] /\ hand'[h] = r
         /\ \A x \in Hands \ {h} :
              /\ hand'[x].pc = hand[x].pc
              /\ hand[x].pc # "idle" =>
                   /\ hand'[x].user = hand[x].user /\ hand'[x].was = hand[x].was
                   /\ hand'[x].row = hand[x].row
                   /\ hand[x].again => hand'[x].again
                   /\ hand[x].pc \in S /\ (hand[x].user = u \/ hand[x].row.name = n) =>
                        hand'[x].again
<1> DEFINE E(x) == [hand[x] EXCEPT !.again = TRUE]
           O(x) == IF hand[x].pc \in S /\ (hand[x].user = u \/ hand[x].row.name = n)
                   THEN E(x) ELSE hand[x]
<1>1. hand' = [x \in Hands |-> IF x = h THEN r ELSE O(x)]
  BY DEF Overtaken
<1>2. ASSUME NEW x \in Hands, hand[x].pc # "idle"
      PROVE  /\ E(x) \in LdapRequest /\ E(x).pc = hand[x].pc /\ E(x).user = hand[x].user
             /\ E(x).was = hand[x].was /\ E(x).row = hand[x].row /\ E(x).again = TRUE
  <2>1. hand[x] \in LdapRequest
    BY <1>2, HandIs
  <2> QED BY <2>1 DEF LdapRequest
<1> HIDE DEF E
<1>3. ASSUME NEW x \in Hands
      PROVE  /\ O(x) \in LdapRequest \cup {Empty} /\ O(x).pc = hand[x].pc
             /\ hand[x].pc # "idle" =>
                   /\ O(x).user = hand[x].user /\ O(x).was = hand[x].was
                   /\ O(x).row = hand[x].row
                   /\ hand[x].again => O(x).again
                   /\ hand[x].pc \in S /\ (hand[x].user = u \/ hand[x].row.name = n) => O(x).again
  <2>1. hand[x] \in LdapRequest \cup {Empty}
    BY DEF HandsAre
  <2>2. CASE hand[x].pc = "idle"
    <3>1. O(x) = hand[x]
      BY <2>2
    <3> HIDE DEF O
    <3> QED BY <2>1, <2>2, <3>1
  <2>3. CASE hand[x].pc # "idle"
    BY <1>2, <2>1, <2>3
  <2> QED BY <2>2, <2>3
<1> HIDE DEF O
<1> QED BY <1>1, <1>3

-----------------------------------------------------------------------------
(* A new account: nobody has its name, and no request is about it.           *)
LEMMA NewUser ==
  ASSUME LDIndInv, NEW u \in LdapUsers, NEW r \in Row, users[u] = NoUser, UidFree(r.name),
         users' = [users EXCEPT ![u] = r], hand' = hand,
         entries' \in [Uids -> Secrets \cup {NoLdapEntry, Locked}],
         \A n \in Uids \ {r.name} : entries'[n] = entries[n]
  PROVE  /\ HandsAre' /\ NamesApart' /\ SavedOK' /\ LockedOK'
         /\ users'[u] = r /\ UserExists(u)' /\ ~UserExists(u)
         /\ \A v \in LdapUsers \ {u} : users'[v] = users[v] /\ UserExists(v)' = UserExists(v)
         /\ \A v \in LdapUsers : UserExists(v) => users[v].name # r.name
         /\ \A v \in LdapUsers : InProgress(v)' = InProgress(v)
<1> USE LdapAssumption DEF LDIndInv
<1>1. /\ users'[u] = r /\ UserExists(u)' /\ ~UserExists(u)
      /\ \A v \in LdapUsers \ {u} : users'[v] = users[v] /\ UserExists(v)' = UserExists(v)
      /\ users' \in [LdapUsers -> Row \cup {NoUser, Erased}]
  BY DEF HandsAre, UserExists
<1>2. /\ \A v \in LdapUsers : UserExists(v) => users[v].name # r.name
      /\ \A h \in Hands : hand[h].pc = "saved" => hand[h].row.name # r.name
  BY DEF UidFree
<1>3. \A h \in Hands : Begun(h) => hand[h].user # u
  BY DEF HandsAre
<1>4. HandsAre'
  BY <1>1, <1>3 DEF HandsAre, Begun, LdapRequest
<1>5. NamesApart'
  BY <1>1, <1>2 DEF NamesApart
<1>6. SavedOK'
  BY <1>2, HandIs DEF SavedOK, Wanted, LdapRequest, Row
<1>7. LockedOK'
  <2> SUFFICES ASSUME NEW h \in Hands, hand[h].pc = "locked", ~hand[h].again
               PROVE  /\ \A x \in Hands : ~Locks(x, hand[h].user)
                      /\ /\ UserExists(hand[h].user)' /\ users'[hand[h].user].role = "user"
                         /\ users'[hand[h].user].name = hand[h].was.name
                         => entries'[hand[h].was.name] \notin Secrets
    BY DEF LockedOK, Locks
  <2>1. hand[h] \in LdapRequest /\ hand[h].user # u
    BY <1>3, HandIs DEF Begun
  <2>2. hand[h].user \in LdapUsers \ {u} /\ hand[h].was.name \in Uids
    BY <2>1 DEF LdapRequest, Row
  <2> QED BY <1>1, <1>2, <2>2 DEF LockedOK
<1>8. \A v \in LdapUsers : InProgress(v)' = InProgress(v)
  BY DEF InProgress
<1> QED BY <1>1, <1>2, <1>4, <1>5, <1>6, <1>7, <1>8

(* A new account has no entry yet, and is adrift.                            *)
LEMMA AddUserStep ==
  ASSUME LDIndInv, NEW u \in LdapUsers, NEW r \in Row, AddUser(u, r) PROVE LDIndInv'
<1>1. /\ taken < MaxHands /\ users[u] = NoUser /\ UidFree(r.name)
      /\ users' = [users EXCEPT ![u] = r]
      /\ adrift' = adrift \cup {u} /\ taken' = taken + 1
      /\ UNCHANGED <<entries, hand, remote, left>>
  BY DEF AddUser
<1>2. /\ HandsAre' /\ NamesApart' /\ SavedOK' /\ LockedOK'
      /\ users'[u] = r /\ UserExists(u)' /\ ~UserExists(u)
      /\ \A v \in LdapUsers \ {u} : users'[v] = users[v] /\ UserExists(v)' = UserExists(v)
      /\ \A v \in LdapUsers : UserExists(v) => users[v].name # r.name
      /\ \A v \in LdapUsers : InProgress(v)' = InProgress(v)
  <2>1. entries \in [Uids -> Secrets \cup {NoLdapEntry, Locked}]
    BY DEF LDIndInv, HandsAre
  <2> QED BY <1>1, <2>1, NewUser
<1>3. LDTypeOK'
  BY <1>1, <1>2, LdapAssumption DEF LDIndInv, LdapInv, LDTypeOK
<1>4. EntryFollows'
  BY <1>1, <1>2 DEF LDIndInv, LdapInv, EntryFollows, Wanted
<1>5. NobodyLeft'
  BY <1>1, <1>2 DEF LDIndInv, LdapInv, NobodyLeft
<1> QED BY <1>2, <1>3, <1>4, <1>5 DEF LDIndInv, LdapInv

(* What the handler of a save leaves in the directory is an entry or none.   *)
LEMMA PushedIs ==
  ASSUME HandsAre, NEW r \in Row
  PROVE  /\ Pushed(r) \in [Uids -> Secrets \cup {NoLdapEntry, Locked}]
         /\ \A n \in Uids \ {r.name} : Pushed(r)[n] = entries[n]
  BY DEF HandsAre, Pushed, Row

(* An account of a CSV file is saved once more, and has its entry.           *)
LEMMA ImportUserStep ==
  ASSUME LDIndInv, NEW u \in LdapUsers, NEW r \in Row, ImportUser(u, r) PROVE LDIndInv'
<1>1. /\ taken < MaxHands /\ users[u] = NoUser /\ UidFree(r.name)
      /\ users' = [users EXCEPT ![u] = r]
      /\ entries' = IF r.role = "user" THEN Pushed(r) ELSE entries
      /\ adrift' = IF entries'[r.name] = Wanted(r) THEN adrift \ {u} ELSE adrift \cup {u}
      /\ left' = IF r.role = "user" THEN left \ {r.name} ELSE left
      /\ taken' = taken + 1 /\ UNCHANGED <<hand, remote>>
  BY DEF ImportUser
<1>n. /\ entries' \in [Uids -> Secrets \cup {NoLdapEntry, Locked}]
      /\ \A n \in Uids \ {r.name} : entries'[n] = entries[n]
  BY <1>1, PushedIs DEF LDIndInv, HandsAre
<1>2. /\ HandsAre' /\ NamesApart' /\ SavedOK' /\ LockedOK'
      /\ users'[u] = r /\ UserExists(u)' /\ ~UserExists(u)
      /\ \A v \in LdapUsers \ {u} : users'[v] = users[v] /\ UserExists(v)' = UserExists(v)
      /\ \A v \in LdapUsers : UserExists(v) => users[v].name # r.name
      /\ \A v \in LdapUsers : InProgress(v)' = InProgress(v)
  BY <1>1, <1>n, NewUser
<1>3. LDTypeOK'
  <2>1. adrift' \subseteq LdapUsers /\ left' \subseteq Uids
    BY <1>1 DEF LDIndInv, LdapInv, LDTypeOK
  <2> QED BY <1>1, <1>2, <1>n, <2>1, LdapAssumption DEF LDIndInv, LdapInv, LDTypeOK
<1>4. EntryFollows'
  <2> SUFFICES ASSUME NEW v \in LdapUsers \ adrift', UserExists(v)', users'[v].role = "user",
                      ~InProgress(v)'
               PROVE  entries'[users'[v].name] = Wanted(users'[v])
    BY DEF EntryFollows, Wanted
  <2>1. CASE v = u
    BY <1>1, <1>2, <2>1
  <2>2. CASE v # u
    <3>1. v \notin adrift /\ UserExists(v) /\ users[v].role = "user" /\ ~InProgress(v)
      BY <1>1, <1>2, <2>2
    <3>2. users[v].name \in Uids \ {r.name}
      BY <1>2, <3>1, UserIs DEF LDIndInv, Row
    <3> QED BY <1>2, <1>n, <2>2, <3>1, <3>2 DEF LDIndInv, LdapInv, EntryFollows
  <2> QED BY <2>1, <2>2
<1>5. NobodyLeft'
  <2> SUFFICES ASSUME NEW n \in Uids \ left', entries'[n] \in Secrets
               PROVE  \/ \E v \in LdapUsers : UserExists(v)' /\ users'[v].name = n
                           /\ users'[v].role = "user"
                      \/ \E h \in Hands : hand[h].pc = "saved" /\ hand[h].row.name = n
    BY <1>1 DEF NobodyLeft
  <2>1. CASE r.role = "user" /\ n = r.name
    BY <1>2, <2>1
  <2>2. CASE ~(r.role = "user" /\ n = r.name)
    <3>1. n \notin left /\ entries[n] \in Secrets
      BY <1>1, <1>n, <2>2
    <3> QED BY <1>2, <3>1 DEF LDIndInv, LdapInv, NobodyLeft
  <2> QED BY <2>1, <2>2
<1> QED BY <1>2, <1>3, <1>4, <1>5 DEF LDIndInv, LdapInv

-----------------------------------------------------------------------------
(* A request begins or ends without having changed anything.                 *)
LEMMA QuietHand ==
  ASSUME LDIndInv, NEW h \in Hands, NEW r \in LdapRequest \cup {Empty},
         hand' = [hand EXCEPT ![h] = r],
         hand[h].pc \notin {"saved", "locked"}, r.pc \notin {"saved", "locked"},
         r.pc # "idle" => users[r.user] # NoUser,
         r.pc = "deleting" => r.row = r.was,
         taken' \in 0 .. MaxHands,
         UNCHANGED <<users, entries, remote, adrift, left>>
  PROVE  LDIndInv'
<1> USE DEF LDIndInv, LdapInv
<1>1. /\ hand' \in [Hands -> LdapRequest \cup {Empty}] /\ hand'[h] = r
      /\ \A x \in Hands \ {h} : hand'[x] = hand[x]
  BY DEF HandsAre
<1>2. \A x \in Hands : /\ Begun(x)' /\ x # h => Begun(x)
                       /\ \A pc \in {"saved", "locked"} : hand'[x].pc = pc =>
                            hand[x].pc = pc /\ x # h
                       /\ \A pc \in {"saved", "locked"} : hand[x].pc = pc =>
                            hand'[x].pc = pc /\ x # h
  BY <1>1 DEF Begun
<1>3. LDTypeOK'
  BY DEF LDTypeOK, UserExists
<1>4. HandsAre'
  BY <1>1, <1>2 DEF HandsAre, Begun
<1>5. NamesApart'
  BY <1>1, <1>2 DEF NamesApart, UserExists
<1>6. SavedOK'
  BY <1>1, <1>2 DEF SavedOK, Wanted
<1>7. LockedOK'
  BY <1>1, <1>2 DEF LockedOK, Locks, UserExists
<1>8. EntryFollows'
  <2>1. \A u \in LdapUsers : InProgress(u)' = InProgress(u)
    BY <1>1, <1>2 DEF InProgress
  <2> QED BY <2>1 DEF EntryFollows, UserExists, Wanted
<1>9. NobodyLeft'
  BY <1>1, <1>2 DEF NobodyLeft, UserExists
<1> QED BY <1>3, <1>4, <1>5, <1>6, <1>7, <1>8, <1>9

(* A request reads the row of a user into its hand.                          *)
LEMMA LoadUserStep ==
  ASSUME LDIndInv, NEW h \in Hands, NEW u \in LdapUsers, NEW r \in Row, LoadUser(h, u, r)
  PROVE  LDIndInv'
<1> DEFINE q == [pc |-> "loaded", user |-> u, was |-> users[u], row |-> r, again |-> FALSE]
<1>1. /\ UserExists(u) /\ ~Begun(h) /\ taken < MaxHands /\ taken' = taken + 1
      /\ hand' = [hand EXCEPT ![h] = q] /\ UNCHANGED <<users, entries, remote, adrift, left>>
  BY DEF LoadUser, Begin
<1>2. users[u] \in Row /\ users[u] # NoUser /\ taken' \in 0 .. MaxHands
  BY <1>1, UserIs, LdapAssumption DEF LDIndInv, LdapInv, LDTypeOK, UserExists
<1>3. q \in LdapRequest /\ q.pc = "loaded" /\ q.user = u
  BY <1>2 DEF LdapRequest
<1> HIDE DEF q
<1> QED BY <1>1, <1>2, <1>3, QuietHand DEF Begun

(* A request starts to delete the user it holds.                             *)
LEMMA BeginDeleteStep ==
  ASSUME LDIndInv, NEW h \in Hands, NEW u \in LdapUsers, BeginDelete(h, u) PROVE LDIndInv'
<1> DEFINE q == [pc |-> "deleting", user |-> u, was |-> users[u], row |-> users[u], again |-> FALSE]
<1>1. /\ UserExists(u) /\ ~Begun(h) /\ taken < MaxHands /\ taken' = taken + 1
      /\ hand' = [hand EXCEPT ![h] = q] /\ UNCHANGED <<users, entries, remote, adrift, left>>
  BY DEF BeginDelete, Begin
<1>2. users[u] \in Row /\ users[u] # NoUser /\ taken' \in 0 .. MaxHands
  BY <1>1, UserIs, LdapAssumption DEF LDIndInv, LdapInv, LDTypeOK, UserExists
<1>3. q \in LdapRequest /\ q.pc = "deleting" /\ q.user = u /\ q.row = q.was
  BY <1>2 DEF LdapRequest
<1> HIDE DEF q
<1> QED BY <1>1, <1>2, <1>3, QuietHand DEF Begun

(* A request fails before it has written anything.                           *)
LEMMA HandFailsStep ==
  ASSUME LDIndInv, NEW h \in Hands, HandFails(h) PROVE LDIndInv'
<1>1. /\ hand[h].pc \in {"loaded", "deleting"} /\ hand' = [hand EXCEPT ![h] = Empty]
      /\ UNCHANGED <<users, entries, remote, adrift, left, taken>>
  BY DEF HandFails
<1>2. taken \in 0 .. MaxHands
  BY DEF LDIndInv, LdapInv, LDTypeOK
<1> QED BY <1>1, <1>2, EmptyIs, QuietHand

-----------------------------------------------------------------------------
(* A request writes the entry of its name, which nobody else has, and marks  *)
(* the deletions that it overtakes.                                          *)
LEMMA SaveUserStep ==
  ASSUME LDIndInv, NEW h \in Hands, SaveUser(h) PROVE LDIndInv'
<1> USE DEF LDIndInv, LdapInv
<1> DEFINE u == hand[h].user
           n == hand[h].row.name
           r == [hand[h] EXCEPT !.pc = "saved", !.again = entries'[n] # Wanted(hand[h].row)]
<1>1. /\ hand[h].pc = "loaded"
      /\ \A x \in Hands : ~Locks(x, u)
      /\ UidFree(n) \/ (UserExists(u) /\ users[u].name = n)
      /\ entries' = Saved(h)
      /\ hand' = Overtaken(h, r, u, n, {"locked"})
      /\ UNCHANGED <<users, remote, adrift, left, taken>>
  BY DEF SaveUser
<1>2. /\ hand[h] \in LdapRequest /\ u \in LdapUsers /\ n \in Uids /\ hand[h].row \in Row
      /\ hand[h].was \in Row /\ users[u] # NoUser
  BY <1>1, HandIs DEF LdapRequest, Row
<1>3. /\ r \in LdapRequest /\ r.pc = "saved" /\ r.user = u /\ r.was = hand[h].was
      /\ r.row = hand[h].row /\ (~r.again => entries'[n] = Wanted(r.row))
  <2>1. (entries'[n] # Wanted(hand[h].row)) \in BOOLEAN
    OBVIOUS
  <2> DEFINE g == entries'[n] # Wanted(hand[h].row)
  <2>2. r = [hand[h] EXCEPT !.pc = "saved", !.again = g] /\ g \in BOOLEAN
    OBVIOUS
  <2>3. ~g => entries'[n] = Wanted(hand[h].row)
    OBVIOUS
  <2> HIDE DEF g, LDIndInv
  <2>4. r = [[hand[h] EXCEPT !.pc = "saved"] EXCEPT !.again = g]
    BY <2>2
  <2> DEFINE q == [hand[h] EXCEPT !.pc = "saved"]
  <2>5. q \in LdapRequest /\ q.pc = "saved" /\ q.user = u /\ q.was = hand[h].was
       /\ q.row = hand[h].row
    BY <1>2 DEF LdapRequest
  <2> HIDE DEF q, r
  <2>6. /\ r \in LdapRequest /\ r.pc = "saved" /\ r.user = q.user /\ r.was = q.was /\ r.row = q.row
        /\ r.again = g
    BY <2>2, <2>4, <2>5 DEF LdapRequest, q
  <2> QED BY <2>3, <2>5, <2>6
<1>n. n = r.row.name
  BY <1>3
<1> HIDE DEF r
<1>4. /\ hand' \in [Hands -> LdapRequest \cup {Empty}] /\ hand'[h] = r
      /\ \A x \in Hands \ {h} :
           /\ hand'[x].pc = hand[x].pc
           /\ hand[x].pc # "idle" =>
                /\ hand'[x].user = hand[x].user /\ hand'[x].was = hand[x].was
                /\ hand'[x].row = hand[x].row
                /\ hand[x].again => hand'[x].again
                /\ hand[x].pc = "locked" /\ (hand[x].user = u \/ hand[x].row.name = n) =>
                     hand'[x].again
  <2>1. {"locked"} \in SUBSET {"saved", "locked"} /\ HandsAre
    OBVIOUS
  <2> HIDE DEF LDIndInv, u, n
  <2>2. /\ hand' \in [Hands -> LdapRequest \cup {Empty}] /\ hand'[h] = r
        /\ \A x \in Hands \ {h} :
             /\ hand'[x].pc = hand[x].pc
             /\ hand[x].pc # "idle" =>
                  /\ hand'[x].user = hand[x].user /\ hand'[x].was = hand[x].was
                  /\ hand'[x].row = hand[x].row
                  /\ hand[x].again => hand'[x].again
                  /\ hand[x].pc \in {"locked"} /\ (hand[x].user = u \/ hand[x].row.name = n)
                       => hand'[x].again
    BY <1>1, <1>2, <1>3, <2>1, OvertakenIs
  <2> QED BY <2>2
<1> HIDE DEF u, n
<1>5. /\ entries' \in [Uids -> Secrets \cup {NoLdapEntry, Locked}]
      /\ \A m \in Uids \ {n} : entries'[m] = entries[m]
  <2> DEFINE q == [hand[h].row EXCEPT !.secret = hand[h].was.secret]
  <2>1. q \in Row /\ q.name = n
    BY <1>2 DEF Row, n
  <2>2. entries' \in {Pushed(hand[h].row), Pushed(q), entries}
    BY <1>1 DEF Saved
  <2> HIDE DEF q
  <2> QED BY <1>2, <2>1, <2>2, PushedIs DEF HandsAre, n
<1>6. /\ \A v \in LdapUsers : UserExists(v) /\ users[v].name = n => v = u
      /\ \A x \in Hands : hand[x].pc = "saved" => hand[x].user # u /\ hand[x].row.name # n
  <2>1. CASE UidFree(n)
    BY <1>1, <2>1 DEF UidFree, Locks
  <2>2. CASE UserExists(u) /\ users[u].name = n
    BY <1>1, <1>2, <2>2 DEF NamesApart, Locks
  <2> QED BY <1>1, <2>1, <2>2
<1>7. LDTypeOK'
  BY <1>1, <1>5 DEF LDTypeOK, UserExists
<1>8. HandsAre'
  <2>1. \A x \in Hands : Begun(x)' => users[hand'[x].user] # NoUser
    BY <1>2, <1>3, <1>4, HandIs DEF Begun
  <2>2. \A x \in Hands : hand'[x].pc \in {"deleting", "locked"} => hand'[x].row = hand'[x].was
    BY <1>3, <1>4 DEF HandsAre
  <2> QED BY <1>1, <1>4, <1>5, <2>1, <2>2 DEF HandsAre
<1>9. NamesApart'
  <2>1. \A x \in Hands, v \in LdapUsers :
          hand'[x].pc = "saved" /\ UserExists(v) /\ users[v].name = hand'[x].row.name =>
            v = hand'[x].user
    BY <1>3, <1>4, <1>6, <1>n DEF NamesApart
  <2>2. \A g, x \in Hands :
          /\ hand'[g].pc = "saved" /\ hand'[x].pc = "saved"
          /\ hand'[g].user = hand'[x].user \/ hand'[g].row.name = hand'[x].row.name
          => g = x
    BY <1>3, <1>4, <1>6, <1>n DEF NamesApart
  <2> QED BY <1>1, <2>1, <2>2 DEF NamesApart, UserExists
<1>10. SavedOK'
  <2> SUFFICES ASSUME NEW x \in Hands, hand'[x].pc = "saved", ~hand'[x].again,
                      hand'[x].row.role = "user"
               PROVE  entries'[hand'[x].row.name] = Wanted(hand'[x].row)
    BY DEF SavedOK, Wanted
  <2>1. CASE x = h
    BY <1>3, <1>4, <1>n, <2>1
  <2>2. CASE x # h
    <3>1. /\ hand[x].pc = "saved" /\ ~hand[x].again /\ hand'[x].row = hand[x].row
          /\ hand[x].row.name # n /\ hand[x] \in LdapRequest
      BY <1>4, <1>6, <2>2, HandIs
    <3>2. hand[x].row.name \in Uids \ {n}
      BY <3>1 DEF LdapRequest, Row
    <3> QED BY <1>5, <3>1, <3>2 DEF SavedOK
  <2> QED BY <2>1, <2>2
<1>11. LockedOK'
  <2> SUFFICES ASSUME NEW x \in Hands, hand'[x].pc = "locked", ~hand'[x].again
               PROVE  /\ \A y \in Hands : hand'[y].pc = "saved" => hand'[y].user # hand'[x].user
                      /\ /\ UserExists(hand'[x].user) /\ users[hand'[x].user].role = "user"
                         /\ users[hand'[x].user].name = hand'[x].was.name
                         => entries'[hand'[x].was.name] \notin Secrets
    BY <1>1 DEF LockedOK, Locks, UserExists
  <2>1. /\ x # h /\ hand[x].pc = "locked" /\ ~hand[x].again /\ hand'[x].user = hand[x].user
        /\ hand'[x].was = hand[x].was /\ hand[x].user # u /\ hand[x].row.name # n
        /\ hand[x].row = hand[x].was /\ hand[x] \in LdapRequest
    BY <1>3, <1>4, HandIs DEF HandsAre
  <2>2. hand[x].was.name \in Uids \ {n}
    BY <2>1 DEF LdapRequest, Row
  <2>3. \A y \in Hands : hand'[y].pc = "saved" => hand'[y].user # hand[x].user
    BY <1>3, <1>4, <2>1 DEF LockedOK, Locks
  <2> QED BY <1>5, <2>1, <2>2, <2>3 DEF LockedOK
<1>12. EntryFollows'
  <2> SUFFICES ASSUME NEW v \in LdapUsers \ adrift, UserExists(v), users[v].role = "user",
                      ~InProgress(v)'
               PROVE  entries'[users[v].name] = Wanted(users[v])
    BY <1>1 DEF EntryFollows, Wanted, UserExists
  <2>1. v # u
    BY <1>3, <1>4 DEF InProgress
  <2>2. ~InProgress(v)
    BY <1>1, <1>3, <1>4, <2>1 DEF InProgress
  <2>3. users[v].name \in Uids \ {n}
    BY <1>6, <2>1, UserIs DEF Row
  <2> QED BY <1>5, <2>2, <2>3 DEF EntryFollows
<1>13. NobodyLeft'
  <2> SUFFICES ASSUME NEW m \in Uids \ left, entries'[m] \in Secrets
               PROVE  \/ \E v \in LdapUsers : UserExists(v) /\ users[v].name = m
                           /\ users[v].role = "user"
                      \/ \E x \in Hands : hand'[x].pc = "saved" /\ hand'[x].row.name = m
    BY <1>1 DEF NobodyLeft, UserExists
  <2>1. CASE m = n
    BY <1>3, <1>4, <1>n, <2>1
  <2>2. CASE m # n
    <3>1. \A x \in Hands : hand[x].pc = "saved" =>
         hand'[x].pc = "saved" /\ hand'[x].row = hand[x].row
      BY <1>1, <1>4
    <3> QED BY <1>5, <2>2, <3>1 DEF NobodyLeft
  <2> QED BY <2>1, <2>2
<1> QED BY <1>7, <1>8, <1>9, <1>10, <1>11, <1>12, <1>13

(* A request that has saved, or deleted, ends.                               *)
LEMMA EndedHand ==
  ASSUME LDIndInv, NEW h \in Hands, hand' = [hand EXCEPT ![h] = Empty]
  PROVE  /\ hand' \in [Hands -> LdapRequest \cup {Empty}] /\ hand'[h].pc = "idle"
         /\ \A x \in Hands \ {h} : hand'[x] = hand[x]
         /\ \A x \in Hands : hand'[x].pc # "idle" => x # h /\ hand'[x] = hand[x]
  BY EmptyIs DEF LDIndInv, HandsAre

(* The transaction of a save is committed, after the entry was written.      *)
LEMMA CommitUserStep ==
  ASSUME LDIndInv, NEW h \in Hands, CommitUser(h) PROVE LDIndInv'
<1> USE DEF LDIndInv, LdapInv
<1>0. PICK u, r : u = hand[h].user /\ r = hand[h].row
  OBVIOUS
<1>w. PICK granted : granted = RoleAfter(h)
  OBVIOUS
<1> DEFINE old == IF ~UserExists(u) THEN {} ELSE {users[u].name} \ {r.name}
           simple == granted = "user"
           q == [r EXCEPT !.role = granted]
<1>1. /\ hand[h].pc = "saved"
      /\ users' = [users EXCEPT ![u] = q]
      /\ adrift' = IF r.role = "user" /\ ~hand[h].again
                   THEN adrift \ {u} ELSE adrift \cup {u}
      /\ left' = IF simple THEN (left \cup old) \ {r.name} ELSE left \cup old \cup {r.name}
      /\ hand' = [hand EXCEPT ![h] = Empty]
      /\ UNCHANGED <<entries, remote, taken>>
  BY <1>0, <1>w DEF CommitUser
<1>2. /\ hand[h] \in LdapRequest /\ u \in LdapUsers /\ r \in Row /\ r.name \in Uids
      /\ hand[h].was \in Row /\ users[u] # NoUser
  BY <1>0, <1>1, HandIs DEF LdapRequest, Row
<1>3. /\ granted \in {"user", "admin", "none"}
      /\ granted = "user" /\ r.role # "user" => UserExists(u) /\ users[u].role = "user"
  BY <1>0, <1>2, <1>w, UserIs DEF RoleAfter, Row
<1>4. /\ q \in Row /\ q.name = r.name /\ q.secret = r.secret /\ q.active = r.active
      /\ (q.role = "user") = simple /\ Wanted(q) = Wanted(r)
  BY <1>2, <1>3 DEF Row, Wanted
<1>5. /\ hand' \in [Hands -> LdapRequest \cup {Empty}] /\ hand'[h].pc = "idle"
      /\ \A x \in Hands : hand'[x].pc # "idle" => x # h /\ hand'[x] = hand[x]
      /\ \A x \in Hands \ {h} : hand'[x] = hand[x]
  BY <1>1, EndedHand
<1>o. left' \subseteq Uids /\ adrift' \subseteq LdapUsers
  <2>1. old \subseteq Uids
    BY <1>2, UserIs DEF Row
  <2> QED BY <1>1, <1>2, <2>1 DEF LDTypeOK
<1>l. /\ simple => r.name \notin left' /\ left \ {r.name} \subseteq left'
      /\ ~simple => r.name \in left' /\ left \subseteq left'
      /\ UserExists(u) => users[u].name = r.name \/ users[u].name \in left'
  BY <1>1
<1> HIDE DEF q, old
<1>6. /\ users' \in [LdapUsers -> Row \cup {NoUser, Erased}] /\ users'[u] = q /\ UserExists(u)'
      /\ \A v \in LdapUsers \ {u} : users'[v] = users[v] /\ UserExists(v)' = UserExists(v)
  BY <1>1, <1>2, <1>4, LdapAssumption DEF HandsAre, UserExists
<1>7. /\ \A v \in LdapUsers \ {u} : UserExists(v) => users[v].name # r.name
      /\ \A x \in Hands \ {h} : hand[x].pc = "saved" =>
           hand[x].user # u /\ hand[x].row.name # r.name
  BY <1>0, <1>1 DEF NamesApart
<1>8. LDTypeOK'
  BY <1>1, <1>4, <1>6, <1>o DEF LDTypeOK
<1>9. HandsAre'
  <2>1. \A x \in Hands : Begun(x)' => users'[hand'[x].user] # NoUser
    BY <1>4, <1>5, <1>6, HandIs, LdapAssumption DEF Begun, LdapRequest
  <2>2. \A x \in Hands : hand'[x].pc \in {"deleting", "locked"} => hand'[x].row = hand'[x].was
    BY <1>5 DEF HandsAre
  <2> QED BY <1>1, <1>5, <1>6, <2>1, <2>2 DEF HandsAre
<1>10. NamesApart'
  <2>1. \A v, w \in LdapUsers :
          UserExists(v)' /\ UserExists(w)' /\ users'[v].name = users'[w].name => v = w
    BY <1>4, <1>6, <1>7 DEF NamesApart
  <2>2. \A x \in Hands, v \in LdapUsers :
          hand'[x].pc = "saved" /\ UserExists(v)' /\ users'[v].name = hand'[x].row.name =>
            v = hand'[x].user
    BY <1>4, <1>5, <1>6, <1>7 DEF NamesApart
  <2>3. \A g, x \in Hands :
          /\ hand'[g].pc = "saved" /\ hand'[x].pc = "saved"
          /\ hand'[g].user = hand'[x].user \/ hand'[g].row.name = hand'[x].row.name
          => g = x
    BY <1>5 DEF NamesApart
  <2> QED BY <2>1, <2>2, <2>3 DEF NamesApart
<1>11. SavedOK'
  BY <1>1, <1>5 DEF SavedOK, Wanted
<1>12. LockedOK'
  <2> SUFFICES ASSUME NEW x \in Hands, hand'[x].pc = "locked", ~hand'[x].again
               PROVE  /\ \A y \in Hands : hand'[y].pc = "saved" => hand'[y].user # hand'[x].user
                      /\ /\ users'[hand'[x].user] \notin {NoUser, Erased}
                         /\ users'[hand'[x].user].role = "user"
                         /\ users'[hand'[x].user].name = hand'[x].was.name
                         => entries[hand'[x].was.name] \notin Secrets
    BY <1>1 DEF LockedOK, Locks, UserExists
  <2>1. x # h /\ hand'[x] = hand[x] /\ hand[x].pc = "locked" /\ ~hand[x].again
       /\ hand[x] \in LdapRequest
    BY <1>5, HandIs
  <2>2. hand[x].user # u /\ hand[x].user \in LdapUsers
    BY <1>0, <1>1, <2>1 DEF LockedOK, Locks, LdapRequest
  <2>3. \A y \in Hands : hand'[y].pc = "saved" => hand'[y].user # hand[x].user
    BY <1>5, <2>1 DEF LockedOK, Locks
  <2>4. /\ users'[hand[x].user] = users[hand[x].user]
        /\ UserExists(hand[x].user) = (users[hand[x].user] \notin {NoUser, Erased})
    BY <1>6, <2>2 DEF UserExists
  <2> QED BY <2>1, <2>2, <2>3, <2>4 DEF LockedOK
<1>13. EntryFollows'
  <2> SUFFICES ASSUME NEW v \in LdapUsers \ adrift', UserExists(v)', users'[v].role = "user",
                      ~InProgress(v)'
               PROVE  entries[users'[v].name] = Wanted(users'[v])
    BY <1>1 DEF EntryFollows, Wanted
  <2>1. CASE v = u
    <3>1. r.role = "user" /\ ~hand[h].again
      BY <1>1, <2>1
    <3>2. entries[r.name] = Wanted(r)
      BY <1>0, <1>1, <3>1 DEF SavedOK
    <3> QED BY <1>4, <1>6, <2>1, <3>2
  <2>2. CASE v # u
    <3>1. v \notin adrift /\ UserExists(v) /\ users[v] = users'[v]
      BY <1>1, <1>6, <2>2
    <3>2. ~InProgress(v)
      <4>1. \A x \in Hands : hand[x].pc \in {"saved", "locked"} /\ hand[x].user = v => x # h
        BY <1>0, <2>2
      <4> QED BY <1>5, <4>1 DEF InProgress
    <3> QED BY <3>1, <3>2 DEF EntryFollows
  <2> QED BY <2>1, <2>2
<1>14. NobodyLeft'
  <2> SUFFICES ASSUME NEW m \in Uids \ left', entries[m] \in Secrets
               PROVE  \/ \E v \in LdapUsers : UserExists(v)' /\ users'[v].name = m
                           /\ users'[v].role = "user"
                      \/ \E x \in Hands : hand'[x].pc = "saved" /\ hand'[x].row.name = m
    BY <1>1 DEF NobodyLeft
  <2>1. CASE m = r.name
    BY <1>2, <1>4, <1>6, <1>l, <2>1
  <2>2. CASE m # r.name
    <3>1. m \notin left
      BY <1>l, <2>2
    <3>2. CASE \E v \in LdapUsers : UserExists(v) /\ users[v].name = m /\ users[v].role = "user"
      <4>1. PICK v \in LdapUsers : UserExists(v) /\ users[v].name = m /\ users[v].role = "user"
        BY <3>2
      <4>2. v # u
        BY <1>l, <2>2, <4>1
      <4> QED BY <1>6, <4>1, <4>2
    <3>3. CASE \E x \in Hands : hand[x].pc = "saved" /\ hand[x].row.name = m
      <4>1. PICK x \in Hands : hand[x].pc = "saved" /\ hand[x].row.name = m
        BY <3>3
      <4>2. x # h
        BY <1>0, <2>2, <4>1
      <4> QED BY <1>5, <4>1, <4>2
    <3> QED BY <3>1, <3>2, <3>3 DEF NobodyLeft
  <2> QED BY <2>1, <2>2
<1> QED BY <1>8, <1>9, <1>10, <1>11, <1>12, <1>13, <1>14

-----------------------------------------------------------------------------
(* A request that was rolled back: its account is adrift, ...                *)
LEMMA RolledBack ==
  ASSUME LDIndInv, NEW h \in Hands, hand[h].pc \in {"saved", "locked"},
         adrift' = adrift \cup {hand[h].user}, left' \in SUBSET Uids, left \subseteq left',
         hand[h].pc = "saved" => hand[h].row.name \in left',
         hand' = [hand EXCEPT ![h] = Empty], UNCHANGED <<users, entries, remote, taken>>
  PROVE  LDIndInv'
<1> USE DEF LDIndInv, LdapInv
<1>1. /\ hand' \in [Hands -> LdapRequest \cup {Empty}] /\ hand'[h].pc = "idle"
      /\ \A x \in Hands : hand'[x].pc # "idle" => x # h /\ hand'[x] = hand[x]
      /\ \A x \in Hands \ {h} : hand'[x] = hand[x]
  BY EndedHand
<1>2. hand[h].user \in LdapUsers
  BY HandIs DEF LdapRequest
<1>3. LDTypeOK'
  BY <1>2 DEF LDTypeOK, UserExists
<1>4. HandsAre'
  BY <1>1 DEF HandsAre, Begun
<1>5. NamesApart'
  BY <1>1 DEF NamesApart, UserExists
<1>6. SavedOK'
  BY <1>1 DEF SavedOK, Wanted
<1>7. LockedOK'
  BY <1>1 DEF LockedOK, Locks, UserExists
<1>8. EntryFollows'
  <2> SUFFICES ASSUME NEW v \in LdapUsers \ adrift', UserExists(v), users[v].role = "user",
                      ~InProgress(v)'
               PROVE  entries[users[v].name] = Wanted(users[v])
    BY DEF EntryFollows, Wanted, UserExists
  <2>1. v \notin adrift /\ v # hand[h].user
    OBVIOUS
  <2>2. ~InProgress(v)
    <3>1. \A x \in Hands : hand[x].pc \in {"saved", "locked"} /\ hand[x].user = v => x # h
      BY <2>1
    <3> QED BY <1>1, <3>1 DEF InProgress
  <2> QED BY <2>1, <2>2 DEF EntryFollows
<1>9. NobodyLeft'
  <2> SUFFICES ASSUME NEW m \in Uids \ left', entries[m] \in Secrets,
                      NEW x \in Hands, hand[x].pc = "saved", hand[x].row.name = m
               PROVE  hand'[x].pc = "saved" /\ hand'[x].row.name = m
    BY DEF NobodyLeft, UserExists
  <2>1. x # h
    OBVIOUS
  <2> QED BY <1>1, <2>1
<1> QED BY <1>3, <1>4, <1>5, <1>6, <1>7, <1>8, <1>9

(* It is rolled back instead: the entry keeps what was written.              *)
LEMMA RollbackUserStep ==
  ASSUME LDIndInv, NEW h \in Hands, RollbackUser(h) PROVE LDIndInv'
<1>1. /\ hand[h].pc = "saved" /\ adrift' = adrift \cup {hand[h].user}
      /\ left' = left \cup {hand[h].row.name} /\ hand' = [hand EXCEPT ![h] = Empty]
      /\ UNCHANGED <<users, entries, remote, taken>>
  BY DEF RollbackUser
<1>2. hand[h].row.name \in Uids /\ left \subseteq Uids
  BY <1>1, HandIs DEF LdapRequest, Row, LDIndInv, LdapInv, LDTypeOK
<1>3. left' \in SUBSET Uids /\ left \subseteq left' /\ hand[h].row.name \in left'
  BY <1>1, <1>2
<1> QED BY <1>1, <1>3, RolledBack

(* The transaction of a deletion is rolled back after the entry went.        *)
LEMMA DeleteRollbackStep ==
  ASSUME LDIndInv, NEW h \in Hands, DeleteRollback(h) PROVE LDIndInv'
<1>1. /\ hand[h].pc = "locked" /\ adrift' = adrift \cup {hand[h].user}
      /\ hand' = [hand EXCEPT ![h] = Empty]
      /\ UNCHANGED <<users, entries, remote, taken, left>>
  BY DEF DeleteRollback
<1>2. left' \in SUBSET Uids /\ left \subseteq left'
  BY <1>1 DEF LDIndInv, LdapInv, LDTypeOK
<1> QED BY <1>1, <1>2, RolledBack

(* A deletion empties the entry of the name that it has loaded, and marks    *)
(* whoever has written it.                                                   *)
LEMMA PreDeleteStep ==
  ASSUME LDIndInv, NEW h \in Hands, PreDelete(h) PROVE LDIndInv'
<1> USE DEF LDIndInv, LdapInv
<1>0. PICK u, n, other : /\ u = hand[h].user /\ n = hand[h].was.name
                         /\ other = (\E x \in Hands : Locks(x, hand[h].user))
  OBVIOUS
<1> DEFINE r == [hand[h] EXCEPT !.pc = "locked", !.again = other]
<1>1. /\ hand[h].pc = "deleting"
      /\ IF UserExists(u) /\ users[u].role = "user"
         THEN /\ entries' = Disabled(n)
              /\ adrift' = adrift \cup {v \in LdapUsers \ {u} : UserExists(v) /\ users[v].name = n}
              /\ left' = left \ {n}
         ELSE UNCHANGED <<entries, adrift, left>>
      /\ hand' = Overtaken(h, r, u, n, {"saved", "locked"})
      /\ UNCHANGED <<users, remote, taken>>
  <2> HIDE DEF LDIndInv
  <2> QED BY <1>0 DEF PreDelete
<1>2. /\ hand[h] \in LdapRequest /\ u \in LdapUsers /\ n \in Uids
      /\ users[u] # NoUser /\ hand[h].row = hand[h].was /\ other \in BOOLEAN
  BY <1>0, <1>1, HandIs DEF LdapRequest, Row, HandsAre
<1>3. /\ r \in LdapRequest /\ r.pc = "locked" /\ r.user = u /\ r.was = hand[h].was
      /\ r.row = hand[h].was /\ r.was.name = n /\ r.again = other
  <2> HIDE DEF LDIndInv
  <2>1. r = [[hand[h] EXCEPT !.pc = "locked"] EXCEPT !.again = other]
    OBVIOUS
  <2> DEFINE q == [hand[h] EXCEPT !.pc = "locked"]
  <2>2. /\ q \in LdapRequest /\ q.pc = "locked" /\ q.user = u /\ q.was = hand[h].was
        /\ q.row = hand[h].was
    BY <1>0, <1>2 DEF LdapRequest
  <2> HIDE DEF q, r
  <2>3. /\ r \in LdapRequest /\ r.pc = q.pc /\ r.user = q.user /\ r.was = q.was /\ r.row = q.row
        /\ r.again = other
    BY <1>2, <2>1, <2>2 DEF LdapRequest, q
  <2> QED BY <1>0, <2>2, <2>3
<1> HIDE DEF r
<1>4. /\ hand' \in [Hands -> LdapRequest \cup {Empty}] /\ hand'[h] = r
      /\ \A x \in Hands \ {h} :
           /\ hand'[x].pc = hand[x].pc
           /\ hand[x].pc # "idle" =>
                /\ hand'[x].user = hand[x].user /\ hand'[x].was = hand[x].was
                /\ hand'[x].row = hand[x].row
                /\ hand[x].again => hand'[x].again
                /\ hand[x].pc \in {"saved", "locked"} /\ (hand[x].user = u \/ hand[x].row.name = n)
                     => hand'[x].again
  <2>1. {"saved", "locked"} \in SUBSET {"saved", "locked"} /\ HandsAre
    OBVIOUS
  <2> HIDE DEF LDIndInv
  <2> QED BY <1>1, <1>2, <1>3, <2>1, OvertakenIs
<1>5. /\ entries' \in [Uids -> Secrets \cup {NoLdapEntry, Locked}]
      /\ \A m \in Uids \ {n} : entries'[m] = entries[m]
      /\ entries'[n] = entries[n] \/ entries'[n] \notin Secrets
      /\ UserExists(u) /\ users[u].role = "user" => entries'[n] \notin Secrets
      /\ \A m \in Uids : m \notin left' => m \notin left \/ entries'[m] \notin Secrets
      /\ left' \subseteq Uids /\ adrift' \subseteq LdapUsers
      /\ \A v \in LdapUsers \ adrift' :
           /\ v \notin adrift
           /\ UserExists(v) /\ v # u /\ users[v].name = n => entries' = entries
  <2>1. CASE UserExists(u) /\ users[u].role = "user"
    <3>1. /\ entries' = Disabled(n) /\ left' = left \ {n}
          /\ adrift' = adrift \cup {v \in LdapUsers \ {u} : UserExists(v) /\ users[v].name = n}
      BY <1>1, <2>1
    <3>2. entries' \in [Uids -> Secrets \cup {NoLdapEntry, Locked}]
          /\ (\A m \in Uids \ {n} : entries'[m] = entries[m]) /\ entries'[n] \notin Secrets
      BY <1>2, <3>1, LdapAssumption DEF Disabled, HandsAre
    <3> QED BY <3>1, <3>2 DEF LDTypeOK
  <2>2. CASE ~(UserExists(u) /\ users[u].role = "user")
    BY <1>1, <2>2 DEF HandsAre, LDTypeOK
  <2> QED BY <2>1, <2>2
<1>7. LDTypeOK'
  BY <1>1, <1>5 DEF LDTypeOK, UserExists
<1>8. HandsAre'
  <2>1. \A x \in Hands : Begun(x)' => users[hand'[x].user] # NoUser
    BY <1>2, <1>3, <1>4, HandIs DEF Begun
  <2>2. \A x \in Hands : hand'[x].pc \in {"deleting", "locked"} => hand'[x].row = hand'[x].was
    BY <1>3, <1>4 DEF HandsAre
  <2> QED BY <1>1, <1>4, <1>5, <2>1, <2>2 DEF HandsAre
<1>9. NamesApart'
  <2>1. \A x \in Hands : hand'[x].pc = "saved" =>
          hand[x].pc = "saved" /\ hand'[x].user = hand[x].user /\ hand'[x].row = hand[x].row
    BY <1>3, <1>4
  <2> QED BY <1>1, <2>1 DEF NamesApart, UserExists
<1>10. SavedOK'
  <2> SUFFICES ASSUME NEW x \in Hands, hand'[x].pc = "saved", ~hand'[x].again,
                      hand'[x].row.role = "user"
               PROVE  entries'[hand'[x].row.name] = Wanted(hand'[x].row)
    BY DEF SavedOK, Wanted
  <2>1. /\ x # h /\ hand[x].pc = "saved" /\ ~hand[x].again /\ hand'[x].row = hand[x].row
        /\ hand[x].row.name # n /\ hand[x] \in LdapRequest
    BY <1>3, <1>4, HandIs
  <2>2. hand[x].row.name \in Uids \ {n}
    BY <2>1 DEF LdapRequest, Row
  <2> QED BY <1>5, <2>1, <2>2 DEF SavedOK
<1>11. LockedOK'
  <2> SUFFICES ASSUME NEW x \in Hands, hand'[x].pc = "locked", ~hand'[x].again
               PROVE  /\ \A y \in Hands : hand'[y].pc = "saved" => hand'[y].user # hand'[x].user
                      /\ /\ users[hand'[x].user] \notin {NoUser, Erased}
                         /\ users[hand'[x].user].role = "user"
                         /\ users[hand'[x].user].name = hand'[x].was.name
                         => entries'[hand'[x].was.name] \notin Secrets
    BY <1>1 DEF LockedOK, Locks, UserExists
  <2>1. \A y \in Hands : hand'[y].pc = "saved" =>
       hand[y].pc = "saved" /\ hand'[y].user = hand[y].user
    BY <1>3, <1>4
  <2>2. CASE x = h
    <3>1. ~other /\ hand'[x].user = u /\ hand'[x].was.name = n
      BY <1>3, <1>4, <2>2
    <3>2. \A y \in Hands : ~(hand[y].pc = "saved" /\ hand[y].user = u)
      BY <1>0, <3>1 DEF Locks
    <3> QED BY <1>5, <2>1, <3>1, <3>2 DEF UserExists
  <2>3. CASE x # h
    <3>1. /\ hand[x].pc = "locked" /\ ~hand[x].again /\ hand'[x].user = hand[x].user
          /\ hand'[x].was = hand[x].was /\ hand[x] \in LdapRequest
      BY <1>4, <2>3, HandIs
    <3>2. hand[x].was.name \in Uids
      BY <3>1 DEF LdapRequest, Row
    <3> QED BY <1>5, <2>1, <3>1, <3>2 DEF LockedOK, Locks, UserExists
  <2> QED BY <2>2, <2>3
<1>12. EntryFollows'
  <2> SUFFICES ASSUME NEW v \in LdapUsers \ adrift', UserExists(v), users[v].role = "user",
                      ~InProgress(v)'
               PROVE  entries'[users[v].name] = Wanted(users[v])
    BY <1>1 DEF EntryFollows, Wanted, UserExists
  <2>1. v # u
    BY <1>3, <1>4 DEF InProgress
  <2>2. ~InProgress(v)
    <3>1. \A x \in Hands : hand[x].pc \in {"saved", "locked"} =>
            hand'[x].pc \in {"saved", "locked"} /\ hand'[x].user = hand[x].user
      BY <1>1, <1>4
    <3> QED BY <3>1 DEF InProgress
  <2>3. users[v].name \in Uids
    BY UserIs DEF Row
  <2>4. entries'[users[v].name] = entries[users[v].name] /\ v \notin adrift
    BY <1>5, <2>1, <2>3
  <2> QED BY <2>2, <2>4 DEF EntryFollows
<1>13. NobodyLeft'
  <2> SUFFICES ASSUME NEW m \in Uids \ left', entries'[m] \in Secrets
               PROVE  \/ \E v \in LdapUsers : UserExists(v) /\ users[v].name = m
                           /\ users[v].role = "user"
                      \/ \E x \in Hands : hand'[x].pc = "saved" /\ hand'[x].row.name = m
    BY <1>1 DEF NobodyLeft, UserExists
  <2>1. m \notin left /\ entries[m] \in Secrets
    BY <1>5
  <2>2. \A x \in Hands : hand[x].pc = "saved" => hand'[x].pc = "saved" /\ hand'[x].row = hand[x].row
    BY <1>1, <1>4
  <2> QED BY <2>1, <2>2 DEF NobodyLeft
<1> QED BY <1>7, <1>8, <1>9, <1>10, <1>11, <1>12, <1>13

(* The row goes: its entry has nobody's password, or it counts as left.      *)
LEMMA DeleteUserRowStep ==
  ASSUME LDIndInv, NEW h \in Hands, DeleteUserRow(h) PROVE LDIndInv'
<1> USE DEF LDIndInv, LdapInv
<1>0. PICK u : u = hand[h].user
  OBVIOUS
<1>1. /\ hand[h].pc = "locked"
      /\ \A x \in Hands : ~Locks(x, u)
      /\ left' = IF UserExists(u) /\ (hand[h].again \/ users[u].name # hand[h].was.name)
                 THEN left \cup {users[u].name, hand[h].was.name} ELSE left
      /\ users' = [users EXCEPT ![u] = Erased]
      /\ adrift' = adrift \ {u}
      /\ hand' = [hand EXCEPT ![h] = Empty]
      /\ UNCHANGED <<entries, remote, taken>>
  <2> HIDE DEF LDIndInv
  <2> QED BY <1>0 DEF DeleteUserRow
<1>2. hand[h] \in LdapRequest /\ u \in LdapUsers /\ hand[h].was.name \in Uids
  BY <1>0, <1>1, HandIs DEF LdapRequest, Row
<1>3. /\ hand' \in [Hands -> LdapRequest \cup {Empty}] /\ hand'[h].pc = "idle"
      /\ \A x \in Hands : hand'[x].pc # "idle" => x # h /\ hand'[x] = hand[x]
      /\ \A x \in Hands \ {h} : hand'[x] = hand[x]
  BY <1>1, EndedHand
<1>4. /\ users' \in [LdapUsers -> Row \cup {NoUser, Erased}] /\ users'[u] = Erased
      /\ ~UserExists(u)'
      /\ \A v \in LdapUsers \ {u} : users'[v] = users[v] /\ UserExists(v)' = UserExists(v)
      /\ \A v \in LdapUsers : UserExists(v)' => v # u /\ UserExists(v) /\ users'[v] = users[v]
  BY <1>1, <1>2 DEF HandsAre, UserExists
<1>5. left \subseteq left' /\ left' \subseteq Uids /\ adrift' \subseteq LdapUsers
  <2>1. UserExists(u) => users[u].name \in Uids
    BY <1>2, UserIs DEF Row
  <2> QED BY <1>1, <1>2, <2>1 DEF LDTypeOK
<1>7. LDTypeOK'
  BY <1>1, <1>4, <1>5 DEF LDTypeOK
<1>8. HandsAre'
  <2>1. \A x \in Hands : Begun(x)' => users'[hand'[x].user] # NoUser
    BY <1>3, <1>4, HandIs, LdapAssumption DEF Begun, LdapRequest
  <2>2. \A x \in Hands : hand'[x].pc \in {"deleting", "locked"} => hand'[x].row = hand'[x].was
    BY <1>3 DEF HandsAre
  <2> QED BY <1>1, <1>3, <1>4, <2>1, <2>2 DEF HandsAre
<1>9. NamesApart'
  BY <1>3, <1>4 DEF NamesApart
<1>10. SavedOK'
  BY <1>1, <1>3 DEF SavedOK, Wanted
<1>11. LockedOK'
  <2> SUFFICES ASSUME NEW x \in Hands, hand'[x].pc = "locked", ~hand'[x].again
               PROVE  /\ \A y \in Hands : hand'[y].pc = "saved" => hand'[y].user # hand'[x].user
                      /\ /\ users'[hand'[x].user] \notin {NoUser, Erased}
                         /\ users'[hand'[x].user].role = "user"
                         /\ users'[hand'[x].user].name = hand'[x].was.name
                         => entries[hand'[x].was.name] \notin Secrets
    BY <1>1 DEF LockedOK, Locks, UserExists
  <2>1. x # h /\ hand'[x] = hand[x] /\ hand[x].pc = "locked" /\ ~hand[x].again
       /\ hand[x] \in LdapRequest
    BY <1>3, HandIs
  <2>2. \A y \in Hands : hand'[y].pc = "saved" => hand'[y].user # hand[x].user
    BY <1>3, <2>1 DEF LockedOK, Locks
  <2>3. CASE hand[x].user = u
    BY <1>4, <2>1, <2>2, <2>3
  <2>4. CASE hand[x].user # u
    <3>1. users'[hand[x].user] = users[hand[x].user]
      BY <1>4, <2>1, <2>4 DEF LdapRequest
    <3> QED BY <2>1, <2>2, <3>1 DEF LockedOK, UserExists
  <2> QED BY <2>3, <2>4
<1>12. EntryFollows'
  <2> SUFFICES ASSUME NEW v \in LdapUsers \ adrift', UserExists(v)', users'[v].role = "user",
                      ~InProgress(v)'
               PROVE  entries[users'[v].name] = Wanted(users'[v])
    BY <1>1 DEF EntryFollows, Wanted
  <2>1. v # u /\ UserExists(v) /\ users'[v] = users[v] /\ v \notin adrift
    BY <1>1, <1>4
  <2>2. ~InProgress(v)
    <3>1. \A x \in Hands : hand[x].pc \in {"saved", "locked"} /\ hand[x].user = v => x # h
      BY <1>0, <2>1
    <3> QED BY <1>3, <3>1 DEF InProgress
  <2> QED BY <2>1, <2>2 DEF EntryFollows
<1>13. NobodyLeft'
  <2> SUFFICES ASSUME NEW m \in Uids \ left', entries[m] \in Secrets
               PROVE  \/ \E v \in LdapUsers : UserExists(v)' /\ users'[v].name = m
                           /\ users'[v].role = "user"
                      \/ \E x \in Hands : hand'[x].pc = "saved" /\ hand'[x].row.name = m
    BY <1>1 DEF NobodyLeft
  <2>1. m \notin left
    BY <1>5
  <2>2. ~(UserExists(u) /\ users[u].name = m /\ users[u].role = "user")
    <3> SUFFICES ASSUME UserExists(u), users[u].name = m, users[u].role = "user" PROVE FALSE
      OBVIOUS
    <3>1. ~hand[h].again /\ users[u].name = hand[h].was.name
      BY <1>1
    <3> QED BY <1>0, <1>1, <3>1 DEF LockedOK
  <2>3. \A x \in Hands : hand[x].pc = "saved" => hand'[x] = hand[x]
    BY <1>1, <1>3
  <2> QED BY <1>4, <2>1, <2>2, <2>3 DEF NobodyLeft
<1> QED BY <1>7, <1>8, <1>9, <1>10, <1>11, <1>12, <1>13

(* An update of the row, of which the directory does not hear.               *)
LEMMA CleanInactiveUserStep ==
  ASSUME LDIndInv, NEW u \in LdapUsers, CleanInactiveUser(u) PROVE LDIndInv'
<1> USE DEF LDIndInv, LdapInv
<1> DEFINE q == [users[u] EXCEPT !.active = FALSE]
<1>1. /\ UserExists(u) /\ \A h \in Hands : ~Locks(h, u)
      /\ users' = [users EXCEPT ![u] = q] /\ adrift' = adrift \cup {u}
      /\ UNCHANGED <<entries, hand, remote, left, taken>>
  BY DEF CleanInactiveUser
<1>2. users[u] \in Row
  BY <1>1, UserIs
<1>3. q \in Row /\ q.name = users[u].name /\ q.role = users[u].role
  <2> HIDE DEF LDIndInv
  <2> QED BY <1>2 DEF Row
<1> HIDE DEF q
<1>4. /\ users' \in [LdapUsers -> Row \cup {NoUser, Erased}] /\ users'[u] \in Row
      /\ \A v \in LdapUsers :
           /\ UserExists(v)' = UserExists(v)
           /\ v # u => users'[v] = users[v]
           /\ UserExists(v) => users'[v].name = users[v].name /\ users'[v].role = users[v].role
           /\ users[v] # NoUser => users'[v] # NoUser
  BY <1>1, <1>3, LdapAssumption DEF HandsAre, UserExists
<1>7. LDTypeOK'
  BY <1>1, <1>4 DEF LDTypeOK
<1>8. HandsAre'
  <2>1. \A x \in Hands : Begun(x) => hand[x].user \in LdapUsers /\ users'[hand[x].user] # NoUser
    BY <1>4, HandIs DEF Begun, LdapRequest
  <2> QED BY <1>1, <1>4, <2>1 DEF HandsAre, Begun
<1>9. NamesApart'
  BY <1>1, <1>4 DEF NamesApart
<1>10. SavedOK'
  BY <1>1 DEF SavedOK, Wanted
<1>11. LockedOK'
  <2> SUFFICES ASSUME NEW x \in Hands, hand[x].pc = "locked", ~hand[x].again
               PROVE  /\ \A y \in Hands : ~Locks(y, hand[x].user)
                      /\ /\ UserExists(hand[x].user)' /\ users'[hand[x].user].role = "user"
                         /\ users'[hand[x].user].name = hand[x].was.name
                         => entries[hand[x].was.name] \notin Secrets
    BY <1>1 DEF LockedOK, Locks, UserExists
  <2>1. hand[x].user \in LdapUsers
    BY HandIs DEF LdapRequest
  <2>2. UserExists(hand[x].user)' = UserExists(hand[x].user)
    BY <1>1, <1>4, <2>1
  <2> QED BY <1>4, <2>1, <2>2 DEF LockedOK
<1>12. EntryFollows'
  <2> SUFFICES ASSUME NEW v \in LdapUsers \ adrift', UserExists(v)', users'[v].role = "user",
                      ~InProgress(v)'
               PROVE  entries[users'[v].name] = Wanted(users'[v])
    BY <1>1 DEF EntryFollows, Wanted
  <2>1. v # u /\ UserExists(v) /\ users'[v] = users[v] /\ v \notin adrift /\ ~InProgress(v)
    BY <1>1, <1>4 DEF InProgress
  <2> QED BY <2>1 DEF EntryFollows
<1>13. NobodyLeft'
  BY <1>1, <1>4 DEF NobodyLeft
<1> QED BY <1>7, <1>8, <1>9, <1>10, <1>11, <1>12, <1>13

-----------------------------------------------------------------------------
(* Every step of users and their entries keeps the invariant.                *)
LEMMA LDStepKeeps == ASSUME LDIndInv, [LDNext]_ldVars PROVE LDIndInv'
<1>1. CASE UNCHANGED ldVars
  <2>1. UNCHANGED <<users, entries, hand, remote, adrift, left, taken>>
    BY <1>1 DEF ldVars
  <2>2. LDTypeOK' /\ EntryFollows' /\ NobodyLeft'
    BY <2>1 DEF LDIndInv, LdapInv, LDTypeOK, EntryFollows, NobodyLeft, UserExists, InProgress,
         Wanted
  <2>3. HandsAre' /\ NamesApart'
    BY <2>1 DEF LDIndInv, HandsAre, NamesApart, UserExists, Begun
  <2>4. SavedOK' /\ LockedOK'
    BY <2>1 DEF LDIndInv, SavedOK, LockedOK, UserExists, Locks, Wanted
  <2> QED BY <2>2, <2>3, <2>4 DEF LDIndInv, LdapInv
<1>2. ASSUME LDNext PROVE LDIndInv'
  BY <1>2, SaveUserStep, CommitUserStep, RollbackUserStep, HandFailsStep, PreDeleteStep,
     DeleteUserRowStep, DeleteRollbackStep, BeginDeleteStep, LoadUserStep, CleanInactiveUserStep,
     AddUserStep, ImportUserStep DEF LDNext
<1> QED BY <1>1, <1>2

(* The receivers of modoboa/ldapsync and the requests about accounts: the    *)
(* entry of a simple user has his password exactly when he is active, and    *)
(* nobody can use the entry of an account that is gone, with the exceptions  *)
(* that the histories name.                                                  *)
THEOREM EntriesFollow == LDSpec => []LdapInv
<1>1. ASSUME LDInit PROVE LDIndInv
  <2> USE <1>1, EmptyIs, LdapAssumption DEF LDInit
  <2>1. \A u \in LdapUsers : ~UserExists(u)
    BY DEF UserExists
  <2>2. LDTypeOK /\ EntryFollows /\ NobodyLeft
    BY <2>1 DEF LDTypeOK, EntryFollows, NobodyLeft
  <2>3. HandsAre /\ NamesApart /\ SavedOK /\ LockedOK
    BY <2>1 DEF HandsAre, NamesApart, SavedOK, LockedOK, Begun
  <2> QED BY <2>2, <2>3 DEF LDIndInv, LdapInv
<1>2. LDIndInv /\ [LDNext]_ldVars => LDIndInv'
  BY LDStepKeeps
<1>3. LDIndInv => LdapInv
  BY DEF LDIndInv
<1> QED BY <1>1, <1>2, <1>3, PTL DEF LDSpec

-----------------------------------------------------------------------------
(* The pools of limits (ResourcePools).                                     *)

Creating == [pc : {"create"}, who : Holders]
Allocating == [pc : {"allocate"}, who : Admins, value : Amounts, saves : BOOLEAN, pool : Int]

(* The requests that have found room for one more mailbox of h.              *)
Pending(h) == {q \in Slots : slot[q].pc = "create" /\ slot[q].who = h}

(* A pool that a request is about to save is at least what its reseller had. *)
SlotsOK ==
  /\ slot \in [Slots -> {FreeSlot} \cup Creating \cup Allocating]
  /\ \A q \in Slots : slot[q].pc = "allocate" /\ slot[q].saves => slot[q].pool >= 0

(* As long as nothing is unlimited, no limit is negative.                    *)
LimitsOK ==
  /\ \A x \in Admins : rank[x] = Absent => used[x] = 0
  /\ exact => \A h \in Holders : limit[h] >= 0

(* Requests in parallel: every one of them may still add a mailbox to what   *)
(* there is, whatever happened to the limit or the account meanwhile.        *)
RoomOf(h) == IF rank[h] = "DomainAdmins" THEN limit[h] ELSE 0
RoomForPending ==
  exact /\ sound /\ parallel =>
    \A x \in Admins : rank[x] # Absent =>
      used[x] + Cardinality(Pending(x)) <= RoomOf(x) + Cardinality(Slots)

(* Requests one by one: what a request has read is still so.                 *)
StillSo ==
  ~parallel =>
    /\ \A p, q \in Slots : slot[p] # FreeSlot /\ slot[q] # FreeSlot => p = q
    /\ \A q \in Slots :
         /\ slot[q].pc = "create" => Active(slot[q].who)
         /\ slot[q].pc = "create" /\ exact => used[slot[q].who] + 1 <= limit[slot[q].who]
         /\ slot[q].pc = "allocate" /\ slot[q].saves => slot[q].pool >= used[Reseller]

PoolIndInv == RPTypeOK /\ SlotsOK /\ LimitsOK /\ RoomForPending /\ StillSo /\ WithinLimits

(* A slot without request is told from the others by its label.              *)
LEMMA FreeSlotIs == FreeSlot.pc = "free" /\ \A r \in Creating \cup Allocating : r.pc # "free"
BY DEF FreeSlot, Creating, Allocating

(* Any requests are finitely many.                                           *)
LEMMA SlotsAre ==
  /\ IsFiniteSet(Slots) /\ Cardinality(Slots) \in Nat
  /\ \A S \in SUBSET Slots : Cardinality(S) \in Nat /\ Cardinality(S) <= Cardinality(Slots)
BY PoolAssumption, FS_Subset, FS_CardinalityType

(* There are never more requests than slots.                                 *)
LEMMA PendingIs ==
  ASSUME NEW h
  PROVE  /\ IsFiniteSet(Pending(h)) /\ Cardinality(Pending(h)) \in Nat
         /\ Cardinality(Pending(h)) <= Cardinality(Slots) /\ Cardinality(Slots) \in Nat
<1>1. Pending(h) \subseteq Slots /\ IsFiniteSet(Slots)
  BY PoolAssumption DEF Pending
<1> QED BY <1>1, FS_Subset, FS_CardinalityType

(* A request that ends no longer counts.                                     *)
LEMMA EndsIs ==
  ASSUME SlotsOK, NEW q \in Slots, Ends(q)
  PROVE  /\ SlotsOK' /\ slot'[q] = FreeSlot
         /\ \A p \in Slots \ {q} : slot'[p] = slot[p]
         /\ \A h : Pending(h)' = Pending(h) \ {q}
         /\ \A h : Cardinality(Pending(h)') <= Cardinality(Pending(h))
         /\ \A h : q \in Pending(h) => Cardinality(Pending(h)') = Cardinality(Pending(h)) - 1
<1>1. /\ slot' = [slot EXCEPT ![q] = FreeSlot] /\ slot'[q] = FreeSlot
      /\ \A p \in Slots \ {q} : slot'[p] = slot[p]
      /\ slot' \in [Slots -> {FreeSlot} \cup Creating \cup Allocating]
  BY DEF Ends, SlotsOK
<1>2. SlotsOK'
  BY <1>1, FreeSlotIs DEF SlotsOK
<1>3. ASSUME NEW h PROVE Pending(h)' = Pending(h) \ {q}
  BY <1>1, FreeSlotIs DEF Pending
<1>4. ASSUME NEW h
      PROVE  /\ Cardinality(Pending(h)') <= Cardinality(Pending(h))
             /\ q \in Pending(h) => Cardinality(Pending(h)') = Cardinality(Pending(h)) - 1
  <2>1. CASE q \in Pending(h)
    BY <1>3, <2>1, PendingIs, FS_RemoveElement
  <2>2. CASE q \notin Pending(h)
    <3>1. Pending(h)' = Pending(h)
      BY <1>3, <2>2
    <3> QED BY <2>2, <3>1, PendingIs
  <2> QED BY <2>1, <2>2
<1> QED BY <1>1, <1>2, <1>3, <1>4

(* A request begins.                                                         *)
LEMMA ReadsIs ==
  ASSUME PoolIndInv, NEW q \in Slots, NEW r \in Creating \cup Allocating, Ready(q), Reads(q, r),
         r.pc = "allocate" /\ r.saves => r.pool >= 0
  PROVE  /\ SlotsOK' /\ slot'[q] = r
         /\ \A p \in Slots \ {q} : slot'[p] = slot[p]
         /\ \A p, s \in Slots : ~parallel /\ slot'[p] # FreeSlot /\ slot'[s] # FreeSlot => p = s
         /\ \A h : ~(r.pc = "create" /\ r.who = h) => Pending(h)' = Pending(h)
<1>1. /\ slot' = [slot EXCEPT ![q] = r] /\ slot'[q] = r /\ slot[q] = FreeSlot
      /\ \A p \in Slots \ {q} : slot'[p] = slot[p]
      /\ slot' \in [Slots -> {FreeSlot} \cup Creating \cup Allocating]
      /\ parallel \/ \A p \in Slots : slot[p] = FreeSlot
  BY DEF Reads, Ready, PoolIndInv, SlotsOK
<1>2. SlotsOK'
  BY <1>1 DEF PoolIndInv, SlotsOK
<1>3. ASSUME NEW h, ~(r.pc = "create" /\ r.who = h) PROVE Pending(h)' = Pending(h)
  BY <1>1, <1>3, FreeSlotIs DEF Pending
<1> QED BY <1>1, <1>2, <1>3

(* Where neither an account nor a limit changes, there is as much room.      *)
LEMMA RoomAsBefore ==
  ASSUME PoolIndInv, UNCHANGED <<rank, limit, used, parallel, exact, sound>>,
         \A x \in Admins : Cardinality(Pending(x)') <= Cardinality(Pending(x))
  PROVE  RoomForPending' /\ WithinLimits' /\ LimitsOK'
<1>1. WithinLimits' /\ LimitsOK'
  BY DEF PoolIndInv, WithinLimits, LimitsOK, Active
<1>2. RoomForPending'
  <2> SUFFICES ASSUME exact, sound, parallel, NEW x \in Admins, rank[x] # Absent
               PROVE  used[x] + Cardinality(Pending(x)') <= RoomOf(x) + Cardinality(Slots)
    BY DEF RoomForPending, RoomOf
  <2>1. used[x] + Cardinality(Pending(x)) <= RoomOf(x) + Cardinality(Slots)
    BY DEF PoolIndInv, RoomForPending
  <2>2. used[x] \in Nat /\ RoomOf(x) \in Int
    BY DEF PoolIndInv, RPTypeOK, RoomOf, Holders
  <2>3. Cardinality(Pending(x)') <= Cardinality(Pending(x)) /\ Cardinality(Pending(x)') \in Nat
    <3>1. Pending(x)' \in SUBSET Slots
      BY DEF Pending
    <3> QED BY <3>1, SlotsAre
  <2> QED BY <2>1, <2>2, <2>3, PendingIs
<1> QED BY <1>1, <1>2

(* A request is refused.                                                     *)
LEMMA RefuseStep ==
  ASSUME PoolIndInv, NEW q \in Slots, Refuse(q)
  PROVE  PoolIndInv'
<1>1. Ends(q) /\ UNCHANGED <<rank, limit, used, parallel, ledger, exact, sound>>
  BY DEF Refuse, poolVars
<1>2. SlotsOK
  BY DEF PoolIndInv
<1>3. RPTypeOK'
  BY <1>1, <1>2, EndsIs, FreeSlotIs DEF PoolIndInv, RPTypeOK
<1>4. StillSo'
  BY <1>1, <1>2, EndsIs, FreeSlotIs DEF PoolIndInv, StillSo, Active
<1>5. RoomForPending' /\ WithinLimits' /\ LimitsOK'
  BY <1>1, <1>2, EndsIs, RoomAsBefore
<1> QED BY <1>1, <1>2, <1>3, <1>4, <1>5, EndsIs DEF PoolIndInv

(* There is room for one more mailbox of h.                                  *)
LEMMA CheckLimitStep ==
  ASSUME PoolIndInv, exact, NEW q \in Slots, NEW h \in Holders, CheckLimit(q, h)
  PROVE  PoolIndInv'
<1> DEFINE r == [pc |-> "create", who |-> h]
<1>1. r \in Creating /\ r.pc = "create" /\ r.who = h
  BY DEF Creating
<1>2. /\ Ready(q) /\ Active(h) /\ Reads(q, r)
      /\ UNCHANGED <<rank, limit, used, parallel, ledger, exact, sound>>
  BY DEF CheckLimit, Reads, poolVars
<1>3. used[h] + 1 <= limit[h] /\ used[h] \in Nat /\ limit[h] \in Int
  BY DEF CheckLimit, Exceeded, Unlimited, PoolIndInv, LimitsOK, RPTypeOK
<1> HIDE DEF r
<1>4. /\ SlotsOK' /\ slot'[q] = r
      /\ \A p \in Slots \ {q} : slot'[p] = slot[p]
      /\ \A p, s \in Slots : ~parallel /\ slot'[p] # FreeSlot /\ slot'[s] # FreeSlot => p = s
      /\ \A x : x # h => Pending(x)' = Pending(x)
  BY <1>1, <1>2, ReadsIs
<1>5. RPTypeOK'
  BY <1>1, <1>2, <1>4 DEF PoolIndInv, RPTypeOK
<1>6. StillSo'
  <2> SUFFICES ASSUME ~parallel, NEW p \in Slots
               PROVE  /\ slot'[p].pc = "create" => Active(slot'[p].who)
                      /\ slot'[p].pc = "create" => used[slot'[p].who] + 1 <= limit[slot'[p].who]
                      /\ slot'[p].pc = "allocate" /\ slot'[p].saves
                           => slot'[p].pool >= used[Reseller]
    BY <1>2, <1>4 DEF StillSo, Active
  <2>1. CASE p = q
    BY <1>1, <1>2, <1>3, <1>4, <2>1
  <2>2. CASE p # q
    BY <1>4, <2>2 DEF PoolIndInv, StillSo
  <2> QED BY <2>1, <2>2
<1>7. WithinLimits' /\ LimitsOK'
  BY <1>2 DEF PoolIndInv, WithinLimits, LimitsOK, Active
<1>8. RoomForPending'
  <2> SUFFICES ASSUME sound, parallel, NEW x \in Admins, rank[x] # Absent
               PROVE  used[x] + Cardinality(Pending(x)') <= RoomOf(x) + Cardinality(Slots)
    BY <1>2 DEF RoomForPending, RoomOf
  <2>1. CASE x = h
    <3>1. rank[x] = "DomainAdmins" /\ RoomOf(x) = limit[x]
      BY <1>2, <2>1, PoolAssumption DEF Active, RoomOf
    <3>2. Cardinality(Pending(x)') <= Cardinality(Slots) /\ Cardinality(Pending(x)') \in Nat
      <4>1. Pending(x)' \in SUBSET Slots
        BY DEF Pending
      <4> QED BY <4>1, SlotsAre
    <3> QED BY <1>3, <2>1, <3>1, <3>2, SlotsAre
  <2>2. CASE x # h
    <3>1. Pending(x)' = Pending(x)
      BY <1>4, <2>2
    <3> QED BY <3>1 DEF PoolIndInv, RoomForPending
  <2> QED BY <2>1, <2>2
<1> QED BY <1>4, <1>5, <1>6, <1>7, <1>8 DEF PoolIndInv

(* The limit of x is to be changed.                                          *)
LEMMA LoadLimitsStep ==
  ASSUME PoolIndInv, exact, NEW q \in Slots, NEW x \in Admins, NEW v \in Amounts,
         LoadLimits(q, x, v)
  PROVE  PoolIndInv'
<1> DEFINE pool == limit[Reseller] - Taken(limit[x], v)
           r == [pc |-> "allocate", who |-> x, value |-> v, saves |-> v # limit[x], pool |-> pool]
<1>0. v \in Int /\ limit[x] \in Int /\ limit[Reseller] \in Int /\ used[Reseller] \in Nat
  BY PoolAssumption DEF Amounts, Unlimited, PoolIndInv, RPTypeOK, Holders
<1>1. pool \in Int /\ (v # limit[x] => pool >= used[Reseller] /\ pool >= 0)
  BY <1>0 DEF LoadLimits, Allocatable, Taken, Unlimited
<1>2. /\ r \in Allocating /\ r.pc = "allocate" /\ r.pool = pool
      /\ r.saves <=> v # limit[x]
  BY <1>1 DEF Allocating
<1>3. /\ Ready(q) /\ Reads(q, r)
      /\ UNCHANGED <<rank, limit, used, parallel, ledger, exact, sound>>
  BY DEF LoadLimits, Reads, poolVars
<1> HIDE DEF r, pool
<1>4. /\ SlotsOK' /\ slot'[q] = r
      /\ \A p \in Slots \ {q} : slot'[p] = slot[p]
      /\ \A p, s \in Slots : ~parallel /\ slot'[p] # FreeSlot /\ slot'[s] # FreeSlot => p = s
      /\ \A h : Pending(h)' = Pending(h)
  BY <1>1, <1>2, <1>3, ReadsIs
<1>5. RPTypeOK'
  BY <1>2, <1>3, <1>4 DEF PoolIndInv, RPTypeOK
<1>6. StillSo'
  <2> SUFFICES ASSUME ~parallel, NEW p \in Slots
               PROVE  /\ slot'[p].pc = "create" => Active(slot'[p].who)
                      /\ slot'[p].pc = "create" => used[slot'[p].who] + 1 <= limit[slot'[p].who]
                      /\ slot'[p].pc = "allocate" /\ slot'[p].saves
                           => slot'[p].pool >= used[Reseller]
    BY <1>3, <1>4 DEF StillSo, Active
  <2>1. CASE p = q
    BY <1>1, <1>2, <1>4, <2>1
  <2>2. CASE p # q
    BY <1>4, <2>2 DEF PoolIndInv, StillSo
  <2> QED BY <2>1, <2>2
<1>7. RoomForPending' /\ WithinLimits' /\ LimitsOK'
  <2>1. \A y \in Admins : Cardinality(Pending(y)') <= Cardinality(Pending(y))
    BY <1>4, PendingIs
  <2> QED BY <1>3, <2>1, RoomAsBefore
<1> QED BY <1>4, <1>5, <1>6, <1>7 DEF PoolIndInv

(* The mailbox is created.                                                   *)
LEMMA InsertStep ==
  ASSUME PoolIndInv, exact, NEW q \in Slots, Insert(q)
  PROVE  PoolIndInv'
<1>0. slot[q].pc = "create" /\ slot[q].who \in Holders
  BY DEF Insert, PoolIndInv, SlotsOK, Creating, Allocating, FreeSlot
<1> PICK h \in Holders : h = slot[q].who
  BY <1>0
<1>1. /\ slot[q].pc = "create" /\ Exists(h) /\ Ends(q)
      /\ used' = [used EXCEPT ![h] = @ + 1]
      /\ UNCHANGED <<rank, limit, parallel, ledger, exact, sound>>
  BY DEF Insert
<1>2. h \in Holders /\ q \in Pending(h) /\ SlotsOK
  BY <1>1 DEF PoolIndInv, Pending
<1>3. /\ SlotsOK' /\ slot'[q] = FreeSlot
      /\ \A p \in Slots \ {q} : slot'[p] = slot[p]
      /\ \A x : Cardinality(Pending(x)') <= Cardinality(Pending(x))
  BY <1>1, <1>2, EndsIs
<1>12. Cardinality(Pending(h)') = Cardinality(Pending(h)) - 1
  BY <1>1, <1>2, EndsIs
<1>4. /\ used' \in [Holders -> Nat] /\ used'[h] = used[h] + 1
      /\ \A x \in Holders \ {h} : used'[x] = used[x]
  BY <1>1, <1>2 DEF PoolIndInv, RPTypeOK
<1>5. h = Reseller \/ (h \in Admins /\ rank[h] # Absent)
  BY <1>1, <1>2 DEF Exists, Holders
<1>6. ~parallel => Active(h) /\ used[h] + 1 <= limit[h]
  BY <1>1 DEF PoolIndInv, StillSo
<1>7. RPTypeOK'
  <2>1. \A x \in Admins : rank[x] # "DomainAdmins" /\ ~parallel => used'[x] = 0
    BY <1>4, <1>6, PoolAssumption DEF PoolIndInv, RPTypeOK, Active, Holders
  <2> QED BY <1>1, <1>3, <1>4, <2>1, FreeSlotIs DEF PoolIndInv, RPTypeOK
<1>8. LimitsOK'
  BY <1>1, <1>4, <1>5, PoolAssumption DEF PoolIndInv, LimitsOK, Holders
<1>9. RoomForPending'
  <2> SUFFICES ASSUME sound, parallel, NEW x \in Admins, rank[x] # Absent
               PROVE  used'[x] + Cardinality(Pending(x)') <= RoomOf(x) + Cardinality(Slots)
    BY <1>1 DEF RoomForPending, RoomOf
  <2>1. used[x] + Cardinality(Pending(x)) <= RoomOf(x) + Cardinality(Slots)
    BY DEF PoolIndInv, RoomForPending
  <2>2. used[x] \in Nat /\ RoomOf(x) \in Int
    BY DEF PoolIndInv, RPTypeOK, RoomOf, Holders
  <2>3. Cardinality(Pending(x)') \in Nat
    <3>1. Pending(x)' \in SUBSET Slots
      BY DEF Pending
    <3> QED BY <3>1, SlotsAre
  <2>4. CASE x = h
    BY <1>12, <1>4, <2>1, <2>2, <2>4, PendingIs, SlotsAre
  <2>5. CASE x # h
    <3>1. used'[x] = used[x]
      BY <1>4, <2>5 DEF Holders
    <3>2. Cardinality(Pending(x)') <= Cardinality(Pending(x))
      BY <1>3
    <3> QED BY <2>1, <2>2, <2>3, <3>1, <3>2, PendingIs
  <2> QED BY <2>4, <2>5
<1>10. StillSo'
  <2> SUFFICES ASSUME ~parallel PROVE \A p \in Slots : slot'[p] = FreeSlot
    BY <1>1, FreeSlotIs DEF StillSo
  <2>1. slot[q] # FreeSlot
    BY <1>1, FreeSlotIs
  <2> QED BY <1>3, <2>1 DEF PoolIndInv, StillSo
<1>11. WithinLimits'
  <2>1. CASE parallel
    <3> SUFFICES ASSUME sound, NEW x \in Admins, Active(x)
                 PROVE  used'[x] <= limit[x] + Cardinality(Slots)
      BY <1>1, <2>1 DEF WithinLimits, Active
    <3>1. rank[x] = "DomainAdmins"
      BY PoolAssumption DEF Active
    <3>2. used'[x] + Cardinality(Pending(x)') <= limit[x] + Cardinality(Slots)
      BY <1>1, <1>9, <2>1, <3>1, PoolAssumption DEF RoomForPending, RoomOf
    <3>3. Cardinality(Pending(x)') \in Nat
      <4>1. Pending(x)' \in SUBSET Slots
        BY DEF Pending
      <4> QED BY <4>1, SlotsAre
    <3>4. used'[x] \in Nat /\ limit[x] \in Int
      BY <1>4 DEF Holders, PoolIndInv, RPTypeOK
    <3> QED BY <3>2, <3>3, <3>4, SlotsAre
  <2>2. CASE ~parallel
    BY <1>1, <1>4, <1>6, <2>2 DEF PoolIndInv, WithinLimits, Active
  <2> QED BY <2>1, <2>2
<1> QED BY <1>3, <1>7, <1>8, <1>9, <1>10, <1>11 DEF PoolIndInv

(* The limit of x is changed, and what the reseller has left.                *)
LEMMA SaveLimitsStep ==
  ASSUME PoolIndInv, exact, NEW q \in Slots, SaveLimits(q)
  PROVE  PoolIndInv'
<1> DEFINE v == slot[q].value
           pool == IF slot[q].saves THEN slot[q].pool ELSE limit[Reseller]
<1>0. slot[q].pc = "allocate" /\ slot[q] \in Allocating /\ SlotsOK
  BY DEF SaveLimits, PoolIndInv, SlotsOK, Creating, FreeSlot
<1> PICK x \in Admins : x = slot[q].who
  BY <1>0 DEF Allocating
<1>1. /\ rank[x] # Absent /\ Ends(q)
      /\ limit' = [limit EXCEPT ![x] = v, ![Reseller] = pool]
      /\ exact' = (v # Unlimited /\ rank[x] = "DomainAdmins")
      /\ sound' = (sound /\ (v # Unlimited => used[x] <= v))
      /\ UNCHANGED <<rank, used, parallel, ledger>>
  <2>1. Reseller # x
    BY PoolAssumption
  <2> QED BY <2>1 DEF SaveLimits
<1>2. /\ v \in Int /\ (v # Unlimited => v >= 0) /\ pool \in Int /\ pool >= 0
      /\ ~parallel /\ sound => used[Reseller] <= pool
  <2>1. v \in Amounts /\ slot[q].pool \in Int /\ slot[q].saves \in BOOLEAN
    BY <1>0 DEF Allocating
  <2>2. v \in Int /\ (v # Unlimited => v >= 0)
    BY <2>1, PoolAssumption DEF Amounts, Unlimited
  <2>3. limit[Reseller] \in Int /\ limit[Reseller] >= 0
    BY DEF PoolIndInv, RPTypeOK, LimitsOK, Holders
  <2>4. slot[q].saves => slot[q].pool >= 0
    BY <1>0 DEF SlotsOK
  <2>5. ~parallel /\ slot[q].saves => used[Reseller] <= slot[q].pool
    <3>1. used[Reseller] \in Nat
      BY DEF PoolIndInv, RPTypeOK, Holders
    <3> QED BY <1>0, <2>1, <3>1 DEF PoolIndInv, StillSo
  <2>6. ~parallel /\ sound => used[Reseller] <= limit[Reseller]
    BY DEF PoolIndInv, WithinLimits, Active, Holders
  <2> QED BY <2>1, <2>2, <2>3, <2>4, <2>5, <2>6
<1>3. /\ SlotsOK' /\ slot'[q] = FreeSlot
      /\ \A p \in Slots \ {q} : slot'[p] = slot[p]
      /\ \A h : Cardinality(Pending(h)') <= Cardinality(Pending(h))
  BY <1>0, <1>1, EndsIs
<1> HIDE DEF v, pool
<1>4. /\ limit' \in [Holders -> Int] /\ limit'[x] = v /\ limit'[Reseller] = pool
      /\ \A h \in Holders \ {x, Reseller} : limit'[h] = limit[h]
  BY <1>1, <1>2, PoolAssumption DEF PoolIndInv, RPTypeOK, Holders
<1>5. RPTypeOK'
  <2>1. exact' \in BOOLEAN /\ sound' \in BOOLEAN
    BY <1>1 DEF PoolIndInv, RPTypeOK
  <2> QED BY <1>1, <1>3, <1>4, <2>1, FreeSlotIs DEF PoolIndInv, RPTypeOK
<1>6. LimitsOK'
  BY <1>1, <1>2, <1>4 DEF PoolIndInv, LimitsOK
<1>7. RoomForPending'
  <2> SUFFICES ASSUME exact', sound', parallel, NEW y \in Admins, rank[y] # Absent
               PROVE  used[y] + Cardinality(Pending(y)') <= RoomOf(y)' + Cardinality(Slots)
    BY <1>1 DEF RoomForPending, RoomOf
  <2>1. Cardinality(Pending(y)') \in Nat /\ Cardinality(Pending(y)') <= Cardinality(Slots)
    <3>1. Pending(y)' \in SUBSET Slots
      BY DEF Pending
    <3> QED BY <3>1, SlotsAre
  <2>2. used[y] \in Nat
    BY DEF PoolIndInv, RPTypeOK, Holders
  <2>3. CASE y = x
    <3>1. used[y] <= v /\ RoomOf(y)' = v
      BY <1>1, <1>4, <2>3 DEF RoomOf
    <3> QED BY <1>2, <2>1, <2>2, <3>1, SlotsAre
  <2>4. CASE y # x
    <3>1. RoomOf(y)' = RoomOf(y) /\ RoomOf(y) \in Int
      BY <1>1, <1>4, <2>4, PoolAssumption DEF RoomOf, Holders, PoolIndInv, RPTypeOK
    <3>2. used[y] + Cardinality(Pending(y)) <= RoomOf(y) + Cardinality(Slots)
      BY <1>1 DEF PoolIndInv, RoomForPending
    <3>3. Cardinality(Pending(y)') <= Cardinality(Pending(y))
      BY <1>3
    <3> QED BY <2>1, <2>2, <3>1, <3>2, <3>3, PendingIs, SlotsAre
  <2> QED BY <2>3, <2>4
<1>8. StillSo'
  <2> SUFFICES ASSUME ~parallel PROVE \A p \in Slots : slot'[p] = FreeSlot
    BY <1>1, FreeSlotIs DEF StillSo
  <2>1. slot[q] # FreeSlot
    BY <1>0, FreeSlotIs
  <2> QED BY <1>3, <2>1 DEF PoolIndInv, StillSo
<1>9. WithinLimits'
  <2> SUFFICES ASSUME exact', sound'
               PROVE  /\ parallel => \A h \in Admins :
                                       Active(h) => used[h] <= limit'[h] + Cardinality(Slots)
                      /\ ~parallel => \A h \in Holders : Active(h) => used[h] <= limit'[h]
    BY <1>1 DEF WithinLimits, Active
  <2>1. used[x] <= v /\ sound /\ used[x] \in Nat
    BY <1>1 DEF PoolIndInv, RPTypeOK, Holders
  <2>2. CASE parallel
    <3> SUFFICES ASSUME NEW h \in Admins, Active(h)
                 PROVE  used[h] <= limit'[h] + Cardinality(Slots)
      BY <2>2
    <3>1. CASE h = x
      BY <1>2, <1>4, <2>1, <3>1, SlotsAre
    <3>2. CASE h # x
      <4>1. limit'[h] = limit[h]
        BY <1>4, <3>2, PoolAssumption DEF Holders
      <4> QED BY <2>1, <2>2, <4>1 DEF PoolIndInv, WithinLimits
    <3> QED BY <3>1, <3>2
  <2>3. CASE ~parallel
    BY <1>2, <1>4, <2>1, <2>3 DEF PoolIndInv, WithinLimits
  <2> QED BY <2>2, <2>3
<1> QED BY <1>3, <1>5, <1>6, <1>7, <1>8, <1>9 DEF PoolIndInv

-----------------------------------------------------------------------------
(* A request that is over at once, and runs beside others only where they    *)
(* are served in parallel.                                                   *)
LEMMA QuietStep ==
  ASSUME PoolIndInv, Quiet, UNCHANGED <<slot, parallel>>,
         RPTypeOK', LimitsOK',
         exact' /\ sound' /\ parallel =>
           \A x \in Admins : rank'[x] # Absent =>
             used'[x] + Cardinality(Pending(x)) <= RoomOf(x)' + Cardinality(Slots),
         exact' /\ sound' /\ ~parallel => \A h \in Holders : Active(h)' => used'[h] <= limit'[h]
  PROVE  PoolIndInv'
<1>1. \A x : Pending(x)' = Pending(x)
  BY DEF Pending
<1>2. RoomForPending'
  BY <1>1 DEF RoomForPending, RoomOf
<1>3. SlotsOK'
  BY DEF PoolIndInv, SlotsOK
<1>4. StillSo'
  BY FreeSlotIs DEF Quiet, StillSo
<1>5. WithinLimits'
  <2>1. CASE parallel
    <3> SUFFICES ASSUME exact', sound', NEW x \in Admins, Active(x)'
                 PROVE  used'[x] <= limit'[x] + Cardinality(Slots)
      BY <2>1 DEF WithinLimits
    <3>1. rank'[x] = "DomainAdmins" /\ rank'[x] # Absent /\ RoomOf(x)' = limit'[x]
      BY PoolAssumption DEF Active, RoomOf
    <3>2. used'[x] + Cardinality(Pending(x)) <= limit'[x] + Cardinality(Slots)
      BY <2>1, <3>1
    <3>3. used'[x] \in Nat /\ limit'[x] \in Int
      BY DEF RPTypeOK, Holders
    <3> QED BY <3>2, <3>3, PendingIs
  <2>2. CASE ~parallel
    BY <2>2 DEF WithinLimits
  <2> QED BY <2>1, <2>2
<1> QED BY <1>2, <1>3, <1>4, <1>5 DEF PoolIndInv

(* What PoolIndInv says of an account.                                       *)
LEMMA AccountIs ==
  ASSUME PoolIndInv, exact, NEW x \in Admins
  PROVE  /\ used[x] \in Nat /\ limit[x] \in Int /\ limit[x] >= 0
         /\ used[Reseller] \in Nat /\ limit[Reseller] \in Int /\ limit[Reseller] >= 0
         /\ x \in Holders /\ Reseller \in Holders /\ x # Reseller
         /\ RoomOf(x) \in Int /\ RoomOf(x) >= 0
         /\ sound /\ parallel /\ rank[x] # Absent =>
              used[x] + Cardinality(Pending(x)) <= RoomOf(x) + Cardinality(Slots)
         /\ sound /\ ~parallel /\ rank[x] = "DomainAdmins" => used[x] <= limit[x]
         /\ sound /\ ~parallel => used[Reseller] <= limit[Reseller]
         /\ rank[x] = Absent => used[x] = 0
         /\ rank[x] # "DomainAdmins" /\ ~parallel => used[x] = 0
<1>1. x \in Holders /\ Reseller \in Holders /\ x # Reseller
  BY PoolAssumption DEF Holders
<1>2. used[x] \in Nat /\ limit[x] \in Int /\ used[Reseller] \in Nat /\ limit[Reseller] \in Int
  BY <1>1 DEF PoolIndInv, RPTypeOK
<1>3. limit[x] >= 0 /\ limit[Reseller] >= 0 /\ (rank[x] = Absent => used[x] = 0)
  BY <1>1 DEF PoolIndInv, LimitsOK
<1>4. RoomOf(x) \in Int /\ RoomOf(x) >= 0
  BY <1>2, <1>3 DEF RoomOf
<1>5. sound /\ ~parallel => used[Reseller] <= limit[Reseller]
  BY <1>1 DEF PoolIndInv, WithinLimits, Active
<1>6. sound /\ ~parallel /\ rank[x] = "DomainAdmins" => used[x] <= limit[x]
  BY <1>1 DEF PoolIndInv, WithinLimits, Active
<1> QED BY <1>1, <1>2, <1>3, <1>4, <1>5, <1>6 DEF PoolIndInv, RoomForPending, RPTypeOK

(* An account is created, with nothing.                                      *)
LEMMA CreateAdminStep ==
  ASSUME PoolIndInv, exact, NEW x \in Admins, NEW r \in {"SimpleUsers", "DomainAdmins"},
         CreateAdmin(x, r)
  PROVE  PoolIndInv'
<1>1. /\ Quiet /\ rank[x] = Absent /\ used[x] = 0 /\ x \in Holders /\ x # Reseller
      /\ rank' = [rank EXCEPT ![x] = r] /\ limit' = [limit EXCEPT ![x] = 0]
      /\ UNCHANGED <<used, slot, parallel, ledger, exact, sound>>
  BY AccountIs DEF CreateAdmin
<1>2. /\ rank' \in [Admins -> {"SimpleUsers", "DomainAdmins", Absent}] /\ rank'[x] = r
      /\ \A y \in Admins \ {x} : rank'[y] = rank[y]
      /\ limit' \in [Holders -> Int] /\ limit'[x] = 0
      /\ \A h \in Holders \ {x} : limit'[h] = limit[h]
  BY <1>1 DEF PoolIndInv, RPTypeOK
<1>3. RPTypeOK'
  BY <1>1, <1>2 DEF PoolIndInv, RPTypeOK
<1>4. LimitsOK'
  BY <1>1, <1>2 DEF PoolIndInv, LimitsOK
<1>5. ASSUME sound, parallel, NEW y \in Admins, rank'[y] # Absent
      PROVE  used'[y] + Cardinality(Pending(y)) <= RoomOf(y)' + Cardinality(Slots)
  <2>1. CASE y = x
    <3>1. used'[y] = 0 /\ RoomOf(y)' = 0
      BY <1>1, <1>2, <2>1 DEF RoomOf
    <3> QED BY <3>1, PendingIs, SlotsAre
  <2>2. CASE y # x
    <3>1. RoomOf(y)' = RoomOf(y) /\ used'[y] = used[y] /\ rank[y] # Absent
      BY <1>1, <1>2, <1>5, <2>2 DEF RoomOf, Holders
    <3> QED BY <1>5, <3>1, AccountIs
  <2> QED BY <2>1, <2>2
<1>6. ASSUME sound, ~parallel, NEW h \in Holders, Active(h)' PROVE used'[h] <= limit'[h]
  <2>1. CASE h = x
    BY <1>1, <1>2, <2>1
  <2>2. CASE h # x
    BY <1>1, <1>2, <1>6, <2>2 DEF PoolIndInv, WithinLimits, Active, Holders
  <2> QED BY <2>1, <2>2
<1> QED BY <1>1, <1>3, <1>4, <1>5, <1>6, QuietStep

(* A mailbox of h is deleted.                                                *)
LEMMA DeleteMailboxStep ==
  ASSUME PoolIndInv, exact, NEW h \in Holders, DeleteMailbox(h)
  PROVE  PoolIndInv'
<1>1. /\ Quiet /\ used[h] > 0 /\ used' = [used EXCEPT ![h] = @ - 1]
      /\ UNCHANGED <<rank, limit, slot, parallel, ledger, exact, sound>>
  BY DEF DeleteMailbox
<1>2. /\ used' \in [Holders -> Nat] /\ \A x \in Holders : used'[x] <= used[x]
      /\ \A x \in Holders : used[x] = 0 => used'[x] = 0
  BY <1>1 DEF PoolIndInv, RPTypeOK
<1>3. RPTypeOK'
  BY <1>1, <1>2 DEF PoolIndInv, RPTypeOK, Holders
<1>4. LimitsOK'
  BY <1>1, <1>2 DEF PoolIndInv, LimitsOK, Holders
<1>5. ASSUME sound, parallel, NEW y \in Admins, rank'[y] # Absent
      PROVE  used'[y] + Cardinality(Pending(y)) <= RoomOf(y)' + Cardinality(Slots)
  <2>1. RoomOf(y)' = RoomOf(y) /\ used'[y] <= used[y] /\ rank[y] # Absent /\ used'[y] \in Nat
    BY <1>1, <1>2, <1>5 DEF RoomOf, Holders
  <2> QED BY <1>5, <2>1, AccountIs, PendingIs, SlotsAre
<1>6. ASSUME sound, ~parallel, NEW x \in Holders, Active(x)' PROVE used'[x] <= limit'[x]
  <2>1. used[x] <= limit[x]
    BY <1>1, <1>6 DEF PoolIndInv, WithinLimits, Active
  <2> QED BY <1>1, <1>2, <2>1 DEF PoolIndInv, RPTypeOK
<1> QED BY <1>1, <1>3, <1>4, <1>5, <1>6, QuietStep

(* A super admin sets a limit.                                               *)
LEMMA SuperSetsStep ==
  ASSUME PoolIndInv, exact, NEW h \in Holders, NEW v \in Amounts, SuperSets(h, v)
  PROVE  PoolIndInv'
<1>1. /\ Quiet /\ Active(h) /\ limit' = [limit EXCEPT ![h] = v]
      /\ exact' = (v # Unlimited)
      /\ sound' = (sound /\ (v # Unlimited => used[h] <= v))
      /\ UNCHANGED <<rank, used, slot, parallel>>
  BY DEF SuperSets
<1>2. v \in Int /\ (v # Unlimited => v >= 0)
  BY PoolAssumption DEF Amounts, Unlimited
<1>3. /\ limit' \in [Holders -> Int] /\ limit'[h] = v
      /\ \A x \in Holders \ {h} : limit'[x] = limit[x]
  BY <1>1, <1>2 DEF PoolIndInv, RPTypeOK
<1>4. RPTypeOK'
  <2>1. ledger' \in Int
    BY <1>2 DEF SuperSets, PoolIndInv, RPTypeOK
  <2>2. exact' \in BOOLEAN /\ sound' \in BOOLEAN
    BY <1>1 DEF PoolIndInv, RPTypeOK
  <2> QED BY <1>1, <1>3, <2>1, <2>2 DEF PoolIndInv, RPTypeOK
<1>5. LimitsOK'
  BY <1>1, <1>2, <1>3 DEF PoolIndInv, LimitsOK
<1>6. ASSUME exact', sound', parallel, NEW y \in Admins, rank'[y] # Absent
      PROVE  used'[y] + Cardinality(Pending(y)) <= RoomOf(y)' + Cardinality(Slots)
  <2>1. sound /\ used'[y] = used[y]
    BY <1>1, <1>6
  <2>2. CASE y = h
    <3>1. RoomOf(y)' = v /\ used[y] <= v /\ v >= 0
      BY <1>1, <1>2, <1>3, <1>6, <2>2, PoolAssumption DEF RoomOf, Active
    <3> QED BY <1>2, <2>1, <3>1, AccountIs, PendingIs, SlotsAre
  <2>3. CASE y # h
    <3>1. RoomOf(y)' = RoomOf(y) /\ rank[y] # Absent
      BY <1>1, <1>3, <1>6, <2>3 DEF RoomOf, Holders
    <3> QED BY <1>6, <2>1, <3>1, AccountIs
  <2> QED BY <2>2, <2>3
<1>7. ASSUME exact', sound', ~parallel, NEW x \in Holders, Active(x)' PROVE used'[x] <= limit'[x]
  <2>1. CASE x = h
    BY <1>1, <1>3, <1>7, <2>1
  <2>2. CASE x # h
    BY <1>1, <1>3, <1>7, <2>2 DEF PoolIndInv, WithinLimits, Active
  <2> QED BY <2>1, <2>2
<1> QED BY <1>1, <1>4, <1>5, <1>6, <1>7, QuietStep

(* What x has not used goes to the reseller, and what x owned to nobody.     *)
LEMMA DemoteStep ==
  ASSUME PoolIndInv, exact, NEW x \in Admins, Demote(x)
  PROVE  PoolIndInv'
<1>1. /\ Quiet /\ rank[x] = "DomainAdmins" /\ x \in Holders /\ x # Reseller
      /\ rank' = [rank EXCEPT ![x] = "SimpleUsers"]
      /\ limit' = [limit EXCEPT ![Reseller] = PoolWith(x)]
      /\ used' = [used EXCEPT ![x] = 0]
      /\ UNCHANGED <<slot, parallel, ledger, exact, sound>>
  BY AccountIs DEF Demote
<1>2. PoolWith(x) = limit[Reseller] + limit[x]
  BY AccountIs DEF PoolWith
<1>3. PoolWith(x) \in Int /\ PoolWith(x) >= limit[Reseller] /\ PoolWith(x) >= 0
  BY <1>2, AccountIs
<1>4. /\ rank' \in [Admins -> {"SimpleUsers", "DomainAdmins", Absent}]
      /\ rank'[x] = "SimpleUsers" /\ \A y \in Admins \ {x} : rank'[y] = rank[y]
      /\ limit' \in [Holders -> Int] /\ limit'[Reseller] = PoolWith(x)
      /\ \A h \in Holders \ {Reseller} : limit'[h] = limit[h]
      /\ used' \in [Holders -> Nat] /\ used'[x] = 0
      /\ \A h \in Holders \ {x} : used'[h] = used[h]
  BY <1>1, <1>3, AccountIs DEF PoolIndInv, RPTypeOK
<1>5. RPTypeOK'
  <2>1. \A y \in Admins : rank'[y] # "DomainAdmins" /\ ~parallel => used'[y] = 0
    BY <1>4 DEF PoolIndInv, RPTypeOK, Holders
  <2> QED BY <1>1, <1>4, <2>1 DEF PoolIndInv, RPTypeOK
<1>6. LimitsOK'
  BY <1>1, <1>3, <1>4, PoolAssumption DEF PoolIndInv, LimitsOK, Holders
<1>7. ASSUME sound, parallel, NEW y \in Admins, rank'[y] # Absent
      PROVE  used'[y] + Cardinality(Pending(y)) <= RoomOf(y)' + Cardinality(Slots)
  <2>1. CASE y = x
    <3>1. used'[y] = 0 /\ RoomOf(y)' = 0
      BY <1>4, <2>1 DEF RoomOf
    <3> QED BY <3>1, PendingIs, SlotsAre
  <2>2. CASE y # x
    <3>1. RoomOf(y)' = RoomOf(y) /\ used'[y] = used[y] /\ rank[y] # Absent
      BY <1>4, <1>7, <2>2, AccountIs DEF RoomOf
    <3> QED BY <1>7, <3>1, AccountIs
  <2> QED BY <2>1, <2>2
<1>8. ASSUME sound, ~parallel, NEW h \in Holders, Active(h)' PROVE used'[h] <= limit'[h]
  <2>1. CASE h = Reseller
    BY <1>1, <1>3, <1>4, <1>8, <2>1, AccountIs
  <2>2. CASE h # Reseller
    <3>1. h # x /\ h \in Admins /\ rank[h] = "DomainAdmins"
      BY <1>4, <1>8, <2>2 DEF Active, Holders
    <3> QED BY <1>4, <1>8, <2>2, <3>1, AccountIs
  <2> QED BY <2>1, <2>2
<1> QED BY <1>1, <1>5, <1>6, <1>7, <1>8, QuietStep

(* x gets back the role, with the limit that was left it: none.              *)
LEMMA PromoteStep ==
  ASSUME PoolIndInv, exact, NEW x \in Admins, Promote(x)
  PROVE  PoolIndInv'
<1>1. /\ Quiet /\ rank[x] = "SimpleUsers"
      /\ rank' = [rank EXCEPT ![x] = "DomainAdmins"] /\ exact' = (limit[x] = 0)
      /\ UNCHANGED <<limit, used, slot, parallel, ledger, sound>>
  BY DEF Promote, poolVars
<1>2. /\ rank' \in [Admins -> {"SimpleUsers", "DomainAdmins", Absent}]
      /\ rank'[x] = "DomainAdmins" /\ \A y \in Admins \ {x} : rank'[y] = rank[y]
  BY <1>1 DEF PoolIndInv, RPTypeOK
<1>3. RPTypeOK'
  <2>1. exact' \in BOOLEAN
    BY <1>1
  <2> QED BY <1>1, <1>2, <2>1 DEF PoolIndInv, RPTypeOK
<1>4. LimitsOK'
  BY <1>1, <1>2, PoolAssumption DEF PoolIndInv, LimitsOK
<1>5. ASSUME exact', sound', parallel, NEW y \in Admins, rank'[y] # Absent
      PROVE  used'[y] + Cardinality(Pending(y)) <= RoomOf(y)' + Cardinality(Slots)
  <2>1. rank[y] # Absent /\ sound
    BY <1>1, <1>2, <1>5, PoolAssumption
  <2>2. RoomOf(y)' = RoomOf(y)
    BY <1>1, <1>2, <1>5 DEF RoomOf
  <2> QED BY <1>1, <1>5, <2>1, <2>2, AccountIs
<1>6. ASSUME exact', sound', ~parallel, NEW h \in Holders, Active(h)' PROVE used'[h] <= limit'[h]
  <2>1. CASE h = x
    BY <1>1, <1>6, <2>1, AccountIs
  <2>2. CASE h # x
    BY <1>1, <1>2, <1>6, <2>2 DEF PoolIndInv, WithinLimits, Active, Holders
  <2> QED BY <2>1, <2>2
<1> QED BY <1>1, <1>3, <1>4, <1>5, <1>6, QuietStep

(* x is deleted: its limit and its mailboxes are the reseller's.             *)
LEMMA DeleteAdminStep ==
  ASSUME PoolIndInv, exact, NEW x \in Admins, DeleteAdmin(x)
  PROVE  PoolIndInv'
<1>1. /\ Quiet /\ rank[x] # Absent /\ x \in Holders /\ x # Reseller
      /\ rank' = [rank EXCEPT ![x] = Absent]
      /\ limit' = [limit EXCEPT ![Reseller] = PoolWith(x), ![x] = 0]
      /\ used' = [used EXCEPT ![Reseller] = @ + used[x], ![x] = 0]
      /\ exact' = (rank[x] = "SimpleUsers" => limit[x] = 0)
      /\ UNCHANGED <<slot, parallel, ledger, sound>>
  BY AccountIs DEF DeleteAdmin
<1>2. PoolWith(x) = limit[Reseller] + limit[x]
  BY AccountIs DEF PoolWith
<1>3. PoolWith(x) \in Int /\ PoolWith(x) >= 0
  BY <1>2, AccountIs
<1>4. /\ rank' \in [Admins -> {"SimpleUsers", "DomainAdmins", Absent}]
      /\ rank'[x] = Absent /\ \A y \in Admins \ {x} : rank'[y] = rank[y]
  BY <1>1 DEF PoolIndInv, RPTypeOK
<1>5. /\ limit' \in [Holders -> Int] /\ limit'[Reseller] = PoolWith(x) /\ limit'[x] = 0
      /\ \A h \in Holders \ {Reseller, x} : limit'[h] = limit[h]
  BY <1>1, <1>3, AccountIs DEF PoolIndInv, RPTypeOK
<1>6. /\ used' \in [Holders -> Nat] /\ used'[x] = 0 /\ used'[Reseller] = used[Reseller] + used[x]
      /\ \A h \in Holders \ {Reseller, x} : used'[h] = used[h]
  BY <1>1, AccountIs DEF PoolIndInv, RPTypeOK
<1>7. RPTypeOK'
  <2>1. \A y \in Admins : rank'[y] # "DomainAdmins" /\ ~parallel => used'[y] = 0
    BY <1>4, <1>6, PoolAssumption DEF PoolIndInv, RPTypeOK, Holders
  <2>2. exact' \in BOOLEAN
    BY <1>1
  <2> QED BY <1>1, <1>4, <1>5, <1>6, <2>1, <2>2 DEF PoolIndInv, RPTypeOK
<1>8. LimitsOK'
  <2>1. \A y \in Admins : rank'[y] = Absent => used'[y] = 0
    BY <1>4, <1>6, PoolAssumption DEF PoolIndInv, LimitsOK, Holders
  <2>2. \A h \in Holders : limit'[h] >= 0
    BY <1>3, <1>5 DEF PoolIndInv, LimitsOK
  <2> QED BY <2>1, <2>2 DEF LimitsOK
<1>9. ASSUME sound, parallel, NEW y \in Admins, rank'[y] # Absent
      PROVE  used'[y] + Cardinality(Pending(y)) <= RoomOf(y)' + Cardinality(Slots)
  <2>1. y # x /\ y # Reseller /\ y \in Holders
    BY <1>4, <1>9, AccountIs
  <2>2. RoomOf(y)' = RoomOf(y) /\ used'[y] = used[y] /\ rank[y] # Absent
    BY <1>4, <1>5, <1>6, <1>9, <2>1 DEF RoomOf
  <2> QED BY <1>9, <2>2, AccountIs
<1>10. ASSUME exact', sound, ~parallel, NEW h \in Holders, Active(h)' PROVE used'[h] <= limit'[h]
  <2>1. CASE h = Reseller
    <3>1. used[x] <= limit[x]
      BY <1>10, AccountIs
    <3> QED BY <1>2, <1>5, <1>6, <1>10, <2>1, <3>1, AccountIs
  <2>2. CASE h # Reseller
    <3>1. h # x /\ h \in Admins /\ rank[h] = "DomainAdmins"
      BY <1>4, <1>10, <2>2, PoolAssumption DEF Active, Holders
    <3> QED BY <1>5, <1>6, <1>10, <2>2, <3>1, AccountIs
  <2> QED BY <2>1, <2>2
<1> QED BY <1>1, <1>7, <1>8, <1>9, <1>10, QuietStep

(* At the start nobody has anything.                                         *)
LEMMA PoolInitKeeps == RPInit => PoolIndInv
<1> SUFFICES ASSUME RPInit PROVE PoolIndInv
  OBVIOUS
<1> USE PoolAssumption DEF RPInit
<1>1. limit \in [Holders -> Int] /\ \A h \in Holders : limit[h] >= 0 /\ used[h] = 0
  OBVIOUS
<1>2. \A q \in Slots : slot[q] = FreeSlot
  OBVIOUS
<1>3. RPTypeOK
  BY <1>1, <1>2, FreeSlotIs DEF RPTypeOK, Holders
<1>4. SlotsOK /\ LimitsOK /\ StillSo
  BY <1>1, <1>2, FreeSlotIs DEF SlotsOK, LimitsOK, StillSo, Holders
<1>5. RoomForPending
  BY DEF RoomForPending
<1>6. WithinLimits
  BY <1>1, SlotsAre DEF WithinLimits, Holders, Active
<1> QED BY <1>3, <1>4, <1>5, <1>6 DEF PoolIndInv

(* Every step keeps what PoolIndInv says.                                    *)
LEMMA PoolStepKeeps == ASSUME PoolIndInv, [RPNext]_rpVars PROVE PoolIndInv'
<1>1. ASSUME exact, NEW q \in Slots, SlotStep(q) PROVE PoolIndInv'
  BY <1>1, CheckLimitStep, LoadLimitsStep, InsertStep, SaveLimitsStep, RefuseStep DEF SlotStep
<1>2. ASSUME exact, NEW x \in Admins, AccountStep(x) PROVE PoolIndInv'
  BY <1>2, CreateAdminStep, DemoteStep, PromoteStep, DeleteAdminStep DEF AccountStep
<1>3. CASE UNCHANGED rpVars
  <2>1. UNCHANGED <<rank, limit, used, slot, parallel, ledger, exact, sound>>
    BY <1>3 DEF rpVars, poolVars
  <2>2. RPTypeOK' /\ SlotsOK' /\ StillSo'
    BY <2>1 DEF PoolIndInv, RPTypeOK, SlotsOK, StillSo, Active
  <2>3. \A x \in Admins : Cardinality(Pending(x)') <= Cardinality(Pending(x))
    <3>1. \A x : Pending(x)' = Pending(x)
      BY <2>1 DEF Pending
    <3> QED BY <3>1, PendingIs
  <2> QED BY <2>1, <2>2, <2>3, RoomAsBefore DEF PoolIndInv
<1> QED BY <1>1, <1>2, <1>3, DeleteMailboxStep, SuperSetsStep DEF RPNext

(* Whatever limits are given, taken back and returned, one by one nobody     *)
(* owns more than his limit; served in parallel, an administrator owns more  *)
(* by the number of requests at once, and no more however often they come.   *)
THEOREM SharesAreKept == RPSpec => [](RPTypeOK /\ WithinLimits)
<1>1. RPInit => PoolIndInv
  BY PoolInitKeeps
<1>2. PoolIndInv /\ [RPNext]_rpVars => PoolIndInv'
  BY PoolStepKeeps
<1>3. PoolIndInv => RPTypeOK /\ WithinLimits
  BY DEF PoolIndInv
<1> QED BY <1>1, <1>2, <1>3, PTL DEF RPSpec

-----------------------------------------------------------------------------
(* Of the sets of a kind, one has no other inside it.                        *)
LEMMA SmallestSet ==
  ASSUME NEW A, IsFiniteSet(A), NEW T \in SUBSET (SUBSET A), T # {}
  PROVE  \E S \in T : \A U \in T : U \subseteq S => U = S
<1>1. IsWellFoundedOn(StrictSubsetOrdering(A), SUBSET A)
  BY FS_StrictSubsetOrderingWellFounded, FS_FiniteSubsetsOfFinite
<1>2. PICK S \in T : \A U \in T : ~(<<U, S>> \in StrictSubsetOrdering(A))
  BY <1>1, WFMin
<1> QED BY <1>2 DEF StrictSubsetOrdering

(* What a sum over the parts of A is, told element by element.               *)
IsSum(g, w, A) ==
  /\ g \in [SUBSET A -> Int] /\ g[{}] = 0
  /\ \A S \in SUBSET A : \A x \in S : g[S] = w[x] + g[S \ {x}]

(* There is one: a smallest set without a sum would have one.                *)
LEMMA SumExists ==
  ASSUME NEW A, IsFiniteSet(A), NEW w, \A x \in A : w[x] \in Int
  PROVE  \E g : IsSum(g, w, A)
<1> DEFINE T == {B \in SUBSET A : ~\E g : IsSum(g, w, B)}
<1> SUFFICES ASSUME T # {} PROVE FALSE
  OBVIOUS
<1>0. T \in SUBSET (SUBSET A) /\ \A C \in SUBSET A : C \notin T => \E g : IsSum(g, w, C)
  OBVIOUS
<1>13. \A C \in T : ~\E g : IsSum(g, w, C)
  OBVIOUS
<1> HIDE DEF T
<1>1. PICK B \in T : \A C \in T : C \subseteq B => C = B
  BY <1>0, SmallestSet
<1>14. B \in SUBSET A
  BY <1>0
<1>2. B # {}
  <2> SUFFICES ASSUME B = {} PROVE FALSE
    OBVIOUS
  <2>1. IsSum([S \in SUBSET {} |-> 0], w, {})
    BY DEF IsSum
  <2> QED BY <1>13, <2>1
<1>3. PICK y \in B : TRUE
  BY <1>2
<1>4. PICK C : C = B \ {y}
  OBVIOUS
<1>5. PICK g : IsSum(g, w, C)
  BY <1>0, <1>1, <1>3, <1>4, <1>14
<1>6. w[y] \in Int
  BY <1>3, <1>14
<1> DEFINE h == [S \in SUBSET B |-> IF y \in S THEN w[y] + g[S \ {y}] ELSE g[S]]
<1>7. \A S \in SUBSET B : /\ S \ {y} \in SUBSET C /\ g[S \ {y}] \in Int
                          /\ y \notin S => S \in SUBSET C
  BY <1>4, <1>5 DEF IsSum
<1>8. h \in [SUBSET B -> Int]
  <2>1. \A S \in SUBSET B : y \notin S => g[S] \in Int
    BY <1>5, <1>7 DEF IsSum
  <2> QED BY <1>6, <1>7, <2>1
<1>9. h[{}] = 0
  BY <1>5 DEF IsSum
<1>10. ASSUME NEW S \in SUBSET B, NEW x \in S PROVE h[S] = w[x] + h[S \ {x}]
  <2>0. S \ {x} \in SUBSET B /\ w[x] \in Int
    BY <1>14
  <2>1. CASE x = y
    <3>1. h[S \ {x}] = g[S \ {x}]
      BY <2>0, <2>1
    <3> QED BY <1>10, <2>1, <3>1
  <2>2. CASE x # y /\ y \in S
    <3>1. PICK U : U = S \ {y}
      OBVIOUS
    <3>2. U \in SUBSET C /\ x \in U /\ (S \ {x}) \ {y} = U \ {x} /\ U \ {x} \in SUBSET C
      BY <1>7, <2>2, <3>1
    <3>3. g[U] = w[x] + g[U \ {x}] /\ g[U \ {x}] \in Int
      BY <1>5, <3>2 DEF IsSum
    <3>4. h[S] = w[y] + g[U]
      BY <2>2, <3>1
    <3>5. h[S \ {x}] = w[y] + g[U \ {x}]
      BY <2>0, <2>2, <3>2
    <3> HIDE DEF h
    <3> QED BY <1>6, <2>0, <3>3, <3>4, <3>5
  <2>3. CASE y \notin S
    <3>1. S \in SUBSET C /\ y \notin S \ {x}
      BY <1>7, <2>3
    <3>2. h[S] = g[S] /\ h[S \ {x}] = g[S \ {x}]
      BY <2>0, <2>3, <3>1
    <3>3. g[S] = w[x] + g[S \ {x}]
      BY <1>5, <1>10, <3>1 DEF IsSum
    <3> QED BY <3>2, <3>3
  <2> QED BY <2>1, <2>2, <2>3
<1> HIDE DEF h
<1>11. IsSum(h, w, B)
  BY <1>8, <1>9, <1>10 DEF IsSum
<1> QED BY <1>11, <1>13

(* Equal shares have equal sums.                                            *)
LEMMA SumsAgree ==
  ASSUME NEW A, IsFiniteSet(A), NEW w, NEW v, NEW g, NEW h, IsSum(g, w, A), IsSum(h, v, A),
         NEW S \in SUBSET A, \A x \in S : w[x] = v[x]
  PROVE  g[S] = h[S]
<1> DEFINE T == {U \in SUBSET A : U \subseteq S /\ g[U] # h[U]}
<1> SUFFICES ASSUME T # {} PROVE FALSE
  OBVIOUS
<1>0. T \in SUBSET (SUBSET A)
  OBVIOUS
<1>1. PICK U \in T : \A V \in T : V \subseteq U => V = U
  <2> HIDE DEF T
  <2> QED BY <1>0, SmallestSet
<1>2. PICK x \in U : TRUE
  BY <1>1 DEF IsSum
<1>3. U \ {x} \in SUBSET A /\ U \ {x} \notin T /\ U \ {x} \subseteq S
  BY <1>1, <1>2
<1>4. g[U \ {x}] = h[U \ {x}]
  BY <1>3
<1>5. g[U] = w[x] + g[U \ {x}] /\ h[U] = v[x] + h[U \ {x}] /\ w[x] = v[x]
  BY <1>2 DEF IsSum
<1> QED BY <1>4, <1>5

(* The sum that the library computes (MapThenSumSet), one element at a time. *)
SumOf(w, S) ==
  (CHOOSE it : it = [s \in SUBSET S |->
     IF s = {} THEN 0
     ELSE w[CHOOSE x \in s : TRUE] + it[s \ {CHOOSE x \in s : TRUE}]])[S]

(* Whichever element it takes first, it finds the sum.                       *)
LEMMA SumOfIs ==
  ASSUME NEW A, IsFiniteSet(A), NEW w, NEW g, IsSum(g, w, A), NEW S \in SUBSET A
  PROVE  SumOf(w, S) = g[S]
<1> DEFINE First(s) == CHOOSE x \in s : TRUE
           Solves(it) == it = [s \in SUBSET S |->
                                 IF s = {} THEN 0 ELSE w[First(s)] + it[s \ {First(s)}]]
           f == [s \in SUBSET S |-> g[s]]
<1>1. \A s : s # {} => First(s) \in s
  OBVIOUS
<1> HIDE DEF First
<1>2. Solves(f)
  <2>1. ASSUME NEW s \in SUBSET S
        PROVE  f[s] = IF s = {} THEN 0 ELSE w[First(s)] + f[s \ {First(s)}]
    <3>1. CASE s = {}
      BY <3>1 DEF IsSum
    <3>2. CASE s # {}
      <4>1. g[s] = w[First(s)] + g[s \ {First(s)}]
        BY <1>1, <3>2 DEF IsSum
      <4>2. s \ {First(s)} \in SUBSET S
        OBVIOUS
      <4> QED BY <3>2, <4>1, <4>2
    <3> QED BY <3>1, <3>2
  <2> QED BY <2>1
<1>3. PICK it : it = CHOOSE i : Solves(i)
  OBVIOUS
<1>4. Solves(it)
  BY <1>2, <1>3
<1>5. SumOf(w, S) = it[S]
  BY <1>3 DEF SumOf, First
<1>6. \A s \in SUBSET S : it[s] = g[s]
  <2> DEFINE T == {s \in SUBSET A : s \subseteq S /\ it[s] # g[s]}
  <2> SUFFICES ASSUME T # {} PROVE FALSE
    OBVIOUS
  <2>0. T \in SUBSET (SUBSET A)
    OBVIOUS
  <2>1. PICK s \in T : \A t \in T : t \subseteq s => t = s
    <3> HIDE DEF T
    <3> QED BY <2>0, SmallestSet
  <2>2. it[s] = IF s = {} THEN 0 ELSE w[First(s)] + it[s \ {First(s)}]
    BY <1>4, <2>1
  <2>3. s # {}
    BY <2>1, <2>2 DEF IsSum
  <2>4. First(s) \in s
    BY <1>1, <2>3
  <2>5. s \ {First(s)} \notin T /\ s \ {First(s)} \in SUBSET A /\ s \ {First(s)} \subseteq S
    BY <2>1, <2>4
  <2>6. it[s \ {First(s)}] = g[s \ {First(s)}]
    BY <2>5
  <2>7. g[s] = w[First(s)] + g[s \ {First(s)}]
    BY <2>1, <2>4 DEF IsSum
  <2> QED BY <2>1, <2>2, <2>3, <2>6, <2>7
<1> QED BY <1>5, <1>6

(* Those who have a share of the pool.                                       *)
Givers == {a \in Admins : rank[a] = "DomainAdmins"}

(* The conservation of the pool, now and after a step, with these names.     *)
LEMMA ConservedIs ==
  /\ PoolConserved <=> (exact /\ ~parallel =>
                          limit[Reseller] + SumOf(limit, Givers) = ledger)
  /\ PoolConserved' <=> (exact' /\ ~parallel' =>
                           limit'[Reseller] + SumOf(limit', Givers') = ledger')
BY DEF PoolConserved, Givers, SumOf, MapThenSumSet, MapThenFoldSet

(* One share changes: the sum changes by that.                               *)
LEMMA SumStep ==
  ASSUME NEW w, NEW v, NEW D \in SUBSET Admins, NEW E \in SUBSET Admins, NEW x \in Admins,
         \A a \in Admins : w[a] \in Int /\ v[a] \in Int,
         \A a \in Admins \ {x} : w[a] = v[a] /\ (a \in D <=> a \in E)
  PROVE  /\ SumOf(w, D) \in Int
         /\ SumOf(v, E) = SumOf(w, D) - (IF x \in D THEN w[x] ELSE 0)
                                      + (IF x \in E THEN v[x] ELSE 0)
<1>1. IsFiniteSet(Admins)
  BY PoolAssumption
<1>2. PICK g : IsSum(g, w, Admins)
  BY <1>1, SumExists
<1>3. PICK h : IsSum(h, v, Admins)
  BY <1>1, SumExists
<1>4. SumOf(w, D) = g[D] /\ SumOf(v, E) = h[E]
  BY <1>1, <1>2, <1>3, SumOfIs
<1>5. PICK C \in SUBSET Admins : C = D \ {x}
  OBVIOUS
<1>6. C = E \ {x} /\ \A a \in C : w[a] = v[a]
  BY <1>5
<1>7. g[C] = h[C]
  BY <1>1, <1>2, <1>3, <1>6, SumsAgree
<1>8. g[C] \in Int /\ h[C] \in Int
  BY <1>2, <1>3 DEF IsSum
<1>9. g[D] = (IF x \in D THEN w[x] ELSE 0) + g[C]
  <2>1. CASE x \in D
    BY <1>2, <1>5, <2>1 DEF IsSum
  <2>2. CASE x \notin D
    <3>1. C = D
      BY <1>5, <2>2
    <3> QED BY <1>8, <2>2, <3>1
  <2> QED BY <2>1, <2>2
<1>10. h[E] = (IF x \in E THEN v[x] ELSE 0) + h[C]
  <2>1. CASE x \in E
    BY <1>3, <1>6, <2>1 DEF IsSum
  <2>2. CASE x \notin E
    <3>1. C = E
      BY <1>6, <2>2
    <3> QED BY <1>8, <2>2, <3>1
  <2> QED BY <2>1, <2>2
<1>11. w[x] \in Int /\ v[x] \in Int
  OBVIOUS
<1> QED BY <1>4, <1>7, <1>8, <1>9, <1>10, <1>11

(* No share changes.                                                         *)
LEMMA SameShares ==
  ASSUME RPTypeOK, PoolConserved, exact, parallel' = parallel,
         \A a \in Admins : limit'[a] = limit[a] /\ rank'[a] = rank[a],
         exact' /\ ~parallel => limit'[Reseller] - ledger' = limit[Reseller] - ledger,
         limit'[Reseller] \in Int, ledger' \in Int
  PROVE  PoolConserved'
<1>1. PICK D \in SUBSET Admins : D = Givers
  BY DEF Givers
<1>2. Givers' = D /\ IsFiniteSet(Admins)
  BY <1>1, PoolAssumption DEF Givers
<1>3. PICK w : w = limit
  OBVIOUS
<1>4. PICK v : v = limit'
  OBVIOUS
<1>5. \A a \in Admins : w[a] = v[a] /\ w[a] \in Int /\ v[a] \in Int
  BY <1>3, <1>4 DEF RPTypeOK, Holders
<1>6. PICK g : IsSum(g, w, Admins)
  BY <1>2, <1>5, SumExists
<1>7. PICK h : IsSum(h, v, Admins)
  BY <1>2, <1>5, SumExists
<1>8. SumOf(w, D) = g[D] /\ SumOf(v, D) = h[D] /\ g[D] = h[D] /\ g[D] \in Int
  <2>1. g[D] \in Int
    BY <1>6 DEF IsSum
  <2> QED BY <1>2, <1>5, <1>6, <1>7, <2>1, SumOfIs, SumsAgree
<1>9. SumOf(limit, Givers) = SumOf(w, D) /\ SumOf(limit', Givers') = SumOf(v, D)
  BY <1>1, <1>2, <1>3, <1>4
<1>10. limit[Reseller] \in Int /\ ledger \in Int
  BY DEF RPTypeOK, Holders
<1> QED BY <1>8, <1>9, <1>10, ConservedIs

(* The share of x changes, and the pool by as much.                          *)
LEMMA Balance ==
  ASSUME RPTypeOK, RPTypeOK', PoolConserved, exact, parallel' = parallel, NEW x \in Admins,
         \A a \in Admins \ {x} : limit'[a] = limit[a] /\ rank'[a] = rank[a],
         exact' /\ ~parallel =>
           limit'[Reseller] + RoomOf(x)' - ledger' = limit[Reseller] + RoomOf(x) - ledger
  PROVE  PoolConserved'
<1>1. PICK D \in SUBSET Admins : D = Givers
  BY DEF Givers
<1>2. PICK E \in SUBSET Admins : E = Givers'
  BY DEF Givers
<1>3. PICK w : w = limit
  OBVIOUS
<1>4. PICK v : v = limit'
  OBVIOUS
<1>5. \A a \in Admins : w[a] \in Int /\ v[a] \in Int
  BY <1>3, <1>4 DEF RPTypeOK, Holders
<1>6. \A a \in Admins \ {x} : w[a] = v[a] /\ (a \in D <=> a \in E)
  BY <1>1, <1>2, <1>3, <1>4 DEF Givers
<1>7. /\ SumOf(w, D) \in Int
      /\ SumOf(v, E) = SumOf(w, D) - (IF x \in D THEN w[x] ELSE 0)
                                   + (IF x \in E THEN v[x] ELSE 0)
  BY <1>5, <1>6, SumStep
<1>8. RoomOf(x) = (IF x \in D THEN w[x] ELSE 0) /\ RoomOf(x)' = (IF x \in E THEN v[x] ELSE 0)
  BY <1>1, <1>2, <1>3, <1>4 DEF RoomOf, Givers
<1>9. RoomOf(x) \in Int /\ RoomOf(x)' \in Int
  BY <1>5, <1>8
<1>10. SumOf(limit, Givers) = SumOf(w, D) /\ SumOf(limit', Givers') = SumOf(v, E)
  BY <1>1, <1>2, <1>3, <1>4
<1>11. /\ limit[Reseller] \in Int /\ ledger \in Int
       /\ limit'[Reseller] \in Int /\ ledger' \in Int
  BY DEF RPTypeOK, Holders
<1>12. PICK s \in Int : s = SumOf(w, D)
  BY <1>7
<1>13. SumOf(v, E) = s - RoomOf(x) + RoomOf(x)'
  BY <1>7, <1>8, <1>12
<1> QED BY <1>9, <1>10, <1>11, <1>12, <1>13, ConservedIs

(* Requests one by one: what an allocation has computed is still right.      *)
LoadedStill ==
  ~parallel => \A q \in Slots : slot[q].pc = "allocate" =>
    /\ slot[q].saves <=> slot[q].value # limit[slot[q].who]
    /\ slot[q].saves =>
         slot[q].pool = limit[Reseller] - Taken(limit[slot[q].who], slot[q].value)

(* A request ends: there is none any more.                                   *)
LEMMA EndsLoaded ==
  ASSUME PoolIndInv, NEW q \in Slots, slot[q] # FreeSlot, Ends(q), parallel' = parallel
  PROVE  LoadedStill'
<1>1. SlotsOK /\ (~parallel => \A p \in Slots : slot[p] # FreeSlot => p = q)
  BY DEF PoolIndInv, StillSo
<1> QED BY <1>1, EndsIs, FreeSlotIs DEF LoadedStill

(* A request that is over at once finds none.                                *)
LEMMA QuietLoaded ==
  ASSUME Quiet, UNCHANGED <<slot, parallel>>
  PROVE  LoadedStill'
BY FreeSlotIs DEF Quiet, LoadedStill

(* An allocation is computed.                                                *)
LEMMA LoadLimitsAdds ==
  ASSUME PoolIndInv, PoolIndInv', PoolConserved, exact, NEW q \in Slots, NEW x \in Admins,
         NEW v \in Amounts, LoadLimits(q, x, v)
  PROVE  PoolConserved' /\ LoadedStill'
<1>1. PICK pool : pool = limit[Reseller] - Taken(limit[x], v)
  OBVIOUS
<1>2. PICK r : r = [pc |-> "allocate", who |-> x, value |-> v, saves |-> v # limit[x],
                    pool |-> pool]
  OBVIOUS
<1>3. r.who = x /\ r.value = v /\ r.pool = pool /\ (r.saves <=> v # limit[x])
  BY <1>2
<1>4. /\ Ready(q) /\ slot' = [slot EXCEPT ![q] = r]
      /\ UNCHANGED <<rank, limit, used, parallel, ledger, exact, sound>>
  BY <1>1, <1>2 DEF LoadLimits, Reads, poolVars
<1>5. slot'[q] = r /\ \A p \in Slots \ {q} : slot'[p] = slot[p]
  BY <1>4 DEF PoolIndInv, SlotsOK
<1>6. LoadedStill'
  <2> SUFFICES ASSUME ~parallel, NEW p \in Slots, slot'[p].pc = "allocate"
               PROVE  /\ slot'[p].saves <=> slot'[p].value # limit[slot'[p].who]
                      /\ slot'[p].pool
                           = limit[Reseller] - Taken(limit[slot'[p].who], slot'[p].value)
    BY <1>4 DEF LoadedStill, Taken
  <2>1. p = q
    BY <1>4, <1>5, FreeSlotIs DEF Ready
  <2> QED BY <1>1, <1>3, <1>5, <2>1
<1>7. PoolConserved'
  BY <1>4, SameShares DEF PoolIndInv, RPTypeOK, Holders
<1> QED BY <1>6, <1>7

(* A mailbox is about to be created.                                         *)
LEMMA CheckLimitAdds ==
  ASSUME PoolIndInv, PoolConserved, exact, NEW q \in Slots, NEW h \in Holders, CheckLimit(q, h)
  PROVE  PoolConserved' /\ LoadedStill'
<1>1. PICK r : r = [pc |-> "create", who |-> h]
  OBVIOUS
<1>2. /\ Ready(q) /\ slot' = [slot EXCEPT ![q] = r] /\ r.pc = "create"
      /\ UNCHANGED <<rank, limit, used, parallel, ledger, exact, sound>>
  BY <1>1 DEF CheckLimit, Reads, poolVars
<1>3. slot'[q] = r /\ \A p \in Slots \ {q} : slot'[p] = slot[p]
  BY <1>2 DEF PoolIndInv, SlotsOK
<1>4. LoadedStill'
  BY <1>2, <1>3, FreeSlotIs DEF LoadedStill, Ready
<1>5. PoolConserved'
  BY <1>2, SameShares DEF PoolIndInv, RPTypeOK, Holders
<1> QED BY <1>4, <1>5

(* The allocation is saved.                                                  *)
LEMMA SaveLimitsAdds ==
  ASSUME PoolIndInv, PoolIndInv', PoolConserved, LoadedStill, exact, NEW q \in Slots, SaveLimits(q)
  PROVE  PoolConserved' /\ LoadedStill'
<1>0. slot[q].pc = "allocate" /\ slot[q] \in Allocating /\ slot[q] # FreeSlot
  BY FreeSlotIs DEF SaveLimits, PoolIndInv, SlotsOK, Creating, FreeSlot
<1>1. PICK x \in Admins : x = slot[q].who
  BY <1>0 DEF Allocating
<1>2. PICK v \in Amounts : v = slot[q].value
  BY <1>0 DEF Allocating
<1>3. PICK pool : pool = IF slot[q].saves THEN slot[q].pool ELSE limit[Reseller]
  OBVIOUS
<1>4. /\ Ends(q) /\ limit' = [limit EXCEPT ![x] = v, ![Reseller] = pool]
      /\ exact' => v # Unlimited /\ rank[x] = "DomainAdmins"
      /\ UNCHANGED <<rank, used, parallel, ledger>>
  <2>1. Reseller # x
    BY PoolAssumption
  <2> QED BY <1>1, <1>2, <1>3, <2>1 DEF SaveLimits
<1>5. LoadedStill'
  BY <1>0, <1>4, EndsLoaded
<1>6. /\ limit'[x] = v /\ limit'[Reseller] = pool
      /\ \A a \in Admins \ {x} : limit'[a] = limit[a]
  BY <1>4, PoolAssumption DEF PoolIndInv, RPTypeOK, Holders
<1>7. v \in Int /\ limit[x] \in Int /\ limit[x] >= 0 /\ limit[Reseller] \in Int /\ ledger \in Int
  BY AccountIs, PoolAssumption DEF Amounts, Unlimited, PoolIndInv, RPTypeOK
<1>8. ~parallel => pool = limit[Reseller] - (v - limit[x])
  <2> SUFFICES ASSUME ~parallel PROVE pool = limit[Reseller] - (v - limit[x])
    OBVIOUS
  <2>1. /\ slot[q].saves <=> v # limit[x]
        /\ slot[q].saves => slot[q].pool = limit[Reseller] - Taken(limit[x], v)
    BY <1>0, <1>1, <1>2 DEF LoadedStill
  <2>2. Taken(limit[x], v) = v - limit[x]
    BY <1>7 DEF Taken, Unlimited
  <2> QED BY <1>3, <1>7, <2>1, <2>2
<1>9. exact' /\ ~parallel =>
        limit'[Reseller] + RoomOf(x)' - ledger' = limit[Reseller] + RoomOf(x) - ledger
  <2> SUFFICES ASSUME exact', ~parallel
               PROVE  limit'[Reseller] + RoomOf(x)' - ledger'
                        = limit[Reseller] + RoomOf(x) - ledger
    OBVIOUS
  <2>1. RoomOf(x) = limit[x] /\ RoomOf(x)' = v
    BY <1>4, <1>6 DEF RoomOf
  <2> QED BY <1>4, <1>6, <1>7, <1>8, <2>1
<1>10. PoolConserved'
  <2>1. RPTypeOK /\ RPTypeOK'
    BY DEF PoolIndInv
  <2> QED BY <1>4, <1>6, <1>9, <2>1, Balance
<1> QED BY <1>5, <1>10

(* No limit changes where a mailbox is created or a request refused.         *)
LEMMA OtherSlotsAdd ==
  ASSUME PoolIndInv, PoolConserved, exact, NEW q \in Slots, Insert(q) \/ Refuse(q)
  PROVE  PoolConserved' /\ LoadedStill'
<1>1. /\ slot[q] # FreeSlot /\ Ends(q)
      /\ UNCHANGED <<rank, limit, parallel, ledger, exact>>
  BY FreeSlotIs DEF Insert, Refuse, poolVars
<1>2. PoolConserved'
  BY <1>1, SameShares DEF PoolIndInv, RPTypeOK, Holders
<1> QED BY <1>1, <1>2, EndsLoaded

(* Accounts come with nothing, and go with what they had.                    *)
LEMMA AccountsAdd ==
  ASSUME PoolIndInv, PoolIndInv', PoolConserved, exact, NEW x \in Admins, AccountStep(x)
  PROVE  PoolConserved' /\ LoadedStill'
<1>1. /\ Quiet /\ UNCHANGED <<slot, parallel, ledger>>
  BY DEF AccountStep, CreateAdmin, Demote, Promote, DeleteAdmin
<1>2. /\ limit[x] \in Int /\ limit[x] >= 0 /\ limit[Reseller] \in Int /\ ledger \in Int
      /\ x # Reseller /\ x \in Holders /\ Reseller \in Holders
      /\ rank \in [Admins -> {"SimpleUsers", "DomainAdmins", Absent}] /\ limit \in [Holders -> Int]
  BY AccountIs DEF PoolIndInv, RPTypeOK
<1>3. PoolWith(x) = limit[Reseller] + limit[x]
  BY <1>2 DEF PoolWith
<1>4. RPTypeOK /\ RPTypeOK'
  BY DEF PoolIndInv
<1>5. limit'[Reseller] \in Int /\ RoomOf(x) \in Int /\ RoomOf(x)' \in Int
  BY <1>2, <1>4 DEF RPTypeOK, RoomOf
<1>6. ASSUME \A a \in Admins \ {x} : limit'[a] = limit[a] /\ rank'[a] = rank[a],
             exact' => limit'[Reseller] + RoomOf(x)' = limit[Reseller] + RoomOf(x)
      PROVE  PoolConserved'
  <2>1. exact' => limit'[Reseller] + RoomOf(x)' - ledger' = limit[Reseller] + RoomOf(x) - ledger
    BY <1>1, <1>2, <1>6, <1>5
  <2> QED BY <1>1, <1>4, <1>6, <2>1, Balance
<1>7. ASSUME NEW r \in {"SimpleUsers", "DomainAdmins"}, CreateAdmin(x, r) PROVE PoolConserved'
  <2>1. rank[x] = Absent /\ rank' = [rank EXCEPT ![x] = r] /\ limit' = [limit EXCEPT ![x] = 0]
    BY <1>7 DEF CreateAdmin
  <2>2. \A a \in Admins \ {x} : limit'[a] = limit[a] /\ rank'[a] = rank[a]
    BY <1>2, <2>1 DEF Holders
  <2>3. limit'[Reseller] = limit[Reseller] /\ limit'[x] = 0
    BY <1>2, <2>1
  <2>4. RoomOf(x)' = 0 /\ RoomOf(x) = 0
    BY <2>1, <2>3, PoolAssumption DEF RoomOf
  <2> QED BY <1>6, <2>2, <2>3, <2>4
<1>8. ASSUME Demote(x) PROVE PoolConserved'
  <2>1. /\ rank[x] = "DomainAdmins" /\ rank' = [rank EXCEPT ![x] = "SimpleUsers"]
        /\ limit' = [limit EXCEPT ![Reseller] = PoolWith(x)]
    BY <1>8 DEF Demote
  <2>2. \A a \in Admins \ {x} : limit'[a] = limit[a] /\ rank'[a] = rank[a]
    BY <1>2, <2>1, PoolAssumption DEF Holders
  <2>3. limit'[Reseller] = PoolWith(x) /\ RoomOf(x) = limit[x] /\ RoomOf(x)' = 0
    BY <1>2, <2>1 DEF RoomOf
  <2>4. limit'[Reseller] + RoomOf(x)' = limit[Reseller] + RoomOf(x)
    BY <1>2, <1>3, <2>3
  <2> QED BY <1>2, <1>6, <1>5, <2>2, <2>4
<1>9. ASSUME Promote(x) PROVE PoolConserved'
  <2>1. /\ rank[x] = "SimpleUsers" /\ rank' = [rank EXCEPT ![x] = "DomainAdmins"]
        /\ limit' = limit /\ (exact' => limit[x] = 0)
    BY <1>9 DEF Promote, poolVars
  <2>2. \A a \in Admins \ {x} : limit'[a] = limit[a] /\ rank'[a] = rank[a]
    BY <1>2, <2>1
  <2>3. RoomOf(x) = 0 /\ (exact' => RoomOf(x)' = 0)
    BY <1>2, <2>1 DEF RoomOf
  <2>4. exact' => limit'[Reseller] + RoomOf(x)' = limit[Reseller] + RoomOf(x)
    BY <2>1, <2>3
  <2> QED BY <1>2, <1>6, <1>5, <2>2, <2>4
<1>10. ASSUME DeleteAdmin(x) PROVE PoolConserved'
  <2>1. /\ rank' = [rank EXCEPT ![x] = Absent] /\ rank[x] # Absent
        /\ limit' = [limit EXCEPT ![Reseller] = PoolWith(x), ![x] = 0]
        /\ exact' => (rank[x] = "SimpleUsers" => limit[x] = 0)
    BY <1>10 DEF DeleteAdmin
  <2>2. \A a \in Admins \ {x} : limit'[a] = limit[a] /\ rank'[a] = rank[a]
    BY <1>2, <2>1, PoolAssumption DEF Holders
  <2>3. limit'[Reseller] = PoolWith(x) /\ limit'[x] = 0
    BY <1>2, <2>1
  <2>4. RoomOf(x)' = 0 /\ (exact' => RoomOf(x) = limit[x])
    BY <1>2, <2>1, <2>3, PoolAssumption DEF RoomOf
  <2>5. exact' => limit'[Reseller] + RoomOf(x)' = limit[Reseller] + RoomOf(x)
    BY <1>2, <1>3, <2>3, <2>4
  <2> QED BY <1>2, <1>6, <1>5, <2>2, <2>5
<1>11. PoolConserved'
  BY <1>7, <1>8, <1>9, <1>10 DEF AccountStep
<1> QED BY <1>1, <1>11, QuietLoaded

(* What a super admin sets is in the ledger.                                 *)
LEMMA SuperSetsAdds ==
  ASSUME PoolIndInv, PoolIndInv', PoolConserved, exact, NEW h \in Holders, NEW v \in Amounts,
         SuperSets(h, v)
  PROVE  PoolConserved' /\ LoadedStill'
<1>1. /\ Quiet /\ Active(h) /\ limit' = [limit EXCEPT ![h] = v]
      /\ ~parallel => ledger' = ledger + v - limit[h]
      /\ UNCHANGED <<rank, slot, parallel>>
  BY DEF SuperSets
<1>2. /\ limit \in [Holders -> Int] /\ limit' \in [Holders -> Int] /\ v \in Int
      /\ ledger \in Int /\ ledger' \in Int /\ Reseller \in Holders /\ limit'[h] = v
      /\ \A a \in Holders \ {h} : limit'[a] = limit[a]
  BY <1>1, PoolAssumption DEF PoolIndInv, RPTypeOK, Holders, Amounts, Unlimited
<1>3. limit[h] \in Int /\ limit[Reseller] \in Int /\ limit'[Reseller] \in Int
  BY <1>2
<1>4. RPTypeOK /\ RPTypeOK'
  BY DEF PoolIndInv
<1>5. CASE h = Reseller
  <2>1. \A a \in Admins : limit'[a] = limit[a] /\ rank'[a] = rank[a]
    BY <1>1, <1>2, <1>5, PoolAssumption DEF Holders
  <2>2. ~parallel => limit'[Reseller] - ledger' = limit[Reseller] - ledger
    BY <1>1, <1>2, <1>3, <1>5
  <2> QED BY <1>1, <1>2, <1>3, <1>4, <2>1, <2>2, SameShares, QuietLoaded
<1>6. CASE h # Reseller
  <2>1. h \in Admins /\ rank[h] = "DomainAdmins" /\ limit'[Reseller] = limit[Reseller]
    BY <1>1, <1>2, <1>6 DEF Active, Holders
  <2>2. \A a \in Admins \ {h} : limit'[a] = limit[a] /\ rank'[a] = rank[a]
    BY <1>1, <1>2 DEF Holders
  <2>3. RoomOf(h) = limit[h] /\ RoomOf(h)' = v
    BY <1>1, <1>2, <2>1 DEF RoomOf
  <2>4. ~parallel =>
          limit'[Reseller] + RoomOf(h)' - ledger' = limit[Reseller] + RoomOf(h) - ledger
    BY <1>1, <1>2, <1>3, <2>1, <2>3
  <2> QED BY <1>1, <1>4, <2>1, <2>2, <2>4, Balance, QuietLoaded
<1> QED BY <1>5, <1>6

(* No step makes or loses a share of the pool.                               *)
LEMMA PoolStepAdds ==
  ASSUME PoolIndInv, PoolIndInv', PoolConserved, LoadedStill, [RPNext]_rpVars
  PROVE  PoolConserved' /\ LoadedStill'
<1>1. ASSUME exact, NEW q \in Slots, SlotStep(q) PROVE PoolConserved' /\ LoadedStill'
  BY <1>1, CheckLimitAdds, LoadLimitsAdds, SaveLimitsAdds, OtherSlotsAdd DEF SlotStep
<1>2. ASSUME exact, NEW x \in Admins, AccountStep(x) PROVE PoolConserved' /\ LoadedStill'
  BY <1>2, AccountsAdd
<1>3. ASSUME exact, NEW h \in Holders, DeleteMailbox(h) PROVE PoolConserved' /\ LoadedStill'
  <2>1. Quiet /\ UNCHANGED <<rank, limit, slot, parallel, ledger, exact>>
    BY <1>3 DEF DeleteMailbox
  <2>2. PoolConserved'
    BY <1>3, <2>1, SameShares DEF PoolIndInv, RPTypeOK, Holders
  <2> QED BY <2>1, <2>2, QuietLoaded
<1>4. CASE UNCHANGED rpVars
  <2>1. UNCHANGED <<rank, limit, slot, parallel, ledger, exact>>
    BY <1>4 DEF rpVars, poolVars
  <2>2. LoadedStill'
    BY <2>1 DEF LoadedStill
  <2>3. SumOf(limit', Givers') = SumOf(limit, Givers)
    BY <2>1 DEF Givers
  <2>4. PoolConserved'
    BY <2>1, <2>3, ConservedIs
  <2> QED BY <2>2, <2>4
<1> QED BY <1>1, <1>2, <1>3, <1>4, SuperSetsAdds DEF RPNext

(* At the start the pool is the reseller's.                                  *)
LEMMA PoolAtFirst == RPInit => PoolConserved /\ LoadedStill
<1> SUFFICES ASSUME RPInit PROVE PoolConserved /\ LoadedStill
  OBVIOUS
<1>1. Givers = {}
  BY PoolAssumption DEF RPInit, Givers
<1>2. limit[Reseller] = MaxLimit /\ ledger = MaxLimit /\ MaxLimit \in Nat
  BY PoolAssumption DEF RPInit, Holders
<1>3. \A a \in Admins : limit[a] \in Int
  BY PoolAssumption DEF RPInit, Holders
<1>4. IsFiniteSet(Admins)
  BY PoolAssumption
<1>5. PICK w : w = limit
  OBVIOUS
<1>6. PICK g : IsSum(g, w, Admins)
  BY <1>3, <1>4, <1>5, SumExists
<1>7. SumOf(w, {}) = g[{}] /\ g[{}] = 0
  <2>1. g[{}] = 0
    BY <1>6 DEF IsSum
  <2>2. {} \in SUBSET Admins
    OBVIOUS
  <2> QED BY <1>4, <1>6, <2>1, <2>2, SumOfIs
<1>8. SumOf(limit, Givers) = 0
  BY <1>1, <1>5, <1>7
<1>9. PoolConserved
  BY <1>2, <1>8, ConservedIs
<1>10. LoadedStill
  BY FreeSlotIs DEF RPInit, LoadedStill
<1> QED BY <1>9, <1>10

(* Nor is anything of the pool created or lost, whatever is given, taken     *)
(* back, and returned by those who are demoted or deleted (limits/lib.py,    *)
(* limits/utils.py), as long as requests are served one by one.              *)
THEOREM PoolsAddUp == RPSpec => []PoolInv
<1> DEFINE I == PoolIndInv /\ PoolConserved /\ LoadedStill
<1>1. RPInit => I
  BY PoolInitKeeps, PoolAtFirst
<1>2. I /\ [RPNext]_rpVars => I'
  BY PoolStepKeeps, PoolStepAdds
<1>3. I => PoolInv
  BY DEF PoolIndInv, PoolInv
<1> QED BY <1>1, <1>2, <1>3, PTL DEF RPSpec

-----------------------------------------------------------------------------
(* In each behaviour one component runs, and the others stutter.            *)
LEMMA OnePartRuns ==
  [AdministrationNext]_aVars =>
    /\ [OANext]_oaVars /\ [DKNext]_dkVars /\ [GPNext]_gpVars /\ [SFNext]_sfVars
    /\ [LDNext]_ldVars /\ [RPNext]_rpVars
<1> SUFFICES ASSUME [AdministrationNext]_aVars
             PROVE  /\ [OANext]_oaVars /\ [DKNext]_dkVars /\ [GPNext]_gpVars /\ [SFNext]_sfVars
                    /\ [LDNext]_ldVars /\ [RPNext]_rpVars
  OBVIOUS
<1>0. CASE AccessPart
  BY <1>0 DEF AccessPart
<1>1. CASE OrdersPart \/ LimitsPart
  BY <1>1 DEF OrdersPart, LimitsPart
<1>2. CASE DkimPart
  BY <1>2 DEF DkimPart
<1>3. CASE FactorsPart
  BY <1>3 DEF FactorsPart
<1>4. CASE ParametersPart
  BY <1>4 DEF ParametersPart
<1>5. CASE DirectoryPart
  BY <1>5 DEF DirectoryPart
<1>6. CASE UNCHANGED aVars
  BY <1>6 DEF aVars
<1> QED BY <1>0, <1>1, <1>2, <1>3, <1>4, <1>5, <1>6 DEF AdministrationNext

(* Rows of access (core/models.py, lib/permissions.py) stay as their module  *)
(* states, whatever runs beside it.                                          *)
THEOREM AccessStaysRight ==
  AdministrationSpec => [](AccessInv /\ AdminsSeeMailboxes) /\ OwnershipPassedOn
<1>1. AdministrationInit => OAInit
  BY DEF AdministrationInit
<1>2. AdministrationSpec => OASpec
  BY <1>1, OnePartRuns, PTL DEF AdministrationSpec, OASpec
<1> QED BY <1>2, RowsStayConsistent, OwnershipIsPassedOn, AdminsAlwaysSeeMailboxes, PTL

(* So do keys and parameters (admin/lib, rspamd, core/models.py).            *)
THEOREM SettingsStayRight == AdministrationSpec => []SettingsInv
<1>1. AdministrationInit => DKInit /\ GPInit
  BY DEF AdministrationInit
<1>2. AdministrationSpec => DKSpec /\ GPSpec
  BY <1>1, OnePartRuns, PTL DEF AdministrationSpec, DKSpec, GPSpec
<1>3. KeyInv /\ ParametersInv => SettingsInv
  BY DEF SettingsInv
<1> QED BY <1>2, <1>3, KeysAgree, ParametersAreKept, PTL

(* So do second factors and entries of the directory (core/api/v2,          *)
(* ldapsync).                                                               *)
THEOREM AccountsStayRight == AdministrationSpec => []AccountsInv
<1>1. AdministrationInit => SFInit /\ LDInit
  BY DEF AdministrationInit
<1>2. AdministrationSpec => SFSpec /\ LDSpec
  BY <1>1, OnePartRuns, PTL DEF AdministrationSpec, SFSpec, LDSpec
<1>3. FactorsInv /\ LdapInv => AccountsInv
  BY DEF AccountsInv
<1> QED BY <1>2, <1>3, FactorsAlwaysAgree, EntriesFollow, PTL

(* So do the pools of limits (modoboa/limits).                               *)
THEOREM PoolsStayRight == AdministrationSpec => []PoolInv
<1>1. AdministrationInit => RPInit
  BY DEF AdministrationInit
<1>2. AdministrationSpec => RPSpec
  BY <1>1, OnePartRuns, PTL DEF AdministrationSpec, RPSpec
<1> QED BY <1>2, PoolsAddUp, PTL
=============================================================================
