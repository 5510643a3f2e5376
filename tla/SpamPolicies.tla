---------------------------- MODULE SpamPolicies ----------------------------
(* amavis (modoboa/amavis/handlers.py, lib.py): amavis reads in a database   *)
(* of its own what to do with the mail of a domain.  Every domain has a row  *)
(* in the table users, found by "@" and its name, and a policy, found by the *)
(* first 32 characters of that; a domain alias has a row in users that uses  *)
(* its target's policy.  Receivers keep the two databases in step; one that  *)
(* raises undoes the request.                                                *)
EXTENDS FiniteSets

CONSTANTS
  Rows,       \* primary keys of domains
  AliasRows,  \* primary keys of domain aliases
  SpamNames,  \* names
  PolicyIds,  \* primary keys of policies
  Short(_),   \* a name's first 32 characters
  Void        \* no row, no name, no policy

ASSUME SpamAssumption ==
  /\ Void \notin Rows \cup SpamNames \cup PolicyIds
  /\ \A n \in SpamNames : Short(n) # Void

VARIABLES
  owner,      \* the domains' names
  copy,       \* the domain aliases: name and target
  users,      \* per name the policy of its row in users
  policy,     \* the policies' names
  odd         \* history: names whose rows were not made for who has the name now

spVars == <<owner, copy, users, policy, odd>>

SPInit ==
  /\ owner = [d \in Rows |-> Void]
  /\ copy = [a \in AliasRows |-> [name |-> Void, target |-> Void]]
  /\ users = [n \in SpamNames |-> Void]
  /\ policy = [p \in PolicyIds |-> Void]
  /\ odd = {}

HasName(n) == (\E d \in Rows : owner[d] = n) \/ (\E a \in AliasRows : copy[a].name = n)
Named(n) == {p \in PolicyIds : policy[p] = Short(n)}
Using(p) == {n \in SpamNames : users[n] = p}

-----------------------------------------------------------------------------
(* A new domain: get_or_create needs at most one policy of the       *)
(* name; a row in users that is there already stays as it is.               *)
create_user_and_policy(d, n, p) ==
  /\ owner[d] = Void /\ ~HasName(n)
  /\ IF Named(n) = {} THEN policy[p] = Void ELSE Named(n) = {p}
  /\ owner' = [owner EXCEPT ![d] = n]
  /\ policy' = [policy EXCEPT ![p] = Short(n)]
  /\ users' = IF users[n] = Void THEN [users EXCEPT ![n] = p] ELSE users
  /\ odd' = IF users[n] # Void THEN odd \cup Using(users[n])
            ELSE IF Using(p) # {} THEN odd \cup Using(p) \cup {n}
            ELSE odd
  /\ UNCHANGED copy

(* Mutant: the policy keeps its name.                                       *)
RenamedUserOnly(n, p) == policy

Renamed(n, p) == [policy EXCEPT ![p] = Short(n)]

(* A domain gets another name: fails without a row for the old name, or     *)
(* with one for the new.                                                    *)
update_user_and_policy(d, n) ==
  LET old == owner[d]  p == users[owner[d]] IN
  /\ old # Void /\ ~HasName(n)
  /\ p # Void /\ users[n] = Void
  /\ owner' = [owner EXCEPT ![d] = n]
  /\ users' = [users EXCEPT ![n] = p, ![old] = Void]
  /\ policy' = Renamed(n, p)
  /\ odd' = IF old \in odd THEN odd \cup {n} ELSE odd
  /\ UNCHANGED copy

(* The rows of all that use the policy go with it.                          *)
WithoutPolicyOf(n) ==
  [m \in SpamNames |-> IF users[n] # Void /\ users[m] = users[n] THEN Void ELSE users[m]]

(* The domain's aliases go by cascade, each with its row.                   *)
delete_user_and_policy(d) ==
  LET n == owner[d]
      aliases == {a \in AliasRows : copy[a].target = d}
      names == {copy[a].name : a \in aliases}
  IN
  /\ n # Void
  /\ owner' = [owner EXCEPT ![d] = Void]
  /\ copy' = [a \in AliasRows |-> IF a \in aliases THEN [name |-> Void, target |-> Void] ELSE copy[a]]
  /\ users' = [m \in SpamNames |-> IF m \in names THEN Void ELSE WithoutPolicyOf(n)[m]]
  /\ policy' = IF users[n] = Void THEN policy ELSE [policy EXCEPT ![users[n]] = Void]
  /\ odd' = IF users[n] = Void THEN odd ELSE odd \cup (Using(users[n]) \ (names \cup {n}))

AliasRow(n, p) == [users EXCEPT ![n] = p]

(* A new domain alias: the target's policy, found by its name, and          *)
(* no row that uses another one.                                            *)
create_user_and_use_policy(a, n, d, p) ==
  /\ copy[a].name = Void /\ ~HasName(n) /\ owner[d] # Void
  /\ Named(owner[d]) = {p} /\ users[n] \in {Void, p}
  /\ copy' = [copy EXCEPT ![a] = [name |-> n, target |-> d]]
  /\ users' = AliasRow(n, p)
  /\ odd' = IF users[owner[d]] = p THEN odd ELSE odd \cup Using(p) \cup {n}
  /\ UNCHANGED <<owner, policy>>

(* on_domain_alias_created returns: the rows know nothing of it.            *)
AliasUpdated(a, n, d) ==
  LET old == copy[a].name IN
  /\ old # Void /\ (~HasName(n) \/ n = old) /\ owner[d] # Void
  /\ copy' = [copy EXCEPT ![a] = [name |-> n, target |-> d]]
  /\ odd' = IF n # old \/ d # copy[a].target THEN odd \cup {old, n} ELSE odd
  /\ UNCHANGED <<owner, users, policy>>

(* The row of the alias alone.                                              *)
WithoutUser(n) == [users EXCEPT ![n] = Void]

delete_user(a) ==
  /\ copy[a].name # Void
  /\ copy' = [copy EXCEPT ![a] = [name |-> Void, target |-> Void]]
  /\ users' = WithoutUser(copy[a].name)
  /\ UNCHANGED <<owner, policy, odd>>

-----------------------------------------------------------------------------
SPNext ==
  \/ \E d \in Rows, n \in SpamNames :
       update_user_and_policy(d, n) \/ \E p \in PolicyIds : create_user_and_policy(d, n, p)
  \/ \E d \in Rows : delete_user_and_policy(d)
  \/ \E a \in AliasRows, d \in Rows, n \in SpamNames :
       AliasUpdated(a, n, d) \/ \E p \in PolicyIds : create_user_and_use_policy(a, n, d, p)
  \/ \E a \in AliasRows : delete_user(a)

SPSpec == SPInit /\ [][SPNext]_spVars

-----------------------------------------------------------------------------
(* Properties *)

SPTypeOK ==
  /\ owner \in [Rows -> SpamNames \cup {Void}]
  /\ copy \in [AliasRows -> [name : SpamNames \cup {Void}, target : Rows \cup {Void}]]
  /\ users \in [SpamNames -> PolicyIds \cup {Void}]
  /\ policy \in [PolicyIds -> {Short(n) : n \in SpamNames} \cup {Void}]
  /\ odd \subseteq SpamNames
  /\ \A n \in SpamNames : users[n] # Void => policy[users[n]] # Void
  /\ \A a \in AliasRows :
       copy[a].name # Void => copy[a].target \in Rows /\ owner[copy[a].target] # Void

(* amavis finds for every domain a policy of its own, which carries its     *)
(* present name, through every rename; and nobody but its aliases uses it.  *)
OwnPolicy ==
  \A d \in Rows :
    owner[d] \notin odd \cup {Void} =>
      /\ users[owner[d]] # Void
      /\ policy[users[owner[d]]] = Short(owner[d])
      /\ Using(users[owner[d]]) \subseteq
           {owner[d]} \cup {copy[a].name : a \in {b \in AliasRows : copy[b].target = d}} \cup odd

(* The mail of a domain alias is treated as that of its target, unless the  *)
(* alias has been given another name or target.                             *)
AliasUsesTarget ==
  \A a \in AliasRows :
    copy[a].name \notin odd \cup {Void} /\ owner[copy[a].target] \notin odd =>
      users[copy[a].name] = users[owner[copy[a].target]]

NamesApart ==
  /\ \A d, e \in Rows : owner[d] # Void /\ owner[d] = owner[e] => d = e
  /\ \A a, b \in AliasRows : copy[a].name # Void /\ copy[a].name = copy[b].name => a = b
  /\ \A d \in Rows, a \in AliasRows : owner[d] # Void => owner[d] # copy[a].name

NoneShared ==
  \A d, e \in Rows :
    d # e /\ owner[d] \notin odd \cup {Void} /\ owner[e] # Void =>
      users[owner[d]] # users[owner[e]]

(* The two databases stay in step: what TLAPS proves to be inductive.       *)
PoliciesFollow == SPTypeOK /\ NamesApart /\ NoneShared /\ OwnPolicy /\ AliasUsesTarget

(* What a domain alias has left is in nobody's way.                         *)
(* Not what the code does: README.md, Known deviations.                     *)
NothingOdd == odd = {}
=============================================================================
