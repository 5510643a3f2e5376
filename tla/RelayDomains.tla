---------------------------- MODULE RelayDomains ----------------------------
(* Relay domains (modoboa/relaydomains, modoboa/transport): where Postfix    *)
(* sends the mail of a domain that is not delivered here.  Postfix finds the *)
(* transport by its pattern, the name of the domain; the domain has a        *)
(* foreign key to it as well; and a third table, again by pattern, tells     *)
(* for which domains the recipients are verified.  A request is a            *)
(* transaction: one whose new pattern is taken already changes nothing.      *)
EXTENDS FiniteSets

CONSTANTS
  RelayRows,    \* primary keys of domains
  TransportIds, \* primary keys of transports
  RelayNames,   \* names and patterns
  Unset         \* no row, no name, no transport

ASSUME RelayAssumption == Unset \notin RelayRows \cup TransportIds \cup RelayNames

VARIABLES
  relay,     \* the domains: name, type, transport
  transport, \* the transports: pattern, relay_verify_recipients
  access,    \* RecipientAccess: the patterns with a row
  left,      \* history: patterns whose rows a request has left behind
  astray     \* history: relay domains that a request has left without transport

rdVars == <<relay, transport, access, left, astray>>

NoDomain == [name |-> Unset, type |-> "domain", transport |-> Unset]
NoTransport == [pattern |-> Unset, verify |-> FALSE]

RDInit ==
  /\ relay = [d \in RelayRows |-> NoDomain]
  /\ transport = [t \in TransportIds |-> NoTransport]
  /\ access = {} /\ left = {} /\ astray = {}

Exists(d) == relay[d].name # Unset
With(n) == {t \in TransportIds : transport[t].pattern = n}
FreeName(n) == \A d \in RelayRows : relay[d].name # n

-----------------------------------------------------------------------------
(* update_recipient_access, when a transport for n is saved.                *)
Access(n, verify) == IF verify THEN access \cup {n} ELSE access \ {n}

(* Mutant: whatever the domain has become.                                  *)
CleanedAll(n, type) == With(n)

(* clean_domain, when a domain n is saved that was there before: the        *)
(* transports that are deleted.                                             *)
Cleaned(n, type) == IF type = "relaydomain" THEN {} ELSE With(n)

(* delete_recipient_access                                                  *)
AccessWithout(ts) == access \ {transport[t].pattern : t \in ts}

Remaining(ts) == [t \in TransportIds |-> IF t \in ts THEN NoTransport ELSE transport[t]]

(* on_delete=SET_NULL                                                       *)
Unlinked(ts, table) ==
  [d \in RelayRows |->
     IF table[d].transport \in ts THEN [table[d] EXCEPT !.transport = Unset] ELSE table[d]]

(* A local domain, or through version 1 of the API a relay domain without   *)
(* transport.                                                               *)
Create(d, n, type) ==
  /\ ~Exists(d) /\ FreeName(n)
  /\ relay' = [relay EXCEPT ![d] = [name |-> n, type |-> type, transport |-> Unset]]
  /\ astray' = IF type = "relaydomain" THEN astray \cup {d} ELSE astray
  /\ UNCHANGED <<transport, access, left>>

(* The API, versions 1 and 2.                                               *)
CreateRelay(d, n, t, verify) ==
  /\ ~Exists(d) /\ FreeName(n)
  /\ With(n) = {} /\ transport[t] = NoTransport
  /\ relay' = [relay EXCEPT ![d] = [name |-> n, type |-> "relaydomain", transport |-> t]]
  /\ transport' = [transport EXCEPT ![t] = [pattern |-> n, verify |-> verify]]
  /\ access' = Access(n, verify)
  /\ left' = left \ {n}
  /\ UNCHANGED astray

(* import_relaydomain does not link the two.                                *)
ImportRelay(d, n, t, verify) ==
  /\ ~Exists(d) /\ FreeName(n)
  /\ With(n) = {} /\ transport[t] = NoTransport
  /\ relay' = [relay EXCEPT ![d] = [name |-> n, type |-> "relaydomain", transport |-> Unset]]
  /\ transport' = [transport EXCEPT ![t] = [pattern |-> n, verify |-> verify]]
  /\ access' = Access(n, verify)
  /\ left' = left \ {n}
  /\ UNCHANGED astray

(* What d leaves behind when it is called n from now on.                    *)
LeftBehind(d, n) ==
  IF relay[d].name # n /\ (With(relay[d].name) # {} \/ relay[d].name \in access)
    THEN {relay[d].name} ELSE {}

(* A new name or type and no transport: any PATCH, and version 1.           *)
UpdateOnly(d, n, type) ==
  LET gone == Cleaned(n, type) IN
  /\ Exists(d) /\ (FreeName(n) \/ relay[d].name = n)
  /\ relay' = Unlinked(gone,
       [relay EXCEPT ![d] = [name |-> n, type |-> type, transport |-> @.transport]])
  /\ transport' = Remaining(gone)
  /\ access' = AccessWithout(gone)
  /\ left' = IF gone = {} THEN left \cup LeftBehind(d, n)
             ELSE (left \cup LeftBehind(d, n)) \ {n}
  /\ astray' = IF type = "domain" THEN astray \ {d}
               ELSE IF relay[d].type = "domain" \/ relay[d].name # n THEN astray \cup {d}
               ELSE astray

(* Version 2, with a transport: that of the domain gets the new pattern, or *)
(* a new one is created; an imported domain has one that is not linked.     *)
UpdateRelay(d, n, t, verify) ==
  /\ Exists(d) /\ (FreeName(n) \/ relay[d].name = n)
  /\ IF relay[d].transport = Unset THEN transport[t] = NoTransport ELSE t = relay[d].transport
  /\ With(n) \subseteq {t}
  /\ relay' = [relay EXCEPT ![d] = [name |-> n, type |-> "relaydomain", transport |-> t]]
  /\ transport' = [transport EXCEPT ![t] = [pattern |-> n, verify |-> verify]]
  /\ access' = Access(n, verify)
  /\ left' = (left \cup LeftBehind(d, n)) \ {n}
  /\ astray' = astray \ {d}

(* delete_transport                                                         *)
DeletedWith(n) == With(n)

Delete(d) ==
  /\ Exists(d)
  /\ LET n == relay[d].name  gone == DeletedWith(n) IN
       /\ relay' = [Unlinked(gone, relay) EXCEPT ![d] = NoDomain]
       /\ transport' = Remaining(gone)
       /\ access' = AccessWithout(gone)
       /\ left' = IF gone # {} THEN left \ {n} ELSE left
  /\ astray' = astray \ {d}

-----------------------------------------------------------------------------
Types == {"domain", "relaydomain"}

RDNext ==
  \E d \in RelayRows :
    \/ Delete(d)
    \/ \E n \in RelayNames, type \in Types : Create(d, n, type) \/ UpdateOnly(d, n, type)
    \/ \E n \in RelayNames, t \in TransportIds, verify \in BOOLEAN :
         CreateRelay(d, n, t, verify) \/ ImportRelay(d, n, t, verify) \/ UpdateRelay(d, n, t, verify)

RDSpec == RDInit /\ [][RDNext]_rdVars

-----------------------------------------------------------------------------
(* Properties *)

RDTypeOK ==
  /\ relay \in [RelayRows -> [name : RelayNames \cup {Unset}, type : Types,
                              transport : TransportIds \cup {Unset}]]
  /\ transport \in [TransportIds -> [pattern : RelayNames \cup {Unset}, verify : BOOLEAN]]
  /\ access \subseteq RelayNames /\ left \subseteq RelayNames /\ astray \subseteq RelayRows
  /\ \A d \in RelayRows : Exists(d) \/ relay[d] = NoDomain
  /\ \A t, u \in TransportIds :
       transport[t].pattern # Unset /\ transport[t].pattern = transport[u].pattern => t = u
  /\ \A d \in RelayRows :
       relay[d].transport # Unset => transport[relay[d].transport].pattern # Unset

(* Postfix finds the transport of every relay domain, unless the domain was *)
(* made one, or renamed, by a request without a transport.                  *)
RelayHasRoute ==
  \A d \in RelayRows \ astray :
    relay[d].type = "relaydomain" => With(relay[d].name) # {}

(* No mail of a local domain, and none of a domain that is gone, is sent    *)
(* elsewhere, unless a renamed domain has left its transport there.         *)
OnlyRelaysRouted ==
  \A t \in TransportIds :
    transport[t].pattern \notin left \cup {Unset} =>
      \E d \in RelayRows : relay[d].name = transport[t].pattern /\ relay[d].type = "relaydomain"

(* Recipients are verified for the domains that want it.                    *)
VerifiedAsWanted ==
  \A n \in RelayNames \ left :
    n \in access <=> \E t \in With(n) : transport[t].verify

NamesUnique ==
  \A d, e \in RelayRows : Exists(d) /\ relay[d].name = relay[e].name => d = e

(* A domain's transport is its own, and has its name unless it was left     *)
(* behind; one that was left behind routes a relay domain of that name by   *)
(* accident only, until its owner takes it away.                            *)
LinksFollow ==
  \A d \in RelayRows :
    LET t == relay[d].transport IN
    t # Unset =>
      /\ transport[t].pattern \in {relay[d].name} \cup left
      /\ \A e \in RelayRows \ {d} :
           /\ relay[e].transport # t
           /\ relay[e].type = "relaydomain" /\ relay[e].name = transport[t].pattern
                => e \in astray

(* The tables stay in step: what TLAPS proves to be inductive.              *)
TransportsFollow ==
  /\ RDTypeOK /\ NamesUnique /\ LinksFollow
  /\ RelayHasRoute /\ OnlyRelaysRouted /\ VerifiedAsWanted

(* A renamed relay domain takes its transport along.                        *)
(* Not what the code does: README.md, Known deviations.                     *)
NothingLeft == left = {}
=============================================================================
