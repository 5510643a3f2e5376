--------------------------- MODULE DirectoryProofs ---------------------------
(* Proofs about what follows the names of domains and calendars, each part   *)
(* on its own and for any number of rows and names: the transports of relay  *)
(* domains, which the code joins by name only; amavis's users and policies,  *)
(* which no foreign key connects and whatever names their first 32           *)
(* characters do not tell apart; the rights file of Radicale; the events of  *)
(* calendars; forwards; and identities, whose recipients, self aliases and   *)
(* quotas follow the address of a mailbox.  One lemma per request, receiver  *)
(* or command.                                                               *)
EXTENDS MCDirectory, FiniteSetTheorems, TLAPS

-----------------------------------------------------------------------------
(* Relay domains *)

(* The transports found by a name, after a request.                         *)
LEMMA WithMembers ==
  ASSUME NEW n, NEW t
  PROVE  t \in With(n) <=> t \in TransportIds /\ transport[t].pattern = n
BY DEF With

Table == [RelayRows -> [name : RelayNames \cup {Unset}, type : Types,
                        transport : TransportIds \cup {Unset}]]

(* Taking links away leaves a table of rows.                                 *)
LEMMA UnlinkedType ==
  ASSUME NEW table \in Table, NEW ts
  PROVE  Unlinked(ts, table) \in Table
BY DEF Table, Unlinked

(* No relay domain exists yet, nor a transport.                              *)
LEMMA RelaysInitially ==
  ASSUME RDInit
  PROVE  TransportsFollow
<1> USE RelayAssumption DEF RDInit, NoDomain, NoTransport
<1>1. RDTypeOK
  BY DEF RDTypeOK, Types, With
<1>2. NamesUnique /\ LinksFollow
  BY DEF NamesUnique, LinksFollow, Exists
<1>3. RelayHasRoute /\ OnlyRelaysRouted /\ VerifiedAsWanted
  BY DEF RelayHasRoute, OnlyRelaysRouted, VerifiedAsWanted, With
<1> QED BY <1>1, <1>2, <1>3 DEF TransportsFollow

(* A domain is created without transport: it is the relay domain of its     *)
(* name at most by accident, and that is written down in astray.            *)
LEMMA CreateLocalStep ==
  ASSUME TransportsFollow, NEW d \in RelayRows, NEW n \in RelayNames, NEW type \in Types,
         Create(d, n, type)
  PROVE  TransportsFollow'
<1> USE RelayAssumption DEF TransportsFollow
<1>1. /\ relay[d].name = Unset
      /\ \A e \in RelayRows : relay[e].name # n
      /\ relay'[d] = [name |-> n, type |-> type, transport |-> Unset]
      /\ \A e \in RelayRows \ {d} : relay'[e] = relay[e]
      /\ transport' = transport /\ access' = access /\ left' = left
      /\ astray \subseteq astray' /\ astray' \subseteq astray \cup {d}
      /\ type = "relaydomain" => d \in astray'
  BY DEF Create, Exists, FreeName, RDTypeOK
<1>2. RDTypeOK'
  <2>1. relay' \in Table
    BY DEF RDTypeOK, Create, Table
  <2>2. \A e \in RelayRows : relay'[e].name # Unset \/ relay'[e] = NoDomain
    BY <1>1 DEF RDTypeOK, Exists
  <2> QED BY <1>1, <2>1, <2>2 DEF RDTypeOK, Exists, Table
<1>3. NamesUnique'
  BY <1>1 DEF NamesUnique, Exists
<1>4. LinksFollow'
  BY <1>1 DEF LinksFollow, RDTypeOK, Types
<1>5. RelayHasRoute' /\ OnlyRelaysRouted' /\ VerifiedAsWanted'
  BY <1>1 DEF RelayHasRoute, OnlyRelaysRouted, VerifiedAsWanted, With, RDTypeOK, Types
<1> QED BY <1>2, <1>3, <1>4, <1>5
(* A relay domain is created or imported with a transport that has been     *)
(* nobody's: no transport had the name, so no other domain is concerned.    *)
LEMMA CreateRelayStep ==
  ASSUME TransportsFollow, NEW d \in RelayRows, NEW n \in RelayNames,
         NEW t \in TransportIds, NEW verify \in BOOLEAN,
         CreateRelay(d, n, t, verify) \/ ImportRelay(d, n, t, verify)
  PROVE  TransportsFollow'
<1> USE RelayAssumption DEF TransportsFollow
<1>1. /\ relay[d].name = Unset
      /\ \A e \in RelayRows : relay[e].name # n
      /\ relay'[d].name = n /\ relay'[d].type = "relaydomain"
      /\ relay'[d].transport \in {t, Unset}
      /\ \A e \in RelayRows \ {d} : relay'[e] = relay[e]
      /\ transport[t] = NoTransport
      /\ transport'[t] = [pattern |-> n, verify |-> verify]
      /\ \A u \in TransportIds \ {t} : transport'[u] = transport[u]
      /\ access' = Access(n, verify) /\ left' = left \ {n} /\ astray' = astray
  BY DEF CreateRelay, ImportRelay, Exists, FreeName, RDTypeOK
<1>2. \A u \in TransportIds : transport[u].pattern # n
  BY DEF CreateRelay, ImportRelay, With
<1>3. \A e \in RelayRows : relay[e].transport # t
  BY <1>1 DEF RDTypeOK, NoTransport
<1>4. RDTypeOK'
  <2>1. relay' \in Table
    <3>1. CASE CreateRelay(d, n, t, verify)
      BY <3>1 DEF RDTypeOK, Types, CreateRelay, Table
    <3>2. CASE ImportRelay(d, n, t, verify)
      BY <3>2 DEF RDTypeOK, Types, ImportRelay, Table
    <3> QED BY <3>1, <3>2
  <2>2. /\ transport' \in [TransportIds -> [pattern : RelayNames \cup {Unset}, verify : BOOLEAN]]
        /\ access' \subseteq RelayNames /\ left' \subseteq RelayNames /\ astray' \subseteq RelayRows
    BY <1>1 DEF RDTypeOK, CreateRelay, ImportRelay, Access
  <2>3. \A u, v \in TransportIds :
          transport'[u].pattern # Unset /\ transport'[u].pattern = transport'[v].pattern => u = v
    BY <1>1, <1>2 DEF RDTypeOK, With, NoTransport
  <2>4. \A e \in RelayRows :
          relay'[e].transport # Unset => transport'[relay'[e].transport].pattern # Unset
    BY <1>1, <1>3 DEF RDTypeOK
  <2>5. \A e \in RelayRows : relay'[e].name # Unset \/ relay'[e] = NoDomain
    BY <1>1 DEF RDTypeOK, Exists
  <2> QED BY <2>1, <2>2, <2>3, <2>4, <2>5 DEF RDTypeOK, Exists, Table
<1>5. NamesUnique'
  BY <1>1 DEF NamesUnique, Exists
<1>6. LinksFollow'
  <2> SUFFICES ASSUME NEW e \in RelayRows, relay'[e].transport # Unset
               PROVE  LET u == relay'[e].transport IN
                      /\ transport'[u].pattern \in {relay'[e].name} \cup left'
                      /\ \A f \in RelayRows \ {e} :
                           /\ relay'[f].transport # u
                           /\ relay'[f].type = "relaydomain"
                              /\ relay'[f].name = transport'[u].pattern
                                => f \in astray'
    BY DEF LinksFollow
  <2>1. CASE e = d
    BY <1>1, <1>3, <2>1
  <2>2. CASE e # d
    <3> DEFINE u == relay[e].transport
    <3>1. u \in TransportIds \ {t} /\ relay'[e] = relay[e] /\ transport'[u] = transport[u]
      BY <1>1, <1>3, <2>2 DEF RDTypeOK
    <3>2. transport[u].pattern \in {relay[e].name} \cup left'
      BY <1>1, <1>2, <3>1 DEF LinksFollow
    <3>3. ASSUME NEW f \in RelayRows \ {e}
          PROVE  /\ relay'[f].transport # u
                 /\ relay'[f].type = "relaydomain" /\ relay'[f].name = transport[u].pattern
                      => f \in astray
      <4>1. CASE f = d
        BY <1>1, <1>2, <2>2, <3>1, <4>1
      <4>2. CASE f # d
        BY <1>1, <2>2, <3>1, <4>2 DEF LinksFollow
      <4> QED BY <4>1, <4>2
    <3> QED BY <1>1, <3>1, <3>2, <3>3
  <2> QED BY <2>1, <2>2
<1>7. RelayHasRoute' /\ OnlyRelaysRouted'
  <2>1. RelayHasRoute'
    <3> SUFFICES ASSUME NEW e \in RelayRows \ astray', relay'[e].type = "relaydomain"
                 PROVE  \E u \in TransportIds : transport'[u].pattern = relay'[e].name
      BY DEF RelayHasRoute, With
    <3>1. CASE e = d
      BY <1>1, <3>1
    <3>2. CASE e # d
      <4>1. relay[e].name # Unset
        BY <1>1, <3>2 DEF RDTypeOK, Exists, NoDomain
      <4>2. PICK u \in TransportIds : transport[u].pattern = relay[e].name
        BY <1>1, <3>2 DEF RelayHasRoute, With
      <4> QED BY <1>1, <3>2, <4>1, <4>2 DEF NoTransport
    <3> QED BY <3>1, <3>2
  <2>2. OnlyRelaysRouted'
    <3> SUFFICES ASSUME NEW u \in TransportIds, transport'[u].pattern \notin left' \cup {Unset}
                 PROVE  \E e \in RelayRows : /\ relay'[e].name = transport'[u].pattern
                                             /\ relay'[e].type = "relaydomain"
      BY DEF OnlyRelaysRouted
    <3>1. CASE u = t
      BY <1>1, <3>1
    <3>2. CASE u # t
      <4>1. PICK e \in RelayRows :
             relay[e].name = transport[u].pattern /\ relay[e].type = "relaydomain"
        BY <1>1, <1>2, <3>2 DEF OnlyRelaysRouted
      <4> QED BY <1>1, <3>2, <4>1
    <3> QED BY <3>1, <3>2
  <2> QED BY <2>1, <2>2
<1>8. VerifiedAsWanted'
  BY <1>1, <1>2 DEF VerifiedAsWanted, With, Access, RDTypeOK, NoTransport
<1> QED BY <1>4, <1>5, <1>6, <1>7, <1>8

(* A domain gets another name or type.  What had the old name is left       *)
(* behind; what had the new one goes, if the domain is local from now on.   *)
LEMMA UpdateOnlyStep ==
  ASSUME TransportsFollow, NEW d \in RelayRows, NEW n \in RelayNames, NEW type \in Types,
         UpdateOnly(d, n, type)
  PROVE  TransportsFollow'
<1> USE RelayAssumption DEF TransportsFollow
<1> DEFINE gone == Cleaned(n, type)
<1>1. /\ relay[d].name # Unset /\ relay[d].name \in RelayNames
      /\ \A e \in RelayRows \ {d} : relay[e].name # n
  BY DEF UpdateOnly, Exists, FreeName, NamesUnique, RDTypeOK
<1>2. /\ gone \subseteq TransportIds
      /\ \A u \in gone : transport[u].pattern = n
      /\ type = "domain" => \A u \in TransportIds \ gone : transport[u].pattern # n
      /\ type = "relaydomain" => gone = {}
  BY DEF Cleaned, With, Types
<1>3. /\ relay'[d].name = n /\ relay'[d].type = type
      /\ \A e \in RelayRows \ {d} : relay'[e].name = relay[e].name /\ relay'[e].type = relay[e].type
      /\ \A e \in RelayRows :
           relay'[e].transport = IF relay[e].transport \in gone THEN Unset ELSE relay[e].transport
  BY DEF UpdateOnly, Unlinked, RDTypeOK
<1>4. \A u \in TransportIds : transport'[u] = IF u \in gone THEN NoTransport ELSE transport[u]
  BY DEF UpdateOnly, Remaining
<1>5. /\ left' \subseteq left \cup LeftBehind(d, n)
      /\ (left \cup LeftBehind(d, n)) \ left' \subseteq {n}
      /\ gone = {} => left' = left \cup LeftBehind(d, n)
      /\ astray \ {d} \subseteq astray' /\ astray' \subseteq astray \cup {d}
      /\ d \notin astray' /\ type = "relaydomain" =>
           d \notin astray /\ relay[d].type = "relaydomain" /\ relay[d].name = n
  BY DEF UpdateOnly, RDTypeOK, Types
<1>6. RDTypeOK'
  <2>1. relay' \in Table
    <3> DEFINE table ==
          [relay EXCEPT ![d] = [name |-> n, type |-> type, transport |-> @.transport]]
    <3>1. table \in Table
      BY DEF RDTypeOK, Table
    <3>2. relay' = Unlinked(gone, table)
      BY DEF UpdateOnly
    <3> HIDE DEF table
    <3> QED BY <3>1, <3>2, UnlinkedType
  <2>2. /\ transport' \in [TransportIds -> [pattern : RelayNames \cup {Unset}, verify : BOOLEAN]]
        /\ access' \subseteq RelayNames
    BY DEF RDTypeOK, UpdateOnly, Remaining, NoTransport, AccessWithout
  <2>3. left' \subseteq RelayNames /\ astray' \subseteq RelayRows
    BY <1>1, <1>5 DEF RDTypeOK, LeftBehind
  <2>4. \A u, v \in TransportIds :
          transport'[u].pattern # Unset /\ transport'[u].pattern = transport'[v].pattern => u = v
    BY <1>4 DEF RDTypeOK, With, NoTransport
  <2>5. \A e \in RelayRows :
          relay'[e].transport # Unset => transport'[relay'[e].transport].pattern # Unset
    BY <1>3, <1>4 DEF RDTypeOK
  <2>6. \A e \in RelayRows : relay'[e].name # Unset \/ relay'[e] = NoDomain
    <3>1. \A e \in RelayRows \ {d} : relay[e] = NoDomain => relay'[e] = NoDomain
      BY <2>1, <1>3 DEF NoDomain, Table, RDTypeOK
    <3> QED BY <1>1, <1>3, <3>1 DEF RDTypeOK, Exists
  <2> QED BY <2>1, <2>2, <2>3, <2>4, <2>5, <2>6 DEF RDTypeOK, Exists, Table
<1>7. NamesUnique'
  BY <1>1, <1>3 DEF NamesUnique, Exists
<1>8. LinksFollow'
  <2> SUFFICES ASSUME NEW e \in RelayRows, relay'[e].transport # Unset
               PROVE  LET t == relay'[e].transport IN
                      /\ transport'[t].pattern \in {relay'[e].name} \cup left'
                      /\ \A f \in RelayRows \ {e} :
                           /\ relay'[f].transport # t
                           /\ relay'[f].type = "relaydomain"
                              /\ relay'[f].name = transport'[t].pattern
                                => f \in astray'
    BY DEF LinksFollow
  <2> DEFINE t == relay[e].transport
  <2>1. /\ relay'[e].transport = t /\ t \notin gone /\ t \in TransportIds
        /\ transport'[t] = transport[t]
    BY <1>3, <1>4 DEF RDTypeOK
  <2>2. transport'[t].pattern \in {relay'[e].name} \cup left'
    <3>1. transport[t].pattern \in {relay[e].name} \cup left
      BY <2>1 DEF LinksFollow
    <3>2. CASE gone # {}
      <4>1. transport[t].pattern # n
        BY <1>2, <2>1, <3>2 DEF Types
      <4> QED BY <1>3, <1>5, <2>1, <3>1, <4>1 DEF LeftBehind, With
    <3>3. CASE gone = {}
      BY <1>3, <1>5, <2>1, <3>1, <3>3 DEF LeftBehind, With
    <3> QED BY <3>2, <3>3
  <2>3. ASSUME NEW f \in RelayRows \ {e}
        PROVE  /\ relay'[f].transport # t
               /\ relay'[f].type = "relaydomain"
                  /\ relay'[f].name = transport'[t].pattern
                    => f \in astray'
    <3>1. relay[f].transport # t /\ t # Unset
      BY <2>1 DEF LinksFollow
    <3>2. relay'[f].transport # t
      BY <1>3, <3>1
    <3>3. ASSUME relay'[f].type = "relaydomain", relay'[f].name = transport[t].pattern
          PROVE  f \in astray'
      BY <1>3, <1>5, <2>1, <3>1, <3>3 DEF LinksFollow
    <3> QED BY <2>1, <3>2, <3>3
  <2> QED BY <2>1, <2>2, <2>3
<1>9. RelayHasRoute'
  BY <1>1, <1>2, <1>3, <1>4, <1>5 DEF RelayHasRoute, With, Types
<1>10. OnlyRelaysRouted'
  <2> SUFFICES ASSUME NEW u \in TransportIds, transport'[u].pattern \notin left' \cup {Unset}
               PROVE  \E e \in RelayRows : /\ relay'[e].name = transport'[u].pattern
                                           /\ relay'[e].type = "relaydomain"
    BY DEF OnlyRelaysRouted
  <2>1. u \notin gone /\ transport'[u] = transport[u]
    BY <1>4 DEF NoTransport
  <2>2. transport[u].pattern \notin left \cup LeftBehind(d, n)
    BY <1>2, <1>5, <2>1 DEF Types
  <2>3. PICK e \in RelayRows :
             relay[e].name = transport[u].pattern /\ relay[e].type = "relaydomain"
    BY <2>1, <2>2 DEF OnlyRelaysRouted
  <2>4. CASE e = d
    BY <1>2, <1>3, <2>1, <2>2, <2>3, <2>4 DEF LeftBehind, With, Types
  <2> QED BY <1>3, <2>1, <2>3, <2>4
<1>11. VerifiedAsWanted'
  <2> SUFFICES ASSUME NEW m \in RelayNames \ left'
               PROVE  m \in access' <=> \E u \in With(m)' : transport'[u].verify
    BY DEF VerifiedAsWanted
  <2>1. access' = AccessWithout(gone)
    BY DEF UpdateOnly
  <2>2. CASE m = n /\ gone # {}
    BY <1>2, <1>4, <2>1, <2>2 DEF AccessWithout, With, NoTransport, Types
  <2>3. CASE m # n \/ gone = {}
    <3>1. m \notin left
      BY <1>5, <2>3
    <3>2. With(m)' = With(m) /\ \A u \in With(m) : transport'[u] = transport[u]
      BY <1>2, <1>4, <2>3 DEF With, NoTransport
    <3>3. m \in access' <=> m \in access
      BY <1>2, <2>1, <2>3 DEF AccessWithout
    <3> QED BY <3>1, <3>2, <3>3 DEF VerifiedAsWanted
  <2> QED BY <2>2, <2>3
<1> QED BY <1>6, <1>7, <1>8, <1>9, <1>10, <1>11
(* Version 2 with a transport: the domain's own is taken along, or it gets  *)
(* one that has been nobody's.                                              *)
LEMMA UpdateRelayStep ==
  ASSUME TransportsFollow, NEW d \in RelayRows, NEW n \in RelayNames,
         NEW t \in TransportIds, NEW verify \in BOOLEAN,
         UpdateRelay(d, n, t, verify)
  PROVE  TransportsFollow'
<1> USE RelayAssumption DEF TransportsFollow
<1> DEFINE old == transport[t].pattern
<1>1. /\ relay[d].name # Unset /\ relay[d].name \in RelayNames
      /\ \A e \in RelayRows \ {d} : relay[e].name # n
  BY DEF UpdateRelay, Exists, FreeName, NamesUnique, RDTypeOK
<1>2. /\ relay'[d] = [name |-> n, type |-> "relaydomain", transport |-> t]
      /\ \A e \in RelayRows \ {d} : relay'[e] = relay[e]
      /\ transport'[t] = [pattern |-> n, verify |-> verify]
      /\ \A u \in TransportIds \ {t} : transport'[u] = transport[u]
      /\ access' = Access(n, verify)
      /\ left' = (left \cup LeftBehind(d, n)) \ {n}
      /\ astray' = astray \ {d}
  BY DEF UpdateRelay, RDTypeOK
<1>3. \A u \in TransportIds \ {t} : transport[u].pattern # n
  BY DEF UpdateRelay, With
<1>4. \A e \in RelayRows \ {d} : relay[e].transport # t
  BY DEF UpdateRelay, RDTypeOK, NoTransport, LinksFollow
<1>5. old # n => old \in left' \cup {Unset}
  <2>1. CASE relay[d].transport = Unset
    BY <2>1 DEF UpdateRelay, NoTransport
  <2>2. CASE relay[d].transport = t /\ t # Unset
    BY <1>2, <2>2 DEF LinksFollow, LeftBehind, With
  <2> QED BY <2>1, <2>2 DEF UpdateRelay
<1>6. RDTypeOK'
  <2>1. relay' \in Table
    BY DEF RDTypeOK, Types, UpdateRelay, Table
  <2>2. /\ transport' \in [TransportIds -> [pattern : RelayNames \cup {Unset}, verify : BOOLEAN]]
        /\ access' \subseteq RelayNames /\ left' \subseteq RelayNames /\ astray' \subseteq RelayRows
    BY <1>1, <1>2 DEF RDTypeOK, UpdateRelay, Access, LeftBehind
  <2>3. \A u, v \in TransportIds :
          transport'[u].pattern # Unset /\ transport'[u].pattern = transport'[v].pattern => u = v
    BY <1>2, <1>3 DEF RDTypeOK
  <2>4. \A e \in RelayRows :
          relay'[e].transport # Unset => transport'[relay'[e].transport].pattern # Unset
    BY <1>2, <1>4 DEF RDTypeOK
  <2>5. \A e \in RelayRows : relay'[e].name # Unset \/ relay'[e] = NoDomain
    BY <1>2 DEF RDTypeOK, Exists
  <2> QED BY <2>1, <2>2, <2>3, <2>4, <2>5 DEF RDTypeOK, Exists, Table
<1>7. NamesUnique'
  BY <1>1, <1>2 DEF NamesUnique, Exists
<1>8. LinksFollow'
  <2> SUFFICES ASSUME NEW e \in RelayRows, relay'[e].transport # Unset
               PROVE  LET u == relay'[e].transport IN
                      /\ transport'[u].pattern \in {relay'[e].name} \cup left'
                      /\ \A f \in RelayRows \ {e} :
                           /\ relay'[f].transport # u
                           /\ relay'[f].type = "relaydomain"
                              /\ relay'[f].name = transport'[u].pattern
                                => f \in astray'
    BY DEF LinksFollow
  <2>1. CASE e = d
    BY <1>1, <1>2, <1>4, <2>1
  <2>2. CASE e # d
    <3> DEFINE u == relay[e].transport
    <3>1. u \in TransportIds \ {t} /\ relay'[e] = relay[e] /\ transport'[u] = transport[u]
      BY <1>2, <1>4, <2>2 DEF RDTypeOK
    <3>2. transport[u].pattern \in {relay[e].name} \cup left'
      BY <1>2, <1>3, <3>1 DEF LinksFollow
    <3>3. ASSUME NEW f \in RelayRows \ {e}
          PROVE  /\ relay'[f].transport # u
                 /\ relay'[f].type = "relaydomain" /\ relay'[f].name = transport[u].pattern
                      => f \in astray'
      <4>1. CASE f = d
        BY <1>2, <1>3, <2>2, <3>1, <4>1
      <4>2. CASE f # d
        BY <1>2, <2>2, <3>1, <4>2 DEF LinksFollow
      <4> QED BY <4>1, <4>2
    <3> QED BY <3>1, <3>2, <3>3
  <2> QED BY <2>1, <2>2
<1>9. RelayHasRoute'
  <2> SUFFICES ASSUME NEW e \in RelayRows \ astray', relay'[e].type = "relaydomain"
               PROVE  \E u \in TransportIds : transport'[u].pattern = relay'[e].name
    BY DEF RelayHasRoute, With
  <2>1. CASE e = d
    BY <1>2, <2>1
  <2>2. CASE e # d
    <3>1. relay'[e] = relay[e] /\ relay[e].name # Unset /\ e \notin astray
      BY <1>2, <2>2 DEF RDTypeOK, Exists, NoDomain
    <3>2. PICK u \in TransportIds : transport[u].pattern = relay[e].name
      BY <3>1 DEF RelayHasRoute, With
    <3>3. u # t
      BY <2>2, <3>1, <3>2 DEF UpdateRelay, NoTransport, LinksFollow
    <3> QED BY <1>2, <3>1, <3>2, <3>3
  <2> QED BY <2>1, <2>2
<1>10. OnlyRelaysRouted'
  <2> SUFFICES ASSUME NEW u \in TransportIds, transport'[u].pattern \notin left' \cup {Unset}
               PROVE  \E e \in RelayRows : /\ relay'[e].name = transport'[u].pattern
                                           /\ relay'[e].type = "relaydomain"
    BY DEF OnlyRelaysRouted
  <2>1. CASE u = t
    BY <1>2, <2>1
  <2>2. CASE u # t
    <3>1. transport[u].pattern \notin left \cup LeftBehind(d, n) \cup {Unset}
      BY <1>2, <1>3, <2>2
    <3>2. PICK e \in RelayRows :
             relay[e].name = transport[u].pattern /\ relay[e].type = "relaydomain"
      BY <3>1 DEF OnlyRelaysRouted
    <3>3. e # d
      BY <1>3, <2>2, <3>1, <3>2 DEF LeftBehind, With
    <3> QED BY <1>2, <2>2, <3>2, <3>3
  <2> QED BY <2>1, <2>2
<1>11. VerifiedAsWanted'
  <2> SUFFICES ASSUME NEW m \in RelayNames \ left'
               PROVE  m \in access' <=> \E u \in TransportIds :
                                           transport'[u].pattern = m /\ transport'[u].verify
    BY DEF VerifiedAsWanted, With
  <2>1. CASE m = n
    BY <1>2, <1>3, <2>1 DEF Access
  <2>2. CASE m # n
    <3>1. m \notin left /\ old # m
      BY <1>2, <1>5, <2>2
    <3>2. m \in access' <=> m \in access
      BY <1>2, <2>2 DEF Access
    <3>3. \A u \in TransportIds :
            transport'[u].pattern = m /\ transport'[u].verify
              <=> transport[u].pattern = m /\ transport[u].verify
      BY <1>2, <2>2, <3>1
    <3> QED BY <3>1, <3>2, <3>3 DEF VerifiedAsWanted, With
  <2> QED BY <2>1, <2>2
<1> QED BY <1>6, <1>7, <1>8, <1>9, <1>10, <1>11

(* A domain is deleted, and the transport of its name.                      *)
LEMMA DeleteRelayStep ==
  ASSUME TransportsFollow, NEW d \in RelayRows, Delete(d)
  PROVE  TransportsFollow'
<1> USE RelayAssumption DEF TransportsFollow
<1> DEFINE n == relay[d].name
           gone == DeletedWith(n)
<1>1. /\ n # Unset /\ n \in RelayNames
      /\ \A e \in RelayRows \ {d} : relay[e].name # n
  BY DEF Delete, Exists, NamesUnique, RDTypeOK
<1>2. /\ gone \subseteq TransportIds
      /\ \A u \in TransportIds : u \in gone <=> transport[u].pattern = n
  BY DEF DeletedWith, With
<1>3. /\ relay'[d] = NoDomain
      /\ \A e \in RelayRows \ {d} :
           /\ relay'[e].name = relay[e].name /\ relay'[e].type = relay[e].type
           /\ relay'[e].transport = IF relay[e].transport \in gone
                                   THEN Unset ELSE relay[e].transport
  BY DEF Delete, Unlinked, RDTypeOK
<1>4. \A u \in TransportIds : transport'[u] = IF u \in gone THEN NoTransport ELSE transport[u]
  BY DEF Delete, Remaining
<1>5. /\ access' = AccessWithout(gone) /\ astray' = astray \ {d}
      /\ left' = IF gone # {} THEN left \ {n} ELSE left
  BY DEF Delete
<1>6. RDTypeOK'
  <2>1. relay' \in Table
    <3>1. Unlinked(gone, relay) \in Table
      BY UnlinkedType DEF RDTypeOK, Table
    <3>2. relay' = [Unlinked(gone, relay) EXCEPT ![d] = NoDomain]
      BY DEF Delete
    <3>3. NoDomain \in [name : RelayNames \cup {Unset}, type : Types,
                        transport : TransportIds \cup {Unset}]
      BY DEF NoDomain, Types
    <3> QED BY <3>1, <3>2, <3>3 DEF Table
  <2>2. /\ transport' \in [TransportIds -> [pattern : RelayNames \cup {Unset}, verify : BOOLEAN]]
        /\ access' \subseteq RelayNames /\ left' \subseteq RelayNames /\ astray' \subseteq RelayRows
    BY <1>5 DEF RDTypeOK, Delete, Remaining, NoTransport, AccessWithout
  <2>3. \A u, v \in TransportIds :
          transport'[u].pattern # Unset /\ transport'[u].pattern = transport'[v].pattern => u = v
    BY <1>4 DEF RDTypeOK, NoTransport
  <2>4. \A e \in RelayRows :
          relay'[e].transport # Unset => transport'[relay'[e].transport].pattern # Unset
    BY <1>3, <1>4 DEF RDTypeOK, NoDomain
  <2>5. \A e \in RelayRows : relay'[e].name # Unset \/ relay'[e] = NoDomain
    <3>1. \A e \in RelayRows \ {d} : relay[e] = NoDomain => relay'[e] = NoDomain
      BY <2>1, <1>2, <1>3 DEF NoDomain, Table, RDTypeOK
    <3> QED BY <1>3, <3>1 DEF RDTypeOK, Exists
  <2> QED BY <2>1, <2>2, <2>3, <2>4, <2>5 DEF RDTypeOK, Exists, Table
<1>7. NamesUnique'
  BY <1>1, <1>3 DEF NamesUnique, Exists, NoDomain
<1>8. LinksFollow'
  <2> SUFFICES ASSUME NEW e \in RelayRows, relay'[e].transport # Unset
               PROVE  LET t == relay'[e].transport IN
                      /\ transport'[t].pattern \in {relay'[e].name} \cup left'
                      /\ \A f \in RelayRows \ {e} :
                           /\ relay'[f].transport # t
                           /\ relay'[f].type = "relaydomain"
                              /\ relay'[f].name = transport'[t].pattern
                                => f \in astray'
    BY DEF LinksFollow
  <2> DEFINE t == relay[e].transport
  <2>1. /\ e # d /\ relay'[e].transport = t /\ t \in TransportIds \ gone
        /\ transport'[t] = transport[t] /\ t # Unset
    BY <1>3, <1>4 DEF RDTypeOK, NoDomain
  <2>2. transport'[t].pattern \in {relay'[e].name} \cup left'
    BY <1>2, <1>3, <1>5, <2>1 DEF LinksFollow
  <2>3. ASSUME NEW f \in RelayRows \ {e}
        PROVE  /\ relay'[f].transport # t
               /\ relay'[f].type = "relaydomain"
                  /\ relay'[f].name = transport'[t].pattern
                    => f \in astray'
    <3>1. CASE f = d
      BY <1>3, <2>1, <3>1 DEF NoDomain
    <3>2. CASE f # d
      BY <1>3, <1>5, <2>1, <3>2 DEF LinksFollow
    <3> QED BY <3>1, <3>2
  <2> QED BY <2>1, <2>2, <2>3
<1>9. RelayHasRoute'
  <2> SUFFICES ASSUME NEW e \in RelayRows \ astray', relay'[e].type = "relaydomain"
               PROVE  \E u \in TransportIds : transport'[u].pattern = relay'[e].name
    BY DEF RelayHasRoute, With
  <2>1. /\ e # d /\ e \notin astray /\ relay[e].type = "relaydomain"
        /\ relay'[e].name = relay[e].name
    BY <1>3, <1>5 DEF NoDomain
  <2>2. PICK u \in TransportIds : transport[u].pattern = relay[e].name
    BY <2>1 DEF RelayHasRoute, With
  <2> QED BY <1>1, <1>2, <1>4, <2>1, <2>2
<1>10. OnlyRelaysRouted'
  <2> SUFFICES ASSUME NEW u \in TransportIds, transport'[u].pattern \notin left' \cup {Unset}
               PROVE  \E e \in RelayRows : /\ relay'[e].name = transport'[u].pattern
                                           /\ relay'[e].type = "relaydomain"
    BY DEF OnlyRelaysRouted
  <2>1. u \notin gone /\ transport'[u] = transport[u] /\ transport[u].pattern # n
    BY <1>2, <1>4 DEF NoTransport
  <2>2. PICK e \in RelayRows :
             relay[e].name = transport[u].pattern /\ relay[e].type = "relaydomain"
    BY <1>5, <2>1 DEF OnlyRelaysRouted
  <2> QED BY <1>3, <2>1, <2>2
<1>11. VerifiedAsWanted'
  <2> SUFFICES ASSUME NEW m \in RelayNames \ left'
               PROVE  m \in access' <=> \E u \in TransportIds :
                                           transport'[u].pattern = m /\ transport'[u].verify
    BY DEF VerifiedAsWanted, With
  <2>1. CASE m = n /\ gone # {}
    BY <1>1, <1>2, <1>4, <1>5, <2>1 DEF AccessWithout, NoTransport
  <2>2. CASE m # n \/ gone = {}
    <3>1. m \notin left
      BY <1>5, <2>2
    <3>2. m \in access' <=> m \in access
      BY <1>2, <1>5, <2>2 DEF AccessWithout
    <3>3. \A u \in TransportIds :
            transport'[u].pattern = m /\ transport'[u].verify
              <=> transport[u].pattern = m /\ transport[u].verify
      BY <1>2, <1>4, <2>2 DEF NoTransport
    <3> QED BY <3>1, <3>2, <3>3 DEF VerifiedAsWanted, With
  <2> QED BY <2>1, <2>2
<1> QED BY <1>6, <1>7, <1>8, <1>9, <1>10, <1>11

-----------------------------------------------------------------------------
(* The tables of domains, transports and recipient access stay in step.     *)
THEOREM TransportsAlwaysFollow == RDSpec => []TransportsFollow
<1>1. RDInit => TransportsFollow
  BY RelaysInitially
<1>2. TransportsFollow /\ [RDNext]_rdVars => TransportsFollow'
  <2> SUFFICES ASSUME TransportsFollow, [RDNext]_rdVars PROVE TransportsFollow'
    OBVIOUS
  <2>1. CASE UNCHANGED rdVars
    BY <2>1 DEF rdVars, TransportsFollow, RDTypeOK, NamesUnique, LinksFollow, RelayHasRoute,
                OnlyRelaysRouted, VerifiedAsWanted, Exists, With
  <2>2. CASE RDNext
    BY <2>2, CreateLocalStep, CreateRelayStep, UpdateOnlyStep, UpdateRelayStep,
         DeleteRelayStep DEF RDNext
  <2> QED BY <2>1, <2>2
<1> QED BY <1>1, <1>2, PTL DEF RDSpec

(* Postfix finds the transport of every relay domain that a request without *)
(* transport has not led astray.                                            *)
THEOREM RelaysHaveRoutes == RDSpec => []RelayHasRoute
BY TransportsAlwaysFollow, PTL DEF TransportsFollow

(* The mail of a local or deleted domain goes nowhere else, but for what    *)
(* renamed relay domains have left.                                         *)
THEOREM OnlyRelaysAreRouted == RDSpec => []OnlyRelaysRouted
BY TransportsAlwaysFollow, PTL DEF TransportsFollow

-----------------------------------------------------------------------------
(* Spam policies *)

(* No domain has a row or a policy yet.                                      *)
LEMMA PoliciesInitially ==
  ASSUME SPInit
  PROVE  PoliciesFollow
BY SpamAssumption DEF SPInit, PoliciesFollow, SPTypeOK, NamesApart, NoneShared, OwnPolicy,
                      AliasUsesTarget

(* A new domain: if its row or its policy has been somebody's, all that use *)
(* them are odd from now on.                                                *)
LEMMA CreatePolicyStep ==
  ASSUME PoliciesFollow, NEW d \in Rows, NEW n \in SpamNames, NEW p \in PolicyIds,
         create_user_and_policy(d, n, p)
  PROVE  PoliciesFollow'
<1> USE SpamAssumption DEF PoliciesFollow
<1>1. /\ owner[d] = Void /\ owner'[d] = n
      /\ \A e \in Rows \ {d} : owner'[e] = owner[e] /\ owner[e] # n
      /\ copy' = copy /\ \A a \in AliasRows : copy[a].name # n
      /\ policy'[p] = Short(n) /\ \A q \in PolicyIds \ {p} : policy'[q] = policy[q]
      /\ policy[p] \in {Void, Short(n)}
      /\ \A m \in SpamNames \ {n} : users'[m] = users[m]
      /\ users'[n] = IF users[n] = Void THEN p ELSE users[n]
      /\ odd \subseteq odd'
  BY DEF create_user_and_policy, HasName, SPTypeOK, Named
<1>2. /\ users[n] # Void => Using(users[n]) \subseteq odd'
      /\ users[n] = Void /\ Using(p) # {} => Using(p) \cup {n} \subseteq odd'
  BY DEF create_user_and_policy
<1>3. SPTypeOK'
  BY <1>1 DEF SPTypeOK, create_user_and_policy, Using
<1>4. NamesApart'
  BY <1>1 DEF NamesApart
<1>5. NoneShared'
  BY <1>1, <1>2 DEF NoneShared, Using, SPTypeOK
<1>6. OwnPolicy'
  <2> SUFFICES ASSUME NEW e \in Rows, owner'[e] \notin odd' \cup {Void}
               PROVE  /\ users'[owner'[e]] # Void
                      /\ policy'[users'[owner'[e]]] = Short(owner'[e])
                      /\ \A m \in SpamNames : users'[m] = users'[owner'[e]] =>
                           \/ m = owner'[e] \/ m \in odd'
                           \/ \E a \in AliasRows : copy'[a].target = e /\ copy'[a].name = m
    BY DEF OwnPolicy, Using
  <2>1. CASE e = d
    BY <1>1, <1>2, <2>1 DEF Using, SPTypeOK
  <2>2. CASE e # d
    <3> DEFINE k == owner[e]
    <3>1. k \in SpamNames \ (odd' \cup {n}) /\ owner'[e] = k /\ users'[k] = users[k]
      BY <1>1, <2>2 DEF SPTypeOK
    <3>2. /\ users[k] # Void /\ policy[users[k]] = Short(k) /\ users[k] \in PolicyIds
          /\ \A m \in SpamNames : users[m] = users[k] =>
               \/ m = k \/ m \in odd
               \/ \E a \in AliasRows : copy[a].target = e /\ copy[a].name = m
      BY <1>1, <3>1 DEF OwnPolicy, Using, SPTypeOK
    <3>3. users'[n] # users[k]
      BY <1>1, <1>2, <3>1, <3>2 DEF Using
    <3>4. CASE users[k] = p
      <4>1. users[n] # Void
        BY <1>2, <3>1, <3>4 DEF Using
      <4> QED BY <1>1, <3>1, <3>2, <3>3, <3>4, <4>1
    <3>5. CASE users[k] # p
      BY <1>1, <3>1, <3>2, <3>3, <3>5
    <3> QED BY <3>4, <3>5
  <2> QED BY <2>1, <2>2
<1>7. AliasUsesTarget'
  <2> SUFFICES ASSUME NEW a \in AliasRows, copy[a].name \notin odd' \cup {Void},
                      owner'[copy[a].target] \notin odd'
               PROVE  users'[copy[a].name] = users'[owner'[copy[a].target]]
    BY <1>1 DEF AliasUsesTarget
  <2>1. /\ copy[a].name \in SpamNames \ {n} /\ copy[a].target \in Rows \ {d}
        /\ owner[copy[a].target] \in SpamNames \ {n}
    BY <1>1 DEF SPTypeOK
  <2> QED BY <1>1, <2>1 DEF AliasUsesTarget
<1> QED BY <1>3, <1>4, <1>5, <1>6, <1>7

(* A renamed domain takes its row and policy along.                         *)
LEMMA UpdatePolicyStep ==
  ASSUME PoliciesFollow, NEW d \in Rows, NEW n \in SpamNames,
         update_user_and_policy(d, n)
  PROVE  PoliciesFollow'
<1> USE SpamAssumption DEF PoliciesFollow
<1> DEFINE old == owner[d]
           p == users[old]
<1>1. /\ old \in SpamNames \ {n} /\ owner'[d] = n
      /\ \A e \in Rows \ {d} : owner'[e] = owner[e] /\ owner[e] # n
      /\ copy' = copy /\ \A a \in AliasRows : copy[a].name # n
      /\ p \in PolicyIds /\ policy'[p] = Short(n)
      /\ \A q \in PolicyIds \ {p} : policy'[q] = policy[q]
      /\ users[n] = Void /\ users'[n] = p /\ users'[old] = Void
      /\ \A m \in SpamNames \ {n, old} : users'[m] = users[m]
      /\ odd \subseteq odd' /\ odd' \subseteq odd \cup {n} /\ (old \in odd => n \in odd')
  BY DEF update_user_and_policy, HasName, SPTypeOK, Renamed
<1>2. \A e \in Rows \ {d} : owner[e] # Void => owner[e] # old
  BY <1>1 DEF NamesApart
<1>3. SPTypeOK'
  BY <1>1 DEF SPTypeOK, update_user_and_policy, Renamed
<1>4. NamesApart'
  BY <1>1, <1>2 DEF NamesApart
<1>5. NoneShared'
  <2> SUFFICES ASSUME NEW e \in Rows, NEW f \in Rows, e # f,
                      owner'[e] \notin odd' \cup {Void}, owner'[f] # Void
               PROVE  users'[owner'[e]] # users'[owner'[f]]
    BY DEF NoneShared
  <2>1. users[owner[e]] # users[owner[f]]
    BY <1>1 DEF NoneShared, SPTypeOK
  <2>2. \A g \in Rows : owner'[g] # Void => users'[owner'[g]] = users[owner[g]]
    BY <1>1, <1>2 DEF SPTypeOK
  <2> QED BY <2>1, <2>2
<1>6. OwnPolicy'
  <2> SUFFICES ASSUME NEW e \in Rows, owner'[e] \notin odd' \cup {Void}
               PROVE  /\ users'[owner'[e]] # Void
                      /\ policy'[users'[owner'[e]]] = Short(owner'[e])
                      /\ \A m \in SpamNames : users'[m] = users'[owner'[e]] =>
                           \/ m = owner'[e] \/ m \in odd'
                           \/ \E a \in AliasRows : copy'[a].target = e /\ copy'[a].name = m
    BY DEF OwnPolicy, Using
  <2>1. /\ users[owner[e]] # Void /\ policy[users[owner[e]]] = Short(owner[e])
        /\ users[owner[e]] \in PolicyIds
        /\ \A m \in SpamNames : users[m] = users[owner[e]] =>
             \/ m = owner[e] \/ m \in odd
             \/ \E a \in AliasRows : copy[a].target = e /\ copy[a].name = m
    BY <1>1 DEF OwnPolicy, Using, SPTypeOK
  <2>2. CASE e = d
    BY <1>1, <2>1, <2>2
  <2>3. CASE e # d
    <3>1. users[owner[e]] # p
      BY <1>1, <2>3 DEF NoneShared
    <3> QED BY <1>1, <1>2, <2>1, <2>3, <3>1 DEF SPTypeOK
  <2> QED BY <2>2, <2>3
<1>7. AliasUsesTarget'
  <2> SUFFICES ASSUME NEW a \in AliasRows, copy[a].name \notin odd' \cup {Void},
                      owner'[copy[a].target] \notin odd'
               PROVE  users'[copy[a].name] = users'[owner'[copy[a].target]]
    BY <1>1 DEF AliasUsesTarget
  <2>1. /\ copy[a].name \in SpamNames \ {n, old} /\ copy[a].target \in Rows
        /\ owner[copy[a].target] \in SpamNames
    BY <1>1 DEF SPTypeOK, NamesApart
  <2>2. users[copy[a].name] = users[owner[copy[a].target]]
    BY <1>1, <2>1 DEF AliasUsesTarget
  <2> QED BY <1>1, <1>2, <2>1, <2>2
<1> QED BY <1>3, <1>4, <1>5, <1>6, <1>7

(* A deleted domain takes its policy, and with it all that use it.          *)
LEMMA DeletePolicyStep ==
  ASSUME PoliciesFollow, NEW d \in Rows, delete_user_and_policy(d)
  PROVE  PoliciesFollow'
<1> USE SpamAssumption DEF PoliciesFollow
<1> DEFINE n == owner[d]
           names == {copy[a].name : a \in {b \in AliasRows : copy[b].target = d}}
           p == users[n]
<1>1. /\ n \in SpamNames /\ owner'[d] = Void
      /\ \A e \in Rows \ {d} : owner'[e] = owner[e]
      /\ \A a \in AliasRows :
           copy'[a] = IF copy[a].target = d THEN [name |-> Void, target |-> Void] ELSE copy[a]
      /\ \A m \in SpamNames :
           users'[m] = IF m \in names \/ (p # Void /\ users[m] = p) THEN Void ELSE users[m]
      /\ p # Void => p \in PolicyIds /\ policy'[p] = Void
      /\ \A q \in PolicyIds \ {p} : policy'[q] = policy[q]
      /\ odd \subseteq odd'
      /\ p # Void => \A m \in SpamNames : users[m] = p => m \in odd' \cup names \cup {n}
  BY DEF delete_user_and_policy, SPTypeOK, WithoutPolicyOf, Using
<1>2. \A e \in Rows \ {d} : owner[e] # Void => owner[e] \notin names \cup {n}
  BY <1>1 DEF NamesApart
<1>3. SPTypeOK'
  <2>1. /\ owner' \in [Rows -> SpamNames \cup {Void}]
        /\ copy' \in [AliasRows -> [name : SpamNames \cup {Void}, target : Rows \cup {Void}]]
    BY DEF SPTypeOK, delete_user_and_policy
  <2>2. users' \in [SpamNames -> PolicyIds \cup {Void}]
    BY DEF SPTypeOK, delete_user_and_policy, WithoutPolicyOf
  <2>3. /\ policy' \in [PolicyIds -> {Short(m) : m \in SpamNames} \cup {Void}]
        /\ odd' \subseteq SpamNames
    BY DEF SPTypeOK, delete_user_and_policy, Using
  <2>4. \A m \in SpamNames : users'[m] # Void => policy'[users'[m]] # Void
    BY <1>1 DEF SPTypeOK
  <2>5. \A a \in AliasRows :
          copy'[a].name # Void => copy'[a].target \in Rows /\ owner'[copy'[a].target] # Void
    BY <1>1 DEF SPTypeOK
  <2> QED BY <2>1, <2>2, <2>3, <2>4, <2>5 DEF SPTypeOK
<1>4. NamesApart'
  BY <1>1 DEF NamesApart
<1>5. \A e \in Rows \ {d} : owner[e] \notin odd' \cup {Void} =>
        users'[owner[e]] = users[owner[e]] /\ (p # Void => users[owner[e]] # p)
  BY <1>1, <1>2 DEF SPTypeOK
<1>6. OwnPolicy'
  <2> SUFFICES ASSUME NEW e \in Rows, owner'[e] \notin odd' \cup {Void}
               PROVE  /\ users'[owner'[e]] # Void
                      /\ policy'[users'[owner'[e]]] = Short(owner'[e])
                      /\ \A m \in SpamNames : users'[m] = users'[owner'[e]] =>
                           \/ m = owner'[e] \/ m \in odd'
                           \/ \E a \in AliasRows : copy'[a].target = e /\ copy'[a].name = m
    BY DEF OwnPolicy, Using
  <2>1. /\ e # d /\ owner'[e] = owner[e] /\ owner[e] \notin odd \cup {Void}
        /\ owner[e] \in SpamNames
    BY <1>1 DEF SPTypeOK
  <2>2. /\ users[owner[e]] # Void /\ policy[users[owner[e]]] = Short(owner[e])
        /\ users[owner[e]] \in PolicyIds
        /\ \A m \in SpamNames : users[m] = users[owner[e]] =>
             \/ m = owner[e] \/ m \in odd
             \/ \E a \in AliasRows : copy[a].target = e /\ copy[a].name = m
    BY <2>1 DEF OwnPolicy, Using, SPTypeOK
  <2>3. users'[owner[e]] = users[owner[e]] /\ users[owner[e]] # p
    BY <1>5, <2>1, <2>2
  <2> QED BY <1>1, <2>1, <2>2, <2>3
<1>7. NoneShared'
  <2> SUFFICES ASSUME NEW e \in Rows, NEW f \in Rows, e # f,
                      owner'[e] \notin odd' \cup {Void}, owner'[f] # Void
               PROVE  users'[owner'[e]] # users'[owner'[f]]
    BY DEF NoneShared
  <2>1. /\ e # d /\ f # d /\ owner'[e] = owner[e] /\ owner'[f] = owner[f]
        /\ users[owner[e]] # users[owner[f]]
    BY <1>1 DEF NoneShared
  <2>2. users'[owner[e]] = users[owner[e]] /\ users[owner[e]] # Void
    BY <1>1, <1>5, <2>1 DEF OwnPolicy
  <2>3. users'[owner[f]] \in {users[owner[f]], Void}
    BY <1>1, <2>1 DEF SPTypeOK
  <2> QED BY <2>1, <2>2, <2>3
<1>8. AliasUsesTarget'
  <2> SUFFICES ASSUME NEW a \in AliasRows, copy'[a].name \notin odd' \cup {Void},
                      owner'[copy'[a].target] \notin odd'
               PROVE  users'[copy'[a].name] = users'[owner'[copy'[a].target]]
    BY DEF AliasUsesTarget
  <2> DEFINE x == copy[a].name
             e == copy[a].target
  <2>1. /\ e \in Rows \ {d} /\ copy'[a] = copy[a] /\ x \in SpamNames /\ owner[e] # Void
        /\ owner'[e] = owner[e]
    BY <1>1 DEF SPTypeOK
  <2>2. users[x] = users[owner[e]]
    BY <1>1, <2>1 DEF AliasUsesTarget
  <2>3. x \notin names
    BY <1>1, <2>1 DEF NamesApart
  <2>4. users'[owner[e]] = users[owner[e]] /\ (p # Void => users[owner[e]] # p)
    BY <1>5, <2>1
  <2> QED BY <1>1, <2>1, <2>2, <2>3, <2>4
<1> QED BY <1>3, <1>4, <1>5, <1>6, <1>7, <1>8

(* A domain alias joins those that use its target's policy.                 *)
LEMMA AliasPolicyStep ==
  ASSUME PoliciesFollow, NEW a \in AliasRows, NEW n \in SpamNames, NEW d \in Rows,
         NEW p \in PolicyIds, create_user_and_use_policy(a, n, d, p)
  PROVE  PoliciesFollow'
<1> USE SpamAssumption DEF PoliciesFollow
<1>1. /\ owner' = owner /\ policy' = policy /\ odd \subseteq odd' /\ owner[d] \in SpamNames
      /\ copy[a].name = Void /\ copy'[a] = [name |-> n, target |-> d]
      /\ \A b \in AliasRows \ {a} : copy'[b] = copy[b]
      /\ \A b \in AliasRows : copy[b].name # n
      /\ \A e \in Rows : owner[e] # n
      /\ users'[n] = p /\ \A m \in SpamNames \ {n} : users'[m] = users[m]
      /\ policy[p] = Short(owner[d])
      /\ users[owner[d]] # p => n \in odd' /\ \A m \in SpamNames : users[m] = p => m \in odd'
  BY DEF create_user_and_use_policy, SPTypeOK, AliasRow, HasName, Named, Using
<1>2. SPTypeOK'
  <2>1. /\ copy' \in [AliasRows -> [name : SpamNames \cup {Void}, target : Rows \cup {Void}]]
        /\ users' \in [SpamNames -> PolicyIds \cup {Void}]
        /\ odd' \subseteq SpamNames
    BY DEF SPTypeOK, create_user_and_use_policy, AliasRow, Using
  <2> QED BY <1>1, <2>1 DEF SPTypeOK
<1>3. NamesApart'
  BY <1>1 DEF NamesApart
<1>4. NoneShared'
  BY <1>1 DEF NoneShared, SPTypeOK
<1>5. OwnPolicy'
  <2> SUFFICES ASSUME NEW e \in Rows, owner'[e] \notin odd' \cup {Void}
               PROVE  /\ users'[owner'[e]] # Void
                      /\ policy'[users'[owner'[e]]] = Short(owner'[e])
                      /\ \A m \in SpamNames : users'[m] = users'[owner'[e]] =>
                           \/ m = owner'[e] \/ m \in odd'
                           \/ \E b \in AliasRows : copy'[b].target = e /\ copy'[b].name = m
    BY DEF OwnPolicy, Using
  <2> DEFINE k == owner[e]
  <2>1. /\ users[k] # Void /\ policy[users[k]] = Short(k) /\ k \in SpamNames
        /\ k \notin odd
        /\ \A m \in SpamNames : users[m] = users[k] =>
             \/ m = k \/ m \in odd
             \/ \E b \in AliasRows : copy[b].target = e /\ copy[b].name = m
    BY <1>1 DEF OwnPolicy, Using, SPTypeOK
  <2>2. users'[k] = users[k]
    BY <1>1, <2>1
  <2>3. ASSUME NEW m \in SpamNames, m # n, users[m] = users[k]
        PROVE  m = k \/ m \in odd' \/ \E b \in AliasRows : copy'[b].target = e /\ copy'[b].name = m
    BY <1>1, <2>1, <2>3, SpamAssumption
  <2>4. ASSUME p = users[k]
        PROVE  n \in odd' \/ e = d
    BY <1>1, <2>1, <2>4 DEF NoneShared
  <2> QED BY <1>1, <2>1, <2>2, <2>3, <2>4
<1>6. AliasUsesTarget'
  <2> SUFFICES ASSUME NEW b \in AliasRows, copy'[b].name \notin odd' \cup {Void},
                      owner[copy'[b].target] \notin odd'
               PROVE  users'[copy'[b].name] = users'[owner[copy'[b].target]]
    BY <1>1 DEF AliasUsesTarget
  <2>1. CASE b = a
    BY <1>1, <2>1
  <2>2. CASE b # a
    <3>1. /\ copy'[b] = copy[b] /\ copy[b].name \in SpamNames \ {n}
          /\ owner[copy[b].target] \in SpamNames \ {n}
      BY <1>1, <2>2 DEF SPTypeOK
    <3> QED BY <1>1, <3>1 DEF AliasUsesTarget
  <2> QED BY <2>1, <2>2
<1> QED BY <1>2, <1>3, <1>4, <1>5, <1>6

(* The rows know nothing of an alias's new name or target: both are odd.    *)
LEMMA AliasUpdatedStep ==
  ASSUME PoliciesFollow, NEW a \in AliasRows, NEW n \in SpamNames, NEW d \in Rows,
         AliasUpdated(a, n, d)
  PROVE  PoliciesFollow'
<1> USE SpamAssumption DEF PoliciesFollow
<1> DEFINE old == copy[a].name
<1>1. /\ owner' = owner /\ policy' = policy /\ users' = users /\ odd \subseteq odd'
      /\ old \in SpamNames /\ copy'[a] = [name |-> n, target |-> d] /\ owner[d] # Void
      /\ \A b \in AliasRows \ {a} : copy'[b] = copy[b]
      /\ n # old => /\ \A b \in AliasRows : copy[b].name # n
                    /\ \A e \in Rows : owner[e] # n
      /\ n # old \/ d # copy[a].target => {old, n} \subseteq odd'
  BY DEF AliasUpdated, SPTypeOK, HasName
<1>2. SPTypeOK'
  <2>1. /\ copy' \in [AliasRows -> [name : SpamNames \cup {Void}, target : Rows \cup {Void}]]
        /\ odd' \subseteq SpamNames
    BY DEF SPTypeOK, AliasUpdated
  <2> QED BY <1>1, <2>1 DEF SPTypeOK
<1>3. NamesApart'
  BY <1>1 DEF NamesApart
<1>4. NoneShared'
  BY <1>1 DEF NoneShared
<1>5. OwnPolicy'
  <2> SUFFICES ASSUME NEW e \in Rows, owner'[e] \notin odd' \cup {Void}
               PROVE  /\ users'[owner'[e]] # Void
                      /\ policy'[users'[owner'[e]]] = Short(owner'[e])
                      /\ \A m \in SpamNames : users'[m] = users'[owner'[e]] =>
                           \/ m = owner'[e] \/ m \in odd'
                           \/ \E b \in AliasRows : copy'[b].target = e /\ copy'[b].name = m
    BY DEF OwnPolicy, Using
  <2> DEFINE k == owner[e]
  <2>1. /\ users[k] # Void /\ policy[users[k]] = Short(k) /\ k \in SpamNames
        /\ k \notin odd
        /\ \A m \in SpamNames : users[m] = users[k] =>
             \/ m = k \/ m \in odd
             \/ \E b \in AliasRows : copy[b].target = e /\ copy[b].name = m
    BY <1>1 DEF OwnPolicy, Using, SPTypeOK
  <2> QED BY <1>1, <2>1
<1>6. AliasUsesTarget'
  BY <1>1 DEF AliasUsesTarget
<1> QED BY <1>2, <1>3, <1>4, <1>5, <1>6

(* A deleted domain alias takes its row only.                               *)
LEMMA AliasDeletedStep ==
  ASSUME PoliciesFollow, NEW a \in AliasRows, delete_user(a)
  PROVE  PoliciesFollow'
<1> USE SpamAssumption DEF PoliciesFollow
<1> DEFINE x == copy[a].name
<1>1. /\ owner' = owner /\ policy' = policy /\ odd' = odd
      /\ x \in SpamNames /\ copy'[a] = [name |-> Void, target |-> Void]
      /\ \A b \in AliasRows \ {a} : copy'[b] = copy[b]
      /\ users'[x] = Void /\ \A m \in SpamNames \ {x} : users'[m] = users[m]
  BY DEF delete_user, SPTypeOK, WithoutUser
<1>2. /\ \A e \in Rows : owner[e] # Void => owner[e] # x
      /\ \A b \in AliasRows \ {a} : copy[b].name # x
  BY <1>1 DEF NamesApart
<1>3. SPTypeOK'
  <2>1. /\ copy' \in [AliasRows -> [name : SpamNames \cup {Void}, target : Rows \cup {Void}]]
        /\ users' \in [SpamNames -> PolicyIds \cup {Void}]
    BY DEF SPTypeOK, delete_user, WithoutUser
  <2> QED BY <1>1, <2>1 DEF SPTypeOK
<1>4. NamesApart'
  BY <1>1 DEF NamesApart
<1>5. NoneShared'
  BY <1>1, <1>2 DEF NoneShared, SPTypeOK
<1>6. OwnPolicy'
  <2> SUFFICES ASSUME NEW e \in Rows, owner'[e] \notin odd' \cup {Void}
               PROVE  /\ users'[owner'[e]] # Void
                      /\ policy'[users'[owner'[e]]] = Short(owner'[e])
                      /\ \A m \in SpamNames : users'[m] = users'[owner'[e]] =>
                           \/ m = owner'[e] \/ m \in odd'
                           \/ \E b \in AliasRows : copy'[b].target = e /\ copy'[b].name = m
    BY DEF OwnPolicy, Using
  <2> DEFINE k == owner[e]
  <2>1. /\ users[k] # Void /\ policy[users[k]] = Short(k) /\ k \in SpamNames
        /\ k \notin odd
        /\ \A m \in SpamNames : users[m] = users[k] =>
             \/ m = k \/ m \in odd
             \/ \E b \in AliasRows : copy[b].target = e /\ copy[b].name = m
    BY <1>1 DEF OwnPolicy, Using, SPTypeOK
  <2>2. users'[k] = users[k]
    BY <1>1, <1>2, <2>1
  <2>3. ASSUME NEW m \in SpamNames, users'[m] = users[k]
        PROVE  m # x /\ users[m] = users[k]
    BY <1>1, <2>1, <2>3
  <2>4. ASSUME NEW m \in SpamNames, m # x,
               NEW b \in AliasRows, copy[b].target = e, copy[b].name = m
        PROVE  copy'[b].target = e /\ copy'[b].name = m
    BY <1>1, <2>4
  <2> QED BY <1>1, <2>1, <2>2, <2>3, <2>4
<1>7. AliasUsesTarget'
  <2> SUFFICES ASSUME NEW b \in AliasRows, copy'[b].name \notin odd \cup {Void},
                      owner[copy'[b].target] \notin odd
               PROVE  users'[copy'[b].name] = users'[owner[copy'[b].target]]
    BY <1>1 DEF AliasUsesTarget
  <2>1. /\ b # a /\ copy'[b] = copy[b] /\ copy[b].name \in SpamNames \ {x}
        /\ owner[copy[b].target] \in SpamNames \ {x}
    BY <1>1, <1>2 DEF SPTypeOK
  <2> QED BY <1>1, <2>1 DEF AliasUsesTarget
<1> QED BY <1>3, <1>4, <1>5, <1>6, <1>7

(* The databases of Modoboa and amavis stay in step, but for the names that *)
(* domain aliases have left behind and those that share 32 characters.      *)
THEOREM PoliciesAlwaysFollow == SPSpec => []PoliciesFollow
<1>1. SPInit => PoliciesFollow
  BY PoliciesInitially
<1>2. PoliciesFollow /\ [SPNext]_spVars => PoliciesFollow'
  <2> SUFFICES ASSUME PoliciesFollow, [SPNext]_spVars
               PROVE  PoliciesFollow'
    OBVIOUS
  <2>1. ASSUME NEW d \in Rows, NEW n \in SpamNames, update_user_and_policy(d, n)
        PROVE  PoliciesFollow'
    BY <2>1, UpdatePolicyStep
  <2>2. ASSUME NEW d \in Rows, NEW n \in SpamNames, NEW p \in PolicyIds,
               create_user_and_policy(d, n, p)
        PROVE  PoliciesFollow'
    BY <2>2, CreatePolicyStep
  <2>3. ASSUME NEW d \in Rows, delete_user_and_policy(d)
        PROVE  PoliciesFollow'
    BY <2>3, DeletePolicyStep
  <2>4. ASSUME NEW a \in AliasRows, NEW d \in Rows, NEW n \in SpamNames, AliasUpdated(a, n, d)
        PROVE  PoliciesFollow'
    BY <2>4, AliasUpdatedStep
  <2>5. ASSUME NEW a \in AliasRows, NEW d \in Rows, NEW n \in SpamNames, NEW p \in PolicyIds,
               create_user_and_use_policy(a, n, d, p)
        PROVE  PoliciesFollow'
    BY <2>5, AliasPolicyStep
  <2>6. ASSUME NEW a \in AliasRows, delete_user(a)
        PROVE  PoliciesFollow'
    BY <2>6, AliasDeletedStep
  <2>7. CASE UNCHANGED spVars
    BY <2>7 DEF spVars, PoliciesFollow, SPTypeOK, NamesApart, NoneShared, OwnPolicy,
                AliasUsesTarget, Using
  <2> QED BY <2>1, <2>2, <2>3, <2>4, <2>5, <2>6, <2>7 DEF SPNext
<1> QED BY <1>1, <1>2, PTL DEF SPSpec

(* amavis finds for every domain a policy that is the domain's own, under   *)
(* whatever name the domain has by now.                                     *)
THEOREM PolicyIsOwn == SPSpec => []OwnPolicy
<1>1. PoliciesFollow => OwnPolicy
  BY DEF PoliciesFollow
<1> QED BY <1>1, PoliciesAlwaysFollow, PTL

-----------------------------------------------------------------------------
(* The rights file *)

Writing == [pc : {"write"}, lines : SUBSET [section : Guests \X Titles, guest : Guests,
              path : Titles, perm : Permissions, of : UserCalendars], late : SUBSET Shares]

(* What the writer has read is what the rules say, but for those that it     *)
(* knows to be late.                                                         *)
Read(s) ==
  \E x \in writer.lines : x.of = s[1] /\ x.guest = s[2] /\ x.perm = rule[s].perm
                          /\ x.path = agenda[s[1]].path

(* The rules are those of calendars; a file that is being written is not     *)
(* whole, and what the writer has not read in time is late.                  *)
WriterInv ==
  /\ writer \in {Idle} \cup [pc : {"rules"}] \cup Writing
  /\ writer.pc # "idle" => file.whole = FALSE
  /\ \A s \in Shares : rule[s] # Gone => agenda[s[1]] # Gone
  /\ writer.pc = "write" => \A s \in Shares : rule[s] # Gone => s \in writer.late \/ Read(s)

RightsIndInv == RightsInv /\ WriterInv

(* A run is idle, or it is not.                                              *)
LEMMA WriterIs ==
  ASSUME WriterInv
  PROVE  /\ writer = Idle <=> writer.pc = "idle"
         /\ writer.pc = "write" => writer \in Writing
         /\ writer.pc \in {"idle", "rules", "write"}
BY DEF WriterInv, Idle, Writing

(* Shares are pairs.                                                         *)
LEMMA ShareIs ==
  ASSUME NEW s \in Shares
  PROVE  s[1] \in UserCalendars /\ s[2] \in Guests /\ s = <<s[1], s[2]>>
BY DEF Shares

(* A saved rule is young enough to be written later, and what the writer has *)
(* read of it is late.                                                       *)
LEMMA SavedStep ==
  ASSUME RightsIndInv, NEW new \in [Shares -> {Gone} \cup [perm : Permissions, at : 0..MaxClock]],
         Saved(new), UNCHANGED <<now, file>>, rights' \in 0..MaxRights,
         agenda' \in [UserCalendars -> {Gone} \cup [title : Titles, path : Titles]],
         \A s \in Shares : new[s] # Gone => agenda'[s[1]] # Gone /\ agenda'[s[1]] = agenda[s[1]],
         \A s \in Shares : new[s] \in {Gone, rule[s]} \/ new[s].at = now
  PROVE  RightsIndInv'
<1> USE RightsAssumption
<1> DEFINE changed == {s \in Shares : new[s] # rule[s]}
<1>1. /\ rule' = new /\ missed' = missed \ changed
      /\ writer' = IF writer.pc = "write" THEN [writer EXCEPT !.late = @ \cup changed] ELSE writer
  BY DEF Saved
<1>2. /\ changed \subseteq Shares /\ \A s \in Shares \ changed : new[s] = rule[s]
      /\ \A s \in changed : s \in Shares /\ (new[s] = Gone \/ new[s].at = now)
  OBVIOUS
<1> HIDE DEF changed
<1>3. CRTypeOK'
  BY <1>1 DEF RightsIndInv, RightsInv, CRTypeOK
<1>4. /\ writer.pc # "write" => writer' = writer
      /\ writer.pc = "write" => /\ writer' \in Writing /\ writer'.lines = writer.lines
                                /\ writer'.late = writer.late \cup changed
                                /\ writer'.pc = "write"
  <2>1. CASE writer.pc = "write"
    <3>1. writer \in Writing
      BY <2>1, WriterIs DEF RightsIndInv
    <3> QED BY <1>1, <1>2, <2>1, <3>1 DEF Writing
  <2>2. CASE writer.pc # "write"
    BY <1>1, <2>2
  <2> QED BY <2>1, <2>2
<1>5. writer'.pc = writer.pc /\ (writer' = Idle => writer = Idle)
  BY <1>4, WriterIs DEF RightsIndInv, Idle
<1>6. RightsFollow'
  <2> SUFFICES ASSUME writer' = Idle, file # Gone, file.whole, NEW s \in Shares, rule'[s] # Gone
               PROVE  (s \in missed \/ InFile(s) \/ Younger(s))'
    BY DEF RightsFollow
  <2>1. CASE s \in changed
    <3>1. rule'[s].at = now /\ file.mtime \in 0..now
      BY <1>1, <1>2, <2>1 DEF RightsIndInv, RightsInv, CRTypeOK
    <3>2. Younger(s)'
      BY <3>1, RightsAssumption DEF Younger, RightsIndInv, RightsInv, CRTypeOK
    <3> QED BY <3>2
  <2>2. CASE s \notin changed
    <3>1. rule'[s] = rule[s] /\ agenda'[s[1]] = agenda[s[1]]
      BY <1>1, <1>2, <2>2
    <3>2. s \in missed \/ InFile(s) \/ Younger(s)
      BY <1>5, <3>1 DEF RightsIndInv, RightsInv, RightsFollow
    <3> QED BY <1>1, <2>2, <3>1, <3>2 DEF InFile, Younger
  <2> QED BY <2>1, <2>2
<1>7. WriterInv'
  <2>1. writer' \in {Idle} \cup [pc : {"rules"}] \cup Writing
    BY <1>4 DEF RightsIndInv, WriterInv
  <2>2. \A s \in Shares : rule'[s] # Gone => agenda'[s[1]] # Gone
    BY <1>1
  <2>3. ASSUME writer'.pc = "write", NEW s \in Shares, rule'[s] # Gone
        PROVE  s \in writer'.late \/ Read(s)'
    <3>1. CASE s \in changed
      BY <1>4, <1>5, <2>3, <3>1
    <3>2. CASE s \notin changed
      <4>1. rule'[s] = rule[s] /\ agenda'[s[1]] = agenda[s[1]]
        BY <1>1, <1>2, <2>3, <3>2
      <4>2. s \in writer.late \/ Read(s)
        BY <1>5, <2>3, <4>1 DEF RightsIndInv, WriterInv
      <4> QED BY <1>4, <1>5, <2>3, <4>1, <4>2 DEF Read
    <3> QED BY <3>1, <3>2
  <2> QED BY <1>5, <2>1, <2>2, <2>3 DEF WriterInv, RightsIndInv
<1> QED BY <1>3, <1>6, <1>7 DEF RightsIndInv, RightsInv

(* Rules are made, changed and deleted.                                      *)
LEMMA RuleStep ==
  ASSUME RightsIndInv, NEW s \in Shares,
         \/ DeleteRule(s)
         \/ \E p \in Permissions : CreateRule(s, p) \/ \E to \in Shares : UpdateRule(s, to, p)
  PROVE  RightsIndInv'
<1> USE RightsAssumption
<1>0. /\ rights \in 0..MaxRights /\ now \in 0..MaxClock
      /\ agenda \in [UserCalendars -> {Gone} \cup [title : Titles, path : Titles]]
      /\ rule \in [Shares -> {Gone} \cup [perm : Permissions, at : 0..MaxClock]]
      /\ \A z \in Shares : rule[z] # Gone => agenda[z[1]] # Gone
  BY DEF RightsIndInv, RightsInv, CRTypeOK, WriterInv
<1>1. ASSUME Changes PROVE rights' \in 0..MaxRights
  BY <1>0, <1>1 DEF Changes
<1>2. CASE DeleteRule(s)
  BY <1>0, <1>1, <1>2, SavedStep DEF DeleteRule
<1>3. ASSUME NEW p \in Permissions, CreateRule(s, p) PROVE RightsIndInv'
  <2> DEFINE new == [rule EXCEPT ![s] = Rule(p)]
  <2>1. Rule(p) \in [perm : Permissions, at : 0..MaxClock] /\ Rule(p).at = now
    BY <1>0 DEF Rule
  <2>2. /\ new \in [Shares -> {Gone} \cup [perm : Permissions, at : 0..MaxClock]]
        /\ \A z \in Shares : new[z] # Gone => agenda[z[1]] # Gone
        /\ \A z \in Shares : new[z] \in {Gone, rule[z]} \/ new[z].at = now
    BY <1>0, <1>3, <2>1 DEF CreateRule
  <2>3. Saved(new) /\ UNCHANGED <<now, file, agenda>> /\ rights' \in 0..MaxRights
    BY <1>1, <1>3 DEF CreateRule
  <2> HIDE DEF new
  <2> QED BY <1>0, <2>2, <2>3, SavedStep
<1>4. ASSUME NEW p \in Permissions, NEW to \in Shares, UpdateRule(s, to, p) PROVE RightsIndInv'
  <2> DEFINE new == [rule EXCEPT ![s] = Gone, ![to] = Rule(p)]
  <2>1. Rule(p) \in [perm : Permissions, at : 0..MaxClock] /\ Rule(p).at = now
    BY <1>0 DEF Rule
  <2>2. \A z \in Shares : new[z] = IF z = to THEN Rule(p) ELSE IF z = s THEN Gone ELSE rule[z]
    BY <1>0
  <2>3. new \in [Shares -> {Gone} \cup [perm : Permissions, at : 0..MaxClock]]
    BY <1>0, <2>1
  <2>4. Saved(new) /\ UNCHANGED <<now, file, agenda>> /\ rights' \in 0..MaxRights
    BY <1>1, <1>4 DEF UpdateRule
  <2>5. agenda[to[1]] # Gone
    BY <1>4 DEF UpdateRule
  <2> HIDE DEF new
  <2>6. /\ \A z \in Shares : new[z] # Gone => agenda[z[1]] # Gone
        /\ \A z \in Shares : new[z] \in {Gone, rule[z]} \/ new[z].at = now
    BY <1>0, <2>1, <2>2, <2>5
  <2> QED BY <1>0, <2>3, <2>4, <2>6, SavedStep
<1> QED BY <1>2, <1>3, <1>4

(* A calendar goes with its rules.                                           *)
LEMMA CalendarDeletedStep ==
  ASSUME RightsIndInv, NEW c \in UserCalendars, DeleteCalendar(c)
  PROVE  RightsIndInv'
<1> USE RightsAssumption
<1> DEFINE new == [z \in Shares |-> IF z[1] = c THEN Gone ELSE rule[z]]
<1>0. /\ rights \in 0..MaxRights
      /\ agenda \in [UserCalendars -> {Gone} \cup [title : Titles, path : Titles]]
      /\ rule \in [Shares -> {Gone} \cup [perm : Permissions, at : 0..MaxClock]]
      /\ \A z \in Shares : rule[z] # Gone => agenda[z[1]] # Gone
  BY DEF RightsIndInv, RightsInv, CRTypeOK, WriterInv
<1>1. /\ new \in [Shares -> {Gone} \cup [perm : Permissions, at : 0..MaxClock]]
      /\ agenda' \in [UserCalendars -> {Gone} \cup [title : Titles, path : Titles]]
      /\ \A z \in Shares : new[z] # Gone => agenda'[z[1]] # Gone /\ agenda'[z[1]] = agenda[z[1]]
      /\ \A z \in Shares : new[z] \in {Gone, rule[z]} \/ new[z].at = now
  BY <1>0, ShareIs DEF DeleteCalendar
<1>2. Saved(new) /\ UNCHANGED <<now, file>> /\ rights' \in 0..MaxRights
  BY <1>0 DEF DeleteCalendar, Changes
<1> HIDE DEF new
<1> QED BY <1>1, <1>2, SavedStep

(* A calendar keeps its path when its name changes.                          *)
LEMMA CalendarStep ==
  ASSUME RightsIndInv, NEW c \in UserCalendars, NEW t \in Titles,
         CreateCalendar(c, t) \/ UpdateCalendar(c, t)
  PROVE  RightsIndInv'
<1> USE RightsAssumption
<1>0. /\ agenda \in [UserCalendars -> {Gone} \cup [title : Titles, path : Titles]]
      /\ \A s \in Shares : rule[s] # Gone => agenda[s[1]] # Gone
  BY DEF RightsIndInv, RightsInv, CRTypeOK, WriterInv
<1>1. /\ UNCHANGED <<now, rule, file, writer, missed>> /\ rights' \in 0..MaxRights
  BY DEF CreateCalendar, UpdateCalendar, Changes, RightsIndInv, RightsInv, CRTypeOK
<1>2. /\ agenda' \in [UserCalendars -> {Gone} \cup [title : Titles, path : Titles]]
      /\ \A d \in UserCalendars : agenda[d] # Gone => agenda'[d] # Gone
                                                      /\ agenda'[d].path = agenda[d].path
  <2>1. CASE CreateCalendar(c, t)
    BY <1>0, <2>1 DEF CreateCalendar
  <2>2. CASE UpdateCalendar(c, t)
    <3>1. agenda[c] \in [title : Titles, path : Titles] /\ agenda' = [agenda EXCEPT ![c].title = t]
      BY <1>0, <2>2 DEF UpdateCalendar
    <3>2. agenda'[c] \in [title : Titles, path : Titles] /\ agenda'[c].path = agenda[c].path
      BY <1>0, <3>1
    <3>3. \A d \in UserCalendars \ {c} : agenda'[d] = agenda[d]
      BY <1>0, <3>1
    <3>4. Gone \notin [title : Titles, path : Titles]
      BY <2>2, <3>1 DEF UpdateCalendar
    <3> QED BY <1>0, <3>1, <3>2, <3>3
  <2> QED BY <2>1, <2>2
<1>3. \A s \in Shares : rule[s] # Gone => agenda'[s[1]] # Gone
                                            /\ agenda'[s[1]].path = agenda[s[1]].path
  BY <1>0, <1>2, ShareIs
<1>4. CRTypeOK'
  BY <1>1, <1>2 DEF RightsIndInv, RightsInv, CRTypeOK
<1>5. RightsFollow'
  BY <1>0, <1>1, <1>3 DEF RightsIndInv, RightsInv, RightsFollow, InFile, Younger
<1>6. WriterInv'
  BY <1>1, <1>3 DEF RightsIndInv, WriterInv, Read
<1> QED BY <1>4, <1>5, <1>6 DEF RightsIndInv, RightsInv

(* The clock, and a run of generate_rights.                                  *)
LEMMA RunStep ==
  ASSUME RightsIndInv,
         Tick \/ ReadRules \/ CloseFile \/ WriterKilled \/ \E force \in BOOLEAN : OpenFile(force)
  PROVE  RightsIndInv'
<1> USE RightsAssumption
<1>0. /\ now \in 0..MaxClock
      /\ agenda \in [UserCalendars -> {Gone} \cup [title : Titles, path : Titles]]
      /\ rule \in [Shares -> {Gone} \cup [perm : Permissions, at : 0..MaxClock]]
      /\ \A s \in Shares : rule[s] # Gone => agenda[s[1]] # Gone
  BY DEF RightsIndInv, RightsInv, CRTypeOK, WriterInv
<1>1. CASE Tick
  BY <1>0, <1>1 DEF Tick, RightsIndInv, RightsInv, CRTypeOK, RightsFollow, WriterInv, InFile,
                    Younger, Read
<1>2. CASE ReadRules
  <2>1. /\ writer' = [pc |-> "write", lines |-> Lines, late |-> {}] /\ writer.pc = "rules"
        /\ UNCHANGED <<now, agenda, rule, file, missed, rights>>
    BY <1>2 DEF ReadRules
  <2>2. \A s \in Shares : rule[s] # Gone =>
          /\ agenda[s[1]] \in [title : Titles, path : Titles] /\ rule[s].perm \in Permissions
          /\ s[1] \in UserCalendars /\ s[2] \in Guests
    BY <1>0, ShareIs
  <2>3. Lines \subseteq [section : Guests \X Titles, guest : Guests, path : Titles,
                        perm : Permissions, of : UserCalendars]
    <3> SUFFICES ASSUME NEW s \in Shares, rule[s] # Gone
                 PROVE  [section |-> <<s[2], agenda[s[1]].title>>, guest |-> s[2],
                         path |-> agenda[s[1]].path, perm |-> rule[s].perm, of |-> s[1]]
                          \in [section : Guests \X Titles, guest : Guests, path : Titles,
                              perm : Permissions, of : UserCalendars]
      BY DEF Lines
    <3> QED BY <2>2
  <2>4. writer' \in Writing /\ writer'.pc = "write" /\ writer' # Idle
    BY <2>1, <2>3 DEF Writing, Idle
  <2>5. ASSUME NEW s \in Shares, rule[s] # Gone PROVE Read(s)'
    <3> DEFINE x == [section |-> <<s[2], agenda[s[1]].title>>, guest |-> s[2],
                     path |-> agenda[s[1]].path, perm |-> rule[s].perm, of |-> s[1]]
    <3>1. x \in Lines
      BY <2>5 DEF Lines
    <3>2. /\ x.of = s[1] /\ x.guest = s[2] /\ x.perm = rule[s].perm /\ x.path = agenda[s[1]].path
      OBVIOUS
    <3>3. writer'.lines = Lines /\ rule' = rule /\ agenda' = agenda
      BY <2>1
    <3> HIDE DEF x
    <3> QED BY <3>1, <3>2, <3>3 DEF Read
  <2>6. WriterInv'
    BY <2>1, <2>4, <2>5 DEF RightsIndInv, WriterInv
  <2> QED BY <2>1, <2>4, <2>6 DEF RightsIndInv, RightsInv, CRTypeOK, RightsFollow
<1>3. CASE CloseFile
  <2>1. /\ writer.pc = "write" /\ writer' = Idle /\ UNCHANGED <<now, agenda, rule, rights>>
        /\ file' = [lines |-> writer.lines, tokens |-> {c \in UserCalendars : agenda[c] # Gone},
                    mtime |-> now, whole |-> TRUE]
        /\ missed' = {s \in writer.late : rule[s] # Gone /\ rule[s].at < now}
    BY <1>3 DEF CloseFile
  <2>2. writer \in Writing /\ writer.late \subseteq Shares
    BY <2>1, WriterIs DEF RightsIndInv, Writing
  <2>3. file'.lines = writer.lines /\ file'.mtime = now /\ file'.whole = TRUE
    BY <2>1
  <2>4. CRTypeOK'
    BY <1>0, <2>1, <2>2, <2>3 DEF RightsIndInv, RightsInv, CRTypeOK
  <2>5. RightsFollow'
    <3> SUFFICES ASSUME NEW s \in Shares, rule[s] # Gone
                 PROVE  s \in missed' \/ InFile(s)' \/ Younger(s)'
      BY <2>1 DEF RightsFollow
    <3>1. CASE s \in writer.late
      <4>1. rule[s].at \in Nat /\ now \in Nat
        BY <1>0
      <4> QED BY <2>1, <2>3, <3>1, <4>1 DEF Younger
    <3>2. CASE Read(s)
      BY <2>1, <2>3, <3>2 DEF Read, InFile
    <3> QED BY <2>1, <3>1, <3>2 DEF RightsIndInv, WriterInv
  <2>6. WriterInv'
    BY <1>0, <2>1 DEF WriterInv, Idle
  <2> QED BY <2>4, <2>5, <2>6 DEF RightsIndInv, RightsInv
<1>4. CASE WriterKilled
  <2>1. writer.pc # "idle" /\ writer' = Idle
       /\ UNCHANGED <<now, agenda, rule, file, missed, rights>>
    BY <1>4, WriterIs DEF WriterKilled, RightsIndInv
  <2>2. file.whole = FALSE
    BY <2>1 DEF RightsIndInv, WriterInv
  <2>3. WriterInv'
    BY <1>0, <2>1 DEF WriterInv, Idle
  <2> QED BY <2>1, <2>2, <2>3 DEF RightsIndInv, RightsInv, CRTypeOK, RightsFollow
<1>5. ASSUME NEW force \in BOOLEAN, OpenFile(force) PROVE RightsIndInv'
  <2>1. /\ file' = [lines |-> {}, tokens |-> {}, mtime |-> now, whole |-> FALSE]
        /\ writer' = [pc |-> "rules"] /\ UNCHANGED <<now, agenda, rule, missed, rights>>
    BY <1>5 DEF OpenFile
  <2>2. file'.mtime = now /\ file'.whole = FALSE /\ writer'.pc = "rules" /\ writer' # Idle
    BY <2>1 DEF Idle
  <2>3. CRTypeOK'
    BY <1>0, <2>1, <2>2 DEF RightsIndInv, RightsInv, CRTypeOK
  <2>4. RightsFollow'
    BY <2>2 DEF RightsFollow
  <2>5. WriterInv'
    BY <1>0, <2>1, <2>2 DEF WriterInv
  <2> QED BY <2>3, <2>4, <2>5 DEF RightsIndInv, RightsInv
<1> QED BY <1>1, <1>2, <1>3, <1>4, <1>5

(* Nothing of this moves in the other parts' steps.                          *)
LEMMA RightsStutter ==
  ASSUME RightsIndInv, UNCHANGED crVars
  PROVE  RightsIndInv'
BY DEF crVars, RightsIndInv, RightsInv, CRTypeOK, RightsFollow, WriterInv, InFile, Younger, Read

(* No rule exists and the file is empty.                                     *)
LEMMA RightsInitially ==
  ASSUME CRInit
  PROVE  RightsIndInv
BY RightsAssumption DEF CRInit, RightsIndInv, RightsInv, CRTypeOK, RightsFollow, WriterInv, Idle

(* One step of the access rules or of the writer, all of them.               *)
LEMMA RightsStep ==
  ASSUME RightsIndInv, CRNext
  PROVE  RightsIndInv'
BY RuleStep, CalendarStep, CalendarDeletedStep, RunStep DEF CRNext

-----------------------------------------------------------------------------
(* The events of calendars *)

OpenWindow ==
  [pc : {"mkcalendar"}, to : EventCalendars]
  \cup [pc : {"store"}, to : EventCalendars, left : SUBSET Uids]
  \cup [pc : {"remove"}, uid : Uids, from : EventCalendars, to : EventCalendars]
  \cup [pc : {"put"}, uid : Uids, moved : BOOLEAN, to : EventCalendars, asked : EventCalendars]

(* Requests know only events that were stored, or that they store.           *)
WindowsKnown ==
  /\ window \in [Windows -> {Closed} \cup OpenWindow]
  /\ \A c \in EventCalendars : holds[c] \subseteq seen
  /\ \A t \in Windows : /\ window[t].pc = "store" => window[t].left \subseteq seen
                        /\ window[t].pc \in {"remove", "put"} => window[t].uid \in seen

(* An event that nobody has deleted and that is nowhere is being moved.      *)
MovesHeld ==
  \A e \in wanted :
    \/ e \in dropped
    \/ \E c \in EventCalendars : e \in holds[c]
    \/ \E t \in Windows : window[t].pc = "put" /\ window[t].moved /\ window[t].uid = e

(* A request that has the server for itself stores what no collection holds, *)
(* and moves the only copy.                                                  *)
Alone ==
  inturn =>
    /\ \A t, x \in Windows : window[t].pc # "closed" /\ window[x].pc # "closed" => t = x
    /\ \A t \in Windows, c \in EventCalendars :
         /\ window[t].pc = "store" => window[t].left \cap holds[c] = {}
         /\ window[t].pc = "remove" /\ window[t].uid \in holds[c] => c = window[t].from
         /\ window[t].pc = "put" /\ window[t].uid \in holds[c] => c = window[t].to

EventsIndInv == EventsInv /\ WindowsKnown /\ MovesHeld /\ Alone

(* The fields of a request, by what it does next.                            *)
LEMMA WindowIs ==
  ASSUME WindowsKnown, NEW t \in Windows
  PROVE  /\ window[t].pc \in {"closed", "mkcalendar", "store", "remove", "put"}
         /\ window[t].pc = "closed" <=> window[t] = Closed
         /\ window[t].pc = "mkcalendar" => window[t].to \in EventCalendars
         /\ window[t].pc = "store" => /\ window[t].to \in EventCalendars
                                      /\ window[t].left \in SUBSET Uids
         /\ window[t].pc = "remove" => /\ window[t].uid \in Uids
                                       /\ window[t].from \in EventCalendars
                                       /\ window[t].to \in EventCalendars
         /\ window[t].pc = "put" => /\ window[t].uid \in Uids /\ window[t].moved \in BOOLEAN
                                    /\ window[t].to \in EventCalendars
                                    /\ window[t].asked \in EventCalendars
BY DEF WindowsKnown, OpenWindow, Closed

(* What the sentinel's label is; the record itself stays hidden.             *)
LEMMA ClosedIs == Closed.pc = "closed"
BY DEF Closed

(* A request opens, for something that it alone does to the server if it has *)
(* the server for itself.                                                    *)
LEMMA OpensStep ==
  ASSUME EventsIndInv, NEW t \in Windows, NEW r \in OpenWindow, Opens(t, r),
         UNCHANGED <<holds, wanted, dropped>>, made' = made,
         row' \in [EventCalendars -> {"none", "known", "deleted"}],
         seen \subseteq seen', seen' \subseteq Uids,
         r.pc \in {"mkcalendar", "store", "remove", "put"},
         r.pc = "store" => r.left \subseteq seen' /\ r.left \cap seen = {},
         r.pc \in {"remove", "put"} => r.uid \in seen,
         r.pc = "remove" => r.uid \in holds[r.from] /\ r.from \in EventCalendars,
         r.pc = "put" => r.uid \in holds[r.to] /\ r.to \in EventCalendars
  PROVE  EventsIndInv'
<1> USE EventsAssumption
<1>1. /\ window[t] = Closed /\ window' = [window EXCEPT ![t] = r] /\ acts' = acts + 1
      /\ acts < MaxActs /\ inturn' = (inturn /\ \A x \in Windows : window[x] = Closed)
  BY DEF Opens
<1>2. /\ window \in [Windows -> {Closed} \cup OpenWindow]
      /\ window'[t] = r /\ \A x \in Windows \ {t} : window'[x] = window[x]
  BY <1>1 DEF EventsIndInv, WindowsKnown
<1>3. CETypeOK'
  <2>1. inturn' \in BOOLEAN /\ acts' \in 0..MaxActs
    BY <1>1 DEF EventsIndInv, EventsInv, CETypeOK
  <2> QED BY <2>1 DEF EventsIndInv, EventsInv, CETypeOK
<1>4. WindowsKnown'
  BY <1>1, <1>2 DEF EventsIndInv, WindowsKnown
<1>5. \A x \in Windows : window[x].pc = "put" => window'[x] = window[x]
  BY <1>1, <1>2, ClosedIs
<1>6. MovesHeld' /\ EventsKept'
  <2>1. MovesHeld'
    BY <1>5 DEF EventsIndInv, MovesHeld
  <2> QED BY <2>1 DEF MovesHeld, EventsKept
<1>7. OneCopy'
  BY <1>1 DEF EventsIndInv, EventsInv, OneCopy
<1>8. Alone'
  <2> SUFFICES ASSUME inturn' PROVE Alone'
    BY DEF Alone
  <2>1. /\ inturn /\ \A x \in Windows : window[x] = Closed
        /\ \A c, d \in EventCalendars : c # d => holds[c] \cap holds[d] = {}
        /\ \A c \in EventCalendars : holds[c] \subseteq seen
    BY <1>1 DEF EventsIndInv, EventsInv, OneCopy, WindowsKnown
  <2>2. \A x \in Windows : window'[x].pc # "closed" => x = t
    BY <1>2, <2>1, ClosedIs
  <2>3. \A c \in EventCalendars : /\ r.pc = "store" => r.left \cap holds[c] = {}
                                  /\ r.pc = "remove" /\ r.uid \in holds[c] => c = r.from
                                  /\ r.pc = "put" /\ r.uid \in holds[c] => c = r.to
    BY <2>1
  <2> QED BY <1>2, <2>2, <2>3 DEF Alone
<1> QED BY <1>3, <1>4, <1>6, <1>7, <1>8 DEF EventsIndInv, EventsInv

(* A calendar is made, events are imported, one is to be changed.            *)
LEMMA BeginStep ==
  ASSUME EventsIndInv, NEW t \in Windows, NEW c \in EventCalendars, CEFor(t, c)
  PROVE  EventsIndInv'
<1>0. /\ row \in [EventCalendars -> {"none", "known", "deleted"}] /\ seen \subseteq Uids
      /\ \A d \in EventCalendars : holds[d] \subseteq seen
  BY DEF EventsIndInv, EventsInv, CETypeOK, WindowsKnown
<1>1. CASE CreateCalendarRow(t, c)
  <2> DEFINE r == [pc |-> "mkcalendar", to |-> c]
  <2>1. r \in OpenWindow /\ r.pc = "mkcalendar"
    BY DEF OpenWindow
  <2>2. /\ Opens(t, r) /\ UNCHANGED <<made, holds, seen, wanted, dropped>>
        /\ row' \in [EventCalendars -> {"none", "known", "deleted"}]
    BY <1>0, <1>1 DEF CreateCalendarRow
  <2> HIDE DEF r
  <2> QED BY <1>0, <2>1, <2>2, OpensStep
<1>2. ASSUME NEW es \in SUBSET Uids, ImportEvents(t, c, es) PROVE EventsIndInv'
  <2> DEFINE r == [pc |-> "store", to |-> c, left |-> es]
  <2>1. r \in OpenWindow /\ r.pc = "store" /\ r.left = es
    BY DEF OpenWindow
  <2>2. /\ Opens(t, r) /\ UNCHANGED <<row, made, holds, wanted, dropped>> /\ seen' = seen \cup es
        /\ es \cap seen = {}
    BY <1>2 DEF ImportEvents
  <2> HIDE DEF r
  <2> QED BY <1>0, <2>1, <2>2, OpensStep
<1>3. ASSUME NEW e \in Uids, NEW to \in EventCalendars, LoadEvent(t, e, c, to) PROVE EventsIndInv'
  <2> DEFINE r == [pc |-> "remove", uid |-> e, from |-> c, to |-> to]
             q == [pc |-> "put", uid |-> e, moved |-> FALSE, to |-> c, asked |-> to]
  <2>1. /\ r \in OpenWindow /\ r.pc = "remove" /\ r.uid = e /\ r.from = c
        /\ q \in OpenWindow /\ q.pc = "put" /\ q.uid = e /\ q.to = c
    BY DEF OpenWindow
  <2>2. /\ e \in holds[c] /\ UNCHANGED <<row, made, holds, seen, wanted, dropped>>
        /\ Opens(t, r) \/ Opens(t, q)
    BY <1>3 DEF LoadEvent
  <2> HIDE DEF r, q
  <2>3. CASE Opens(t, r)
    BY <1>0, <2>1, <2>2, <2>3, OpensStep
  <2>4. CASE Opens(t, q)
    BY <1>0, <2>1, <2>2, <2>4, OpensStep
  <2> QED BY <2>2, <2>3, <2>4
<1>4. ASSUME NEW e \in Uids, CreateEvent(t, c, e) PROVE EventsIndInv'
  BY <1>2, <1>4 DEF CreateEvent
<1> QED BY <1>1, <1>2, <1>3, <1>4 DEF CEFor

(* What a step of a request does to the requests.                            *)
LEMMA GoesIs ==
  ASSUME WindowsKnown, NEW t \in Windows, NEW r \in {Closed} \cup OpenWindow, Goes(t, r)
  PROVE  /\ window' \in [Windows -> {Closed} \cup OpenWindow]
         /\ window'[t] = r /\ \A x \in Windows \ {t} : window'[x] = window[x]
         /\ inturn' = inturn /\ acts' = acts
BY DEF WindowsKnown, Goes

(* The collection of a new calendar.                                         *)
LEMMA MakeStep ==
  ASSUME EventsIndInv, NEW t \in Windows, create_calendar(t)
  PROVE  EventsIndInv'
<1>1. /\ window[t].pc = "mkcalendar" /\ made' = made \cup {window[t].to} /\ Goes(t, Closed)
      /\ UNCHANGED <<row, holds, seen, wanted, dropped>>
  BY DEF create_calendar
<1>2. /\ window' \in [Windows -> {Closed} \cup OpenWindow]
      /\ window'[t] = Closed /\ \A x \in Windows \ {t} : window'[x] = window[x]
      /\ inturn' = inturn /\ acts' = acts
  BY <1>1, GoesIs DEF EventsIndInv
<1>3. window[t].to \in EventCalendars
  BY <1>1, WindowIs DEF EventsIndInv
<1>4. CETypeOK'
  BY <1>1, <1>2, <1>3 DEF EventsIndInv, EventsInv, CETypeOK
<1>5. WindowsKnown'
  BY <1>1, <1>2, ClosedIs DEF EventsIndInv, WindowsKnown
<1>6. MovesHeld' /\ EventsKept'
  <2>1. \A x \in Windows : window[x].pc = "put" => window'[x] = window[x]
    BY <1>1, <1>2
  <2>2. MovesHeld'
    BY <1>1, <2>1 DEF EventsIndInv, MovesHeld
  <2> QED BY <2>2 DEF MovesHeld, EventsKept
<1>7. OneCopy' /\ Alone'
  BY <1>1, <1>2, ClosedIs DEF EventsIndInv, EventsInv, OneCopy, Alone
<1> QED BY <1>4, <1>5, <1>6, <1>7 DEF EventsIndInv, EventsInv

(* One event of an import is stored.                                         *)
LEMMA StoreStep ==
  ASSUME EventsIndInv, NEW t \in Windows, NEW e \in Uids, StoreNext(t, e)
  PROVE  EventsIndInv'
<1> DEFINE w == window[t]
           r == IF w.left = {e} THEN Closed ELSE [w EXCEPT !.left = @ \ {e}]
<1>1. /\ w.pc = "store" /\ e \in w.left /\ holds' = [holds EXCEPT ![w.to] = @ \cup {e}]
      /\ wanted' = wanted \cup {e} /\ Goes(t, r) /\ UNCHANGED <<row, made, seen, dropped>>
  BY DEF StoreNext, Stored
<1>2. /\ w \in OpenWindow /\ w.to \in EventCalendars /\ w.left \in SUBSET Uids
      /\ w.left \subseteq seen /\ holds \in [EventCalendars -> SUBSET Uids]
  BY <1>1, WindowIs, ClosedIs DEF EventsIndInv, WindowsKnown, EventsInv, CETypeOK
<1>3. /\ r \in {Closed} \cup OpenWindow /\ r.pc \in {"closed", "store"}
      /\ r.pc = "store" => r.left = w.left \ {e}
  <2>1. w \in [pc : {"store"}, to : EventCalendars, left : SUBSET Uids]
    BY <1>1, <1>2 DEF OpenWindow
  <2>2. /\ [w EXCEPT !.left = @ \ {e}] \in [pc : {"store"}, to : EventCalendars, left : SUBSET Uids]
        /\ [w EXCEPT !.left = @ \ {e}].left = w.left \ {e}
    BY <2>1
  <2> QED BY <2>2, ClosedIs DEF OpenWindow
<1> HIDE DEF r
<1>4. /\ window' \in [Windows -> {Closed} \cup OpenWindow]
      /\ window'[t] = r /\ \A x \in Windows \ {t} : window'[x] = window[x]
      /\ inturn' = inturn /\ acts' = acts
  BY <1>1, <1>3, GoesIs DEF EventsIndInv
<1>5. /\ holds' \in [EventCalendars -> SUBSET Uids]
      /\ \A c \in EventCalendars : holds'[c] = IF c = w.to THEN holds[c] \cup {e} ELSE holds[c]
  BY <1>1, <1>2
<1>6. CETypeOK'
  BY <1>1, <1>2, <1>4, <1>5 DEF EventsIndInv, EventsInv, CETypeOK
<1>7. WindowsKnown'
  BY <1>1, <1>2, <1>3, <1>4, <1>5 DEF EventsIndInv, WindowsKnown
<1>8. MovesHeld' /\ EventsKept'
  <2>1. \A x \in Windows : window[x].pc = "put" => window'[x] = window[x]
    BY <1>1, <1>4
  <2>2. \E c \in EventCalendars : e \in holds'[c]
    BY <1>2, <1>5
  <2>3. MovesHeld'
    BY <1>1, <1>5, <2>1, <2>2 DEF EventsIndInv, MovesHeld
  <2> QED BY <2>3 DEF MovesHeld, EventsKept
<1>9. ASSUME inturn, NEW c \in EventCalendars PROVE e \notin holds[c]
  BY <1>1, <1>9 DEF EventsIndInv, Alone
<1>10. OneCopy'
  BY <1>4, <1>5, <1>9 DEF EventsIndInv, EventsInv, OneCopy
<1>11. Alone'
  <2> SUFFICES ASSUME inturn PROVE Alone'
    BY <1>4 DEF Alone
  <2>1. \A x \in Windows : window'[x].pc # "closed" => x = t
    BY <1>1, <1>4 DEF EventsIndInv, Alone
  <2>2. ASSUME r.pc = "store", NEW c \in EventCalendars PROVE r.left \cap holds'[c] = {}
    <3>1. w.left \cap holds[c] = {}
      BY <1>1 DEF EventsIndInv, Alone
    <3> QED BY <1>3, <1>5, <2>2, <3>1
  <2> QED BY <1>3, <1>4, <2>1, <2>2 DEF Alone
<1> QED BY <1>6, <1>7, <1>8, <1>10, <1>11 DEF EventsIndInv, EventsInv

(* A moved event is taken out of the old collection.                         *)
LEMMA RemoveOldStep ==
  ASSUME EventsIndInv, NEW t \in Windows, RemoveOld(t)
  PROVE  EventsIndInv'
<1> DEFINE w == window[t]
           r == [pc |-> "put", uid |-> w.uid, moved |-> TRUE, to |-> w.to, asked |-> w.to]
<1>1. /\ w.pc = "remove" /\ holds' = [holds EXCEPT ![w.from] = @ \ {w.uid}]
      /\ Goes(t, r) /\ UNCHANGED <<row, made, seen, wanted, dropped>>
  BY DEF RemoveOld
<1>2. /\ w.uid \in Uids /\ w.uid \in seen /\ w.from \in EventCalendars /\ w.to \in EventCalendars
      /\ holds \in [EventCalendars -> SUBSET Uids]
  BY <1>1, WindowIs DEF EventsIndInv, WindowsKnown, EventsInv, CETypeOK
<1>3. r \in OpenWindow /\ r.pc = "put" /\ r.uid = w.uid /\ r.moved = TRUE /\ r.to = w.to
  BY <1>2 DEF OpenWindow
<1> HIDE DEF r
<1>4. /\ window' \in [Windows -> {Closed} \cup OpenWindow]
      /\ window'[t] = r /\ \A x \in Windows \ {t} : window'[x] = window[x]
      /\ inturn' = inturn /\ acts' = acts
  BY <1>1, <1>3, GoesIs DEF EventsIndInv
<1>5. /\ holds' \in [EventCalendars -> SUBSET Uids]
      /\ \A c \in EventCalendars :
           holds'[c] = IF c = w.from THEN holds[c] \ {w.uid} ELSE holds[c]
  BY <1>1, <1>2
<1>6. CETypeOK'
  BY <1>1, <1>4, <1>5 DEF EventsIndInv, EventsInv, CETypeOK
<1>7. WindowsKnown'
  BY <1>1, <1>2, <1>3, <1>4, <1>5 DEF EventsIndInv, WindowsKnown
<1>8. MovesHeld' /\ EventsKept'
  <2>1. \A x \in Windows : window[x].pc = "put" => window'[x] = window[x]
    BY <1>1, <1>4
  <2>2. MovesHeld'
    <3> SUFFICES ASSUME NEW e \in wanted
                 PROVE  \/ e \in dropped
                        \/ \E c \in EventCalendars : e \in holds'[c]
                        \/ \E x \in Windows : /\ window'[x].pc = "put" /\ window'[x].moved
                                              /\ window'[x].uid = e
      BY <1>1 DEF MovesHeld
    <3>1. CASE e = w.uid
      BY <1>3, <1>4, <3>1
    <3>2. CASE e # w.uid
      BY <1>5, <2>1, <3>2 DEF EventsIndInv, MovesHeld
    <3> QED BY <3>1, <3>2
  <2> QED BY <1>1, <2>2 DEF MovesHeld, EventsKept
<1>9. OneCopy'
  BY <1>4, <1>5 DEF EventsIndInv, EventsInv, OneCopy
<1>10. Alone'
  <2> SUFFICES ASSUME inturn PROVE Alone'
    BY <1>4 DEF Alone
  <2>1. \A x \in Windows : window'[x].pc # "closed" => x = t
    BY <1>1, <1>4 DEF EventsIndInv, Alone
  <2>2. \A c \in EventCalendars : w.uid \in holds[c] => c = w.from
    BY <1>1 DEF EventsIndInv, Alone
  <2>3. \A c \in EventCalendars : w.uid \notin holds'[c]
    BY <1>5, <2>2
  <2> QED BY <1>3, <1>4, <2>1, <2>3 DEF Alone
<1> QED BY <1>6, <1>7, <1>8, <1>9, <1>10 DEF EventsIndInv, EventsInv

(* An event is put into its collection.                                      *)
LEMMA PutStep ==
  ASSUME EventsIndInv, NEW t \in Windows, PutEvent(t)
  PROVE  EventsIndInv'
<1> DEFINE w == window[t]
<1>1. /\ w.pc = "put" /\ holds' = [holds EXCEPT ![w.to] = @ \cup {w.uid}]
      /\ Goes(t, Closed) /\ UNCHANGED <<row, made, seen, wanted, dropped>>
  BY DEF PutEvent, Stored
<1>2. /\ w.uid \in Uids /\ w.uid \in seen /\ w.to \in EventCalendars
      /\ holds \in [EventCalendars -> SUBSET Uids]
  BY <1>1, WindowIs DEF EventsIndInv, WindowsKnown, EventsInv, CETypeOK
<1>3. /\ window' \in [Windows -> {Closed} \cup OpenWindow]
      /\ window'[t] = Closed /\ \A x \in Windows \ {t} : window'[x] = window[x]
      /\ inturn' = inturn /\ acts' = acts
  BY <1>1, GoesIs DEF EventsIndInv
<1>4. /\ holds' \in [EventCalendars -> SUBSET Uids]
      /\ \A c \in EventCalendars :
           holds'[c] = IF c = w.to THEN holds[c] \cup {w.uid} ELSE holds[c]
  BY <1>1, <1>2
<1>5. CETypeOK'
  BY <1>1, <1>3, <1>4 DEF EventsIndInv, EventsInv, CETypeOK
<1>6. WindowsKnown'
  BY <1>1, <1>2, <1>3, <1>4, ClosedIs DEF EventsIndInv, WindowsKnown
<1>7. MovesHeld' /\ EventsKept'
  <2>1. MovesHeld'
    <3> SUFFICES ASSUME NEW e \in wanted
                 PROVE  \/ e \in dropped
                        \/ \E c \in EventCalendars : e \in holds'[c]
                        \/ \E x \in Windows : /\ window'[x].pc = "put" /\ window'[x].moved
                                              /\ window'[x].uid = e
      BY <1>1 DEF MovesHeld
    <3>1. CASE e = w.uid
      BY <1>2, <1>4, <3>1
    <3>2. CASE e # w.uid
      BY <1>3, <1>4, <3>2 DEF EventsIndInv, MovesHeld
    <3> QED BY <3>1, <3>2
  <2> QED BY <1>1, <2>1 DEF MovesHeld, EventsKept
<1>8. ASSUME inturn, NEW c \in EventCalendars, w.uid \in holds[c] PROVE c = w.to
  BY <1>1, <1>8 DEF EventsIndInv, Alone
<1>9. OneCopy'
  BY <1>3, <1>4, <1>8 DEF EventsIndInv, EventsInv, OneCopy
<1>10. Alone'
  <2> SUFFICES ASSUME inturn PROVE Alone'
    BY <1>3 DEF Alone
  <2>1. \A x \in Windows : window'[x].pc = "closed"
    BY <1>1, <1>3, ClosedIs DEF EventsIndInv, Alone
  <2> QED BY <2>1 DEF Alone
<1> QED BY <1>5, <1>6, <1>7, <1>9, <1>10 DEF EventsIndInv, EventsInv

(* A request fails: what it had removed is written down.                     *)
LEMMA FailStep ==
  ASSUME EventsIndInv, NEW t \in Windows, WindowFails(t)
  PROVE  EventsIndInv'
<1> DEFINE w == window[t]
<1>1. /\ window' = [window EXCEPT ![t] = Closed] /\ inturn' = FALSE
      /\ dropped' = IF w.pc = "put" /\ w.moved THEN dropped \cup {w.uid} ELSE dropped
      /\ UNCHANGED <<row, made, holds, seen, wanted, acts>>
  BY DEF WindowFails
<1>2. /\ window \in [Windows -> {Closed} \cup OpenWindow]
      /\ w.pc = "put" => w.uid \in seen
  BY DEF EventsIndInv, WindowsKnown
<1>3. /\ window' \in [Windows -> {Closed} \cup OpenWindow]
      /\ window'[t] = Closed /\ \A x \in Windows \ {t} : window'[x] = window[x]
  BY <1>1, <1>2
<1>4. CETypeOK'
  BY <1>1, <1>2 DEF EventsIndInv, EventsInv, CETypeOK
<1>5. WindowsKnown'
  BY <1>1, <1>3, ClosedIs DEF EventsIndInv, WindowsKnown
<1>6. MovesHeld' /\ EventsKept'
  <2>1. MovesHeld'
    BY <1>1, <1>3 DEF EventsIndInv, MovesHeld
  <2> QED BY <1>1, <2>1 DEF MovesHeld, EventsKept
<1> QED BY <1>1, <1>4, <1>5, <1>6 DEF EventsIndInv, EventsInv, OneCopy, Alone

(* Calendars and events are deleted.                                         *)
LEMMA DropStep ==
  ASSUME EventsIndInv, NEW c \in EventCalendars,
         DeleteCalendarRow(c) \/ \E e \in Uids : DeleteEvent(e, c)
  PROVE  EventsIndInv'
<1>1. CASE DeleteCalendarRow(c)
  <2>1. /\ row' = [row EXCEPT ![c] = "deleted"]
        /\ UNCHANGED <<made, holds, window, seen, wanted, dropped, inturn, acts>>
    BY <1>1 DEF DeleteCalendarRow
  <2>2. row' \in [EventCalendars -> {"none", "known", "deleted"}]
    BY <2>1 DEF EventsIndInv, EventsInv, CETypeOK
  <2>3. CETypeOK'
    BY <2>1, <2>2 DEF EventsIndInv, EventsInv, CETypeOK
  <2>4. EventsKept' /\ OneCopy' /\ WindowsKnown' /\ MovesHeld' /\ Alone'
    BY <2>1 DEF EventsIndInv, EventsInv, EventsKept, OneCopy, WindowsKnown, MovesHeld, Alone
  <2> QED BY <2>3, <2>4 DEF EventsIndInv, EventsInv
<1>2. ASSUME NEW e \in Uids, DeleteEvent(e, c) PROVE EventsIndInv'
  <2>1. /\ acts < MaxActs /\ acts' = acts + 1 /\ UNCHANGED <<row, made, window, seen, dropped>>
        /\ holds' = [holds EXCEPT ![c] = @ \ {e}]
        /\ wanted' = IF e \in holds[c] THEN wanted \ {e} ELSE wanted
        /\ inturn' = (inturn /\ \A x \in Windows : window[x] = Closed)
    BY <1>2 DEF DeleteEvent
  <2>2. /\ holds' \in [EventCalendars -> SUBSET Uids]
        /\ \A d \in EventCalendars : holds'[d] = IF d = c THEN holds[d] \ {e} ELSE holds[d]
    BY <2>1 DEF EventsIndInv, EventsInv, CETypeOK
  <2>3. CETypeOK'
    <3>1. acts' \in 0..MaxActs
      BY <2>1, EventsAssumption DEF EventsIndInv, EventsInv, CETypeOK
    <3> QED BY <2>1, <2>2, <3>1 DEF EventsIndInv, EventsInv, CETypeOK
  <2>4. WindowsKnown'
    BY <2>1, <2>2 DEF EventsIndInv, WindowsKnown
  <2>5. MovesHeld'
    BY <2>1, <2>2 DEF EventsIndInv, MovesHeld
  <2>6. EventsKept'
    BY <2>1, <2>5 DEF MovesHeld, EventsKept
  <2>7. OneCopy' /\ Alone'
    BY <2>1, <2>2 DEF EventsIndInv, EventsInv, OneCopy, Alone
  <2> QED BY <2>3, <2>4, <2>5, <2>6, <2>7 DEF EventsIndInv, EventsInv
<1> QED BY <1>1, <1>2

(* Nothing of this moves in the other parts' steps.                          *)
LEMMA EventsStutter ==
  ASSUME EventsIndInv, UNCHANGED ceVars
  PROVE  EventsIndInv'
BY DEF ceVars, EventsIndInv, EventsInv, CETypeOK, EventsKept, OneCopy, WindowsKnown, MovesHeld,
     Alone

(* There are no events and no requests yet.                                  *)
LEMMA EventsInitially ==
  ASSUME CEInit
  PROVE  EventsIndInv
<1> USE EventsAssumption DEF CEInit
<1>1. CETypeOK
  <2>1. acts \in 0..MaxActs
    OBVIOUS
  <2>2. holds \in [EventCalendars -> SUBSET Uids]
    OBVIOUS
  <2>3. made \subseteq EventCalendars
    OBVIOUS
  <2>4. row \in [EventCalendars -> {"none", "known", "deleted"}]
    OBVIOUS
  <2> QED BY <2>1, <2>2, <2>3, <2>4 DEF CETypeOK
<1>2. EventsKept
  BY DEF EventsKept
<1>3. OneCopy
  BY DEF OneCopy
<1>4. \A t \in Windows : window[t] = Closed
  OBVIOUS
<1>5. WindowsKnown
  BY <1>4, ClosedIs DEF WindowsKnown
<1>6. MovesHeld
  BY <1>4, ClosedIs DEF MovesHeld
<1>7. Alone
  BY <1>4, ClosedIs DEF Alone
<1> QED BY <1>1, <1>2, <1>3, <1>5, <1>6, <1>7 DEF EventsIndInv, EventsInv

(* One step of the requests, all of them.                                    *)
LEMMA EventsStep ==
  ASSUME EventsIndInv, CENext
  PROVE  EventsIndInv'
BY BeginStep, MakeStep, StoreStep, RemoveOldStep, PutStep, FailStep, DropStep DEF CENext

-----------------------------------------------------------------------------
(* Forwards *)

Written == [on : BOOLEAN, to : SUBSET Recipients]

(* What an administrator's page and a user's request remember.               *)
PageOK ==
  \/ page = NoPage
  \/ /\ page \in [of : {"account"}, at : Accounts, aliases : SUBSET Accounts,
                  state : {"active", "disabled"}]
     /\ account[page.at] # "none"
  \/ page \in [of : {"alias"}, at : Accounts, on : BOOLEAN, to : SUBSET Recipients]
AskOK ==
  \/ ask = NoAsk
  \/ ask \in [at : Accounts, to : SUBSET Recipients, keep : BOOLEAN, found : BOOLEAN]

TablesOK ==
  /\ ext \in [Accounts -> {NoAlias} \cup Written]
  /\ chosen \in [Accounts -> {Upset} \cup SUBSET Recipients]
  /\ PageOK /\ AskOK

(* An alias that is enabled and leads to m alone.                            *)
LeadsTo(E, x, m) == E[x] # NoAlias /\ E[x].on /\ E[x].to = {m}

(* A disabled account has no self alias that is enabled, nor another alias   *)
(* that would lead to it alone were self aliases disabled.                   *)
DisabledOff ==
  \A m \in Accounts \ late : account[m] = "disabled" =>
    self[m] # "on" /\ \A x \in Accounts : ~LeadsTo(ext, x, m)

FWIndInv == FWTypeOK /\ RecipientsExist /\ ForwardsKept /\ TablesOK /\ DisabledOff

(* Written aliases are none that is not there.                               *)
LEMMA WrittenIs ==
  ASSUME NEW on \in BOOLEAN, NEW to \in SUBSET Recipients
  PROVE  [on |-> on, to |-> to] \in Written /\ [on |-> on, to |-> to] # NoAlias
BY ForwardsAssumption DEF Written, Recipients

(* Where no alias leads to a disabled account alone and self aliases are     *)
(* disabled, it receives nothing.                                            *)
LEMMA OffReceivesNothing ==
  ASSUME FWIndInv
  PROVE  DisabledReceiveNothing
<1> SUFFICES ASSUME NEW m \in Accounts \ late, account[m] = "disabled",
                    NEW x \in Accounts, Delivered(x) = {m}
             PROVE  FALSE
  BY DEF DisabledReceiveNothing
<1>1. self[m] # "on" /\ ~LeadsTo(ext, x, m)
  BY DEF FWIndInv, DisabledOff
<1>2. CASE self[x] = "on"
  <2>1. x \in Delivered(x)
    BY <1>2 DEF Delivered
  <2> QED BY <1>1, <1>2, <2>1
<1>3. CASE self[x] # "on"
  BY <1>1, <1>3 DEF Delivered, LeadsTo
<1> QED BY <1>2, <1>3

(* Aliases that were changed lead to no disabled account unnoticed.          *)
LEMMA LedToKnows ==
  ASSUME NEW E, NEW x \in Accounts, NEW y \in Accounts, account[y] = "disabled",
         LeadsTo(E, x, y), E[x] # ext[x]
  PROVE  y \in LedTo(E)
BY DEF LeadsTo, LedTo

(* Only written aliases change.                                              *)
LEMMA OffAfterAlias ==
  ASSUME FWIndInv, LedTo(ext') \subseteq late', late \subseteq late', UNCHANGED account,
         \A m \in Accounts : self'[m] = "on" => self[m] = "on" \/ account[m] # "disabled"
                                                               \/ m \in late'
  PROVE  DisabledOff'
<1> SUFFICES ASSUME NEW m \in Accounts \ late', account'[m] = "disabled"
             PROVE  self'[m] # "on" /\ \A x \in Accounts : ~LeadsTo(ext', x, m)
  BY DEF DisabledOff, LeadsTo
<1>1. self[m] # "on" /\ \A x \in Accounts : ~LeadsTo(ext, x, m)
  BY DEF FWIndInv, DisabledOff
<1>2. \A x \in Accounts : LeadsTo(ext', x, m) => ext'[x] = ext[x]
  BY LedToKnows
<1> QED BY <1>1, <1>2 DEF LeadsTo

(* Where neither the aliases at an address nor the choice change, mail goes  *)
(* where it went.                                                            *)
LEMMA DeliveredSame ==
  ASSUME NEW x \in Accounts, self'[x] = self[x], ext'[x] = ext[x]
  PROVE  Delivered(x)' = Delivered(x)
BY DEF Delivered

(* What an administrator has written was not chosen.                         *)
LEMMA DisturbedIs ==
  ASSUME FWIndInv, NEW S, chosen' = Disturbed(S)
  PROVE  /\ chosen' \in [Accounts -> {Upset} \cup SUBSET Recipients]
         /\ \A m \in Accounts : chosen'[m] = Upset \/ chosen'[m] \subseteq Recipients
         /\ \A m \in RegisteredAccounts : m \in S => chosen'[m] = Upset
         /\ \A m \in Accounts : m \notin S => chosen'[m] = chosen[m]
<1>1. \A m \in Accounts : chosen[m] \in {Upset} \cup SUBSET Recipients
  BY DEF FWIndInv, TablesOK
<1> QED BY <1>1 DEF Disturbed, RegisteredAccounts

(* One alias is written by an administrator, or removed.                     *)
LEMMA AliasWrittenStep ==
  ASSUME FWIndInv, NEW x \in Accounts, NEW r \in {NoAlias} \cup Written,
         r # NoAlias => r.to # {} /\ r.to \subseteq RegisteredAccounts \cup {Outside},
         ext' = [ext EXCEPT ![x] = r], chosen' = Disturbed({x}), late' = late \cup LedTo(ext'),
         UNCHANGED <<account, self, ask>>, PageOK', begun' \in 0 .. MaxBegun
  PROVE  FWIndInv'
<1> USE ForwardsAssumption
<1>1. /\ ext' \in [Accounts -> {NoAlias} \cup Written] /\ ext'[x] = r
      /\ \A y \in Accounts \ {x} : ext'[y] = ext[y]
  BY DEF FWIndInv, TablesOK
<1>2. LedTo(ext') \subseteq Accounts
  BY DEF LedTo
<1>3. FWTypeOK'
  BY <1>1, <1>2, DisturbedIs DEF FWIndInv, FWTypeOK, Written
<1>4. RecipientsExist'
  BY <1>1 DEF FWIndInv, RecipientsExist, RegisteredAccounts
<1>5. ForwardsKept'
  <2> SUFFICES ASSUME NEW m \in RegisteredAccounts, chosen'[m] # Upset
               PROVE  Delivered(m)' = chosen'[m]
    BY DEF ForwardsKept, RegisteredAccounts
  <2>1. m # x /\ m \in Accounts
    BY DisturbedIs DEF RegisteredAccounts
  <2>2. Delivered(m)' = Delivered(m) /\ chosen'[m] = chosen[m]
    BY <1>1, <2>1, DeliveredSame, DisturbedIs
  <2> QED BY <2>2 DEF FWIndInv, ForwardsKept
<1>6. TablesOK'
  BY <1>1, DisturbedIs DEF FWIndInv, TablesOK, AskOK
<1>7. DisabledOff'
  BY OffAfterAlias
<1> QED BY <1>3, <1>4, <1>5, <1>6, <1>7 DEF FWIndInv

(* An administrator adds an alias.                                           *)
LEMMA AddAliasStep ==
  ASSUME FWIndInv, NEW x \in Accounts, NEW to \in SUBSET Recipients, AddAlias(x, to)
  PROVE  FWIndInv'
<1> DEFINE r == [on |-> TRUE, to |-> to]
<1>1. r \in {NoAlias} \cup Written /\ r.to = to
  BY WrittenIs
<1>2. /\ ext' = [ext EXCEPT ![x] = r] /\ to # {} /\ to \subseteq RegisteredAccounts \cup {Outside}
      /\ chosen' = Disturbed({x}) /\ late' = late \cup LedTo(ext')
      /\ UNCHANGED <<account, self, ask, page>> /\ begun' \in 0 .. MaxBegun
  BY ForwardsAssumption DEF AddAlias, Begins, FWIndInv, FWTypeOK
<1>3. PageOK'
  BY <1>2 DEF FWIndInv, TablesOK, PageOK
<1> HIDE DEF r
<1> QED BY <1>1, <1>2, <1>3, AliasWrittenStep

(* An administrator saves the page of an alias.                              *)
LEMMA SaveAliasStep ==
  ASSUME FWIndInv, NEW on \in BOOLEAN, NEW to \in SUBSET Recipients, SaveAlias(on, to)
  PROVE  FWIndInv'
<1> DEFINE r == [on |-> on, to |-> to]
           x == page.at
<1>1. r \in {NoAlias} \cup Written /\ r.to = to
  BY WrittenIs
<1>2. /\ ext' = [ext EXCEPT ![x] = r] /\ to # {} /\ to \subseteq RegisteredAccounts \cup {Outside}
      /\ chosen' = Disturbed({x}) /\ late' = late \cup LedTo(ext') /\ page' = NoPage
      /\ UNCHANGED <<account, self, ask, begun>>
  BY DEF SaveAlias
<1>3. PageOK' /\ begun' \in 0 .. MaxBegun
  BY <1>2 DEF PageOK, FWIndInv, FWTypeOK
<1>4. x \in Accounts
  BY DEF SaveAlias, FWIndInv, TablesOK, PageOK, NoPage
<1> HIDE DEF r, x
<1> QED BY <1>1, <1>2, <1>3, <1>4, AliasWrittenStep

(* An administrator removes an alias.                                        *)
LEMMA RemoveAliasStep ==
  ASSUME FWIndInv, NEW x \in Accounts, RemoveAlias(x)
  PROVE  FWIndInv'
<1>1. /\ ext' = [ext EXCEPT ![x] = NoAlias]
      /\ chosen' = Disturbed({x}) /\ late' = late
      /\ page' = page \/ page' = NoPage
      /\ UNCHANGED <<account, self, ask>> /\ begun' \in 0 .. MaxBegun
  BY ForwardsAssumption DEF RemoveAlias, Begins, FWIndInv, FWTypeOK
<1>2. PageOK'
  BY <1>1 DEF FWIndInv, TablesOK, PageOK
<1>3. LedTo(ext') = {}
  BY <1>1 DEF LedTo, FWIndInv, TablesOK
<1>4. late' = late \cup LedTo(ext')
  BY <1>1, <1>3
<1> QED BY <1>1, <1>2, <1>4, AliasWrittenStep

(* Only a page or a request changes.                                         *)
LEMMA NothingWritten ==
  ASSUME FWIndInv, UNCHANGED <<account, self, ext, chosen, late>>,
         PageOK', AskOK', begun' \in 0 .. MaxBegun
  PROVE  FWIndInv'
BY DEF FWIndInv, FWTypeOK, RecipientsExist, ForwardsKept, TablesOK, DisabledOff, Delivered,
       LeadsTo, RegisteredAccounts

(* A page is opened or closed, a request authenticated or refused.           *)
LEMMA OpenStep ==
  ASSUME FWIndInv,
         \/ \E m \in Accounts : OpenAccount(m) \/ OpenAlias(m) \/ ForwardFails(m)
         \/ \E m \in Accounts, to \in SUBSET Recipients, keep \in BOOLEAN : Forward(m, to, keep)
         \/ ClosePage
  PROVE  FWIndInv'
<1> USE ForwardsAssumption
<1>1. ASSUME NEW m \in Accounts, OpenAccount(m) PROVE FWIndInv'
  <2>1. /\ account[m] \in {"active", "disabled"} /\ AliasAddresses(m) \subseteq Accounts
        /\ begun' \in 0 .. MaxBegun
    BY <1>1 DEF OpenAccount, FWIndInv, FWTypeOK, AliasAddresses, Begins
  <2>2. PageOK'
    BY <1>1, <2>1 DEF OpenAccount, PageOK
  <2>3. AskOK'
    BY <1>1 DEF OpenAccount, AskOK
  <2> QED BY <1>1, <2>1, <2>2, <2>3, NothingWritten DEF OpenAccount
<1>2. ASSUME NEW m \in Accounts, OpenAlias(m) PROVE FWIndInv'
  <2>1. ext[m].on \in BOOLEAN /\ ext[m].to \in SUBSET Recipients /\ begun' \in 0 .. MaxBegun
    BY <1>2 DEF OpenAlias, FWIndInv, FWTypeOK, Begins
  <2>2. PageOK'
    BY <1>2, <2>1 DEF OpenAlias, PageOK
  <2>3. AskOK'
    BY <1>2 DEF OpenAlias, AskOK
  <2> QED BY <1>2, <2>1, <2>2, <2>3, NothingWritten DEF OpenAlias
<1>3. ASSUME NEW m \in Accounts, ForwardFails(m) PROVE FWIndInv'
  BY <1>3, NothingWritten DEF ForwardFails, FWIndInv, FWTypeOK, TablesOK, AskOK, PageOK
<1>4. ASSUME NEW m \in Accounts, NEW to \in SUBSET Recipients, NEW keep \in BOOLEAN,
             Forward(m, to, keep)
      PROVE  FWIndInv'
  <2>1. AskOK' /\ begun' \in 0 .. MaxBegun
    BY <1>4 DEF Forward, AskOK, Begins, FWIndInv, FWTypeOK
  <2>2. PageOK'
    BY <1>4 DEF Forward, FWIndInv, TablesOK, PageOK
  <2> QED BY <1>4, <2>1, <2>2, NothingWritten DEF Forward
<1>5. CASE ClosePage
  BY <1>5, NothingWritten DEF ClosePage, FWIndInv, FWTypeOK, TablesOK, AskOK, PageOK
<1> QED BY <1>1, <1>2, <1>3, <1>4, <1>5

(* clean_inactive_accounts.                                                  *)
LEMMA CleanStep ==
  ASSUME FWIndInv, NEW m \in Accounts, CleanInactive(m)
  PROVE  FWIndInv'
<1> USE ForwardsAssumption
<1>1. /\ account' = [account EXCEPT ![m] = "disabled"] /\ late' = late \cup {m}
      /\ account[m] = "active" /\ begun' \in 0 .. MaxBegun
      /\ UNCHANGED <<self, ext, ask, page, chosen>>
  BY DEF CleanInactive, Begins, FWIndInv, FWTypeOK
<1>2. /\ account' \in [Accounts -> {"none", "active", "disabled"}]
      /\ RegisteredAccounts' = RegisteredAccounts
      /\ \A x \in Accounts \ {m} : account'[x] = account[x]
      /\ account'[m] # "none"
  BY <1>1 DEF FWIndInv, FWTypeOK, RegisteredAccounts
<1>3. FWTypeOK'
  BY <1>1, <1>2 DEF FWIndInv, FWTypeOK
<1>4. RecipientsExist' /\ ForwardsKept'
  BY <1>1, <1>2 DEF FWIndInv, RecipientsExist, ForwardsKept, Delivered
<1>5. TablesOK'
  BY <1>1, <1>2 DEF FWIndInv, TablesOK, PageOK, AskOK
<1>6. DisabledOff'
  BY <1>1, <1>2 DEF FWIndInv, DisabledOff, LeadsTo
<1> QED BY <1>3, <1>4, <1>5, <1>6 DEF FWIndInv

(* An account is created.                                                    *)
LEMMA CreateAccountStep ==
  ASSUME FWIndInv, NEW m \in Accounts, NEW s \in {"active", "disabled"}, CreateAccount(m, s)
  PROVE  FWIndInv'
<1> USE ForwardsAssumption
<1>1. /\ account' = [account EXCEPT ![m] = s] /\ account[m] = "none"
      /\ self' = [self EXCEPT ![m] = IF s = "active" THEN "on" ELSE "off"]
      /\ chosen' = [chosen EXCEPT ![m] = IF s = "active" /\ ext[m] = NoAlias THEN {m} ELSE Upset]
      /\ begun' \in 0 .. MaxBegun
      /\ UNCHANGED <<ext, ask, page, late>>
  BY DEF CreateAccount, Begins, FWIndInv, FWTypeOK
<1>2. /\ account' \in [Accounts -> {"none", "active", "disabled"}] /\ account'[m] = s
      /\ \A x \in Accounts \ {m} : /\ account'[x] = account[x] /\ self'[x] = self[x]
                                   /\ chosen'[x] = chosen[x]
      /\ RegisteredAccounts \subseteq RegisteredAccounts' /\ m \notin RegisteredAccounts
      /\ RegisteredAccounts' = RegisteredAccounts \cup {m}
      /\ self' \in [Accounts -> {"none", "on", "off"}]
      /\ self'[m] = IF s = "active" THEN "on" ELSE "off"
  BY <1>1 DEF FWIndInv, FWTypeOK, RegisteredAccounts, TablesOK
<1>3. /\ chosen' \in [Accounts -> {Upset} \cup SUBSET Recipients]
      /\ chosen'[m] = IF s = "active" /\ ext[m] = NoAlias THEN {m} ELSE Upset
  BY <1>1 DEF FWIndInv, TablesOK, Recipients
<1>4. FWTypeOK'
  BY <1>1, <1>2, <1>3 DEF FWIndInv, FWTypeOK
<1>5. RecipientsExist'
  BY <1>1, <1>2 DEF FWIndInv, RecipientsExist
<1>6. ForwardsKept'
  <2> SUFFICES ASSUME NEW x \in RegisteredAccounts', chosen'[x] # Upset
               PROVE  Delivered(x)' = chosen'[x]
    BY DEF ForwardsKept
  <2>1. CASE x = m
    BY <1>1, <1>2, <1>3, <2>1 DEF Delivered
  <2>2. CASE x # m
    <3>1. x \in RegisteredAccounts /\ x \in Accounts
      BY <1>2, <2>2 DEF RegisteredAccounts
    <3>2. Delivered(x)' = Delivered(x)
      BY <1>1, <1>2, <2>2, <3>1, DeliveredSame
    <3> QED BY <1>2, <2>2, <3>1, <3>2 DEF FWIndInv, ForwardsKept
  <2> QED BY <2>1, <2>2
<1>7. TablesOK'
  BY <1>1, <1>2, <1>3 DEF FWIndInv, TablesOK, PageOK, AskOK
<1>8. DisabledOff'
  <2>1. \A x \in Accounts : ~LeadsTo(ext, x, m)
    BY <1>2 DEF FWIndInv, RecipientsExist, LeadsTo
  <2>2. \A x \in Accounts : account'[x] = "disabled" =>
          (x = m /\ self'[x] # "on") \/ (account[x] = "disabled" /\ self'[x] = self[x])
    BY <1>2
  <2> QED BY <1>1, <2>1, <2>2 DEF FWIndInv, DisabledOff, LeadsTo
<1> QED BY <1>4, <1>5, <1>6, <1>7, <1>8 DEF FWIndInv

(* An alias after a mailbox has left it.                                     *)
LEMMA WithoutIs ==
  ASSUME FWIndInv, NEW x \in Accounts, NEW m \in Accounts
  PROVE  /\ Without(x, m) \in {NoAlias} \cup Written
         /\ Without(x, m) # NoAlias =>
              /\ x # m /\ ext[x] # NoAlias /\ ext[x].to # {m}
              /\ Without(x, m).on = ext[x].on /\ Without(x, m).to = ext[x].to \ {m}
         /\ ext[x] = NoAlias => Without(x, m) = NoAlias
<1>1. ext[x] \in {NoAlias} \cup Written
  BY DEF FWIndInv, TablesOK
<1>2. CASE ext[x] = NoAlias \/ x = m \/ ext[x].to = {m}
  BY <1>2 DEF Without
<1>3. CASE ~(ext[x] = NoAlias \/ x = m \/ ext[x].to = {m})
  <2>1. Without(x, m) = [ext[x] EXCEPT !.to = @ \ {m}] /\ ext[x] \in Written
    BY <1>1, <1>3 DEF Without
  <2> QED BY <1>3, <2>1 DEF Written
<1> QED BY <1>2, <1>3

(* An account is deleted, and with it what leads to it alone.                *)
LEMMA DeleteAccountStep ==
  ASSUME FWIndInv, NEW m \in Accounts, DeleteAccount(m)
  PROVE  FWIndInv'
<1> USE ForwardsAssumption
<1>1. /\ account' = [account EXCEPT ![m] = "none"] /\ self' = [self EXCEPT ![m] = "none"]
      /\ ext' = [x \in Accounts |-> Without(x, m)]
      /\ ask' = ask \/ ask' = NoAsk
      /\ page' = NoPage \/ (page' = page /\ page.at # m)
      /\ late' = (late \cup LedTo(ext')) \ {m}
      /\ begun' \in 0 .. MaxBegun
  BY DEF DeleteAccount, Begins, FWIndInv, FWTypeOK
<1>2. chosen' = [x \in Accounts |->
       CASE x = m -> {}
         [] x # m /\ (chosen[x] = Upset \/ (ext[x] # NoAlias /\ ext'[x] = NoAlias)) -> Upset
         [] OTHER -> chosen[x] \ {m}]
  BY DEF DeleteAccount
<1>3. /\ account' \in [Accounts -> {"none", "active", "disabled"}] /\ account'[m] = "none"
      /\ self' \in [Accounts -> {"none", "on", "off"}]
      /\ \A x \in Accounts \ {m} : account'[x] = account[x] /\ self'[x] = self[x]
      /\ RegisteredAccounts' = RegisteredAccounts \ {m}
  BY <1>1 DEF FWIndInv, FWTypeOK, RegisteredAccounts
<1>4. \A x \in Accounts :
        \/ ext'[x] = NoAlias
        \/ /\ ext'[x] \in Written /\ ext[x] \in Written /\ x # m /\ ext[x] # NoAlias
           /\ ext[x].to # {m} /\ ext'[x].on = ext[x].on /\ ext'[x].to = ext[x].to \ {m}
  <2> SUFFICES ASSUME NEW x \in Accounts, ext'[x] # NoAlias
               PROVE  /\ ext'[x] \in Written /\ ext[x] \in Written /\ x # m /\ ext[x] # NoAlias
                      /\ ext[x].to # {m} /\ ext'[x].on = ext[x].on
                      /\ ext'[x].to = ext[x].to \ {m}
    OBVIOUS
  <2>1. ext'[x] = Without(x, m) /\ ext[x] \in {NoAlias} \cup Written
    BY <1>1 DEF FWIndInv, TablesOK
  <2> QED BY <2>1, WithoutIs
<1>5. \A x \in Accounts : chosen'[x] \in {Upset} \cup SUBSET Recipients
  <2> SUFFICES ASSUME NEW x \in Accounts PROVE chosen'[x] \in {Upset} \cup SUBSET Recipients
    OBVIOUS
  <2>1. chosen[x] \in {Upset} \cup SUBSET Recipients
    BY DEF FWIndInv, TablesOK
  <2> QED BY <1>2, <2>1
<1>6. FWTypeOK'
  <2>1. late' \subseteq Accounts
    BY <1>1 DEF LedTo, FWIndInv, FWTypeOK
  <2>2. \A x \in Accounts : ext'[x] = NoAlias \/ ext'[x] \in [on : BOOLEAN, to : SUBSET Recipients]
    BY <1>4 DEF Written
  <2> QED BY <1>1, <1>3, <1>5, <2>1, <2>2 DEF FWTypeOK
<1>7. RecipientsExist'
  BY <1>3, <1>4 DEF FWIndInv, RecipientsExist
<1>8. ForwardsKept'
  <2> SUFFICES ASSUME NEW x \in RegisteredAccounts', chosen'[x] # Upset
               PROVE  Delivered(x)' = chosen'[x]
    BY DEF ForwardsKept
  <2>1. x \in Accounts /\ x # m /\ x \in RegisteredAccounts
    BY <1>3 DEF RegisteredAccounts
  <2>2. /\ chosen[x] # Upset /\ chosen'[x] = chosen[x] \ {m}
        /\ ext[x] = NoAlias \/ ext'[x] # NoAlias
    BY <1>2, <2>1
  <2>3. Delivered(x) = chosen[x]
    BY <2>1, <2>2 DEF FWIndInv, ForwardsKept
  <2>4. CASE ext[x] = NoAlias
    BY <1>3, <1>4, <2>1, <2>2, <2>3, <2>4 DEF Delivered
  <2>5. CASE ext'[x] # NoAlias
    BY <1>3, <1>4, <2>1, <2>2, <2>3, <2>5 DEF Delivered
  <2> QED BY <2>2, <2>4, <2>5
<1>9. TablesOK'
  <2>1. ext' \in [Accounts -> {NoAlias} \cup Written]
    <3>1. \A x \in Accounts : ext'[x] \in {NoAlias} \cup Written
      BY <1>4
    <3> QED BY <1>1, <3>1
  <2>2. chosen' \in [Accounts -> {Upset} \cup SUBSET Recipients]
    BY <1>2, <1>5
  <2>3. PageOK'
    BY <1>1, <1>3 DEF FWIndInv, TablesOK, PageOK
  <2>4. AskOK'
    BY <1>1 DEF FWIndInv, TablesOK, AskOK
  <2> QED BY <2>1, <2>2, <2>3, <2>4 DEF TablesOK
<1>10. DisabledOff'
  <2> SUFFICES ASSUME NEW y \in Accounts \ late', account'[y] = "disabled"
               PROVE  self'[y] # "on" /\ \A x \in Accounts : ~LeadsTo(ext', x, y)
    BY DEF DisabledOff, LeadsTo
  <2>1. y # m /\ account[y] = "disabled" /\ self'[y] = self[y] /\ y \notin late
    BY <1>1, <1>3
  <2>2. self[y] # "on" /\ \A x \in Accounts : ~LeadsTo(ext, x, y)
    BY <2>1 DEF FWIndInv, DisabledOff
  <2>3. \A x \in Accounts : LeadsTo(ext', x, y) => ext'[x] = ext[x]
    BY <1>1, <2>1, LedToKnows
  <2> QED BY <2>1, <2>2, <2>3 DEF LeadsTo
<1> QED BY <1>6, <1>7, <1>8, <1>9, <1>10 DEF FWIndInv

(* An alias after the page of an account has been saved.                     *)
LEMMA AccountWritesAlias ==
  ASSUME FWIndInv, NEW x \in Accounts, NEW m \in RegisteredAccounts, NEW L
  PROVE  /\ AliasWritten(x, m, L) \in {NoAlias} \cup Written
         /\ AliasWritten(x, m, L) # NoAlias =>
              /\ AliasWritten(x, m, L).to # {}
              /\ AliasWritten(x, m, L).to \subseteq RegisteredAccounts \cup {Outside}
<1>1. ext[x] \in {NoAlias} \cup Written /\ m \in Accounts
  BY DEF FWIndInv, TablesOK, RegisteredAccounts
<1>2. ext[x] # NoAlias => ext[x].to # {} /\ ext[x].to \subseteq RegisteredAccounts \cup {Outside}
  BY DEF FWIndInv, RecipientsExist
<1>3. CASE x \in L /\ ext[x] = NoAlias
  <2>1. AliasWritten(x, m, L) = [on |-> TRUE, to |-> {m}]
    BY <1>3 DEF AliasWritten
  <2>2. {m} \in SUBSET Recipients /\ TRUE \in BOOLEAN
    BY <1>1 DEF Recipients
  <2>3. [on |-> TRUE, to |-> {m}] \in Written
    BY <2>2 DEF Written
  <2>4. AliasWritten(x, m, L) \in Written /\ AliasWritten(x, m, L).to = {m}
    BY <2>1, <2>3
  <2> QED BY <1>1, <2>4
<1>4. CASE x \in L /\ ext[x] # NoAlias
  <2>1. AliasWritten(x, m, L) = [ext[x] EXCEPT !.to = @ \cup {m}] /\ ext[x] \in Written
    BY <1>1, <1>4 DEF AliasWritten
  <2> QED BY <1>1, <1>2, <1>4, <2>1 DEF Written, Recipients
<1>5. CASE x \notin L /\ ext[x] # NoAlias /\ ext[x].to = {m}
  BY <1>5 DEF AliasWritten
<1>6. CASE x \notin L /\ ext[x] # NoAlias /\ ext[x].to # {m}
  <2>1. AliasWritten(x, m, L) = [ext[x] EXCEPT !.to = @ \ {m}] /\ ext[x] \in Written
    BY <1>1, <1>6 DEF AliasWritten
  <2> QED BY <1>1, <1>2, <1>6, <2>1 DEF Written
<1>7. CASE x \notin L /\ ext[x] = NoAlias
  BY <1>7 DEF AliasWritten
<1> QED BY <1>3, <1>4, <1>5, <1>6, <1>7

(* Disabling aliases takes away neither recipients nor aliases.              *)
LEMMA AliasesDisabledIs ==
  ASSUME NEW E, NEW m \in Accounts, NEW x \in Accounts, E[x] \in {NoAlias} \cup Written
  PROVE  /\ AliasesDisabled(E, m)[x] \in {NoAlias} \cup Written
         /\ AliasesDisabled(E, m)[x] # NoAlias =>
              /\ E[x] # NoAlias /\ AliasesDisabled(E, m)[x].to = E[x].to
              /\ E[x].to = {m} => ~AliasesDisabled(E, m)[x].on
         /\ (E[x] = NoAlias \/ E[x].to # {m}) => AliasesDisabled(E, m)[x] = E[x]
<1>1. CASE E[x] # NoAlias /\ E[x].to = {m}
  <2>1. AliasesDisabled(E, m)[x] = [E[x] EXCEPT !.on = FALSE] /\ E[x] \in Written
    BY <1>1 DEF AliasesDisabled
  <2> QED BY <1>1, <2>1 DEF Written
<1>2. CASE ~(E[x] # NoAlias /\ E[x].to = {m})
  BY <1>2 DEF AliasesDisabled
<1> QED BY <1>1, <1>2

(* An administrator saves the page of an account.                            *)
LEMMA SaveAccountStep ==
  ASSUME FWIndInv, NEW s \in {"active", "disabled"}, NEW L \in SUBSET Accounts, SaveAccount(s, L)
  PROVE  FWIndInv'
<1> DEFINE m == page.at
           E == [x \in Accounts |-> AliasWritten(x, m, L)]
           off == s = "disabled"
           S == {x \in Accounts :
                   E[x] # ext[x] \/ (off /\ (x = m \/ (E[x] # NoAlias /\ E[x].to = {m})))}
<1>1. m \in RegisteredAccounts /\ m \in Accounts
  BY DEF SaveAccount, FWIndInv, TablesOK, PageOK, NoPage, RegisteredAccounts
<1>2. /\ account' = [account EXCEPT ![m] = s]
      /\ ext' = IF off THEN AliasesDisabled(E, m) ELSE E
      /\ self' = IF off THEN [self EXCEPT ![m] = "off"] ELSE self
      /\ chosen' = Disturbed(S)
      /\ late' = (late \cup LedTo(E)) \ {m}
      /\ page' = NoPage
      /\ UNCHANGED <<ask, begun>>
  BY DEF SaveAccount
<1>3. \A x \in Accounts : /\ E[x] \in {NoAlias} \cup Written
                          /\ E[x] # NoAlias =>
                               /\ E[x].to # {}
                               /\ E[x].to \subseteq RegisteredAccounts \cup {Outside}
  BY <1>1, AccountWritesAlias
<1>4. \A x \in Accounts : x \in S <=>
        E[x] # ext[x] \/ (off /\ (x = m \/ (E[x] # NoAlias /\ E[x].to = {m})))
  OBVIOUS
<1>5. E = [x \in Accounts |-> E[x]]
  OBVIOUS
<1> HIDE DEF m, E, S
<1>6. /\ account' \in [Accounts -> {"none", "active", "disabled"}] /\ account'[m] = s
      /\ self' \in [Accounts -> {"none", "on", "off"}]
      /\ off => self'[m] = "off"
      /\ \A x \in Accounts \ {m} : account'[x] = account[x] /\ self'[x] = self[x]
      /\ ~off => self' = self
      /\ RegisteredAccounts' = RegisteredAccounts
  BY <1>1, <1>2 DEF FWIndInv, FWTypeOK, RegisteredAccounts
<1>7. \A x \in Accounts :
        /\ ext'[x] \in {NoAlias} \cup Written
        /\ ext'[x] # NoAlias => E[x] # NoAlias /\ ext'[x].to = E[x].to
        /\ x \notin S => ext'[x] = ext[x]
        /\ ext'[x] = E[x] \/ (off /\ ~LeadsTo(ext', x, m) /\ E[x] # NoAlias /\ E[x].to = {m})
        /\ off => ~LeadsTo(ext', x, m)
  <2> SUFFICES ASSUME NEW x \in Accounts
               PROVE  /\ ext'[x] \in {NoAlias} \cup Written
                      /\ ext'[x] # NoAlias => E[x] # NoAlias /\ ext'[x].to = E[x].to
                      /\ x \notin S => ext'[x] = ext[x]
                      /\ \/ ext'[x] = E[x]
                         \/ off /\ ~LeadsTo(ext', x, m) /\ E[x] # NoAlias /\ E[x].to = {m}
                      /\ off => ~LeadsTo(ext', x, m)
    OBVIOUS
  <2>1. CASE off
    <3>1. /\ ext'[x] \in {NoAlias} \cup Written
          /\ ext'[x] # NoAlias =>
              /\ E[x] # NoAlias /\ ext'[x].to = E[x].to
              /\ E[x].to = {m} => ~ext'[x].on
          /\ (E[x] = NoAlias \/ E[x].to # {m}) => ext'[x] = E[x]
      BY <1>1, <1>2, <1>3, <2>1, AliasesDisabledIs
    <3>2. ~LeadsTo(ext', x, m)
      BY <3>1 DEF LeadsTo
    <3> QED BY <1>4, <2>1, <3>1, <3>2
  <2>2. CASE ~off
    BY <1>2, <1>3, <1>4, <2>2
  <2> QED BY <2>1, <2>2
<1>8. FWTypeOK'
  <2>1. late' \subseteq Accounts
    BY <1>2 DEF LedTo, FWIndInv, FWTypeOK
  <2>2. \A x \in Accounts : ext'[x] = NoAlias \/ ext'[x] \in [on : BOOLEAN, to : SUBSET Recipients]
    BY <1>7 DEF Written
  <2>3. begun' \in 0 .. MaxBegun
    BY <1>2 DEF FWIndInv, FWTypeOK
  <2>4. \A x \in Accounts : chosen'[x] = Upset \/ chosen'[x] \subseteq Recipients
    BY <1>2, DisturbedIs
  <2> QED BY <1>6, <2>1, <2>2, <2>3, <2>4 DEF FWTypeOK
<1>9. RecipientsExist'
  BY <1>3, <1>6, <1>7 DEF RecipientsExist
<1>10. ForwardsKept'
  <2> SUFFICES ASSUME NEW x \in RegisteredAccounts, chosen'[x] # Upset
               PROVE  Delivered(x)' = chosen'[x]
    BY <1>6 DEF ForwardsKept
  <2>1. x \in Accounts /\ x \notin S
    BY <1>2, DisturbedIs DEF RegisteredAccounts
  <2>2. chosen'[x] = chosen[x]
    BY <1>2, <2>1, DisturbedIs
  <2>3. ext'[x] = ext[x] /\ self'[x] = self[x]
    BY <1>4, <1>6, <1>7, <2>1
  <2>4. Delivered(x)' = Delivered(x)
    BY <2>1, <2>3, DeliveredSame
  <2> QED BY <2>2, <2>4 DEF FWIndInv, ForwardsKept
<1>11. TablesOK'
  <2>1. ext' \in [Accounts -> {NoAlias} \cup Written]
    <3>1. ext' = [x \in Accounts |-> ext'[x]]
      BY <1>2, <1>5 DEF AliasesDisabled
    <3> QED BY <1>7, <3>1
  <2>2. chosen' \in [Accounts -> {Upset} \cup SUBSET Recipients]
    BY <1>2, DisturbedIs
  <2>3. PageOK' /\ AskOK'
    BY <1>2 DEF FWIndInv, TablesOK, PageOK, AskOK
  <2> QED BY <2>1, <2>2, <2>3 DEF TablesOK
<1>12. DisabledOff'
  <2> SUFFICES ASSUME NEW y \in Accounts \ late', account'[y] = "disabled"
               PROVE  self'[y] # "on" /\ \A x \in Accounts : ~LeadsTo(ext', x, y)
    BY DEF DisabledOff, LeadsTo
  <2>1. CASE y = m
    BY <1>6, <1>7, <2>1
  <2>2. CASE y # m
    <3>1. account[y] = "disabled" /\ self'[y] = self[y] /\ y \notin late /\ y \notin LedTo(E)
      BY <1>2, <1>6, <2>2
    <3>2. self[y] # "on" /\ \A x \in Accounts : ~LeadsTo(ext, x, y)
      BY <3>1 DEF FWIndInv, DisabledOff
    <3>3. ASSUME NEW x \in Accounts, LeadsTo(ext', x, y) PROVE FALSE
      <4>1. ext'[x].to = {y} /\ ext'[x] # NoAlias
        BY <3>3 DEF LeadsTo
      <4>2. ext'[x] = E[x]
        BY <1>7, <2>2, <4>1
      <4>3. LeadsTo(E, x, y)
        BY <3>3, <4>2 DEF LeadsTo
      <4>4. E[x] = ext[x]
        BY <3>1, <4>3, LedToKnows
      <4> QED BY <3>2, <4>3, <4>4 DEF LeadsTo
    <3> QED BY <3>1, <3>2, <3>3
  <2> QED BY <2>1, <2>2
<1> QED BY <1>8, <1>9, <1>10, <1>11, <1>12 DEF FWIndInv

(* A user forwards nothing any more.                                         *)
LEMMA NoForwardStep ==
  ASSUME FWIndInv, NEW m \in Accounts, NoForward(m)
  PROVE  FWIndInv'
<1> USE ForwardsAssumption
<1>1. /\ ext' = [ext EXCEPT ![m] = NoAlias] /\ self' = [self EXCEPT ![m] = "on"]
      /\ ask' = NoAsk /\ (page' = page \/ page' = NoPage)
      /\ chosen' = [chosen EXCEPT ![m] = {m}]
      /\ late' = IF account[m] = "disabled" THEN late \cup {m} ELSE late
      /\ UNCHANGED <<account, begun>>
  BY DEF NoForward
<1>2. /\ ext' \in [Accounts -> {NoAlias} \cup Written] /\ ext'[m] = NoAlias
      /\ self' \in [Accounts -> {"none", "on", "off"}] /\ self'[m] = "on"
      /\ chosen' \in [Accounts -> {Upset} \cup SUBSET Recipients] /\ chosen'[m] = {m}
      /\ \A x \in Accounts \ {m} : /\ ext'[x] = ext[x] /\ self'[x] = self[x]
                                   /\ chosen'[x] = chosen[x]
  BY <1>1 DEF FWIndInv, FWTypeOK, TablesOK, Recipients
<1>3. FWTypeOK'
  BY <1>1, <1>2 DEF FWIndInv, FWTypeOK, Written
<1>4. RecipientsExist'
  BY <1>1, <1>2 DEF FWIndInv, RecipientsExist, RegisteredAccounts
<1>5. ForwardsKept'
  <2> SUFFICES ASSUME NEW x \in RegisteredAccounts, chosen'[x] # Upset
               PROVE  Delivered(x)' = chosen'[x]
    BY <1>1 DEF ForwardsKept, RegisteredAccounts
  <2>1. CASE x = m
    BY <1>2, <2>1 DEF Delivered
  <2>2. CASE x # m
    BY <1>2, <2>2, DeliveredSame DEF RegisteredAccounts, FWIndInv, ForwardsKept
  <2> QED BY <2>1, <2>2
<1>6. TablesOK'
  BY <1>1, <1>2 DEF FWIndInv, TablesOK, PageOK, AskOK
<1>7. LedTo(ext') = {}
  BY <1>2 DEF LedTo
<1>8. DisabledOff'
  <2>1. \A x \in Accounts : self'[x] = "on" => \/ self[x] = "on" \/ account[x] # "disabled"
                                               \/ x \in late'
    BY <1>1, <1>2
  <2> QED BY <1>1, <1>7, <2>1, OffAfterAlias
<1> QED BY <1>3, <1>4, <1>5, <1>6, <1>8 DEF FWIndInv

(* A user's forward is saved.                                                *)
LEMMA SaveForwardStep ==
  ASSUME FWIndInv, NEW m \in Accounts, SaveForward(m)
  PROVE  FWIndInv'
<1> USE ForwardsAssumption
<1> DEFINE to == ask.to \cup (IF ask.keep THEN {m} ELSE {})
           r == [on |-> IF ask.found THEN ext[m].on ELSE TRUE, to |-> to]
<1>1. /\ to \subseteq RegisteredAccounts \cup {Outside} /\ ask.to # {}
      /\ ask.found = (ext[m] # NoAlias)
      /\ ext' = [ext EXCEPT ![m] = r]
      /\ chosen' = [chosen EXCEPT ![m] = IF ext'[m].on THEN to ELSE Upset]
      /\ late' = late \cup LedTo(ext') \cup {y \in {m} : ask.keep /\ account[m] = "disabled"}
      /\ self' = [self EXCEPT ![m] = IF ask.keep THEN "on" ELSE "off"]
      /\ ask' = NoAsk
      /\ UNCHANGED <<account, page, begun>>
    BY DEF SaveForward, ForwardWritten
<1>2. /\ to \in SUBSET Recipients /\ to # {}
      /\ to \subseteq RegisteredAccounts \cup {Outside} /\ (ask.keep => m \in to)
  BY <1>1 DEF RegisteredAccounts, Recipients
<1>3. r \in Written /\ r # NoAlias /\ r.to = to
  <2>1. (IF ask.found THEN ext[m].on ELSE TRUE) \in BOOLEAN
    BY <1>1 DEF FWIndInv, TablesOK, Written
  <2> QED BY <1>2, <2>1, WrittenIs
<1> HIDE DEF to, r
<1>4. /\ ext' \in [Accounts -> {NoAlias} \cup Written] /\ ext'[m] = r
      /\ self' \in [Accounts -> {"none", "on", "off"}]
      /\ self'[m] = IF ask.keep THEN "on" ELSE "off"
      /\ chosen' \in [Accounts -> {Upset} \cup SUBSET Recipients]
      /\ chosen'[m] = IF r.on THEN to ELSE Upset
      /\ \A x \in Accounts \ {m} : /\ ext'[x] = ext[x] /\ self'[x] = self[x]
                                   /\ chosen'[x] = chosen[x]
  BY <1>1, <1>2, <1>3 DEF FWIndInv, FWTypeOK, TablesOK
<1>5. FWTypeOK'
  <2>1. late' \subseteq Accounts
    BY <1>1 DEF LedTo, FWIndInv, FWTypeOK
  <2> QED BY <1>1, <1>4, <2>1 DEF FWIndInv, FWTypeOK, Written
<1>6. RecipientsExist'
  BY <1>1, <1>2, <1>3, <1>4 DEF FWIndInv, RecipientsExist, RegisteredAccounts
<1>7. ForwardsKept'
  <2> SUFFICES ASSUME NEW x \in RegisteredAccounts, chosen'[x] # Upset
               PROVE  Delivered(x)' = chosen'[x]
    BY <1>1 DEF ForwardsKept, RegisteredAccounts
  <2>1. CASE x = m
    <3>1. r.on /\ chosen'[m] = to
      BY <1>4, <2>1
    <3>2. Delivered(x)' = (IF ask.keep THEN {m} ELSE {}) \cup to
      BY <1>3, <1>4, <2>1, <3>1 DEF Delivered
    <3> QED BY <1>2, <2>1, <3>1, <3>2
  <2>2. CASE x # m
    BY <1>4, <2>2, DeliveredSame DEF RegisteredAccounts, FWIndInv, ForwardsKept
  <2> QED BY <2>1, <2>2
<1>8. TablesOK'
  BY <1>1, <1>4 DEF FWIndInv, TablesOK, PageOK, AskOK
<1>9. DisabledOff'
  <2>1. \A x \in Accounts : self'[x] = "on" => \/ self[x] = "on" \/ account[x] # "disabled"
                                               \/ x \in late'
    BY <1>1, <1>4
  <2> QED BY <1>1, <2>1, OffAfterAlias
<1> QED BY <1>5, <1>6, <1>7, <1>8, <1>9 DEF FWIndInv

(* Nobody has a forward yet.                                                 *)
LEMMA ForwardsInitially ==
  ASSUME FWInit
  PROVE  FWIndInv
<1> USE ForwardsAssumption DEF FWInit
<1>1. FWTypeOK /\ RecipientsExist
  BY DEF FWTypeOK, RecipientsExist, Recipients
<1>2. ForwardsKept
  BY DEF ForwardsKept, RegisteredAccounts, Delivered
<1>3. TablesOK
  BY DEF TablesOK, PageOK, AskOK, Recipients
<1>4. DisabledOff
  BY DEF DisabledOff, LeadsTo
<1> QED BY <1>1, <1>2, <1>3, <1>4 DEF FWIndInv

(* Each forward, and what its cells hold, after any request or a stutter.  *)
LEMMA ForwardsStep ==
  ASSUME FWIndInv, [FWNext]_fwVars
  PROVE  FWIndInv'
<1>1. CASE FWNext
  BY <1>1, CreateAccountStep, DeleteAccountStep, OpenStep, CleanStep, AddAliasStep,
     RemoveAliasStep, NoForwardStep, SaveForwardStep, SaveAccountStep, SaveAliasStep DEF FWNext
<1>2. CASE UNCHANGED fwVars
  BY <1>2, NothingWritten DEF fwVars, FWIndInv, FWTypeOK, TablesOK, PageOK, AskOK
<1> QED BY <1>1, <1>2

(* The inductive invariant of forwards says what the run checks of them.   *)
LEMMA ForwardsImplied ==
  ASSUME FWIndInv
  PROVE  ForwardsInv
BY OffReceivesNothing DEF FWIndInv, ForwardsInv

(* Mail goes where its user asked it to go last unless something interfered, *)
(* no alias is left without recipients or leads to a mailbox that is gone,   *)
(* and none leads to a disabled account alone that was not led there late.   *)
THEOREM ForwardsFollow == FWSpec => []ForwardsInv
<1>1. FWInit => FWIndInv
  BY ForwardsInitially
<1>2. FWIndInv /\ [FWNext]_fwVars => FWIndInv'
  BY ForwardsStep
<1>3. FWIndInv => ForwardsInv
  BY ForwardsImplied
<1> QED BY <1>1, <1>2, <1>3, PTL DEF FWSpec

-----------------------------------------------------------------------------
(* Identities: folds of the library.  FoldLeft is a CHOOSE of a function that  *)
(* takes off the last position first; the tables after each position follow.  *)

(* A set of T with no other set of T inside it.                              *)
IsLeast(S, T) == S \in T /\ \A U \in T : U \subseteq S => U = S

(* Of some parts of a finite set, one has no other inside it.                *)
LEMMA LeastSet ==
  ASSUME NEW A, IsFiniteSet(A), NEW T, T \subseteq SUBSET A, T # {}
  PROVE  \E S : IsLeast(S, T)
<1>1. IsWellFoundedOn(StrictSubsetOrdering(A), SUBSET A)
  BY FS_StrictSubsetOrderingWellFounded, FS_FiniteSubsetsOfFinite
<1>2. PICK S \in T : \A U \in T : ~(<<U, S>> \in StrictSubsetOrdering(A))
  BY <1>1, WFMin
<1> QED BY <1>2 DEF StrictSubsetOrdering, IsLeast

(* The last of some positions.                                               *)
LastOf(t) == CHOOSE i \in t : \A j \in t : i >= j

(* It is the one after which there are fewest.                               *)
LEMMA LastIs ==
  ASSUME NEW n \in Nat, NEW t \in SUBSET (1 .. n), t # {}
  PROVE  LastOf(t) \in t /\ \A j \in t : LastOf(t) >= j
<1>1. PICK A : A = 1 .. n /\ IsFiniteSet(A)
  BY FS_Interval
<1> DEFINE After(i) == {j \in A : j > i}
<1>2. PICK T \in SUBSET (SUBSET A) : T = {After(i) : i \in t} /\ T # {}
  <2>1. {After(i) : i \in t} \in SUBSET (SUBSET A) /\ {After(i) : i \in t} # {}
    OBVIOUS
  <2> QED BY <2>1
<1>3. PICK D \in T : \A U \in T : U \subseteq D => U = D
  <2>0. T \subseteq SUBSET A /\ T # {} /\ IsFiniteSet(A)
    BY <1>1, <1>2
  <2>1. \E S : IsLeast(S, T)
    BY <2>0, LeastSet
  <2> QED BY <2>1 DEF IsLeast
<1>4. PICK i \in t : D = After(i)
  BY <1>2, <1>3
<1>5. ASSUME NEW j \in t, j > i PROVE FALSE
  <2>1. After(j) \subseteq D
    BY <1>1, <1>4, <1>5
  <2>2. After(j) = D
    BY <1>2, <1>3, <2>1
  <2>3. j \in D /\ j \notin After(j)
    BY <1>1, <1>4, <1>5
  <2> QED BY <2>2, <2>3
<1>6. \A j \in t : i >= j
  BY <1>1, <1>5
<1> QED BY <1>6 DEF LastOf

(* The result of the library's FoldLeft, over any part of the positions.     *)
Folds(it, db, s, B) ==
  it = [t \in SUBSET B |-> IF t = {} THEN db ELSE Release(it[t \ {LastOf(t)}], s[LastOf(t)])]

(* There is one: a smallest set without would have one.                      *)
LEMMA FoldExists ==
  ASSUME NEW db, NEW s, NEW n \in Nat
  PROVE  \E it : Folds(it, db, s, 1 .. n)
<1>0. PICK A : A = 1 .. n /\ IsFiniteSet(A)
  BY FS_Interval
<1> DEFINE T == {B \in SUBSET A : ~\E it : Folds(it, db, s, B)}
<1> SUFFICES ASSUME T # {} PROVE FALSE
  BY <1>0
<1>1. /\ T \in SUBSET (SUBSET A)
      /\ \A C \in SUBSET A : C \notin T => \E it : Folds(it, db, s, C)
      /\ \A C \in T : ~\E it : Folds(it, db, s, C)
  OBVIOUS
<1> HIDE DEF T
<1>2. PICK B \in T : \A C \in T : C \subseteq B => C = B
  <2>1. \E S : IsLeast(S, T)
    BY <1>0, <1>1, LeastSet
  <2> QED BY <2>1 DEF IsLeast
<1>3. B \in SUBSET A /\ B \in SUBSET (1 .. n)
  BY <1>0, <1>1
<1>4. CASE B = {}
  <2>1. PICK it : it = [t \in SUBSET {} |-> db]
    OBVIOUS
  <2>2. Folds(it, db, s, {})
    BY <2>1 DEF Folds
  <2> QED BY <1>1, <1>4, <2>2
<1>5. CASE B # {}
  <2>1. PICK y \in B : y = LastOf(B) /\ \A j \in B : y >= j
    BY <1>3, <1>5, LastIs
  <2>2. PICK C : C = B \ {y}
    OBVIOUS
  <2>3. PICK g : Folds(g, db, s, C)
    BY <1>1, <1>2, <1>3, <2>1, <2>2
  <2>4. PICK h : h = [t \in SUBSET B |-> IF y \in t THEN Release(g[t \ {y}], s[y]) ELSE g[t]]
    OBVIOUS
  <2>5. ASSUME NEW t \in SUBSET B
        PROVE  h[t] = IF t = {} THEN db ELSE Release(h[t \ {LastOf(t)}], s[LastOf(t)])
    <3>1. CASE y \in t
      <4>1. LastOf(t) = y
        <5>1. LastOf(t) \in t /\ LastOf(t) >= y /\ y >= LastOf(t)
          BY <1>3, <2>1, <3>1, LastIs
        <5>2. LastOf(t) \in 1 .. n /\ y \in 1 .. n
          BY <1>3, <5>1
        <5> QED BY <5>1, <5>2
      <4>2. h[t \ {y}] = g[t \ {y}]
        BY <2>4
      <4> QED BY <2>4, <3>1, <4>1, <4>2
    <3>2. CASE y \notin t
      <4>1. t \in SUBSET C /\ h[t] = g[t]
        BY <2>2, <2>4, <3>2
      <4>2. g[t] = IF t = {} THEN db ELSE Release(g[t \ {LastOf(t)}], s[LastOf(t)])
        BY <2>3, <4>1 DEF Folds
      <4>3. h[t \ {LastOf(t)}] = g[t \ {LastOf(t)}]
        BY <2>4, <3>2
      <4> QED BY <4>1, <4>2, <4>3
    <3> QED BY <3>1, <3>2
  <2>6. Folds(h, db, s, B)
    BY <2>4, <2>5 DEF Folds
  <2> QED BY <1>1, <2>6
<1> QED BY <1>4, <1>5

(* The tables after each position of s.                                      *)
Along(F, n, db, s) ==
  F[0] = db /\ F[n] = FoldLeft(Release, db, s) /\ \A i \in 1 .. n : F[i] = Release(F[i - 1], s[i])

(* FoldLeft releases the recipients s[1], s[2], ..., s[n] one by one.        *)
LEMMA FoldReleases ==
  ASSUME NEW db, NEW n \in Nat, NEW s, DOMAIN s = 1 .. n
  PROVE  \E F : Along(F, n, db, s)
<1>1. PICK it : it = CHOOSE i : Folds(i, db, s, 1 .. n)
  OBVIOUS
<1>2. Folds(it, db, s, 1 .. n)
  BY <1>1, FoldExists
<1>3. FoldLeft(Release, db, s) = it[1 .. n]
  BY <1>1 DEF FoldLeft, MapThenFoldSet, Max, Folds, LastOf
<1>4. PICK F : F = [i \in 0 .. n |-> it[1 .. i]]
  OBVIOUS
<1>5. F[0] = db
  <2>1. 1 .. 0 = {}
    OBVIOUS
  <2>2. it[{}] = db
    BY <1>2 DEF Folds
  <2> QED BY <1>4, <2>1, <2>2
<1>6. ASSUME NEW i \in 1 .. n PROVE F[i] = Release(F[i - 1], s[i])
  <2>1. PICK t \in SUBSET (1 .. n) : t = 1 .. i
    OBVIOUS
  <2>2. t # {} /\ i \in t /\ \A j \in t : i >= j
    BY <2>1
  <2>3. LastOf(t) = i
    <3>1. LastOf(t) \in t /\ \A j \in t : LastOf(t) >= j
      BY <2>2, LastIs
    <3>2. LastOf(t) >= i /\ i >= LastOf(t) /\ LastOf(t) \in 1 .. n
      BY <2>2, <3>1
    <3> QED BY <3>2
  <2>4. t \ {i} = 1 .. (i - 1)
    BY <2>1
  <2>5. it[t] = Release(it[t \ {i}], s[i])
    BY <1>2, <2>2, <2>3 DEF Folds
  <2>6. F[i] = it[t] /\ F[i - 1] = it[t \ {i}]
    <3>1. i \in 0 .. n /\ i - 1 \in 0 .. n
      OBVIOUS
    <3> QED BY <1>4, <2>1, <2>4, <3>1
  <2> QED BY <2>5, <2>6
<1>7. F[n] = it[1 .. n]
  BY <1>4
<1> QED BY <1>3, <1>5, <1>6, <1>7 DEF Along


-----------------------------------------------------------------------------
(* Releasing mailboxes from their aliases *)

(* What the tables A and R are once the rows P of R are released and the     *)
(* aliases Own removed: the aliases S are gone with the recipients they were. *)
(* But for Own they have no recipient left but such ones, and an alias that  *)
(* stays and has no recipient any more has lost one of those.                *)
Outcome(A, R, P, Own, S, db) ==
  /\ S \subseteq Pks /\ Own \subseteq S
  /\ db = [alias |-> [a \in Pks |-> IF a \in S THEN None ELSE A[a]],
           rcpts |-> {r \in R : r \notin P /\ r.alias \notin S /\ r.ref \notin S}]
  /\ \A a \in S, r \in R : r.alias = a => a \in Own \/ r \in P \/ r.ref \in S
  /\ \A a \in Pks \ S, q \in R :
       q.alias = a /\ (\A r \in db.rcpts : r.alias # a) => \E r \in R : r.alias = a /\ r.ref \in S

(* One row more is released.                                                 *)
LEMMA OneReleased ==
  ASSUME NEW A, NEW R, NEW P, NEW Own, NEW S, NEW db,
         Outcome(A, R, P, Own, S, db), NEW b \in R, b.alias \in Pks
  PROVE  \E S2 : Outcome(A, R, P \cup {b}, Own, S2, Release(db, b))
<1>1. PICK rest : rest = db.rcpts \ {b}
  OBVIOUS
<1>2. /\ db.alias = [a \in Pks |-> IF a \in S THEN None ELSE A[a]]
      /\ db.rcpts = {r \in R : r \notin P /\ r.alias \notin S /\ r.ref \notin S}
      /\ db = [alias |-> db.alias, rcpts |-> db.rcpts]
  BY DEF Outcome
<1>3. rest = {r \in R : r \notin P \cup {b} /\ r.alias \notin S /\ r.ref \notin S}
  BY <1>1, <1>2
<1>4. CASE \A r \in rest : r.alias # b.alias
  <2>1. Release(db, b) = DropAliases(db, {b.alias})
    BY <1>1, <1>4 DEF Release, RecipientsOf
  <2>2. PICK S2 : S2 = S \cup {b.alias}
    OBVIOUS
  <2>3. [a \in Pks |-> IF a \in {b.alias} THEN None ELSE db.alias[a]]
          = [a \in Pks |-> IF a \in S2 THEN None ELSE A[a]]
    BY <1>2, <2>2
  <2>4. {r \in db.rcpts : r.alias \notin {b.alias} /\ r.ref \notin {b.alias}}
          = {r \in R : r \notin P \cup {b} /\ r.alias \notin S2 /\ r.ref \notin S2}
    BY <1>2, <2>2
  <2>5. PICK db2 : db2 = Release(db, b)
    OBVIOUS
  <2>6. db2 = [alias |-> [a \in Pks |-> IF a \in S2 THEN None ELSE A[a]],
               rcpts |-> {r \in R : r \notin P \cup {b} /\ r.alias \notin S2 /\ r.ref \notin S2}]
    BY <2>1, <2>3, <2>4, <2>5 DEF DropAliases
  <2>7. ASSUME NEW a \in S2, NEW r \in R, r.alias = a
        PROVE  a \in Own \/ r \in P \cup {b} \/ r.ref \in S2
    BY <1>3, <1>4, <2>2, <2>7 DEF Outcome
  <2>8. ASSUME NEW a \in Pks \ S2, NEW q \in R, q.alias = a, \A r \in db2.rcpts : r.alias # a
        PROVE  \E r \in R : r.alias = a /\ r.ref \in S2
    <3>1. CASE \A r \in db.rcpts : r.alias # a
      <4>1. a \in Pks \ S
        BY <2>2, <2>8
      <4>2. \E r \in R : r.alias = a /\ r.ref \in S
        BY <2>8, <3>1, <4>1 DEF Outcome
      <4> QED BY <4>2, <2>2
    <3>2. CASE ~\A r \in db.rcpts : r.alias # a
      <4>1. PICK r \in db.rcpts : r.alias = a
        BY <3>2
      <4>2. r \in R /\ r \notin P /\ r.ref \notin S /\ r.alias \notin S
        BY <1>2, <4>1
      <4>3. r \notin db2.rcpts /\ r # b
        BY <2>2, <2>8, <4>1
      <4>4. r.ref = b.alias
        BY <2>2, <2>6, <2>8, <4>1, <4>2, <4>3
      <4> QED BY <2>2, <4>1, <4>2, <4>4
    <3> QED BY <3>1, <3>2
  <2>9. S2 \subseteq Pks /\ Own \subseteq S2
    BY <2>2 DEF Outcome
  <2>10. Outcome(A, R, P \cup {b}, Own, S2, db2)
    BY <2>6, <2>7, <2>8, <2>9 DEF Outcome
  <2> QED BY <2>5, <2>10
<1>5. CASE ~\A r \in rest : r.alias # b.alias
  <2>1. PICK db2 : db2 = Release(db, b)
    OBVIOUS
  <2>2. db2 = [alias |-> db.alias, rcpts |-> rest]
    <3>1. RecipientsOf(rest, b.alias) # {}
      BY <1>5 DEF RecipientsOf
    <3>2. db2 = [db EXCEPT !.rcpts = rest]
      BY <1>1, <2>1, <3>1 DEF Release
    <3> QED BY <1>2, <3>2
  <2>3. ASSUME NEW a \in Pks \ S, NEW q \in R, q.alias = a, \A r \in db2.rcpts : r.alias # a
        PROVE  \E r \in R : r.alias = a /\ r.ref \in S
    <3>1. a # b.alias
      BY <1>5, <2>2, <2>3
    <3>2. \A r \in db.rcpts : r.alias # a
      BY <1>1, <2>2, <2>3, <3>1
    <3> QED BY <2>3, <3>2 DEF Outcome
  <2>4. \A a \in S, r \in R : r.alias = a => a \in Own \/ r \in P \cup {b} \/ r.ref \in S
    BY DEF Outcome
  <2>5. db2 = [alias |-> [a \in Pks |-> IF a \in S THEN None ELSE A[a]],
               rcpts |-> {r \in R : r \notin P \cup {b} /\ r.alias \notin S /\ r.ref \notin S}]
    BY <1>2, <1>3, <2>2
  <2>6. S \subseteq Pks /\ Own \subseteq S
    BY DEF Outcome
  <2>7. Outcome(A, R, P \cup {b}, Own, S, db2)
    BY <2>3, <2>4, <2>5, <2>6 DEF Outcome
  <2> QED BY <2>1, <2>7
<1> QED BY <1>4, <1>5

(* All the rows of a sequence are released.                                  *)
LEMMA AllReleased ==
  ASSUME NEW A, A = [a \in Pks |-> A[a]], NEW R, \A r \in R : r.alias \in Pks,
         NEW L \in SUBSET R, IsFiniteSet(L), NEW s \in SetToSeqs(L)
  PROVE  \E S : Outcome(A, R, L, {}, S, FoldLeft(Release, [alias |-> A, rcpts |-> R], s))
<1>1. PICK n \in Nat : n = Cardinality(L)
  BY FS_CardinalityType
<1>2. s \in [1 .. n -> L] /\ (\A i, j \in 1 .. n : i # j => s[i] # s[j])
  BY <1>1 DEF SetToSeqs
<1>3. L = {s[i] : i \in 1 .. n}
  <2>1. s \in Injection(1 .. n, L)
    BY <1>2 DEF Injection, IsInjective
  <2>2. Cardinality(1 .. n) = Cardinality(L)
    <3>1. Cardinality(1 .. n) = n
      BY <1>1, FS_Interval
    <3> QED BY <1>1, <3>1
  <2>3. s \in Surjection(1 .. n, L)
    BY <2>1, <2>2, FS_Injection
  <2> QED BY <1>2, <2>3 DEF Surjection
<1>4. PICK db : db = [alias |-> A, rcpts |-> R]
  OBVIOUS
<1>5. PICK F : /\ F[0] = db /\ F[n] = FoldLeft(Release, db, s)
               /\ \A i \in 1 .. n : F[i] = Release(F[i - 1], s[i])
  <2>1. DOMAIN s = 1 .. n
    BY <1>2
  <2>2. \E F : Along(F, n, db, s)
    BY <1>1, <2>1, FoldReleases
  <2> QED BY <2>2 DEF Along
<1> DEFINE First(i) == {s[j] : j \in {k \in 1 .. n : k <= i}}
           Good(i) == \E S : Outcome(A, R, First(i), {}, S, F[i])
           Bad == {i \in 0 .. n : ~Good(i)}
<1>6. Good(0)
  <2>1. First(0) = {}
    <3>1. {k \in 1 .. n : k <= 0} = {}
      OBVIOUS
    <3> QED BY <3>1
  <2>2. Outcome(A, R, {}, {}, {}, db)
    <3>1. [a \in Pks |-> IF a \in {} THEN None ELSE A[a]] = A
      OBVIOUS
    <3>2. {r \in R : r \notin {} /\ r.alias \notin {} /\ r.ref \notin {}} = R
      OBVIOUS
    <3>3. db.rcpts = R
      BY <1>4
    <3> QED BY <1>4, <3>1, <3>2, <3>3 DEF Outcome
  <2> QED BY <1>5, <2>1, <2>2
<1>7. ASSUME NEW i \in 1 .. n, Good(i - 1) PROVE Good(i)
  <2>1. PICK S : Outcome(A, R, First(i - 1), {}, S, F[i - 1])
    BY <1>7
  <2>2. s[i] \in R /\ s[i].alias \in Pks
    BY <1>2
  <2>3. F[i] = Release(F[i - 1], s[i])
    BY <1>5
  <2>4. First(i) = First(i - 1) \cup {s[i]}
    <3>1. {k \in 1 .. n : k <= i} = {k \in 1 .. n : k <= i - 1} \cup {i}
      OBVIOUS
    <3> QED BY <3>1
  <2> HIDE DEF First
  <2>5. \E S2 : Outcome(A, R, First(i - 1) \cup {s[i]}, {}, S2, Release(F[i - 1], s[i]))
    BY <2>1, <2>2, OneReleased
  <2> QED BY <2>3, <2>4, <2>5
<1> HIDE DEF Good
<1>8. Good(n)
  <2> SUFFICES ASSUME n \in Bad PROVE FALSE
    OBVIOUS
  <2>1. PICK B : B = {{j \in 0 .. n : j < i} : i \in Bad}
    OBVIOUS
  <2>2. PICK Z : Z = 0 .. n /\ IsFiniteSet(Z)
    <3>1. 0 \in Int /\ n \in Int
      OBVIOUS
    <3>2. IsFiniteSet(0 .. n)
      BY <3>1, FS_Interval
    <3> QED BY <3>2
  <2>3. B \subseteq SUBSET Z /\ B # {} /\ IsFiniteSet(Z)
    BY <2>1, <2>2
  <2>4. PICK D : IsLeast(D, B)
    BY <2>3, LeastSet
  <2>5. PICK i \in Bad : D = {j \in 0 .. n : j < i}
    BY <2>1, <2>4 DEF IsLeast
  <2>6. i \in 1 .. n /\ i - 1 \in 0 .. n
    <3>1. i # 0
      BY <1>6
    <3> QED BY <3>1
  <2>7. i - 1 \in Bad
    BY <1>7, <2>6
  <2>8. PICK E : E = {j \in 0 .. n : j < i - 1}
    OBVIOUS
  <2>9. E \in B /\ E \subseteq D
    BY <2>1, <2>5, <2>6, <2>7, <2>8
  <2>10. E = D
    BY <2>4, <2>9 DEF IsLeast
  <2>11. i - 1 \in D /\ i - 1 \notin E
    BY <2>5, <2>6, <2>8
  <2> QED BY <2>10, <2>11
<1>9. First(n) = L
  <2>1. {k \in 1 .. n : k <= n} = 1 .. n
    OBVIOUS
  <2> QED BY <1>3, <2>1
<1> QED BY <1>4, <1>5, <1>8, <1>9 DEF Good

(* Aliases are removed too.                                                  *)
LEMMA MoreDropped ==
  ASSUME NEW A, NEW R, NEW P, NEW Own, NEW S, NEW db, Outcome(A, R, P, Own, S, db),
         NEW T \in SUBSET Pks
  PROVE  Outcome(A, R, P, Own \cup T, S \cup T, DropAliases(db, T))
<1>1. PICK S2, O2, db2 : S2 = S \cup T /\ O2 = Own \cup T /\ db2 = DropAliases(db, T)
  OBVIOUS
<1>2. /\ db.alias = [a \in Pks |-> IF a \in S THEN None ELSE A[a]]
      /\ db.rcpts = {r \in R : r \notin P /\ r.alias \notin S /\ r.ref \notin S}
  BY DEF Outcome
<1>3. [a \in Pks |-> IF a \in T THEN None ELSE db.alias[a]]
        = [a \in Pks |-> IF a \in S2 THEN None ELSE A[a]]
  BY <1>1, <1>2
<1>4. {r \in db.rcpts : r.alias \notin T /\ r.ref \notin T}
        = {r \in R : r \notin P /\ r.alias \notin S2 /\ r.ref \notin S2}
  BY <1>1, <1>2
<1>5. db2 = [alias |-> [a \in Pks |-> IF a \in S2 THEN None ELSE A[a]],
             rcpts |-> {r \in R : r \notin P /\ r.alias \notin S2 /\ r.ref \notin S2}]
  BY <1>1, <1>3, <1>4 DEF DropAliases
<1>6. ASSUME NEW a \in S2, NEW r \in R, r.alias = a PROVE a \in O2 \/ r \in P \/ r.ref \in S2
  BY <1>1, <1>6 DEF Outcome
<1>7. ASSUME NEW a \in Pks \ S2, NEW q \in R, q.alias = a, \A r \in db2.rcpts : r.alias # a
      PROVE  \E r \in R : r.alias = a /\ r.ref \in S2
  <2>1. CASE \A r \in db.rcpts : r.alias # a
    <3>1. a \in Pks \ S
      BY <1>1, <1>7
    <3>2. \E r \in R : r.alias = a /\ r.ref \in S
      BY <1>7, <2>1, <3>1 DEF Outcome
    <3> QED BY <3>2, <1>1
  <2>2. CASE ~\A r \in db.rcpts : r.alias # a
    <3>1. PICK r \in db.rcpts : r.alias = a
      BY <2>2
    <3>2. r \in R /\ r \notin P /\ r.alias \notin S2
      BY <1>1, <1>2, <1>7, <3>1
    <3>3. r \notin db2.rcpts
      BY <1>7, <3>1
    <3>4. r.ref \in S2
      BY <1>5, <3>2, <3>3
    <3> QED BY <3>1, <3>2, <3>4
  <2> QED BY <2>1, <2>2
<1>8. S2 \subseteq Pks /\ O2 \subseteq S2
  BY <1>1 DEF Outcome
<1>9. Outcome(A, R, P, O2, S2, db2)
  BY <1>5, <1>6, <1>7, <1>8 DEF Outcome
<1> QED BY <1>1, <1>9

(* Nothing is released yet.                                                  *)
LEMMA NothingReleased ==
  ASSUME NEW A, A = [a \in Pks |-> A[a]], NEW R
  PROVE  Outcome(A, R, {}, {}, {}, [alias |-> A, rcpts |-> R])
<1>1. [a \in Pks |-> IF a \in {} THEN None ELSE A[a]] = A
  OBVIOUS
<1>2. {r \in R : r \notin {} /\ r.alias \notin {} /\ r.ref \notin {}} = R
  OBVIOUS
<1>3. PICK db : db = [alias |-> A, rcpts |-> R]
  OBVIOUS
<1> QED BY <1>1, <1>2, <1>3 DEF Outcome

-----------------------------------------------------------------------------
(* Rows of aliases and of recipients *)

(* The aliases of mailboxes and administrators, and of domain aliases.       *)
UserRows == [address : [local : Locals, name : Names], dom : Domains, internal : BOOLEAN]
DomainAliasRows == [address : [local : {""}, name : AliasNames], dom : {None}, internal : {TRUE}]
AliasTable == [Pks -> UserRows \cup DomainAliasRows \cup {None}]

RecipientRows ==
  [alias : Pks, address : [local : Locals \cup {""}, name : Names \cup {""}],
   mbox : Mailboxes \cup {None}, ref : Pks \cup {None}]

RowShapes == alias \in AliasTable /\ rcpts \in SUBSET RecipientRows

(* As many recipients as there are keys and names at most.                   *)
LEMMA FiniteRecipients ==
  ASSUME NEW R \in SUBSET RecipientRows
  PROVE  IsFiniteSet(R)
<1>1. PICK U : U = [local : Locals \cup {""}, name : Names \cup {""}]
  OBVIOUS
<1>2. IsFiniteSet(Locals \cup {""}) /\ IsFiniteSet(Names \cup {""})
      /\ IsFiniteSet(Mailboxes \cup {None}) /\ IsFiniteSet(Pks \cup {None}) /\ IsFiniteSet(Pks)
  BY IdentitiesAssumption, FS_AddElement
<1>3. IsFiniteSet(U)
  <2>1. IsFiniteSet((Locals \cup {""}) \X (Names \cup {""}))
    BY <1>2, FS_Product
  <2>2. PICK f : f = [u \in U |-> <<u.local, u.name>>]
    OBVIOUS
  <2>3. f \in Injection(U, (Locals \cup {""}) \X (Names \cup {""}))
    <3>1. f \in [U -> (Locals \cup {""}) \X (Names \cup {""})]
      BY <1>1, <2>2
    <3>2. ASSUME NEW u \in U, NEW v \in U, f[u] = f[v] PROVE u = v
      <4>1. u = [local |-> u.local, name |-> u.name] /\ v = [local |-> v.local, name |-> v.name]
        BY <1>1
      <4>2. u.local = v.local /\ u.name = v.name
        BY <2>2, <3>2
      <4> QED BY <4>1, <4>2
    <3> QED BY <3>1, <3>2 DEF Injection, IsInjective
  <2> QED BY <2>1, <2>3, FS_Injection
<1>4. PICK K : K = (Pks \X U) \X ((Mailboxes \cup {None}) \X (Pks \cup {None}))
  OBVIOUS
<1>5. IsFiniteSet(K)
  <2>1. IsFiniteSet(Pks \X U)
    BY <1>2, <1>3, FS_Product
  <2>2. IsFiniteSet((Mailboxes \cup {None}) \X (Pks \cup {None}))
    BY <1>2, FS_Product
  <2>3. IsFiniteSet((Pks \X U) \X ((Mailboxes \cup {None}) \X (Pks \cup {None})))
    BY <2>1, <2>2, FS_Product
  <2> QED BY <1>4, <2>3
<1>6. PICK f : f = [r \in R |-> <<<<r.alias, r.address>>, <<r.mbox, r.ref>>>>]
  OBVIOUS
<1>7. f \in Injection(R, K)
  <2>0. ASSUME NEW r \in R
        PROVE  /\ r.alias \in Pks /\ r.address \in U /\ r.mbox \in Mailboxes \cup {None}
               /\ r.ref \in Pks \cup {None}
               /\ r = [alias |-> r.alias, address |-> r.address, mbox |-> r.mbox, ref |-> r.ref]
    <3>1. r \in RecipientRows
      OBVIOUS
    <3> QED BY <1>1, <3>1 DEF RecipientRows
  <2>1. f \in [R -> K]
    BY <1>4, <1>6, <2>0
  <2>2. ASSUME NEW q \in R, NEW r \in R, f[q] = f[r] PROVE q = r
    <3>1. q.alias = r.alias /\ q.address = r.address /\ q.mbox = r.mbox /\ q.ref = r.ref
      BY <1>6, <2>2
    <3> QED BY <2>0, <3>1
  <2> QED BY <2>1, <2>2 DEF Injection, IsInjective
<1> QED BY <1>5, <1>7, FS_Injection

-----------------------------------------------------------------------------
(* What deletions remove *)

(* A request deletes the mailboxes M and the aliases S, of which Own without  *)
(* regard to their recipients.                                               *)
Removed(M, Own, S) ==
  /\ S \subseteq Pks /\ Own \subseteq S
  /\ alias' = [a \in Pks |-> IF a \in S THEN None ELSE alias[a]]
  /\ rcpts' = {r \in rcpts : r.mbox \notin M /\ r.alias \notin S /\ r.ref \notin S}
  /\ \A a \in S, r \in rcpts : r.alias = a => a \in Own \/ r.mbox \in M \/ r.ref \in S
  /\ \A a \in Pks \ S, q \in rcpts :
       q.alias = a /\ (\A r \in rcpts' : r.alias # a) =>
         \E r \in rcpts : r.alias = a /\ r.ref \in S

(* What an outcome over the present tables says once the tables are        *)
(* written.                                                                *)
LEMMA RemovedIs ==
  ASSUME NEW M, NEW Own, NEW S, NEW db,
         Outcome(alias, rcpts, {r \in rcpts : r.mbox \in M}, Own, S, db),
         alias' = db.alias, rcpts' = db.rcpts
  PROVE  Removed(M, Own, S)
<1>1. PICK A, R, P, A2, R2 : /\ A = alias /\ R = rcpts /\ P = {r \in rcpts : r.mbox \in M}
                             /\ A2 = alias' /\ R2 = rcpts'
  OBVIOUS
<1>2. Outcome(A, R, P, Own, S, db)
  BY <1>1
<1>3. /\ S \subseteq Pks /\ Own \subseteq S
      /\ A2 = [a \in Pks |-> IF a \in S THEN None ELSE A[a]]
      /\ R2 = {r \in R : r \notin P /\ r.alias \notin S /\ r.ref \notin S}
  BY <1>1, <1>2 DEF Outcome
<1>4. R2 = {r \in R : r.mbox \notin M /\ r.alias \notin S /\ r.ref \notin S}
  BY <1>1, <1>3
<1>5. \A a \in S, r \in R : r.alias = a => a \in Own \/ r.mbox \in M \/ r.ref \in S
  BY <1>1, <1>2 DEF Outcome
<1>6. ASSUME NEW a \in Pks \ S, NEW q \in R, q.alias = a, \A r \in R2 : r.alias # a
      PROVE  \E r \in R : r.alias = a /\ r.ref \in S
  <2>1. \A r \in db.rcpts : r.alias # a
    BY <1>1, <1>6
  <2> QED BY <1>2, <1>6, <2>1 DEF Outcome
<1> QED BY <1>1, <1>3, <1>4, <1>5, <1>6 DEF Removed

(* The aliases at the addresses of mailboxes.                                *)
SelvesOf(M) == {a \in Pks : alias[a] # None /\ \E m \in M : alias[a].address = Address(m)}

(* Mailboxes are released one by one, and then their self aliases go.      *)
LEMMA DeletedOutcome ==
  ASSUME RowShapes, NEW M, NEW db \in Deleted(M)
  PROVE  \E S : Outcome(alias, rcpts, {r \in rcpts : r.mbox \in M}, SelvesOf(M), S, db)
<1>1. PICK A, R, L, T : /\ A = alias /\ R = rcpts
                        /\ L = {r \in rcpts : r.mbox \in M} /\ T = SelvesOf(M)
  OBVIOUS
<1>2. PICK s \in SetToSeqs(L) :
        db = DropAliases(FoldLeft(Release, [alias |-> A, rcpts |-> R], s), T)
  BY <1>1 DEF Deleted, SelvesOf
<1>3. /\ A = [a \in Pks |-> A[a]]
      /\ R \in SUBSET RecipientRows
      /\ T \in SUBSET Pks
      /\ L \in SUBSET R
  BY <1>1 DEF RowShapes, AliasTable, SelvesOf
<1>4. \A r \in R : r.alias \in Pks
  BY <1>3 DEF RecipientRows
<1>5. IsFiniteSet(L)
  <2>1. L \in SUBSET RecipientRows
    BY <1>3
  <2> QED BY <2>1, FiniteRecipients
<1>6. PICK db0 : db0 = FoldLeft(Release, [alias |-> A, rcpts |-> R], s)
  OBVIOUS
<1>7. PICK S : Outcome(A, R, L, {}, S, db0)
  BY <1>3, <1>4, <1>5, <1>6, AllReleased
<1>8. Outcome(A, R, L, {} \cup T, S \cup T, DropAliases(db0, T))
  BY <1>3, <1>7, MoreDropped
<1>9. {} \cup T = T /\ db = DropAliases(db0, T)
  BY <1>2, <1>6
<1>10. Outcome(A, R, L, T, S \cup T, db)
  BY <1>8, <1>9
<1> QED BY <1>1, <1>10

(* Aliases alone are deleted.                                                *)
LEMMA DroppedOutcome ==
  ASSUME RowShapes, NEW T \in SUBSET Pks,
         alias' = DropAliases([alias |-> alias, rcpts |-> rcpts], T).alias,
         rcpts' = DropAliases([alias |-> alias, rcpts |-> rcpts], T).rcpts
  PROVE  Removed({}, T, T)
<1>1. PICK A, R, db : /\ A = alias /\ R = rcpts
                      /\ db = DropAliases([alias |-> alias, rcpts |-> rcpts], T)
  OBVIOUS
<1>2. A = [a \in Pks |-> A[a]]
  BY <1>1 DEF RowShapes, AliasTable
<1>3. Outcome(A, R, {}, {}, {}, [alias |-> A, rcpts |-> R])
  BY <1>2, NothingReleased
<1>4. Outcome(A, R, {}, {} \cup T, {} \cup T, DropAliases([alias |-> A, rcpts |-> R], T))
  BY <1>3, MoreDropped
<1>5. Outcome(alias, rcpts, {r \in rcpts : r.mbox \in {}}, T, T, db)
  <2>1. {r \in rcpts : r.mbox \in {}} = {} /\ {} \cup T = T
    OBVIOUS
  <2> QED BY <1>1, <1>4, <2>1
<1>6. alias' = db.alias /\ rcpts' = db.rcpts
  BY <1>1
<1> QED BY <1>5, <1>6, RemovedIs

(* Deleting a mailbox removes it and its self alias.                       *)
LEMMA DeleteMailboxRemoves ==
  ASSUME RowShapes, NEW m \in Mailboxes, DeleteMailbox(m)
  PROVE  \E S : Removed({m}, SelvesOf({m}), S)
<1>1. PICK db \in Deleted({m}) : alias' = db.alias /\ rcpts' = db.rcpts
  BY DEF DeleteMailbox
<1>2. PICK S : Outcome(alias, rcpts, {r \in rcpts : r.mbox \in {m}}, SelvesOf({m}), S, db)
  BY <1>1, DeletedOutcome
<1> QED BY <1>1, <1>2, RemovedIs

(* The mailboxes, the domain aliases and the aliases of a domain.            *)
MailboxesOf(d) == {m \in Mailboxes : mbox[m] # None /\ mbox[m].dom = d}
DomainAliasesOf(d) == {n \in AliasNames : dalias[n] = d}
AliasesOf(d) ==
  {a \in Pks : /\ alias[a] # None
               /\ \/ alias[a].dom = d
                  \/ \E n \in DomainAliasesOf(d) : alias[a].address = At("", n)}

(* Deleting a domain removes its mailboxes and their self aliases, its     *)
(* own aliases and those of its domain aliases.                            *)
LEMMA DeleteDomainRemoves ==
  ASSUME RowShapes, NEW d \in Domains, DeleteDomain(d)
  PROVE  \E S : Removed(MailboxesOf(d), SelvesOf(MailboxesOf(d)) \cup AliasesOf(d), S)
<1>1. PICK M, T : M = MailboxesOf(d) /\ T = AliasesOf(d)
  OBVIOUS
<1>2. PICK db \in Deleted(M) : /\ alias' = DropAliases(db, T).alias
                               /\ rcpts' = DropAliases(db, T).rcpts
  BY <1>1 DEF DeleteDomain, MailboxesOf, DomainAliasesOf, AliasesOf
<1>3. PICK S : Outcome(alias, rcpts, {r \in rcpts : r.mbox \in M}, SelvesOf(M), S, db)
  BY <1>2, DeletedOutcome
<1>4. T \in SUBSET Pks
  BY <1>1 DEF AliasesOf
<1>5. PICK A, R, P, Own : /\ A = alias /\ R = rcpts /\ P = {r \in rcpts : r.mbox \in M}
                          /\ Own = SelvesOf(M)
  OBVIOUS
<1>6. Outcome(A, R, P, Own \cup T, S \cup T, DropAliases(db, T))
  <2>1. Outcome(A, R, P, Own, S, db)
    BY <1>3, <1>5
  <2> QED BY <1>4, <2>1, MoreDropped
<1>7. Outcome(alias, rcpts, {r \in rcpts : r.mbox \in M}, Own \cup T, S \cup T, DropAliases(db, T))
  BY <1>5, <1>6
<1>8. Removed(M, Own \cup T, S \cup T)
  BY <1>2, <1>7, RemovedIs
<1> QED BY <1>1, <1>5, <1>8

(* Deleting a domain alias removes the alias at its present name.          *)
LEMMA DeleteDomainAliasRemoves ==
  ASSUME RowShapes, NEW n \in AliasNames, DeleteDomainAlias(n)
  PROVE  Removed({}, AliasAt(At("", n)), AliasAt(At("", n)))
<1>1. PICK T \in SUBSET Pks : T = AliasAt(At("", n))
  BY DEF AliasAt
<1>2. /\ alias' = DropAliases([alias |-> alias, rcpts |-> rcpts], T).alias
      /\ rcpts' = DropAliases([alias |-> alias, rcpts |-> rcpts], T).rcpts
  BY <1>1 DEF DeleteDomainAlias
<1> QED BY <1>1, <1>2, DroppedOutcome

(* Deleting an alias removes that one and the recipients that were it.     *)
LEMMA DeleteAliasRemoves ==
  ASSUME RowShapes, NEW a \in Pks, DeleteAlias(a)
  PROVE  Removed({}, {a}, {a})
<1>1. /\ alias' = DropAliases([alias |-> alias, rcpts |-> rcpts], {a}).alias
      /\ rcpts' = DropAliases([alias |-> alias, rcpts |-> rcpts], {a}).rcpts
  BY DEF DeleteAlias
<1> QED BY <1>1, DroppedOutcome

-----------------------------------------------------------------------------
(* The tables, unconditionally *)

DomainsOK ==
  /\ dom \in [Domains -> Names \cup {None}]
  /\ \A d, e \in Domains : dom[d] = dom[e] => d = e \/ dom[d] = None
MailboxesOK ==
  /\ mbox \in [Mailboxes -> [local : Locals, dom : Domains] \cup {None}]
  /\ \A m \in Mailboxes : mbox[m] # None => dom[mbox[m].dom] # None
  /\ \A m, k \in Mailboxes :
       mbox[m] # None /\ mbox[k] # None /\ mbox[m].local = mbox[k].local
         /\ mbox[m].dom = mbox[k].dom => m = k
AliasesOK ==
  /\ alias \in AliasTable
  /\ \A a \in Pks : alias[a] # None /\ alias[a].dom # None => dom[alias[a].dom] # None
  /\ UniqueAliases(alias)
RecipientsOK ==
  /\ rcpts \in SUBSET RecipientRows
  /\ \A r \in rcpts :
       /\ alias[r.alias] # None
       /\ r.mbox # None => mbox[r.mbox] # None /\ r.ref = None
       /\ r.ref # None => alias[r.ref] # None
  /\ UniqueRecipients(rcpts)
OthersOK ==
  /\ quota \subseteq LocalAddresses
  /\ dalias \in [AliasNames -> Domains \cup {None}]
  /\ \A n \in AliasNames : dalias[n] # None => dom[dalias[n]] # None
  /\ stale \subseteq Mailboxes

IdRows == DomainsOK /\ MailboxesOK /\ AliasesOK /\ RecipientsOK /\ OthersOK

(* A step empties no alias but by removing one that was its recipient.        *)
NoneEmptied ==
  \A a \in Pks : Emptied(a) =>
    \E r \in RecipientsOf(rcpts, a) : r.ref # None /\ alias'[r.ref] = None

(* A row of the table of aliases, field by field.                            *)
LEMMA AliasRowIs ==
  ASSUME alias \in AliasTable, NEW a \in Pks, alias[a] # None
  PROVE  /\ alias[a] = [address |-> alias[a].address, dom |-> alias[a].dom,
                        internal |-> alias[a].internal]
         /\ alias[a].address = At(alias[a].address.local, alias[a].address.name)
         /\ \/ /\ alias[a].address.local \in Locals /\ alias[a].address.name \in Names
               /\ alias[a].dom \in Domains /\ alias[a].internal \in BOOLEAN
            \/ /\ alias[a].address.local = "" /\ alias[a].address.name \in AliasNames
               /\ alias[a].dom = None /\ alias[a].internal = TRUE
<1>1. PICK v \in UserRows \cup DomainAliasRows : v = alias[a]
  BY DEF AliasTable
<1>2. v = [address |-> v.address, dom |-> v.dom, internal |-> v.internal]
  BY DEF UserRows, DomainAliasRows
<1>3. v.address = [local |-> v.address.local, name |-> v.address.name]
  BY DEF UserRows, DomainAliasRows
<1>4. \/ /\ v.address.local \in Locals /\ v.address.name \in Names
         /\ v.dom \in Domains /\ v.internal \in BOOLEAN
      \/ /\ v.address.local = "" /\ v.address.name \in AliasNames
         /\ v.dom = None /\ v.internal = TRUE
  BY DEF UserRows, DomainAliasRows
<1> QED BY <1>1, <1>2, <1>3, <1>4 DEF At

(* A row of the table of mailboxes.                                          *)
LEMMA MailboxIs ==
  ASSUME DomainsOK, MailboxesOK, NEW m \in Mailboxes, mbox[m] # None
  PROVE  /\ mbox[m] = [local |-> mbox[m].local, dom |-> mbox[m].dom]
         /\ mbox[m].local \in Locals /\ mbox[m].dom \in Domains /\ dom[mbox[m].dom] \in Names
         /\ Address(m) = At(mbox[m].local, dom[mbox[m].dom])
<1>1. PICK v \in [local : Locals, dom : Domains] : v = mbox[m]
  BY DEF MailboxesOK
<1>2. v = [local |-> v.local, dom |-> v.dom] /\ v.local \in Locals /\ v.dom \in Domains
  OBVIOUS
<1>3. dom[v.dom] \in Names
  BY <1>1, <1>2 DEF MailboxesOK, DomainsOK
<1> QED BY <1>1, <1>2, <1>3 DEF Address

(* No two mailboxes have an address.                                         *)
LEMMA OneMailbox ==
  ASSUME DomainsOK, MailboxesOK, NEW m \in Mailboxes, NEW k \in Mailboxes,
         mbox[m] # None, mbox[k] # None, Address(m) = Address(k)
  PROVE  m = k
<1>1. mbox[m].local = mbox[k].local /\ dom[mbox[m].dom] = dom[mbox[k].dom]
  <2>1. /\ Address(m).local = mbox[m].local /\ Address(m).name = dom[mbox[m].dom]
        /\ Address(k).local = mbox[k].local /\ Address(k).name = dom[mbox[k].dom]
    BY DEF Address, At
  <2> QED BY <2>1
<1>2. mbox[m].dom \in Domains /\ mbox[k].dom \in Domains /\ dom[mbox[m].dom] # None
  BY MailboxIs, IdentitiesAssumption
<1>3. mbox[m].dom = mbox[k].dom
  BY <1>1, <1>2 DEF DomainsOK
<1> QED BY <1>1, <1>3 DEF MailboxesOK

(* The unconditional facts include the types.                              *)
LEMMA RowsAreTypes ==
  ASSUME IdRows
  PROVE  IdTypeOK /\ RowShapes
<1> USE DEF IdRows
<1>1. \A m \in Mailboxes : mbox[m] # None => dom[mbox[m].dom] # None /\ MailboxAt(Address(m)) = {m}
  <2> SUFFICES ASSUME NEW m \in Mailboxes, mbox[m] # None PROVE MailboxAt(Address(m)) = {m}
    BY DEF MailboxesOK
  <2>1. \A k \in MailboxAt(Address(m)) : k = m
    BY OneMailbox DEF MailboxAt
  <2> QED BY <2>1 DEF MailboxAt
<1>2. ASSUME NEW a \in Pks, alias[a] # None
      PROVE  /\ alias[a].address \in LocalAddresses \cup [local : {""}, name : AliasNames]
             /\ alias[a].dom # None => dom[alias[a].dom] # None
             /\ alias[a].internal \in BOOLEAN
  <2>1. alias[a].address \in LocalAddresses \cup [local : {""}, name : AliasNames]
    <3>1. PICK x : x = alias[a].address
      OBVIOUS
    <3>2. /\ x = At(x.local, x.name)
          /\ \/ x.local \in Locals /\ x.name \in Names
             \/ x.local = "" /\ x.name \in AliasNames
      BY <1>2, <3>1, AliasRowIs DEF AliasesOK
    <3>3. CASE x.local \in Locals /\ x.name \in Names
      <4>1. At(x.local, x.name) \in LocalAddresses
        BY <3>3 DEF LocalAddresses
      <4> QED BY <3>1, <3>2, <4>1
    <3>4. CASE x.local = "" /\ x.name \in AliasNames
      BY <3>1, <3>2, <3>4 DEF At
    <3> QED BY <3>2, <3>3, <3>4
  <2>2. alias[a].internal \in BOOLEAN
    BY <1>2, AliasRowIs DEF AliasesOK
  <2> QED BY <1>2, <2>1, <2>2 DEF AliasesOK
<1> QED BY <1>1, <1>2
  DEF IdTypeOK, RowShapes, DomainsOK, MailboxesOK, AliasesOK, RecipientsOK, OthersOK

(* What a deletion leaves of aliases and recipients.                         *)
LEMMA RemovedKeepsRows ==
  ASSUME AliasesOK, RecipientsOK, NEW M, NEW Own, NEW S, Removed(M, Own, S),
         \A m \in Mailboxes \ M : mbox'[m] = mbox[m],
         \A a \in Pks \ S : alias[a] # None /\ alias[a].dom # None => dom'[alias[a].dom] # None
  PROVE  AliasesOK' /\ RecipientsOK' /\ NoneEmptied
<1>0. PICK A, R, A2, R2 : A = alias /\ R = rcpts /\ A2 = alias' /\ R2 = rcpts'
  OBVIOUS
<1>1. /\ S \subseteq Pks
      /\ A2 = [a \in Pks |-> IF a \in S THEN None ELSE A[a]]
      /\ R2 = {r \in R : r.mbox \notin M /\ r.alias \notin S /\ r.ref \notin S}
  BY <1>0 DEF Removed
<1>2. AliasesOK'
  <2>1. A2 \in AliasTable
    <3>1. A \in [Pks -> UserRows \cup DomainAliasRows \cup {None}]
      BY <1>0 DEF AliasesOK, AliasTable
    <3> QED BY <1>1, <3>1 DEF AliasTable
  <2>2. \A a \in Pks : A2[a] # None => A2[a] = A[a] /\ a \notin S
    BY <1>1
  <2>3. UniqueAliases(A2)
    <3>1. UniqueAliases(A)
      BY <1>0 DEF AliasesOK
    <3> QED BY <2>2, <3>1 DEF UniqueAliases
  <2>4. ASSUME NEW a \in Pks, A2[a] # None, A2[a].dom # None PROVE dom'[A2[a].dom] # None
    BY <1>0, <2>2, <2>4
  <2>5. alias' \in AliasTable /\ UniqueAliases(alias')
    BY <1>0, <2>1, <2>3
  <2>6. \A a \in Pks : alias'[a] # None /\ alias'[a].dom # None => dom'[alias'[a].dom] # None
    BY <1>0, <2>4
  <2> QED BY <2>5, <2>6 DEF AliasesOK, UniqueAliases, AliasTable, UserRows, DomainAliasRows
<1>3. RecipientsOK'
  <2>1. R2 \subseteq R
    BY <1>1
  <2>2. R \in SUBSET RecipientRows
    BY <1>0 DEF RecipientsOK
  <2>3. ASSUME NEW r \in R2
        PROVE  /\ A2[r.alias] # None
               /\ r.mbox # None => mbox'[r.mbox] # None /\ r.ref = None
               /\ r.ref # None => A2[r.ref] # None
    <3>1. r \in R /\ r.mbox \notin M /\ r.alias \notin S /\ r.ref \notin S
      BY <1>1
    <3>2. r.alias \in Pks /\ r.mbox \in Mailboxes \cup {None} /\ r.ref \in Pks \cup {None}
      BY <2>2, <3>1 DEF RecipientRows
    <3>3. /\ A[r.alias] # None
          /\ r.mbox # None => mbox[r.mbox] # None /\ r.ref = None
          /\ r.ref # None => A[r.ref] # None
      BY <1>0, <3>1 DEF RecipientsOK
    <3> QED BY <1>1, <3>1, <3>2, <3>3
  <2>4. UniqueRecipients(R2)
    <3>1. UniqueRecipients(R)
      BY <1>0 DEF RecipientsOK
    <3> QED BY <2>1, <3>1 DEF UniqueRecipients
  <2>5. rcpts' \in SUBSET RecipientRows /\ UniqueRecipients(rcpts')
    BY <1>0, <2>1, <2>2, <2>4
  <2>6. \A r \in rcpts' :
          /\ alias'[r.alias] # None
          /\ r.mbox # None => mbox'[r.mbox] # None /\ r.ref = None
          /\ r.ref # None => alias'[r.ref] # None
    BY <1>0, <2>3
  <2> QED BY <2>5, <2>6 DEF RecipientsOK, UniqueRecipients, RecipientRows
<1>4. NoneEmptied
  <2> SUFFICES ASSUME NEW a \in Pks, Emptied(a)
               PROVE  \E r \in R : r.alias = a /\ r.ref # None /\ A2[r.ref] = None
    BY <1>0 DEF NoneEmptied, RecipientsOf
  <2>1. A2[a] # None /\ (\E q \in R : q.alias = a) /\ (\A r \in R2 : r.alias # a)
    BY <1>0 DEF Emptied, RecipientsOf
  <2>2. a \in Pks \ S
    BY <1>1, <2>1
  <2>3. PICK r \in R : r.alias = a /\ r.ref \in S
    BY <1>0, <2>1, <2>2 DEF Removed
  <2> QED BY <1>1, <2>3, IdentitiesAssumption
<1> QED BY <1>2, <1>3, <1>4

(* A free key, and the one of an internal alias that may exist already.       *)
LEMMA NewPkIs ==
  ASSUME Free # {}
  PROVE  NewPk \in Pks /\ alias[NewPk] = None
BY DEF NewPk, Free

(* The alias that is found or created: a fresh one, or one with the very   *)
(* same row.                                                               *)
LEMMA GetOrCreateIs ==
  ASSUME Free # {}, NEW x, NEW d
  PROVE  /\ GetOrCreate(x, d) \in Pks
         /\ \/ alias[GetOrCreate(x, d)] = None
               /\ \A b \in Pks : alias[b] # SelfAliasRow(x, d)
            \/ alias[GetOrCreate(x, d)] = SelfAliasRow(x, d)
<1>1. PICK Found : Found = {a \in Pks : alias[a] = SelfAliasRow(x, d)}
  OBVIOUS
<1>2. GetOrCreate(x, d) = IF Found # {} THEN CHOOSE a \in Found : TRUE ELSE NewPk
  BY <1>1 DEF GetOrCreate
<1>3. CASE Found # {}
  <2>1. GetOrCreate(x, d) \in Found
    BY <1>2, <1>3
  <2> QED BY <1>1, <2>1
<1>4. CASE Found = {}
  <2>1. \A b \in Pks : alias[b] # SelfAliasRow(x, d)
    BY <1>1, <1>4
  <2> QED BY <1>2, <1>4, <2>1, NewPkIs
<1> QED BY <1>3, <1>4

(* An alias is written.                                                      *)
LEMMA AliasRowWritten ==
  ASSUME AliasesOK, NEW a \in Pks, NEW v \in UserRows \cup DomainAliasRows,
         alias' = [alias EXCEPT ![a] = v], UniqueAliases(alias'),
         v.dom # None => dom[v.dom] # None, dom' = dom
  PROVE  /\ AliasesOK'
         /\ alias'[a] = v /\ v # None
         /\ \A b \in Pks \ {a} : alias'[b] = alias[b]
         /\ \A b \in Pks : alias[b] # None => alias'[b] # None
<1>1. PICK A, A2 : A = alias /\ A2 = alias'
  OBVIOUS
<1>2. A \in [Pks -> UserRows \cup DomainAliasRows \cup {None}]
  BY <1>1 DEF AliasesOK, AliasTable
<1>3. A2[a] = v /\ \A b \in Pks \ {a} : A2[b] = A[b]
  BY <1>1, <1>2
<1>4. v # None
  <2>1. CASE v \in UserRows
    <3>1. v \in [address : [local : Locals \cup {""}, name : Names \cup AliasNames],
                 dom : Domains \cup {None}, internal : BOOLEAN]
      BY <2>1 DEF UserRows
    <3> QED BY <3>1, IdentitiesAssumption
  <2>2. CASE v \in DomainAliasRows
    <3>1. v \in [address : [local : Locals \cup {""}, name : Names \cup AliasNames],
                 dom : Domains \cup {None}, internal : BOOLEAN]
      BY <2>2 DEF DomainAliasRows
    <3> QED BY <3>1, IdentitiesAssumption
  <2> QED BY <2>1, <2>2
<1>5. A2 \in AliasTable
  <2>1. A2 = [A EXCEPT ![a] = v]
    BY <1>1
  <2> QED BY <1>2, <2>1 DEF AliasTable
<1>6. \A b \in Pks : A2[b] # None /\ A2[b].dom # None => dom[A2[b].dom] # None
  BY <1>1, <1>3 DEF AliasesOK
<1>7. AliasesOK'
  <2>1. alias' \in AliasTable /\ UniqueAliases(alias')
    BY <1>1, <1>5
  <2>2. \A b \in Pks : alias'[b] # None /\ alias'[b].dom # None => dom'[alias'[b].dom] # None
    BY <1>1, <1>6
  <2> QED BY <2>1, <2>2 DEF AliasesOK, AliasTable, UserRows, DomainAliasRows, UniqueAliases
<1> QED BY <1>1, <1>3, <1>4, <1>7

(* Recipients are written, of aliases and to mailboxes that exist.            *)
LEMMA RecipientsWritten ==
  ASSUME RecipientsOK, rcpts' \in SUBSET RecipientRows, UniqueRecipients(rcpts'),
         \A b \in Pks : alias[b] # None => alias'[b] # None,
         \A m \in Mailboxes : mbox[m] # None => mbox'[m] # None,
         \A q \in rcpts' :
           \/ \E r \in rcpts : q.alias = r.alias /\ q.mbox = r.mbox /\ q.ref = r.ref
           \/ /\ alias'[q.alias] # None
              /\ q.mbox # None => mbox'[q.mbox] # None /\ q.ref = None
              /\ q.ref # None => alias'[q.ref] # None
  PROVE  RecipientsOK'
<1>1. ASSUME NEW q \in rcpts'
      PROVE  /\ alias'[q.alias] # None
             /\ q.mbox # None => mbox'[q.mbox] # None /\ q.ref = None
             /\ q.ref # None => alias'[q.ref] # None
  <2>1. CASE \E r \in rcpts : q.alias = r.alias /\ q.mbox = r.mbox /\ q.ref = r.ref
    <3>1. PICK r \in rcpts : q.alias = r.alias /\ q.mbox = r.mbox /\ q.ref = r.ref
      BY <2>1
    <3>2. r.alias \in Pks /\ r.mbox \in Mailboxes \cup {None} /\ r.ref \in Pks \cup {None}
      BY DEF RecipientsOK, RecipientRows
    <3>3. /\ alias[r.alias] # None
          /\ r.mbox # None => mbox[r.mbox] # None /\ r.ref = None
          /\ r.ref # None => alias[r.ref] # None
      BY DEF RecipientsOK
    <3> QED BY <3>1, <3>2, <3>3
  <2> QED BY <2>1
<1>2. UniqueRecipients(rcpts)'
  BY DEF UniqueRecipients
<1> QED BY <1>1, <1>2 DEF RecipientsOK, RecipientRows

(* No alias is emptied when each keeps or gets a recipient.                   *)
LEMMA KeptRecipients ==
  ASSUME \A r \in rcpts : \E q \in rcpts' : q.alias = r.alias
  PROVE  NoneEmptied
BY DEF NoneEmptied, Emptied, RecipientsOf

(* One recipient more, of a mailbox that has none there, or of nobody.        *)
LEMMA UniqueAdded ==
  ASSUME UniqueRecipients(rcpts), NEW q, q.ref = None,
         \A r \in rcpts : r.alias = q.alias /\ r.mbox = q.mbox => q.mbox = None
  PROVE  UniqueRecipients(rcpts \cup {q})
<1>1. PICK R, R2 : R = rcpts /\ R2 = R \cup {q}
  OBVIOUS
<1>2. ASSUME NEW r \in R2, NEW s \in R2, r.alias = s.alias,
             (r.mbox # None /\ r.mbox = s.mbox) \/ (r.ref # None /\ r.ref = s.ref)
      PROVE  r = s
  <2>1. CASE r \in R /\ s \in R
    BY <1>1, <1>2, <2>1 DEF UniqueRecipients
  <2>2. CASE r = q /\ s \in R
    BY <1>1, <1>2, <2>2
  <2>3. CASE s = q /\ r \in R
    BY <1>1, <1>2, <2>3
  <2> QED BY <1>1, <2>1, <2>2, <2>3
<1> QED BY <1>1, <1>2 DEF UniqueRecipients

(* What set_recipients leaves of an alias's recipients, and writes.           *)
LEMMA RecipientsSet ==
  ASSUME rcpts \in SUBSET RecipientRows, NEW a \in Pks, NEW own,
         NEW X \in SUBSET (LocalAddresses \cup {Far}), NEW R \in SetRecipients(a, own, X)
  PROVE  /\ \A r \in rcpts : r.alias # a => r \in R
         /\ \A r \in R : r.alias = a => r.address \in X
         /\ \A r \in R : r \notin rcpts =>
              /\ r \in RecipientRows /\ r.alias = a
              /\ r.mbox \in MailboxAt(r.address) \cup {None}
              /\ r.ref \in AliasAt(r.address) \cup {None}
              /\ r.mbox = None \/ r.ref = None
         /\ \A x \in X : \E r \in R : r.alias = a /\ r.address = x
         /\ UniqueRecipients(R)
<1>1. PICK Q \in Added(a, own, X) : R = Q \ {r \in Q : r.alias = a /\ r.address \notin X}
  BY DEF SetRecipients
<1>2. PICK New : New = {x \in X : \A r \in RecipientsOf(rcpts, a) : r.address # x}
  OBVIOUS
<1>3. PICK f : /\ f \in [New -> UNION {Link(x, own) : x \in New}]
               /\ \A x \in New : f[x] \in Link(x, own)
               /\ Q = rcpts \cup {Row(a, x, f[x].mbox, f[x].ref) : x \in New}
               /\ UniqueRecipients(Q)
  BY <1>1, <1>2 DEF Added
<1>4. ASSUME NEW x \in New
      PROVE  /\ f[x].mbox \in MailboxAt(x) \cup {None}
             /\ f[x].ref \in AliasAt(x) \cup {None}
             /\ f[x].mbox = None \/ f[x].ref = None
  <2>1. PICK l : l = f[x] /\ l \in Link(x, own)
    BY <1>3
  <2>2. \/ l = [mbox |-> None, ref |-> None]
        \/ \E m \in MailboxAt(x) : l = [mbox |-> m, ref |-> None]
        \/ \E b \in AliasAt(x) : l = [mbox |-> None, ref |-> b]
    BY <2>1 DEF Link
  <2>3. CASE l = [mbox |-> None, ref |-> None]
    BY <2>1, <2>3
  <2>4. CASE \E m \in MailboxAt(x) : l = [mbox |-> m, ref |-> None]
    BY <2>1, <2>4
  <2>5. CASE \E b \in AliasAt(x) : l = [mbox |-> None, ref |-> b]
    BY <2>1, <2>5
  <2> QED BY <2>2, <2>3, <2>4, <2>5
<1>5. \A r \in rcpts : r.alias # a => r \in R
  BY <1>1, <1>3
<1>6. \A r \in R : r.alias = a => r.address \in X
  BY <1>1
<1>7. ASSUME NEW r \in R, r \notin rcpts
      PROVE  /\ r \in RecipientRows /\ r.alias = a
             /\ r.mbox \in MailboxAt(r.address) \cup {None}
             /\ r.ref \in AliasAt(r.address) \cup {None}
             /\ r.mbox = None \/ r.ref = None
  <2>1. PICK x \in New : r = Row(a, x, f[x].mbox, f[x].ref)
    BY <1>1, <1>3, <1>7
  <2>2. /\ r = [alias |-> a, address |-> x, mbox |-> f[x].mbox, ref |-> f[x].ref]
        /\ r.alias = a /\ r.address = x /\ r.mbox = f[x].mbox /\ r.ref = f[x].ref
    BY <2>1 DEF Row
  <2>3. /\ r.mbox \in MailboxAt(x) \cup {None} /\ r.ref \in AliasAt(x) \cup {None}
        /\ r.mbox = None \/ r.ref = None
    BY <1>4, <2>2
  <2>4. r.mbox \in Mailboxes \cup {None} /\ r.ref \in Pks \cup {None}
    BY <2>3 DEF MailboxAt, AliasAt
  <2>5. x \in [local : Locals \cup {""}, name : Names \cup {""}]
    <3>1. CASE x \in LocalAddresses
      <4>1. PICK l \in Locals, n \in Names : x = At(l, n)
        BY <3>1 DEF LocalAddresses
      <4> QED BY <4>1 DEF At
    <3>2. CASE x = Far
      BY <3>2 DEF Far, At
    <3> QED BY <1>2, <3>1, <3>2
  <2>6. r \in RecipientRows
    BY <2>2, <2>4, <2>5 DEF RecipientRows
  <2> QED BY <2>2, <2>3, <2>6
<1>8. ASSUME NEW x \in X PROVE \E r \in R : r.alias = a /\ r.address = x
  <2>1. CASE x \in New
    <3>1. PICK r : r = Row(a, x, f[x].mbox, f[x].ref)
      OBVIOUS
    <3>2. r.alias = a /\ r.address = x
      BY <3>1 DEF Row
    <3>3. r \in R
      BY <1>1, <1>3, <2>1, <3>1, <3>2
    <3> QED BY <3>2, <3>3
  <2>2. CASE x \notin New
    <3>1. PICK r \in rcpts : r.alias = a /\ r.address = x
      BY <1>2, <2>2 DEF RecipientsOf
    <3> QED BY <1>1, <1>3, <3>1
  <2> QED BY <2>1, <2>2
<1>9. UniqueRecipients(R)
  BY <1>1, <1>3 DEF UniqueRecipients
<1> QED BY <1>5, <1>6, <1>7, <1>8, <1>9

(* The rows that follow a mailbox change their address and nothing else.      *)
LEMMA FollowIs ==
  ASSUME rcpts \in SUBSET RecipientRows, NEW m, NEW r, NEW x
  PROVE  /\ \A q \in Follow(m, r, x) : \E s \in rcpts :
              /\ q = IF s = r \/ (s.mbox = m /\ ~alias[s.alias].internal)
                     THEN Row(s.alias, x, s.mbox, s.ref) ELSE s
              /\ q.alias = s.alias /\ q.mbox = s.mbox /\ q.ref = s.ref
         /\ \A s \in rcpts : \E q \in Follow(m, r, x) :
              /\ q = IF s = r \/ (s.mbox = m /\ ~alias[s.alias].internal)
                     THEN Row(s.alias, x, s.mbox, s.ref) ELSE s
              /\ q.alias = s.alias /\ q.mbox = s.mbox /\ q.ref = s.ref
<1> DEFINE Moves(s) == s = r \/ (s.mbox = m /\ ~alias[s.alias].internal)
           New(s) == IF Moves(s) THEN Row(s.alias, x, s.mbox, s.ref) ELSE s
<1>1. ASSUME NEW s \in rcpts
      PROVE  /\ (IF Moves(s) THEN [s EXCEPT !.address = x] ELSE s) = New(s)
             /\ New(s).alias = s.alias /\ New(s).mbox = s.mbox /\ New(s).ref = s.ref
  <2>1. s \in RecipientRows
    OBVIOUS
  <2>2. s = [alias |-> s.alias, address |-> s.address, mbox |-> s.mbox, ref |-> s.ref]
    BY <2>1 DEF RecipientRows
  <2>3. [s EXCEPT !.address = x] = Row(s.alias, x, s.mbox, s.ref)
    BY <2>2 DEF Row
  <2>4. New(s).alias = s.alias /\ New(s).mbox = s.mbox /\ New(s).ref = s.ref
    BY DEF Row
  <2> QED BY <2>3, <2>4
<1>2. Follow(m, r, x) = {IF Moves(s) THEN [s EXCEPT !.address = x] ELSE s : s \in rcpts}
  BY DEF Follow
<1> HIDE DEF Moves, New
<1>3. ASSUME NEW q \in Follow(m, r, x)
      PROVE  \E s \in rcpts : /\ q = New(s)
                              /\ q.alias = s.alias /\ q.mbox = s.mbox /\ q.ref = s.ref
  BY <1>1, <1>2
<1>4. ASSUME NEW s \in rcpts
      PROVE  \E q \in Follow(m, r, x) :
               /\ q = New(s)
               /\ q.alias = s.alias /\ q.mbox = s.mbox /\ q.ref = s.ref
  BY <1>1, <1>2
<1> QED BY <1>3, <1>4 DEF New, Moves

(* A mailbox gets an address that no other has.                              *)
LEMMA MailboxWritten ==
  ASSUME MailboxesOK, NEW m \in Mailboxes, NEW l \in Locals, NEW d \in Domains,
         MailboxAt(At(l, dom[d])) = {}, dom[d] # None, dom' = dom,
         mbox' = [mbox EXCEPT ![m] = [local |-> l, dom |-> d]]
  PROVE  /\ MailboxesOK'
         /\ mbox'[m] = [local |-> l, dom |-> d] /\ mbox'[m] # None
         /\ \A k \in Mailboxes \ {m} : mbox'[k] = mbox[k]
         /\ \A k \in Mailboxes : mbox[k] # None => mbox'[k] # None
<1>1. PICK v \in [local : Locals, dom : Domains] : v = [local |-> l, dom |-> d]
  OBVIOUS
<1>2. v # None
  BY IdentitiesAssumption
<1>3. mbox'[m] = v /\ \A k \in Mailboxes \ {m} : mbox'[k] = mbox[k]
  BY <1>1 DEF MailboxesOK
<1>4. mbox' \in [Mailboxes -> [local : Locals, dom : Domains] \cup {None}]
  BY <1>1 DEF MailboxesOK
<1>5. \A k \in Mailboxes : mbox'[k] # None => dom'[mbox'[k].dom] # None
  BY <1>1, <1>3 DEF MailboxesOK
<1>6. ASSUME NEW k \in Mailboxes, mbox[k] # None PROVE mbox[k].local # l \/ mbox[k].dom # d
  <2>1. Address(k) # At(l, dom[d])
    BY <1>6 DEF MailboxAt
  <2> QED BY <2>1 DEF Address
<1>7. MailboxesOK'
  BY <1>1, <1>3, <1>4, <1>5, <1>6 DEF MailboxesOK
<1> QED BY <1>1, <1>2, <1>3, <1>7

(* Creating a mailbox.                                                       *)
LEMMA CreateMailboxRows ==
  ASSUME IdRows, NEW m \in Mailboxes, NEW l \in Locals, NEW d \in Domains, CreateMailbox(m, l, d)
  PROVE  IdRows' /\ NoneEmptied
<1> USE DEF IdRows
<1>1. PICK x, a, q : /\ x = At(l, dom[d]) /\ a = GetOrCreate(x, d)
                     /\ q = Row(a, x, m, None)
  OBVIOUS
<1>2. /\ dom[d] \in Names /\ x \in LocalAddresses
      /\ a \in Pks
      /\ mbox[m] = None /\ Free # {}
      /\ mbox' = [mbox EXCEPT ![m] = [local |-> l, dom |-> d]]
      /\ quota' = quota \cup {x}
      /\ alias' = [alias EXCEPT ![a] = SelfAliasRow(x, d)]
      /\ UniqueAliases(alias')
      /\ rcpts' = rcpts \cup {q}
      /\ stale' = stale \ {m}
      /\ dom' = dom /\ dalias' = dalias
  BY <1>1, GetOrCreateIs DEF CreateMailbox, DomainsOK, LocalAddresses
<1>3. DomainsOK'
  BY <1>2 DEF DomainsOK
<1>4. /\ MailboxesOK' /\ mbox'[m] # None
      /\ \A k \in Mailboxes : mbox[k] # None => mbox'[k] # None
  <2>1. MailboxAt(At(l, dom[d])) = {} /\ dom[d] # None /\ MailboxesOK
    BY DEF CreateMailbox
  <2> QED BY <1>2, <2>1, MailboxWritten
<1>6. SelfAliasRow(x, d) \in UserRows
  <2>1. x = [local |-> l, name |-> dom[d]]
    BY <1>1 DEF At
  <2> QED BY <1>2, <2>1 DEF SelfAliasRow, UserRows
<1>7. /\ AliasesOK' /\ alias'[a] # None
      /\ \A b \in Pks : alias[b] # None => alias'[b] # None
  <2>1. SelfAliasRow(x, d).dom = d /\ dom[d] # None
    BY <1>2, IdentitiesAssumption DEF SelfAliasRow
  <2>2. AliasesOK
    OBVIOUS
  <2> QED BY <1>2, <1>6, <2>1, <2>2, AliasRowWritten
<1>8. /\ q = [alias |-> a, address |-> x, mbox |-> m, ref |-> None]
      /\ q.alias = a /\ q.address = x /\ q.mbox = m /\ q.ref = None
  BY <1>1 DEF Row
<1>9. RecipientsOK'
  <2>1. q \in RecipientRows
    <3>1. x = [local |-> l, name |-> dom[d]]
      BY <1>1 DEF At
    <3> QED BY <1>2, <1>8, <3>1 DEF RecipientRows
  <2>2. UniqueRecipients(rcpts \cup {q})
    <3>1. \A r \in rcpts : r.mbox # m
      BY <1>2, IdentitiesAssumption DEF RecipientsOK
    <3>2. UniqueRecipients(rcpts)
      BY DEF RecipientsOK
    <3> QED BY <1>8, <3>1, <3>2, UniqueAdded
  <2>3. rcpts' \in SUBSET RecipientRows /\ UniqueRecipients(rcpts')
    BY <1>2, <2>1, <2>2 DEF RecipientsOK
  <2>4. RecipientsOK /\ \A k \in Mailboxes : mbox[k] # None => mbox'[k] # None
    BY <1>4
  <2> QED BY <1>2, <1>4, <1>7, <1>8, <2>3, <2>4, RecipientsWritten
<1>10. OthersOK'
  BY <1>2 DEF OthersOK
<1>11. NoneEmptied
  BY <1>2, KeptRecipients
<1> QED BY <1>3, <1>4, <1>7, <1>9, <1>10, <1>11

(* Renaming a mailbox.                                                       *)
LEMMA RenameMailboxRows ==
  ASSUME IdRows, NEW m \in Mailboxes, NEW l \in Locals, NEW d \in Domains, RenameMailbox(m, l, d)
  PROVE  IdRows' /\ NoneEmptied
<1> USE DEF IdRows
<1>1. PICK x : x = At(l, dom[d])
  OBVIOUS
<1>2. PICK r \in SelfRecipients(m) :
        /\ alias' = [alias EXCEPT ![r.alias] = SelfAliasRow(x, d)]
        /\ UniqueAliases(alias')
        /\ rcpts' = Follow(m, r, x)
  BY <1>1 DEF RenameMailbox
<1>3. /\ dom[d] \in Names /\ x \in LocalAddresses /\ MailboxAt(x) = {}
      /\ mbox' = [mbox EXCEPT ![m] = [local |-> l, dom |-> d]]
      /\ quota' = (quota \ {Address(m)}) \cup {x}
      /\ stale' = stale \ {m}
      /\ dom' = dom /\ dalias' = dalias
  BY <1>1 DEF RenameMailbox, DomainsOK, LocalAddresses
<1>4. r \in rcpts /\ r.alias \in Pks
  BY DEF SelfRecipients, RecipientsOK, RecipientRows
<1>5. DomainsOK'
  BY <1>3 DEF DomainsOK
<1>6. /\ MailboxesOK' /\ mbox'[m] # None
      /\ \A k \in Mailboxes : mbox[k] # None => mbox'[k] # None
  <2>1. MailboxAt(At(l, dom[d])) = {} /\ dom[d] # None /\ MailboxesOK
    BY <1>1, <1>3 DEF RenameMailbox
  <2> QED BY <1>3, <2>1, MailboxWritten
<1>8. x = [local |-> l, name |-> dom[d]]
  BY <1>1 DEF At
<1>9. /\ AliasesOK' /\ \A b \in Pks : alias[b] # None => alias'[b] # None
  <2>1. SelfAliasRow(x, d).dom = d /\ dom[d] # None
    BY <1>3, IdentitiesAssumption DEF SelfAliasRow
  <2>2. SelfAliasRow(x, d) \in UserRows
    BY <1>3, <1>8 DEF SelfAliasRow, UserRows
  <2>3. AliasesOK
    OBVIOUS
  <2> QED BY <1>2, <1>3, <1>4, <2>1, <2>2, <2>3, AliasRowWritten
<1>10. PICK R2 : R2 = rcpts'
  OBVIOUS
<1>11. /\ \A q \in R2 : \E s \in rcpts :
            /\ q = IF s = r \/ (s.mbox = m /\ ~alias[s.alias].internal)
                   THEN Row(s.alias, x, s.mbox, s.ref) ELSE s
            /\ q.alias = s.alias /\ q.mbox = s.mbox /\ q.ref = s.ref
       /\ \A s \in rcpts : \E q \in R2 : q.alias = s.alias
  <2>1. rcpts \in SUBSET RecipientRows
    BY DEF RecipientsOK
  <2> QED BY <1>2, <1>10, <2>1, FollowIs
<1>12. RecipientsOK'
  <2>1. ASSUME NEW q \in R2 PROVE q \in RecipientRows
    <3>1. PICK s \in rcpts :
            q = IF s = r \/ (s.mbox = m /\ ~alias[s.alias].internal)
                THEN Row(s.alias, x, s.mbox, s.ref) ELSE s
      BY <1>11
    <3>2. s \in RecipientRows
      BY DEF RecipientsOK
    <3>3. Row(s.alias, x, s.mbox, s.ref) \in RecipientRows
      BY <1>3, <1>8, <3>2 DEF RecipientRows, Row
    <3> QED BY <3>1, <3>2, <3>3
  <2>2. ASSUME NEW p \in R2, NEW q \in R2, p.alias = q.alias,
               (p.mbox # None /\ p.mbox = q.mbox) \/ (p.ref # None /\ p.ref = q.ref)
        PROVE  p = q
    <3>1. PICK s \in rcpts :
            /\ p = IF s = r \/ (s.mbox = m /\ ~alias[s.alias].internal)
                   THEN Row(s.alias, x, s.mbox, s.ref) ELSE s
            /\ p.alias = s.alias /\ p.mbox = s.mbox /\ p.ref = s.ref
      BY <1>11
    <3>2. PICK t \in rcpts :
            /\ q = IF t = r \/ (t.mbox = m /\ ~alias[t.alias].internal)
                   THEN Row(t.alias, x, t.mbox, t.ref) ELSE t
            /\ q.alias = t.alias /\ q.mbox = t.mbox /\ q.ref = t.ref
      BY <1>11
    <3>3. s = t
      BY <2>2, <3>1, <3>2 DEF RecipientsOK, UniqueRecipients
    <3> QED BY <3>1, <3>2, <3>3
  <2>3. rcpts' \in SUBSET RecipientRows /\ UniqueRecipients(rcpts')
    <3>1. UniqueRecipients(R2)
      BY <2>2 DEF UniqueRecipients
    <3> QED BY <1>10, <2>1, <3>1
  <2>4. \A q \in rcpts' : \E s \in rcpts : q.alias = s.alias /\ q.mbox = s.mbox /\ q.ref = s.ref
    BY <1>10, <1>11
  <2>5. RecipientsOK /\ \A k \in Mailboxes : mbox[k] # None => mbox'[k] # None
    BY <1>6
  <2> QED BY <1>9, <2>3, <2>4, <2>5, RecipientsWritten
<1>13. OthersOK'
  BY <1>3 DEF OthersOK
<1>14. NoneEmptied
  BY <1>10, <1>11, KeptRecipients
<1> QED BY <1>5, <1>6, <1>9, <1>12, <1>13, <1>14

(* Deleting a mailbox.                                                       *)
LEMMA DeleteMailboxRows ==
  ASSUME IdRows, NEW m \in Mailboxes, DeleteMailbox(m)
  PROVE  IdRows' /\ NoneEmptied
<1> USE DEF IdRows
<1>1. PICK S : Removed({m}, SelvesOf({m}), S)
  BY RowsAreTypes, DeleteMailboxRemoves
<1>2. /\ mbox' = [mbox EXCEPT ![m] = None]
      /\ quota' \subseteq quota /\ stale' \subseteq stale
      /\ dom' = dom /\ dalias' = dalias
  BY DEF DeleteMailbox
<1>3. /\ mbox'[m] = None
      /\ \A k \in Mailboxes \ {m} : mbox'[k] = mbox[k]
  BY <1>2 DEF MailboxesOK
<1>4. DomainsOK'
  BY <1>2 DEF DomainsOK
<1>5. MailboxesOK'
  BY <1>2, <1>3 DEF MailboxesOK
<1>6. AliasesOK' /\ RecipientsOK' /\ NoneEmptied
  <2>1. \A a \in Pks \ S : alias[a] # None /\ alias[a].dom # None => dom'[alias[a].dom] # None
    BY <1>2 DEF AliasesOK
  <2>2. AliasesOK /\ RecipientsOK /\ \A k \in Mailboxes \ {m} : mbox'[k] = mbox[k]
    BY <1>3
  <2> QED BY <1>1, <2>1, <2>2, RemovedKeepsRows
<1>7. OthersOK'
  BY <1>2 DEF OthersOK
<1> QED BY <1>4, <1>5, <1>6, <1>7

(* Creating a domain.                                                        *)
LEMMA CreateDomainRows ==
  ASSUME IdRows, NEW d \in Domains, NEW n \in Names, CreateDomain(d, n)
  PROVE  IdRows' /\ NoneEmptied
<1> USE DEF IdRows
<1>1. /\ \A e \in Domains : dom[e] # n
      /\ dom' = [dom EXCEPT ![d] = n]
      /\ mbox' = mbox /\ alias' = alias /\ rcpts' = rcpts /\ quota' = quota
      /\ dalias' = dalias /\ stale' = stale
  BY DEF CreateDomain, aliasVars
<1>2. n # None
  BY IdentitiesAssumption
<1>3. \A e \in Domains : dom[e] # None => dom'[e] # None
  BY <1>1, <1>2 DEF DomainsOK
<1>4. DomainsOK'
  BY <1>1, <1>2 DEF DomainsOK
<1>5. MailboxesOK'
  BY <1>1, <1>3 DEF MailboxesOK
<1>6. AliasesOK'
  <2>1. ASSUME NEW a \in Pks, alias[a] # None, alias[a].dom # None PROVE dom'[alias[a].dom] # None
    <3>1. alias[a].dom \in Domains /\ dom[alias[a].dom] # None
      BY <2>1, AliasRowIs DEF AliasesOK
    <3> QED BY <1>3, <3>1
  <2> QED BY <1>1, <2>1 DEF AliasesOK, UniqueAliases, AliasTable, UserRows, DomainAliasRows
<1>7. RecipientsOK'
  BY <1>1 DEF RecipientsOK, UniqueRecipients, RecipientRows
<1>8. OthersOK'
  BY <1>1, <1>3 DEF OthersOK, LocalAddresses, At
<1>9. NoneEmptied
  BY <1>1, KeptRecipients
<1> QED BY <1>4, <1>5, <1>6, <1>7, <1>8, <1>9

(* Renaming a domain.                                                        *)
LEMMA RenameDomainRows ==
  ASSUME IdRows, NEW d \in Domains, NEW n \in Names, RenameDomain(d, n)
  PROVE  IdRows' /\ NoneEmptied
<1> USE DEF IdRows
<1>1. /\ \A e \in Domains : dom[e] # n
      /\ dom' = [dom EXCEPT ![d] = n]
      /\ quota' = QuotaRenamed(dom[d], n)
      /\ alias' = AliasesRenamed(d, n)
      /\ UniqueAliases(alias')
      /\ stale' = stale \cup {m \in Mailboxes : mbox[m] # None /\ mbox[m].dom = d}
      /\ mbox' = mbox /\ rcpts' = rcpts /\ dalias' = dalias
  BY DEF RenameDomain
<1>2. n # None
  BY IdentitiesAssumption
<1>3. \A e \in Domains : dom[e] # None => dom'[e] # None
  BY <1>1, <1>2 DEF DomainsOK
<1>4. DomainsOK'
  BY <1>1, <1>2 DEF DomainsOK
<1>5. MailboxesOK'
  BY <1>1, <1>3 DEF MailboxesOK
<1>6. PICK A2 : A2 = alias'
  OBVIOUS
<1>7. ASSUME NEW a \in Pks
      PROVE  /\ A2[a] = IF alias[a] # None /\ alias[a].dom = d
                        THEN [alias[a] EXCEPT !.address.name = n] ELSE alias[a]
             /\ A2[a] \in UserRows \cup DomainAliasRows \cup {None}
             /\ alias[a] # None => A2[a] # None
             /\ A2[a] # None => alias[a] # None /\ A2[a].dom = alias[a].dom
  <2>1. A2[a] = IF alias[a] # None /\ alias[a].dom = d
                THEN [alias[a] EXCEPT !.address.name = n] ELSE alias[a]
    BY <1>1, <1>6 DEF AliasesRenamed
  <2>2. alias[a] \in UserRows \cup DomainAliasRows \cup {None}
    BY DEF AliasesOK, AliasTable
  <2>3. CASE alias[a] # None /\ alias[a].dom = d
    <3>1. PICK v : v = alias[a]
      OBVIOUS
    <3>2. /\ v = [address |-> v.address, dom |-> v.dom, internal |-> v.internal]
          /\ v.address = At(v.address.local, v.address.name)
          /\ v.address.local \in Locals /\ v.dom \in Domains /\ v.internal \in BOOLEAN
      BY <2>3, <3>1, AliasRowIs, IdentitiesAssumption DEF AliasesOK
    <3>3. [v EXCEPT !.address.name = n]
            = [address |-> At(v.address.local, n), dom |-> v.dom, internal |-> v.internal]
      BY <3>2 DEF At
    <3>4. A2[a] = [address |-> At(v.address.local, n), dom |-> v.dom, internal |-> v.internal]
      BY <2>1, <2>3, <3>1, <3>3
    <3>5. A2[a] \in UserRows /\ A2[a].dom = v.dom
      BY <3>2, <3>4 DEF UserRows, At
    <3>6. A2[a] # None
      <4>1. A2[a] \in [address : [local : Locals \cup {""}, name : Names \cup AliasNames],
                       dom : Domains \cup {None}, internal : BOOLEAN]
        BY <3>5 DEF UserRows
      <4> QED BY <4>1, IdentitiesAssumption
    <3> QED BY <2>1, <2>3, <3>1, <3>5, <3>6
  <2>4. CASE ~(alias[a] # None /\ alias[a].dom = d)
    BY <2>1, <2>2, <2>4
  <2> QED BY <2>3, <2>4
<1>8. AliasesOK'
  <2>1. A2 \in AliasTable
    <3>1. A2 = [a \in Pks |-> A2[a]]
      BY <1>1, <1>6 DEF AliasesRenamed
    <3> QED BY <1>7, <3>1 DEF AliasTable
  <2>2. ASSUME NEW a \in Pks, A2[a] # None, A2[a].dom # None PROVE dom'[A2[a].dom] # None
    <3>1. alias[a] # None /\ alias[a].dom = A2[a].dom
      BY <1>7, <2>2
    <3>2. alias[a].dom \in Domains /\ dom[alias[a].dom] # None
      BY <2>2, <3>1, AliasRowIs DEF AliasesOK
    <3> QED BY <1>3, <3>1, <3>2
  <2>3. alias' \in AliasTable /\ \A a \in Pks : alias'[a] # None /\ alias'[a].dom # None =>
                                                   dom'[alias'[a].dom] # None
    BY <1>6, <2>1, <2>2
  <2> QED BY <1>1, <2>3 DEF AliasesOK, UniqueAliases, AliasTable, UserRows, DomainAliasRows
<1>9. RecipientsOK'
  <2>1. \A a \in Pks : alias[a] # None => alias'[a] # None
    BY <1>6, <1>7
  <2>2. RecipientsOK /\ rcpts' \in SUBSET RecipientRows /\ UniqueRecipients(rcpts')
    BY <1>1 DEF RecipientsOK
  <2> QED BY <1>1, <2>1, <2>2, RecipientsWritten
<1>10. OthersOK'
  <2>1. QuotaRenamed(dom[d], n) \subseteq LocalAddresses
    <3>1. \A x \in quota : x.local \in Locals
      BY DEF OthersOK, LocalAddresses, At
    <3>2. ASSUME NEW y \in QuotaRenamed(dom[d], n) PROVE y \in LocalAddresses
      <4>1. CASE y \in quota
        BY <4>1 DEF OthersOK
      <4>2. CASE y \notin quota
        <5>1. PICK x \in quota : y = At(x.local, n)
          BY <4>2 DEF QuotaRenamed, QuotasLike
        <5> QED BY <3>1, <5>1 DEF LocalAddresses
      <4> QED BY <4>1, <4>2
    <3> QED BY <3>2
  <2> QED BY <1>1, <1>3, <2>1 DEF OthersOK, LocalAddresses, At
<1>11. NoneEmptied
  BY <1>1, KeptRecipients
<1> QED BY <1>4, <1>5, <1>8, <1>9, <1>10, <1>11

(* Deleting a domain.                                                        *)
LEMMA DeleteDomainRows ==
  ASSUME IdRows, NEW d \in Domains, DeleteDomain(d)
  PROVE  IdRows' /\ NoneEmptied
<1> USE DEF IdRows
<1>1. PICK M, Own : M = MailboxesOf(d) /\ Own = SelvesOf(MailboxesOf(d)) \cup AliasesOf(d)
  OBVIOUS
<1>2. PICK S : Removed(M, Own, S)
  BY <1>1, RowsAreTypes, DeleteDomainRemoves
<1>3. /\ quota' \subseteq quota
      /\ mbox' = [m \in Mailboxes |-> IF m \in M THEN None ELSE mbox[m]]
      /\ dalias' = [n \in AliasNames |-> IF dalias[n] = d THEN None ELSE dalias[n]]
      /\ dom' = [dom EXCEPT ![d] = None]
      /\ stale' \subseteq stale
  BY <1>1 DEF DeleteDomain, MailboxesOf
<1>4. DomainsOK'
  BY <1>3 DEF DomainsOK
<1>5. \A e \in Domains \ {d} : dom'[e] = dom[e]
  BY <1>3 DEF DomainsOK
<1>6. /\ \A m \in Mailboxes \ M : mbox'[m] = mbox[m]
      /\ \A m \in M : mbox'[m] = None
      /\ \A m \in Mailboxes : mbox'[m] # None =>
           mbox[m] # None /\ mbox'[m] = mbox[m] /\ mbox[m].dom # d
  BY <1>1, <1>3 DEF MailboxesOf
<1>7. MailboxesOK'
  <2>1. mbox' \in [Mailboxes -> [local : Locals, dom : Domains] \cup {None}]
    BY <1>3 DEF MailboxesOK
  <2>2. \A m \in Mailboxes : mbox'[m] # None => dom'[mbox'[m].dom] # None
    <3>1. ASSUME NEW m \in Mailboxes, mbox'[m] # None PROVE dom'[mbox'[m].dom] # None
      <4>1. mbox[m] # None /\ mbox'[m] = mbox[m] /\ mbox[m].dom \in Domains \ {d}
        BY <1>6, <3>1, MailboxIs
      <4> QED BY <1>5, <4>1 DEF MailboxesOK
    <3> QED BY <3>1
  <2> QED BY <1>6, <2>1, <2>2 DEF MailboxesOK
<1>8. AliasesOK' /\ RecipientsOK' /\ NoneEmptied
  <2>1. ASSUME NEW a \in Pks \ S, alias[a] # None, alias[a].dom # None
        PROVE  dom'[alias[a].dom] # None
    <3>1. alias[a].dom # d
      BY <1>1, <1>2, <2>1 DEF Removed, AliasesOf
    <3>2. alias[a].dom \in Domains /\ dom[alias[a].dom] # None
      BY <2>1, AliasRowIs DEF AliasesOK
    <3> QED BY <1>5, <3>1, <3>2
  <2>2. AliasesOK /\ RecipientsOK /\ \A m \in Mailboxes \ M : mbox'[m] = mbox[m]
    BY <1>6
  <2> QED BY <1>2, <2>1, <2>2, RemovedKeepsRows
<1>9. OthersOK'
  <2>1. \A n \in AliasNames : dalias'[n] # None => dalias'[n] = dalias[n] /\ dalias[n] # d
    BY <1>3
  <2>2. \A n \in AliasNames : dalias'[n] # None => dom'[dalias'[n]] # None
    BY <1>5, <2>1 DEF OthersOK
  <2>3. dalias' \in [AliasNames -> Domains \cup {None}]
    BY <1>3 DEF OthersOK
  <2> QED BY <1>3, <2>2, <2>3 DEF OthersOK, LocalAddresses, At
<1> QED BY <1>4, <1>7, <1>8, <1>9

(* Creating a domain alias.                                                  *)
LEMMA CreateDomainAliasRows ==
  ASSUME IdRows, NEW n \in AliasNames, NEW d \in Domains, CreateDomainAlias(n, d)
  PROVE  IdRows' /\ NoneEmptied
<1> USE DEF IdRows
<1>1. PICK a, q, v : /\ a = NewPk /\ q = Row(a, At("", dom[d]), None, None)
                     /\ v = SelfAliasRow(At("", n), None)
  OBVIOUS
<1>2. /\ dom[d] \in Names
      /\ a \in Pks /\ alias[a] = None
      /\ dalias' = [dalias EXCEPT ![n] = d]
      /\ alias' = [alias EXCEPT ![a] = v]
      /\ UniqueAliases(alias')
      /\ rcpts' = rcpts \cup {q}
      /\ dom' = dom /\ mbox' = mbox /\ quota' = quota /\ stale' = stale
  BY <1>1, NewPkIs DEF CreateDomainAlias, DomainsOK
<1>3. DomainsOK'
  BY <1>2 DEF DomainsOK
<1>4. MailboxesOK'
  BY <1>2 DEF MailboxesOK
<1>5. v \in UserRows \cup DomainAliasRows /\ v.dom = None
  BY <1>1 DEF SelfAliasRow, DomainAliasRows, At
<1>6. /\ AliasesOK' /\ alias'[a] # None
      /\ \A b \in Pks : alias[b] # None => alias'[b] # None
  <2>1. AliasesOK
    OBVIOUS
  <2> QED BY <1>2, <1>5, <2>1, AliasRowWritten
<1>7. /\ q = [alias |-> a, address |-> [local |-> "", name |-> dom[d]], mbox |-> None, ref |-> None]
      /\ q.alias = a /\ q.mbox = None /\ q.ref = None
  BY <1>1 DEF Row, At
<1>8. RecipientsOK'
  <2>1. q \in RecipientRows
    BY <1>2, <1>7 DEF RecipientRows
  <2>2. UniqueRecipients(rcpts)
    BY DEF RecipientsOK
  <2>3. UniqueRecipients(rcpts \cup {q})
    BY <1>7, <2>2, UniqueAdded
  <2>4. rcpts' \in SUBSET RecipientRows /\ UniqueRecipients(rcpts')
    BY <1>2, <2>1, <2>3 DEF RecipientsOK
  <2>5. RecipientsOK
    OBVIOUS
  <2> QED BY <1>2, <1>6, <1>7, <2>4, <2>5, RecipientsWritten
<1>9. OthersOK'
  <2>1. dalias' \in [AliasNames -> Domains \cup {None}]
    BY <1>2 DEF OthersOK
  <2>2. \A k \in AliasNames : dalias'[k] # None => dom'[dalias'[k]] # None
    BY <1>2, IdentitiesAssumption DEF OthersOK
  <2> QED BY <1>2, <2>1, <2>2 DEF OthersOK, LocalAddresses, At
<1>10. NoneEmptied
  BY <1>2, KeptRecipients
<1> QED BY <1>3, <1>4, <1>6, <1>8, <1>9, <1>10

(* Giving a domain alias another target or name.                             *)
LEMMA UpdateDomainAliasRows ==
  ASSUME IdRows, NEW n \in AliasNames, NEW k \in AliasNames, NEW d \in Domains,
         UpdateDomainAlias(n, k, d)
  PROVE  IdRows' /\ NoneEmptied
<1> USE DEF IdRows
<1>1. /\ dom[d] # None
      /\ dalias' = [dalias EXCEPT ![n] = None, ![k] = d]
      /\ dom' = dom /\ mbox' = mbox /\ alias' = alias /\ rcpts' = rcpts
      /\ quota' = quota /\ stale' = stale
  BY DEF UpdateDomainAlias, aliasVars
<1>2. DomainsOK' /\ MailboxesOK'
  BY <1>1 DEF DomainsOK, MailboxesOK
<1>3. AliasesOK' /\ RecipientsOK'
  BY <1>1 DEF AliasesOK, UniqueAliases, AliasTable, UserRows, DomainAliasRows,
              RecipientsOK, UniqueRecipients, RecipientRows
<1>4. OthersOK'
  <2>1. dalias' \in [AliasNames -> Domains \cup {None}]
    BY <1>1 DEF OthersOK
  <2>2. \A j \in AliasNames : dalias'[j] # None => dom'[dalias'[j]] # None
    BY <1>1 DEF OthersOK
  <2> QED BY <1>1, <2>1, <2>2 DEF OthersOK, LocalAddresses, At
<1>5. NoneEmptied
  BY <1>1, KeptRecipients
<1> QED BY <1>2, <1>3, <1>4, <1>5

(* Deleting a domain alias.                                                  *)
LEMMA DeleteDomainAliasRows ==
  ASSUME IdRows, NEW n \in AliasNames, DeleteDomainAlias(n)
  PROVE  IdRows' /\ NoneEmptied
<1> USE DEF IdRows
<1>1. /\ dalias' = [dalias EXCEPT ![n] = None]
      /\ dom' = dom /\ mbox' = mbox /\ quota' = quota /\ stale' = stale
  BY DEF DeleteDomainAlias
<1>2. DomainsOK' /\ MailboxesOK'
  BY <1>1 DEF DomainsOK, MailboxesOK
<1>3. AliasesOK' /\ RecipientsOK' /\ NoneEmptied
  <2>1. PICK T, M : /\ T = AliasAt(At("", n)) /\ M = {}
                    /\ Removed(M, T, T)
    BY RowsAreTypes, DeleteDomainAliasRemoves
  <2>2. \A a \in Pks \ T : alias[a] # None /\ alias[a].dom # None => dom'[alias[a].dom] # None
    BY <1>1 DEF AliasesOK
  <2>3. AliasesOK /\ RecipientsOK /\ \A k \in Mailboxes \ M : mbox'[k] = mbox[k]
    BY <1>1
  <2> QED BY <2>1, <2>2, <2>3, RemovedKeepsRows
<1>4. OthersOK'
  <2>1. dalias' \in [AliasNames -> Domains \cup {None}]
    BY <1>1 DEF OthersOK
  <2>2. \A j \in AliasNames : dalias'[j] # None => dom'[dalias'[j]] # None
    BY <1>1 DEF OthersOK
  <2> QED BY <1>1, <2>1, <2>2 DEF OthersOK, LocalAddresses, At
<1> QED BY <1>2, <1>3, <1>4

(* The recipients an administrator names.                                    *)
LEMMA TargetsAre ==
  ASSUME NEW X \in RecipientSets
  PROVE  X \in SUBSET (LocalAddresses \cup {Far}) /\ X # {}
BY DEF RecipientSets, Targets

(* The recipients of an alias that exists are set.                           *)
LEMMA RecipientsSetRows ==
  ASSUME IdRows, NEW a \in Pks, NEW own, NEW X \in RecipientSets,
         rcpts' \in SetRecipients(a, own, X), alias'[a] # None,
         \A b \in Pks : alias[b] # None => alias'[b] # None, mbox' = mbox
  PROVE  RecipientsOK' /\ NoneEmptied
<1> USE DEF IdRows
<1>1. PICK R2 : R2 = rcpts'
  OBVIOUS
<1>2. X \in SUBSET (LocalAddresses \cup {Far}) /\ X # {}
  BY TargetsAre
<1>3. /\ \A r \in rcpts : r.alias # a => r \in R2
      /\ \A r \in R2 : r \notin rcpts =>
           /\ r \in RecipientRows /\ r.alias = a
           /\ r.mbox \in MailboxAt(r.address) \cup {None}
           /\ r.ref \in AliasAt(r.address) \cup {None}
           /\ r.mbox = None \/ r.ref = None
      /\ \A x \in X : \E r \in R2 : r.alias = a /\ r.address = x
      /\ UniqueRecipients(R2)
  <2>1. rcpts \in SUBSET RecipientRows
    BY DEF RecipientsOK
  <2> QED BY <1>1, <1>2, <2>1, RecipientsSet
<1>4. RecipientsOK'
  <2>1. rcpts' \in SUBSET RecipientRows /\ UniqueRecipients(rcpts')
    BY <1>1, <1>3 DEF RecipientsOK
  <2>2. ASSUME NEW q \in R2, q \notin rcpts
        PROVE  /\ alias'[q.alias] # None
               /\ q.mbox # None => mbox'[q.mbox] # None /\ q.ref = None
               /\ q.ref # None => alias'[q.ref] # None
    BY <1>3, <2>2 DEF MailboxAt, AliasAt
  <2>3. RecipientsOK
    OBVIOUS
  <2> QED BY <1>1, <2>1, <2>2, <2>3, RecipientsWritten
<1>5. NoneEmptied
  <2>1. ASSUME NEW r \in rcpts PROVE \E q \in R2 : q.alias = r.alias
    <3>1. CASE r.alias # a
      BY <1>3, <3>1
    <3>2. CASE r.alias = a
      BY <1>2, <1>3, <3>2
    <3> QED BY <3>1, <3>2
  <2> QED BY <1>1, <2>1, KeptRecipients
<1> QED BY <1>4, <1>5

(* Creating an alias.                                                        *)
LEMMA CreateAliasRows ==
  ASSUME IdRows, NEW x \in LocalAddresses, NEW X \in RecipientSets, CreateAlias(x, X)
  PROVE  IdRows' /\ NoneEmptied
<1> USE DEF IdRows
<1>1. PICK a : a = NewPk
  OBVIOUS
<1>2. PICK d \in Domains :
        /\ dom[d] = x.name
        /\ alias' = [alias EXCEPT ![a] = [address |-> x, dom |-> d, internal |-> FALSE]]
  BY <1>1 DEF CreateAlias
<1>3. /\ a \in Pks /\ alias[a] = None
      /\ ~Taken(x)
      /\ rcpts' \in SetRecipients(a, x, X)
      /\ dom' = dom /\ mbox' = mbox /\ quota' = quota /\ dalias' = dalias /\ stale' = stale
  BY <1>1, NewPkIs DEF CreateAlias
<1>4. DomainsOK' /\ MailboxesOK'
  BY <1>3 DEF DomainsOK, MailboxesOK
<1>5. PICK v : v = [address |-> x, dom |-> d, internal |-> FALSE]
  OBVIOUS
<1>6. v \in UserRows /\ dom[d] # None
  <2>1. PICK l \in Locals, n \in Names : x = [local |-> l, name |-> n]
    BY DEF LocalAddresses, At
  <2> QED BY <1>2, <1>5, <2>1, IdentitiesAssumption DEF UserRows
<1>7. UniqueAliases(alias')
  <2>1. PICK A2 : A2 = alias'
    OBVIOUS
  <2>2. A2[a] = v /\ \A b \in Pks \ {a} : A2[b] = alias[b]
    BY <1>2, <1>3, <1>5, <2>1 DEF AliasesOK, AliasTable
  <2>3. ASSUME NEW b \in Pks \ {a}, A2[b] # None, A2[b].address = v.address,
               A2[b].internal = v.internal
        PROVE  FALSE
    <3>1. v.address = x /\ v.internal = FALSE
      BY <1>5
    <3>2. External(b) /\ alias[b].address = x
      BY <2>2, <2>3, <3>1 DEF External
    <3> QED BY <1>3, <3>2 DEF Taken
  <2>4. UniqueAliases(A2)
    BY <2>2, <2>3 DEF UniqueAliases, AliasesOK
  <2> QED BY <2>1, <2>4
<1>8. /\ AliasesOK' /\ alias'[a] # None
      /\ \A b \in Pks : alias[b] # None => alias'[b] # None
  <2>1. AliasesOK /\ v.dom = d
    BY <1>5
  <2> QED BY <1>2, <1>3, <1>5, <1>6, <1>7, <2>1, AliasRowWritten
<1>9. RecipientsOK' /\ NoneEmptied
  BY <1>3, <1>8, RecipientsSetRows
<1>10. OthersOK'
  BY <1>3 DEF OthersOK, LocalAddresses, At
<1> QED BY <1>4, <1>8, <1>9, <1>10

(* Changing an alias.                                                        *)
LEMMA UpdateAliasRows ==
  ASSUME IdRows, NEW a \in Pks, NEW x \in LocalAddresses, NEW X \in RecipientSets,
         UpdateAlias(a, x, X)
  PROVE  IdRows' /\ NoneEmptied
<1> USE DEF IdRows
<1>1. /\ alias[a] # None /\ ~alias[a].internal
      /\ x = alias[a].address \/ ~Taken(x)
      /\ alias' = [alias EXCEPT ![a].address = x]
      /\ rcpts' \in SetRecipients(a, x, X)
      /\ dom' = dom /\ mbox' = mbox /\ quota' = quota /\ dalias' = dalias /\ stale' = stale
  BY DEF UpdateAlias, External
<1>2. DomainsOK' /\ MailboxesOK'
  BY <1>1 DEF DomainsOK, MailboxesOK
<1>3. /\ alias[a] = [address |-> alias[a].address, dom |-> alias[a].dom, internal |-> FALSE]
      /\ alias[a].dom \in Domains
  BY <1>1, AliasRowIs DEF AliasesOK
<1>4. PICK v : v = [address |-> x, dom |-> alias[a].dom, internal |-> FALSE]
  OBVIOUS
<1>5. alias' = [alias EXCEPT ![a] = v]
  <2>1. PICK w : w = alias[a]
    OBVIOUS
  <2>2. [w EXCEPT !.address = x] = v
    <3>1. w = [address |-> w.address, dom |-> w.dom, internal |-> w.internal]
      BY <1>1, <2>1, AliasRowIs DEF AliasesOK
    <3>2. [w EXCEPT !.address = x] = [address |-> x, dom |-> w.dom, internal |-> w.internal]
      BY <3>1
    <3>3. w.internal = FALSE
      BY <1>3, <2>1
    <3> QED BY <1>4, <2>1, <3>2, <3>3
  <2> QED BY <1>1, <2>1, <2>2
<1>6. v \in UserRows
  <2>1. PICK l \in Locals, n \in Names : x = [local |-> l, name |-> n]
    BY DEF LocalAddresses, At
  <2> QED BY <1>3, <1>4, <2>1 DEF UserRows
<1>7. UniqueAliases(alias')
  <2>1. PICK A2 : A2 = alias'
    OBVIOUS
  <2>2. A2[a] = v /\ \A b \in Pks \ {a} : A2[b] = alias[b]
    BY <1>5, <2>1 DEF AliasesOK, AliasTable
  <2>3. ASSUME NEW b \in Pks \ {a}, A2[b] # None, A2[b].address = v.address,
               A2[b].internal = v.internal
        PROVE  FALSE
    <3>1. v.address = x /\ v.internal = FALSE
      BY <1>4
    <3>2. External(b) /\ alias[b].address = x
      BY <2>2, <2>3, <3>1 DEF External
    <3>3. x = alias[a].address
      BY <1>1, <3>2 DEF Taken
    <3>4. alias[b].internal = FALSE /\ alias[a].internal = FALSE
      BY <1>3, <2>2, <2>3, <3>1
    <3> QED BY <1>1, <3>2, <3>3, <3>4 DEF AliasesOK, UniqueAliases, External
  <2>4. UniqueAliases(A2)
    BY <2>2, <2>3 DEF UniqueAliases, AliasesOK
  <2> QED BY <2>1, <2>4
<1>8. /\ AliasesOK' /\ alias'[a] # None
      /\ \A b \in Pks : alias[b] # None => alias'[b] # None
  <2>1. v.dom = alias[a].dom /\ (v.dom # None => dom[v.dom] # None)
    BY <1>1, <1>4 DEF AliasesOK
  <2>2. AliasesOK
    OBVIOUS
  <2> QED BY <1>1, <1>5, <1>6, <1>7, <2>1, <2>2, AliasRowWritten
<1>9. RecipientsOK' /\ NoneEmptied
  BY <1>1, <1>8, RecipientsSetRows
<1>10. OthersOK'
  BY <1>1 DEF OthersOK, LocalAddresses, At
<1> QED BY <1>2, <1>8, <1>9, <1>10

(* Deleting an alias.                                                        *)
LEMMA DeleteAliasRows ==
  ASSUME IdRows, NEW a \in Pks, DeleteAlias(a)
  PROVE  IdRows' /\ NoneEmptied
<1> USE DEF IdRows
<1>1. dom' = dom /\ mbox' = mbox /\ quota' = quota /\ dalias' = dalias /\ stale' = stale
  BY DEF DeleteAlias
<1>2. DomainsOK' /\ MailboxesOK'
  BY <1>1 DEF DomainsOK, MailboxesOK
<1>3. AliasesOK' /\ RecipientsOK' /\ NoneEmptied
  <2>1. PICK T, M : T = {a} /\ M = {} /\ Removed(M, T, T)
    BY RowsAreTypes, DeleteAliasRemoves
  <2>2. \A b \in Pks \ T : alias[b] # None /\ alias[b].dom # None => dom'[alias[b].dom] # None
    BY <1>1 DEF AliasesOK
  <2>3. AliasesOK /\ RecipientsOK /\ \A k \in Mailboxes \ M : mbox'[k] = mbox[k]
    BY <1>1
  <2> QED BY <2>1, <2>2, <2>3, RemovedKeepsRows
<1>4. OthersOK'
  BY <1>1 DEF OthersOK, LocalAddresses, At
<1> QED BY <1>2, <1>3, <1>4

(* Repairing the self alias of a mailbox.                                    *)
LEMMA RepairRows ==
  ASSUME IdRows, NEW m \in Mailboxes, Repair(m)
  PROVE  IdRows' /\ NoneEmptied
<1> USE DEF IdRows
<1>1. PICK x, d, a, q, v : /\ x = Address(m) /\ d = mbox[m].dom /\ a = GetOrCreate(x, d)
                           /\ q = Row(a, x, m, None) /\ v = SelfAliasRow(x, d)
  OBVIOUS
<1>2. /\ mbox[m] # None
      /\ a \in Pks
      /\ alias' = [alias EXCEPT ![a] = v]
      /\ UniqueAliases(alias')
      /\ rcpts' = rcpts \cup {q}
      /\ UniqueRecipients(rcpts')
      /\ dom' = dom /\ mbox' = mbox /\ quota' = quota /\ dalias' = dalias /\ stale' = stale
  BY <1>1, GetOrCreateIs DEF Repair
<1>3. DomainsOK' /\ MailboxesOK'
  BY <1>2 DEF DomainsOK, MailboxesOK
<1>4. /\ d \in Domains /\ dom[d] \in Names /\ mbox[m].local \in Locals
      /\ x = [local |-> mbox[m].local, name |-> dom[d]]
  BY <1>1, <1>2, MailboxIs DEF At
<1>5. v \in UserRows /\ v.dom = d
  BY <1>1, <1>4 DEF SelfAliasRow, UserRows
<1>6. /\ AliasesOK' /\ alias'[a] # None
      /\ \A b \in Pks : alias[b] # None => alias'[b] # None
  <2>1. AliasesOK /\ dom[v.dom] # None
    BY <1>4, <1>5, IdentitiesAssumption
  <2> QED BY <1>2, <1>5, <2>1, AliasRowWritten
<1>7. /\ q = [alias |-> a, address |-> x, mbox |-> m, ref |-> None]
      /\ q.alias = a /\ q.mbox = m /\ q.ref = None
  BY <1>1 DEF Row
<1>8. RecipientsOK'
  <2>1. q \in RecipientRows
    BY <1>2, <1>4, <1>7 DEF RecipientRows
  <2>2. RecipientsOK /\ rcpts' \in SUBSET RecipientRows
    BY <1>2, <2>1 DEF RecipientsOK
  <2> QED BY <1>2, <1>6, <1>7, <2>2, RecipientsWritten
<1>9. OthersOK'
  BY <1>2 DEF OthersOK, LocalAddresses, At
<1>10. NoneEmptied
  BY <1>2, KeptRecipients
<1> QED BY <1>3, <1>6, <1>8, <1>9, <1>10

(* No domain has a mailbox yet.                                              *)
LEMMA RowsInitially ==
  ASSUME Init
  PROVE  IdRows
<1> USE IdentitiesAssumption DEF Init
<1>1. DomainsOK /\ MailboxesOK
  BY DEF DomainsOK, MailboxesOK
<1>2. AliasesOK
  BY DEF AliasesOK, AliasTable, UniqueAliases
<1>3. RecipientsOK
  BY DEF RecipientsOK, UniqueRecipients
<1>4. OthersOK
  BY DEF OthersOK
<1> QED BY <1>1, <1>2, <1>3, <1>4 DEF IdRows

(* The rows, when nothing changes.                                         *)
LEMMA RowsStutter ==
  ASSUME IdRows, UNCHANGED vars
  PROVE  IdRows'
<1>1. /\ dom' = dom /\ mbox' = mbox /\ alias' = alias /\ rcpts' = rcpts /\ quota' = quota
      /\ dalias' = dalias /\ stale' = stale
  BY DEF vars
<1>2. DomainsOK' /\ MailboxesOK'
  BY <1>1 DEF IdRows, DomainsOK, MailboxesOK
<1>3. AliasesOK' /\ RecipientsOK'
  BY <1>1 DEF IdRows, AliasesOK, UniqueAliases, AliasTable, UserRows, DomainAliasRows,
              RecipientsOK, UniqueRecipients, RecipientRows
<1>4. OthersOK'
  BY <1>1 DEF IdRows, OthersOK, LocalAddresses, At
<1> QED BY <1>2, <1>3, <1>4 DEF IdRows

(* The rows after any request, and no alias emptied by it.                 *)
LEMMA RowsStep ==
  ASSUME IdRows, Next
  PROVE  IdRows' /\ NoneEmptied
<1>1. ASSUME NEW m \in Mailboxes, DeleteMailbox(m) \/ Repair(m) PROVE IdRows' /\ NoneEmptied
  BY <1>1, DeleteMailboxRows, RepairRows
<1>2. ASSUME NEW m \in Mailboxes, NEW l \in Locals, NEW d \in Domains,
             CreateMailbox(m, l, d) \/ RenameMailbox(m, l, d)
      PROVE  IdRows' /\ NoneEmptied
  BY <1>2, CreateMailboxRows, RenameMailboxRows
<1>3. ASSUME NEW d \in Domains, NEW n \in Names, CreateDomain(d, n) \/ RenameDomain(d, n)
      PROVE  IdRows' /\ NoneEmptied
  BY <1>3, CreateDomainRows, RenameDomainRows
<1>4. ASSUME NEW d \in Domains, DeleteDomain(d) PROVE IdRows' /\ NoneEmptied
  BY <1>4, DeleteDomainRows
<1>5. ASSUME NEW n \in AliasNames, NEW d \in Domains, CreateDomainAlias(n, d)
      PROVE  IdRows' /\ NoneEmptied
  BY <1>5, CreateDomainAliasRows
<1>6. ASSUME NEW n \in AliasNames, NEW k \in AliasNames, NEW d \in Domains,
             UpdateDomainAlias(n, k, d)
      PROVE  IdRows' /\ NoneEmptied
  BY <1>6, UpdateDomainAliasRows
<1>7. ASSUME NEW n \in AliasNames, DeleteDomainAlias(n) PROVE IdRows' /\ NoneEmptied
  BY <1>7, DeleteDomainAliasRows
<1>8. ASSUME NEW x \in LocalAddresses, NEW X \in RecipientSets, CreateAlias(x, X)
      PROVE  IdRows' /\ NoneEmptied
  BY <1>8, CreateAliasRows
<1>9. ASSUME NEW a \in Pks, NEW x \in LocalAddresses, NEW X \in RecipientSets,
             UpdateAlias(a, x, X)
      PROVE  IdRows' /\ NoneEmptied
  BY <1>9, UpdateAliasRows
<1>10. ASSUME NEW a \in Pks, DeleteAlias(a) PROVE IdRows' /\ NoneEmptied
  BY <1>10, DeleteAliasRows
<1> QED BY <1>1, <1>2, <1>3, <1>4, <1>5, <1>6, <1>7, <1>8, <1>9, <1>10 DEF Next

(* The tables keep their unique and foreign keys, whatever is requested.     *)
THEOREM IdentitiesTyped == Spec => []IdTypeOK
<1>1. Init => IdRows
  BY RowsInitially
<1>2. IdRows /\ [Next]_vars => IdRows'
  BY RowsStep, RowsStutter
<1>3. IdRows => IdTypeOK
  BY RowsAreTypes
<1> QED BY <1>1, <1>2, <1>3, PTL DEF Spec

(* An alias is left without recipients only when one that was its recipient  *)
(* goes (mailbox_deleted_handler, set_recipients), whatever is requested.    *)
THEOREM NoAliasLeftEmpty == Spec => LeavesNoEmptyAlias
<1>1. Init => IdRows
  BY RowsInitially
<1>2. IdRows /\ [Next]_vars => IdRows'
  BY RowsStep, RowsStutter
<1>3. IdRows /\ [Next]_vars => [NoneEmptied]_vars
  BY RowsStep
<1>4. [NoneEmptied]_vars =>
        [\A a \in Pks : Emptied(a) =>
           \E r \in RecipientsOf(rcpts, a) : r.ref # None /\ alias'[r.ref] = None]_vars
  BY DEF NoneEmptied
<1> QED BY <1>1, <1>2, <1>3, <1>4, PTL DEF Spec, LeavesNoEmptyAlias

-----------------------------------------------------------------------------
(* What names an address follows it *)

(* Nobody asks for what README.md, Known deviations, shows to break these  *)
(* facts, and no name of a domain begins another's: the hypothesis under   *)
(* which the runs check them.                                              *)
OrdinaryNames == Longer = {} /\ "move" \notin Requests /\ "rename_alias" \notin Requests

(* a is the self alias of m, and r its only recipient.                        *)
Self(m, a, r) ==
  /\ a \in Pks /\ r \in rcpts
  /\ alias[a] = SelfAliasRow(Address(m), mbox[m].dom)
  /\ r.alias = a /\ r.mbox = m /\ r.ref = None
  /\ \A s \in rcpts : s.alias = a => s = r

(* Every mailbox has one, also when its domain was renamed.                   *)
SelvesThere == \A m \in Mailboxes : mbox[m] # None => \E a, r : Self(m, a, r)

(* No mailbox is a recipient of what stands for a domain alias.               *)
DomainAliasesPlain ==
  \A r \in rcpts : alias[r.alias].address.local = "" => r.mbox = None

(* Who tells the self aliases of mailboxes from those of domain aliases.      *)
SelvesOK == SelvesThere /\ NoOrphanSelfAlias /\ DomainAliasesPlain

NamesInv == IdRows /\ SelvesOK /\ QuotaInStep /\ RecipientsFollow /\ AliasInItsDomain

(* The address of a mailbox depends on its row and its domain alone.       *)
LEMMA AddressKept ==
  ASSUME NEW m, mbox'[m] = mbox[m], dom'[mbox[m].dom] = dom[mbox[m].dom]
  PROVE  Address(m)' = Address(m)
BY DEF Address, At

(* What is known of a self alias.                                            *)
LEMMA SelfFacts ==
  ASSUME IdRows, NEW m \in Mailboxes, mbox[m] # None, NEW a, NEW r, Self(m, a, r)
  PROVE  /\ a \in Pks /\ alias[a] # None
         /\ alias[a].address = Address(m) /\ alias[a].dom = mbox[m].dom
         /\ alias[a].internal = TRUE
         /\ alias[a].address.local \in Locals /\ alias[a].address.local # ""
         /\ r \in rcpts /\ r \in RecipientRows
<1>1. PICK v : v = alias[a] /\ v = SelfAliasRow(Address(m), mbox[m].dom)
  BY DEF Self
<1>2. v.address = Address(m) /\ v.internal = TRUE /\ v.dom = mbox[m].dom
  BY <1>1 DEF SelfAliasRow
<1>3. a \in Pks /\ alias[a] # None /\ r \in rcpts /\ r \in RecipientRows
  BY DEF Self, RecipientsOK, IdRows
<1>4. Address(m).local \in Locals /\ "" \notin Locals
  <2>1. Address(m).local = mbox[m].local
    BY DEF Address, At
  <2> QED BY <2>1, MailboxIs, IdentitiesAssumption DEF IdRows
<1> QED BY <1>1, <1>2, <1>3, <1>4

(* An internal alias at the address of a mailbox is its self alias.           *)
LEMMA SelfIs ==
  ASSUME IdRows, NEW m \in Mailboxes, mbox[m] # None, NEW a, NEW r, Self(m, a, r),
         NEW b \in Pks, alias[b] # None, alias[b].internal, alias[b].address = Address(m)
  PROVE  b = a
<1>1. /\ a \in Pks /\ alias[a] # None
      /\ alias[a].address = Address(m) /\ alias[a].internal = TRUE
  BY SelfFacts
<1>2. alias[b].internal = TRUE
  BY AliasRowIs DEF IdRows, AliasesOK
<1> QED BY <1>1, <1>2 DEF IdRows, AliasesOK, UniqueAliases

(* Self aliases of different mailboxes differ.                               *)
LEMMA SelvesDiffer ==
  ASSUME IdRows, NEW m \in Mailboxes, mbox[m] # None, NEW a, NEW r, Self(m, a, r),
         NEW k \in Mailboxes, mbox[k] # None, k # m, NEW b, NEW s, Self(k, b, s)
  PROVE  a # b
<1>1. alias[a].address = Address(m) /\ alias[b].address = Address(k)
  BY SelfFacts
<1>2. Address(m) # Address(k)
  BY OneMailbox DEF IdRows
<1> QED BY <1>1, <1>2

(* A mailbox that is a recipient of an internal alias is so of its own.       *)
LEMMA OwnerIs ==
  ASSUME IdRows, SelvesOK, NEW s \in rcpts, s.mbox # None, alias[s.alias].internal
  PROVE  s.mbox \in Mailboxes /\ mbox[s.mbox] # None /\ Self(s.mbox, s.alias, s)
<1>1. /\ s.alias \in Pks /\ alias[s.alias] # None
      /\ alias[s.alias].address.local # ""
  BY DEF IdRows, RecipientsOK, RecipientRows, SelvesOK, DomainAliasesPlain
<1>2. PICK k \in Mailboxes : mbox[k] # None /\ Address(k) = alias[s.alias].address
  BY <1>1 DEF SelvesOK, NoOrphanSelfAlias, MailboxAt
<1>3. PICK a, r : Self(k, a, r)
  BY <1>2 DEF SelvesOK, SelvesThere
<1>4. s.alias = a
  BY <1>1, <1>2, <1>3, SelfIs
<1>5. s = r /\ s.mbox = k
  BY <1>3, <1>4 DEF Self
<1> QED BY <1>2, <1>3, <1>4, <1>5

(* A self alias stays one while the rows it is made of do.                 *)
LEMMA SelfKept ==
  ASSUME NEW m, NEW a, NEW r, Self(m, a, r), mbox'[m] = mbox[m],
         dom'[mbox[m].dom] = dom[mbox[m].dom], alias'[a] = alias[a],
         r \in rcpts', \A s \in rcpts' : s.alias = a => s = r
  PROVE  Self(m, a, r)'
<1>1. Address(m)' = Address(m)
  BY AddressKept
<1>2. alias'[a] = SelfAliasRow(Address(m)', mbox'[m].dom)
  BY <1>1 DEF Self
<1> QED BY <1>2 DEF Self, SelfAliasRow

(* Mailboxes that stay keep their addresses.                                 *)
LEMMA DomainsKept ==
  ASSUME NEW M,
         \A k \in Mailboxes \ M : mbox'[k] = mbox[k],
         \A k \in M : mbox'[k] = None,
         \A k \in Mailboxes \ M : mbox[k] # None => dom'[mbox[k].dom] = dom[mbox[k].dom]
  PROVE  \A k \in Mailboxes :
           mbox'[k] # None => k \notin M /\ mbox[k] # None /\ Address(k)' = Address(k)
<1>1. ASSUME NEW k \in Mailboxes, mbox'[k] # None
      PROVE  k \notin M /\ mbox[k] # None /\ Address(k)' = Address(k)
  <2>1. k \notin M /\ mbox'[k] = mbox[k]
    BY <1>1
  <2>2. dom'[mbox[k].dom] = dom[mbox[k].dom]
    BY <1>1, <2>1
  <2> QED BY <1>1, <2>1, <2>2, AddressKept
<1> QED BY <1>1

(* A deletion leaves to the mailboxes that stay their self aliases, and to    *)
(* the aliases that stay what they were.                                     *)
LEMMA RemovedKeepsNames ==
  ASSUME IdRows, SelvesOK, RecipientsFollow, AliasInItsDomain,
         NEW M \in SUBSET Mailboxes, NEW Own, NEW S, Removed(M, Own, S),
         SelvesOf(M) \subseteq Own,
         \A k \in Mailboxes \ M, a \in Own :
           mbox[k] # None /\ alias[a].internal => alias[a].address # Address(k),
         \A k \in Mailboxes \ M : mbox'[k] = mbox[k],
         \A k \in M : mbox'[k] = None,
         \A k \in Mailboxes \ M : mbox[k] # None => dom'[mbox[k].dom] = dom[mbox[k].dom],
         \A a \in Pks \ S :
           alias[a] # None /\ alias[a].dom # None => dom'[alias[a].dom] = dom[alias[a].dom],
         \A a \in Pks \ S :
           alias[a] # None /\ alias[a].address.local = "" =>
             dalias'[alias[a].address.name] = dalias[alias[a].address.name],
         stale' = stale \ M
  PROVE  SelvesOK' /\ RecipientsFollow' /\ AliasInItsDomain'
<1>1. PICK A, R, A2, R2 : A = alias /\ R = rcpts /\ A2 = alias' /\ R2 = rcpts'
  OBVIOUS
<1>2. /\ S \subseteq Pks /\ Own \subseteq S
      /\ A2 = [a \in Pks |-> IF a \in S THEN None ELSE A[a]]
      /\ R2 = {r \in R : r.mbox \notin M /\ r.alias \notin S /\ r.ref \notin S}
      /\ \A a \in S, r \in R : r.alias = a => a \in Own \/ r.mbox \in M \/ r.ref \in S
  BY <1>1 DEF Removed
<1>3. \A a \in Pks : A2[a] # None => a \notin S /\ A2[a] = A[a] /\ A[a] # None
  BY <1>2
<1>4. \A k \in Mailboxes :
        mbox'[k] # None => k \notin M /\ mbox[k] # None /\ Address(k)' = Address(k)
  BY DomainsKept
<1>5. SelvesThere'
  <2> SUFFICES ASSUME NEW m \in Mailboxes, mbox'[m] # None PROVE (\E a, r : Self(m, a, r))'
    BY DEF SelvesThere
  <2>1. m \notin M /\ mbox[m] # None /\ mbox'[m] = mbox[m]
        /\ dom'[mbox[m].dom] = dom[mbox[m].dom]
    BY <1>4
  <2>2. PICK a, r : Self(m, a, r)
    BY <2>1 DEF SelvesOK, SelvesThere
  <2>3. a \in Pks /\ A[a].internal /\ A[a].address = Address(m)
        /\ r \in R /\ r.alias = a /\ r.mbox = m /\ r.ref = None
    <3>1. a \in Pks /\ alias[a].internal /\ alias[a].address = Address(m) /\ r \in rcpts
      BY <2>1, <2>2, SelfFacts
    <3>2. r.alias = a /\ r.mbox = m /\ r.ref = None
      BY <2>2 DEF Self
    <3> QED BY <1>1, <3>1, <3>2
  <2>4. a \notin S
    <3>1. a \notin Own
      BY <1>1, <2>1, <2>3
    <3> QED BY <1>2, <2>1, <2>3, <3>1, IdentitiesAssumption
  <2>5. r \in R2 /\ A2[a] = A[a]
    BY <1>2, <2>1, <2>3, <2>4, IdentitiesAssumption
  <2>6. \A s \in R2 : s.alias = a => s = r
    BY <1>1, <1>2, <2>2 DEF Self
  <2>7. Self(m, a, r)'
    BY <1>1, <2>1, <2>2, <2>5, <2>6, SelfKept
  <2> QED BY <2>7
<1>6. NoOrphanSelfAlias'
  <2> SUFFICES ASSUME NEW a \in Pks, A2[a] # None, A2[a].internal
               PROVE  IF A2[a].address.local = "" THEN dalias'[A2[a].address.name] # None
                      ELSE MailboxAt(A2[a].address)' # {}
    BY <1>1 DEF NoOrphanSelfAlias, MailboxAt
  <2>1. a \notin S /\ A2[a] = A[a] /\ A[a] # None /\ A[a] = alias[a]
    BY <1>1, <1>3
  <2>2. CASE A[a].address.local = ""
    BY <2>1, <2>2 DEF SelvesOK, NoOrphanSelfAlias
  <2>3. CASE A[a].address.local # ""
    <3>1. PICK k \in Mailboxes : mbox[k] # None /\ Address(k) = A[a].address
      BY <2>1, <2>3 DEF SelvesOK, NoOrphanSelfAlias, MailboxAt
    <3>2. k \notin M
      BY <1>2, <2>1, <3>1 DEF SelvesOf
    <3>3. mbox'[k] # None /\ Address(k)' = Address(k)
      BY <1>4, <3>1, <3>2
    <3> QED BY <2>1, <2>3, <3>1, <3>3 DEF MailboxAt
  <2> QED BY <2>2, <2>3
<1>7. DomainAliasesPlain'
  <2>1. ASSUME NEW r \in R2, A2[r.alias].address.local = "" PROVE r.mbox = None
    <3>1. r \in R /\ r.alias \notin S /\ r.alias \in Pks
      BY <1>1, <1>2 DEF IdRows, RecipientsOK, RecipientRows
    <3>2. A2[r.alias] = alias[r.alias]
      BY <1>1, <1>2, <3>1
    <3> QED BY <1>1, <2>1, <3>1, <3>2 DEF SelvesOK, DomainAliasesPlain
  <2> QED BY <1>1, <2>1 DEF DomainAliasesPlain
<1>8. RecipientsFollow'
  <2>1. ASSUME NEW r \in R2, r.mbox # None, r.mbox \notin stale'
        PROVE  r.address = Address(r.mbox)'
    <3>1. r \in R /\ r.mbox \in Mailboxes \ M
      BY <1>1, <1>2, <2>1 DEF IdRows, RecipientsOK, RecipientRows
    <3>2. r.address = Address(r.mbox)
      BY <1>1, <2>1, <3>1 DEF RecipientsFollow
    <3>3. mbox[r.mbox] # None
      BY <1>1, <2>1, <3>1 DEF IdRows, RecipientsOK
    <3>4. Address(r.mbox)' = Address(r.mbox)
      BY <1>4, <3>1, <3>3
    <3> QED BY <3>2, <3>4
  <2> QED BY <1>1, <2>1 DEF RecipientsFollow
<1>9. AliasInItsDomain'
  <2>1. ASSUME NEW a \in Pks, A2[a] # None, A2[a].dom # None
        PROVE  A2[a].address.name = dom'[A2[a].dom]
    <3>1. a \notin S /\ A2[a] = alias[a] /\ alias[a] # None
      BY <1>1, <1>3, <2>1
    <3> QED BY <2>1, <3>1 DEF AliasInItsDomain
  <2> QED BY <1>1, <2>1 DEF AliasInItsDomain
<1> QED BY <1>5, <1>6, <1>7, <1>8, <1>9 DEF SelvesOK

(* A request writes one alias a at most, and leaves the recipients of every   *)
(* self alias but those of a alone: what stays as it was.                     *)
LEMMA OthersKeepSelves ==
  ASSUME IdRows, NEW m \in Mailboxes, mbox[m] # None, NEW b, NEW r, Self(m, b, r),
         NEW a, b # a, mbox'[m] = mbox[m], dom' = dom,
         \A c \in Pks \ {a} : alias'[c] = alias[c],
         \A s \in rcpts : s.alias # a => s \in rcpts',
         \A s \in rcpts' : s.alias # a => s \in rcpts
  PROVE  Self(m, b, r)'
<1>1. b \in Pks /\ r \in rcpts /\ r.alias = b
  BY SelfFacts DEF Self
<1>2. alias'[b] = alias[b] /\ r \in rcpts'
  BY <1>1
<1>3. \A s \in rcpts' : s.alias = b => s = r
  BY DEF Self
<1> QED BY <1>2, <1>3, SelfKept

(* Internal aliases have their owners after a request.                       *)
LEMMA NoOrphansAfter ==
  ASSUME NEW A2, A2 = alias',
         \A b \in Pks : A2[b] # None /\ A2[b].internal =>
           \/ A2[b].address.local = "" /\ dalias'[A2[b].address.name] # None
           \/ /\ A2[b].address.local # ""
              /\ \E k \in Mailboxes : mbox'[k] # None /\ Address(k)' = A2[b].address
  PROVE  NoOrphanSelfAlias'
<1>1. ASSUME NEW b \in Pks, A2[b] # None, A2[b].internal
      PROVE  IF A2[b].address.local = "" THEN dalias'[A2[b].address.name] # None
             ELSE MailboxAt(A2[b].address)' # {}
  BY <1>1 DEF MailboxAt
<1> QED BY <1>1 DEF NoOrphanSelfAlias, MailboxAt

(* The quota rows are those of the mailboxes after a request.                 *)
LEMMA QuotaAfter ==
  ASSUME \A y : y \in quota' <=> \E k \in Mailboxes : mbox'[k] # None /\ y = Address(k)'
  PROVE  QuotaInStep'
BY DEF QuotaInStep

(* Quotas are those of the addresses of mailboxes, no more and no fewer.   *)
LEMMA QuotaIs ==
  ASSUME QuotaInStep, NEW y
  PROVE  y \in quota <=> \E k \in Mailboxes : mbox[k] # None /\ y = Address(k)
BY DEF QuotaInStep

(* Creating a mailbox.                                                       *)
LEMMA CreateMailboxNames ==
  ASSUME NamesInv, NEW m \in Mailboxes, NEW l \in Locals, NEW d \in Domains,
         CreateMailbox(m, l, d), IdRows'
  PROVE  SelvesOK' /\ QuotaInStep' /\ RecipientsFollow' /\ AliasInItsDomain'
<1> USE DEF NamesInv
<1>1. PICK x, a, q, v : /\ x = At(l, dom[d]) /\ a = GetOrCreate(x, d)
                        /\ q = Row(a, x, m, None) /\ v = SelfAliasRow(x, d)
  OBVIOUS
<1>2. /\ a \in Pks
      /\ mbox[m] = None /\ dom[d] # None /\ Free # {} /\ MailboxAt(x) = {}
      /\ mbox' = [mbox EXCEPT ![m] = [local |-> l, dom |-> d]]
      /\ quota' = quota \cup {x}
      /\ alias' = [alias EXCEPT ![a] = v]
      /\ UniqueAliases(alias')
      /\ rcpts' = rcpts \cup {q}
      /\ stale' = stale \ {m}
      /\ dom' = dom /\ dalias' = dalias
  BY <1>1, GetOrCreateIs DEF CreateMailbox
<1>3. /\ mbox'[m] = [local |-> l, dom |-> d] /\ mbox'[m] # None
      /\ \A k \in Mailboxes \ {m} : mbox'[k] = mbox[k]
  <2>1. MailboxesOK /\ MailboxAt(At(l, dom[d])) = {}
    BY <1>1, <1>2 DEF IdRows
  <2> QED BY <1>2, <2>1, MailboxWritten
<1>4. /\ Address(m)' = x
      /\ \A k \in Mailboxes \ {m} : Address(k)' = Address(k)
  <2>1. Address(m)' = x
    BY <1>1, <1>2, <1>3 DEF Address, At
  <2>2. ASSUME NEW k \in Mailboxes \ {m} PROVE Address(k)' = Address(k)
    BY <1>2, <1>3, AddressKept
  <2> QED BY <2>1, <2>2
<1>5. /\ v.address = x /\ v.dom = d /\ v.internal = TRUE
      /\ x.local = l /\ x.name = dom[d] /\ l # ""
      /\ q.alias = a /\ q.address = x /\ q.mbox = m /\ q.ref = None
  BY <1>1, IdentitiesAssumption DEF SelfAliasRow, At, Row
<1>6. alias[a] = None
  <2> SUFFICES ASSUME alias[a] = v PROVE FALSE
    BY <1>1, <1>2, GetOrCreateIs
  <2>1. v # None
    <3>1. alias'[a] = v /\ alias'[a] # None
      <4>1. alias'[a] = v
        BY <1>2 DEF IdRows, AliasesOK, AliasTable
      <4>2. q \in rcpts'
        BY <1>2
      <4>3. alias'[q.alias] # None
        BY <4>2 DEF IdRows, RecipientsOK
      <4> QED BY <4>1, <4>3, <1>5
    <3> QED BY <3>1
  <2>2. alias[a] # None /\ alias[a].internal /\ alias[a].address = x /\ x.local # ""
    BY <2>1, <1>5
  <2>3. MailboxAt(x) # {}
    BY <1>2, <2>2 DEF SelvesOK, NoOrphanSelfAlias
  <2> QED BY <1>2, <2>3
<1>7. /\ alias'[a] = v
      /\ \A b \in Pks \ {a} : alias'[b] = alias[b]
      /\ \A s \in rcpts : s.alias # a /\ s.mbox # m /\ s.alias \in Pks
  <2>1. alias'[a] = v /\ \A b \in Pks \ {a} : alias'[b] = alias[b]
    BY <1>2 DEF IdRows, AliasesOK, AliasTable
  <2>2. \A s \in rcpts : s.alias # a /\ s.mbox # m /\ s.alias \in Pks
    BY <1>2, <1>6, IdentitiesAssumption DEF IdRows, RecipientsOK, RecipientRows
  <2> QED BY <2>1, <2>2
<1>8. SelvesThere'
  <2>1. Self(m, a, q)'
    <3>1. alias'[a] = SelfAliasRow(Address(m)', mbox'[m].dom)
      BY <1>1, <1>3, <1>4, <1>7
    <3>2. \A s \in rcpts' : s.alias = a => s = q
      BY <1>2, <1>7
    <3> QED BY <1>2, <1>5, <3>1, <3>2 DEF Self, SelfAliasRow
  <2>2. ASSUME NEW k \in Mailboxes \ {m}, mbox'[k] # None PROVE \E b, r : Self(k, b, r)'
    <3>1. mbox[k] # None /\ mbox'[k] = mbox[k]
      BY <1>3, <2>2
    <3>2. PICK b, r : Self(k, b, r)
      BY <3>1 DEF SelvesOK, SelvesThere
    <3>3. b # a
      BY <1>6, <3>1, <3>2, SelfFacts
    <3>4. Self(k, b, r)'
      <4>1. \A s \in rcpts : s.alias # a => s \in rcpts'
        BY <1>2
      <4>2. \A s \in rcpts' : s.alias # a => s \in rcpts
        BY <1>2, <1>5
      <4> QED BY <1>2, <1>7, <3>1, <3>2, <3>3, <4>1, <4>2, OthersKeepSelves
    <3> QED BY <3>4
  <2> QED BY <2>1, <2>2 DEF SelvesThere
<1>9. NoOrphanSelfAlias'
  <2>1. PICK A2 : A2 = alias'
    OBVIOUS
  <2>2. ASSUME NEW b \in Pks, A2[b] # None, A2[b].internal
        PROVE  \/ A2[b].address.local = "" /\ dalias'[A2[b].address.name] # None
               \/ /\ A2[b].address.local # ""
                  /\ \E k \in Mailboxes : mbox'[k] # None /\ Address(k)' = A2[b].address
    <3>1. CASE b = a
      BY <1>3, <1>4, <1>5, <1>7, <2>1, <3>1
    <3>2. CASE b # a
      <4>1. A2[b] = alias[b]
        BY <1>7, <2>1, <3>2
      <4>2. CASE alias[b].address.local = ""
        BY <1>2, <2>2, <4>1, <4>2 DEF SelvesOK, NoOrphanSelfAlias
      <4>3. CASE alias[b].address.local # ""
        <5>1. PICK k \in Mailboxes : mbox[k] # None /\ Address(k) = alias[b].address
          BY <2>2, <4>1, <4>3 DEF SelvesOK, NoOrphanSelfAlias, MailboxAt
        <5>2. k # m
          BY <1>2, <5>1
        <5> QED BY <1>3, <1>4, <4>1, <4>3, <5>1, <5>2
      <4> QED BY <4>2, <4>3
    <3> QED BY <3>1, <3>2
  <2> QED BY <2>1, <2>2, NoOrphansAfter
<1>10. DomainAliasesPlain'
  <2>1. ASSUME NEW s \in rcpts', alias'[s.alias].address.local = "" PROVE s.mbox = None
    <3>1. s # q
      BY <1>5, <1>7, <2>1
    <3> QED BY <1>2, <1>7, <2>1, <3>1 DEF SelvesOK, DomainAliasesPlain
  <2> QED BY <2>1 DEF DomainAliasesPlain
<1>11. QuotaInStep'
  <2>1. ASSUME NEW y PROVE y \in quota' <=> \E k \in Mailboxes : mbox'[k] # None /\ y = Address(k)'
    <3>1. y \in quota <=> \E k \in Mailboxes : mbox[k] # None /\ y = Address(k)
      BY QuotaIs
    <3> QED BY <1>2, <1>3, <1>4, <3>1
  <2> QED BY <2>1, QuotaAfter
<1>12. RecipientsFollow'
  <2>1. ASSUME NEW s \in rcpts', s.mbox # None, s.mbox \notin stale'
        PROVE  s.address = Address(s.mbox)'
    <3>1. CASE s = q
      BY <1>4, <1>5, <3>1
    <3>2. CASE s # q
      <4>1. s \in rcpts /\ s.mbox \in Mailboxes \ {m}
        BY <1>2, <1>7, <2>1, <3>2 DEF IdRows, RecipientsOK, RecipientRows
      <4> QED BY <1>2, <1>4, <2>1, <4>1 DEF RecipientsFollow
    <3> QED BY <3>1, <3>2
  <2> QED BY <2>1 DEF RecipientsFollow
<1>13. AliasInItsDomain'
  <2>1. ASSUME NEW b \in Pks, alias'[b] # None, alias'[b].dom # None
        PROVE  alias'[b].address.name = dom'[alias'[b].dom]
    <3>1. CASE b = a
      <4>1. v.address.name = dom'[v.dom]
        BY <1>2, <1>5
      <4> QED BY <1>7, <3>1, <4>1
    <3>2. CASE b # a
      BY <1>2, <1>7, <2>1, <3>2 DEF AliasInItsDomain
    <3> QED BY <3>1, <3>2
  <2> QED BY <2>1 DEF AliasInItsDomain
<1> QED BY <1>8, <1>9, <1>10, <1>11, <1>12, <1>13 DEF SelvesOK

(* Renaming a mailbox.                                                       *)
LEMMA RenameMailboxNames ==
  ASSUME NamesInv, NEW m \in Mailboxes, NEW l \in Locals, NEW d \in Domains,
         RenameMailbox(m, l, d), IdRows'
  PROVE  SelvesOK' /\ QuotaInStep' /\ RecipientsFollow' /\ AliasInItsDomain'
<1> USE DEF NamesInv
<1>1. PICK x, v : x = At(l, dom[d]) /\ v = SelfAliasRow(x, d)
  OBVIOUS
<1>2. PICK r \in SelfRecipients(m) :
        /\ alias' = [alias EXCEPT ![r.alias] = v]
        /\ UniqueAliases(alias')
        /\ rcpts' = Follow(m, r, x)
  BY <1>1 DEF RenameMailbox
<1>3. /\ mbox[m] # None /\ dom[d] # None
      /\ x # Address(m) /\ Address(m) \in quota /\ x \notin quota
      /\ MailboxAt(x) = {}
      /\ mbox' = [mbox EXCEPT ![m] = [local |-> l, dom |-> d]]
      /\ quota' = (quota \ {Address(m)}) \cup {x}
      /\ stale' = stale \ {m}
      /\ dom' = dom /\ dalias' = dalias
  BY <1>1 DEF RenameMailbox
<1>4. /\ mbox'[m] = [local |-> l, dom |-> d] /\ mbox'[m] # None
      /\ \A k \in Mailboxes \ {m} : mbox'[k] = mbox[k]
  <2>1. MailboxesOK /\ MailboxAt(At(l, dom[d])) = {}
    BY <1>1, <1>3 DEF IdRows
  <2> QED BY <1>3, <2>1, MailboxWritten
<1>5. /\ Address(m)' = x
      /\ \A k \in Mailboxes \ {m} : Address(k)' = Address(k)
  <2>1. Address(m)' = x
    BY <1>1, <1>3, <1>4 DEF Address, At
  <2>2. ASSUME NEW k \in Mailboxes \ {m} PROVE Address(k)' = Address(k)
    BY <1>3, <1>4, AddressKept
  <2> QED BY <2>1, <2>2
<1>6. /\ v.address = x /\ v.dom = d /\ v.internal = TRUE
      /\ x.local = l /\ x.name = dom[d] /\ l # ""
  BY <1>1, IdentitiesAssumption DEF SelfAliasRow, At
<1>7. PICK a : a = r.alias
  OBVIOUS
<1>8. a \in Pks /\ r \in rcpts /\ r.mbox = m /\ Self(m, a, r)
  <2>1. r \in rcpts /\ r.mbox = m /\ alias[r.alias].internal
    BY DEF SelfRecipients
  <2>2. r.mbox # None
    BY <2>1, IdentitiesAssumption
  <2>3. Self(r.mbox, r.alias, r) /\ r.alias \in Pks
    BY <2>1, <2>2, OwnerIs DEF IdRows, RecipientsOK, RecipientRows
  <2> QED BY <1>7, <2>1, <2>3
<1>9. /\ alias'[a] = v
      /\ \A b \in Pks \ {a} : alias'[b] = alias[b]
  BY <1>2, <1>7, <1>8 DEF IdRows, AliasesOK, AliasTable
<1>10. \A s \in rcpts : s.mbox = m /\ alias[s.alias].internal => s = r
  <2>1. ASSUME NEW s \in rcpts, s.mbox = m, alias[s.alias].internal PROVE s = r
    <3>1. s.mbox # None
      BY <2>1, IdentitiesAssumption
    <3>2. s.alias \in Pks /\ Self(m, s.alias, s)
      BY <2>1, <3>1, OwnerIs DEF IdRows, RecipientsOK, RecipientRows
    <3>3. /\ alias[s.alias] # None /\ alias[s.alias].internal
          /\ alias[s.alias].address = Address(m)
      BY <1>3, <3>2, SelfFacts
    <3>4. s.alias = a
      BY <1>3, <1>8, <3>2, <3>3, SelfIs
    <3> QED BY <1>8, <3>4 DEF Self
  <2> QED BY <2>1
<1>11. PICK R2 : R2 = rcpts'
  OBVIOUS
<1>12. /\ \A q \in R2 : \E s \in rcpts :
            /\ q = IF s = r \/ (s.mbox = m /\ ~alias[s.alias].internal)
                   THEN Row(s.alias, x, s.mbox, s.ref) ELSE s
            /\ q.alias = s.alias /\ q.mbox = s.mbox /\ q.ref = s.ref
       /\ \A s \in rcpts : \E q \in R2 :
            /\ q = IF s = r \/ (s.mbox = m /\ ~alias[s.alias].internal)
                   THEN Row(s.alias, x, s.mbox, s.ref) ELSE s
            /\ q.alias = s.alias /\ q.mbox = s.mbox /\ q.ref = s.ref
  <2>1. rcpts \in SUBSET RecipientRows
    BY DEF IdRows, RecipientsOK
  <2> QED BY <1>2, <1>11, <2>1, FollowIs
<1>13. /\ \A q \in R2 : \E s \in rcpts :
             /\ q.alias = s.alias /\ q.mbox = s.mbox /\ q.ref = s.ref
             /\ s.mbox = m => q.address = x
             /\ s.mbox # m => q = s
       /\ \A s \in rcpts : s.mbox # m => s \in R2
  <2>1. ASSUME NEW q \in R2
        PROVE  \E s \in rcpts :
                 /\ q.alias = s.alias /\ q.mbox = s.mbox /\ q.ref = s.ref
                 /\ s.mbox = m => q.address = x
                 /\ s.mbox # m => q = s
    <3>1. PICK s \in rcpts :
            /\ q = IF s = r \/ (s.mbox = m /\ ~alias[s.alias].internal)
                   THEN Row(s.alias, x, s.mbox, s.ref) ELSE s
            /\ q.alias = s.alias /\ q.mbox = s.mbox /\ q.ref = s.ref
      BY <1>12
    <3>2. s.mbox = m => q.address = x
      BY <1>10, <3>1 DEF Row
    <3>3. s.mbox # m => q = s
      BY <1>8, <3>1
    <3> QED BY <3>1, <3>2, <3>3
  <2>2. ASSUME NEW s \in rcpts, s.mbox # m PROVE s \in R2
    BY <1>8, <1>12, <2>2
  <2> QED BY <2>1, <2>2
<1>14. SelvesThere'
  <2>1. \E q : Self(m, a, q)'
    <3>1. PICK q \in R2 : /\ q = Row(r.alias, x, r.mbox, r.ref)
                          /\ q.alias = r.alias /\ q.mbox = r.mbox /\ q.ref = r.ref
      BY <1>8, <1>12
    <3>2. q.alias = a /\ q.mbox = m /\ q.ref = None
      BY <1>7, <1>8, <3>1 DEF Self
    <3>3. \A p \in R2 : p.alias = a => p = q
      <4>1. ASSUME NEW p \in R2, p.alias = a PROVE p = q
        <5>1. PICK s \in rcpts :
                /\ p = IF s = r \/ (s.mbox = m /\ ~alias[s.alias].internal)
                       THEN Row(s.alias, x, s.mbox, s.ref) ELSE s
                /\ p.alias = s.alias
          BY <1>12
        <5>2. s = r
          BY <1>8, <4>1, <5>1 DEF Self
        <5> QED BY <3>1, <5>1, <5>2
      <4> QED BY <4>1
    <3>4. alias'[a] = SelfAliasRow(Address(m)', mbox'[m].dom)
      BY <1>1, <1>4, <1>5, <1>9
    <3>5. q \in rcpts' /\ \A p \in rcpts' : p.alias = a => p = q
      BY <1>11, <3>3
    <3> QED BY <1>8, <3>2, <3>4, <3>5 DEF Self, SelfAliasRow
  <2>2. ASSUME NEW k \in Mailboxes \ {m}, mbox'[k] # None PROVE \E b, s : Self(k, b, s)'
    <3>1. mbox[k] # None /\ mbox'[k] = mbox[k]
      BY <1>4, <2>2
    <3>2. PICK b, s : Self(k, b, s)
      BY <3>1 DEF SelvesOK, SelvesThere
    <3>3. b # a /\ b \in Pks /\ s \in rcpts /\ s.mbox = k
      BY <1>3, <1>8, <3>1, <3>2, SelvesDiffer, SelfFacts DEF Self
    <3>4. alias'[b] = alias[b]
      BY <1>9, <3>3
    <3>5. s \in rcpts'
      BY <1>11, <1>13, <3>3
    <3>6. ASSUME NEW p \in rcpts', p.alias = b PROVE p = s
      <4>1. PICK o \in rcpts : /\ p.alias = o.alias /\ p.mbox = o.mbox
                               /\ o.mbox # m => p = o
        BY <1>11, <1>13
      <4>2. o = s
        BY <3>2, <3>6, <4>1 DEF Self
      <4> QED BY <3>3, <4>1, <4>2
    <3>7. Self(k, b, s)'
      BY <1>3, <3>1, <3>2, <3>4, <3>5, <3>6, SelfKept
    <3> QED BY <3>7
  <2> QED BY <2>1, <2>2 DEF SelvesThere
<1>15. NoOrphanSelfAlias'
  <2>1. PICK A2 : A2 = alias'
    OBVIOUS
  <2>2. ASSUME NEW b \in Pks, A2[b] # None, A2[b].internal
        PROVE  \/ A2[b].address.local = "" /\ dalias'[A2[b].address.name] # None
               \/ /\ A2[b].address.local # ""
                  /\ \E k \in Mailboxes : mbox'[k] # None /\ Address(k)' = A2[b].address
    <3>1. CASE b = a
      BY <1>4, <1>5, <1>6, <1>9, <2>1, <3>1
    <3>2. CASE b # a
      <4>1. A2[b] = alias[b]
        BY <1>9, <2>1, <3>2
      <4>2. CASE alias[b].address.local = ""
        BY <1>3, <2>2, <4>1, <4>2 DEF SelvesOK, NoOrphanSelfAlias
      <4>3. CASE alias[b].address.local # ""
        <5>1. PICK k \in Mailboxes : mbox[k] # None /\ Address(k) = alias[b].address
          BY <2>2, <4>1, <4>3 DEF SelvesOK, NoOrphanSelfAlias, MailboxAt
        <5>2. k # m
          BY <1>3, <1>8, <2>2, <3>2, <4>1, <5>1, SelfIs
        <5> QED BY <1>4, <1>5, <4>1, <4>3, <5>1, <5>2
      <4> QED BY <4>2, <4>3
    <3> QED BY <3>1, <3>2
  <2> QED BY <2>1, <2>2, NoOrphansAfter
<1>16. DomainAliasesPlain'
  <2>1. ASSUME NEW q \in rcpts', alias'[q.alias].address.local = "" PROVE q.mbox = None
    <3>1. PICK s \in rcpts : q.alias = s.alias /\ q.mbox = s.mbox
      BY <1>11, <1>13
    <3>2. s.alias \in Pks /\ s.alias # a
      BY <1>6, <1>9, <2>1, <3>1 DEF IdRows, RecipientsOK, RecipientRows
    <3> QED BY <1>9, <2>1, <3>1, <3>2 DEF SelvesOK, DomainAliasesPlain
  <2> QED BY <2>1 DEF DomainAliasesPlain
<1>17. QuotaInStep'
  <2>1. ASSUME NEW y PROVE y \in quota' <=> \E k \in Mailboxes : mbox'[k] # None /\ y = Address(k)'
    <3>1. y \in quota <=> \E k \in Mailboxes : mbox[k] # None /\ y = Address(k)
      BY QuotaIs
    <3>2. \A k \in Mailboxes \ {m} : mbox[k] # None => Address(k) # Address(m)
      BY <1>3, OneMailbox DEF IdRows
    <3> QED BY <1>3, <1>4, <1>5, <3>1, <3>2
  <2> QED BY <2>1, QuotaAfter
<1>18. RecipientsFollow'
  <2>1. ASSUME NEW q \in rcpts', q.mbox # None, q.mbox \notin stale'
        PROVE  q.address = Address(q.mbox)'
    <3>1. PICK s \in rcpts : /\ q.mbox = s.mbox
                             /\ s.mbox = m => q.address = x
                             /\ s.mbox # m => q = s
      BY <1>11, <1>13
    <3>2. CASE s.mbox = m
      BY <1>5, <3>1, <3>2
    <3>3. CASE s.mbox # m
      <4>1. s.mbox \in Mailboxes \ {m} /\ s.mbox \notin stale
        BY <1>3, <2>1, <3>1, <3>3 DEF IdRows, RecipientsOK, RecipientRows
      <4> QED BY <1>5, <2>1, <3>1, <3>3, <4>1 DEF RecipientsFollow
    <3> QED BY <3>2, <3>3
  <2> QED BY <2>1 DEF RecipientsFollow
<1>19. AliasInItsDomain'
  <2>1. ASSUME NEW b \in Pks, alias'[b] # None, alias'[b].dom # None
        PROVE  alias'[b].address.name = dom'[alias'[b].dom]
    <3>1. CASE b = a
      <4>1. v.address.name = dom'[v.dom]
        BY <1>3, <1>6
      <4> QED BY <1>9, <3>1, <4>1
    <3>2. CASE b # a
      BY <1>3, <1>9, <2>1, <3>2 DEF AliasInItsDomain
    <3> QED BY <3>1, <3>2
  <2> QED BY <2>1 DEF AliasInItsDomain
<1> QED BY <1>14, <1>15, <1>16, <1>17, <1>18, <1>19 DEF SelvesOK

(* Deleting a mailbox.                                                       *)
LEMMA DeleteMailboxNames ==
  ASSUME NamesInv, NEW m \in Mailboxes, DeleteMailbox(m)
  PROVE  SelvesOK' /\ QuotaInStep' /\ RecipientsFollow' /\ AliasInItsDomain'
<1> USE DEF NamesInv
<1>1. PICK M, Own : M = {m} /\ Own = SelvesOf({m})
  OBVIOUS
<1>2. PICK S : Removed(M, Own, S)
  BY <1>1, RowsAreTypes, DeleteMailboxRemoves
<1>3. /\ mbox[m] # None
      /\ mbox' = [mbox EXCEPT ![m] = None]
      /\ quota' = quota \ {Address(m)}
      /\ stale' = stale \ M
      /\ dom' = dom /\ dalias' = dalias
  BY <1>1 DEF DeleteMailbox
<1>4. /\ \A k \in M : mbox'[k] = None
      /\ \A k \in Mailboxes \ M : mbox'[k] = mbox[k]
      /\ M \in SUBSET Mailboxes
  BY <1>1, <1>3 DEF IdRows, MailboxesOK
<1>5. \A k \in Mailboxes : mbox'[k] # None =>
     k \notin M /\ mbox[k] # None /\ Address(k)' = Address(k)
  <2>1. \A k \in Mailboxes \ M : mbox[k] # None => dom'[mbox[k].dom] = dom[mbox[k].dom]
    BY <1>3
  <2> QED BY <1>4, <2>1, DomainsKept
<1>6. SelvesOK' /\ RecipientsFollow' /\ AliasInItsDomain'
  <2>1. SelvesOf(M) \subseteq Own
    BY <1>1
  <2>2. ASSUME NEW k \in Mailboxes \ M, NEW a \in Own, mbox[k] # None
        PROVE  alias[a].address # Address(k)
    <3>1. alias[a].address = Address(m)
      BY <1>1 DEF SelvesOf
    <3>2. k # m
      BY <1>1
    <3> QED BY <1>3, <2>2, <3>1, <3>2, OneMailbox DEF IdRows
  <2>3. /\ \A k \in Mailboxes \ M : mbox[k] # None => dom'[mbox[k].dom] = dom[mbox[k].dom]
        /\ \A a \in Pks \ S :
             alias[a] # None /\ alias[a].dom # None => dom'[alias[a].dom] = dom[alias[a].dom]
        /\ \A a \in Pks \ S :
             alias[a] # None /\ alias[a].address.local = "" =>
               dalias'[alias[a].address.name] = dalias[alias[a].address.name]
    BY <1>3
  <2> QED BY <1>2, <1>3, <1>4, <2>1, <2>2, <2>3, RemovedKeepsNames
<1>7. QuotaInStep'
  <2>1. ASSUME NEW y PROVE y \in quota' <=> \E k \in Mailboxes : mbox'[k] # None /\ y = Address(k)'
    <3>1. y \in quota <=> \E k \in Mailboxes : mbox[k] # None /\ y = Address(k)
      BY QuotaIs
    <3>2. \A k \in Mailboxes \ M : mbox[k] # None => Address(k) # Address(m)
      BY <1>1, <1>3, OneMailbox DEF IdRows
    <3>3. \A k \in Mailboxes \ M : mbox[k] # None => mbox'[k] # None /\ Address(k)' = Address(k)
      BY <1>4, <1>5
    <3> QED BY <1>1, <1>3, <1>5, <3>1, <3>2, <3>3
  <2> QED BY <2>1, QuotaAfter
<1> QED BY <1>6, <1>7

(* Deleting a domain: its name begins no other, so that the quota rows that   *)
(* go are those of its mailboxes.                                            *)
LEMMA DeleteDomainNames ==
  ASSUME NamesInv, OrdinaryNames, NEW d \in Domains, DeleteDomain(d)
  PROVE  SelvesOK' /\ QuotaInStep' /\ RecipientsFollow' /\ AliasInItsDomain'
<1> USE DEF NamesInv
<1>1. PICK M, Own : M = MailboxesOf(d) /\ Own = SelvesOf(MailboxesOf(d)) \cup AliasesOf(d)
  OBVIOUS
<1>2. PICK S : Removed(M, Own, S)
  BY <1>1, RowsAreTypes, DeleteDomainRemoves
<1>3. /\ dom[d] # None
      /\ mbox' = [k \in Mailboxes |-> IF k \in M THEN None ELSE mbox[k]]
      /\ dalias' = [n \in AliasNames |-> IF dalias[n] = d THEN None ELSE dalias[n]]
      /\ dom' = [dom EXCEPT ![d] = None]
      /\ stale' = stale \ M
      /\ quota' = quota \ ({Address(k) : k \in M}
                            \cup (IF AutoRemoval \/ M = {} THEN {} ELSE QuotasLike(dom[d])))
  BY <1>1 DEF DeleteDomain, MailboxesOf
<1>4. /\ \A k \in M : mbox'[k] = None
      /\ \A k \in Mailboxes \ M : mbox'[k] = mbox[k]
      /\ M \in SUBSET Mailboxes
      /\ \A k \in Mailboxes : k \in M <=> mbox[k] # None /\ mbox[k].dom = d
  BY <1>1, <1>3 DEF MailboxesOf
<1>5. \A e \in Domains \ {d} : dom'[e] = dom[e]
  BY <1>3 DEF IdRows, DomainsOK
<1>6. \A k \in Mailboxes \ M : mbox[k] # None => dom'[mbox[k].dom] = dom[mbox[k].dom]
  <2>1. ASSUME NEW k \in Mailboxes \ M, mbox[k] # None PROVE dom'[mbox[k].dom] = dom[mbox[k].dom]
    <3>1. mbox[k].dom \in Domains \ {d}
      BY <1>4, <2>1, MailboxIs DEF IdRows
    <3> QED BY <1>5, <3>1
  <2> QED BY <2>1
<1>7. \A k \in Mailboxes : mbox'[k] # None =>
     k \notin M /\ mbox[k] # None /\ Address(k)' = Address(k)
  BY <1>4, <1>6, DomainsKept
<1>8. SelvesOK' /\ RecipientsFollow' /\ AliasInItsDomain'
  <2>1. SelvesOf(M) \subseteq Own
    BY <1>1
  <2>2. ASSUME NEW k \in Mailboxes \ M, NEW a \in Own, mbox[k] # None, alias[a].internal
        PROVE  alias[a].address # Address(k)
    <3> SUFFICES ASSUME alias[a].address = Address(k) PROVE FALSE
      OBVIOUS
    <3>1. CASE a \in SelvesOf(M)
      <4>1. PICK m \in M : alias[a].address = Address(m)
        BY <3>1 DEF SelvesOf
      <4>2. k # m /\ mbox[m] # None /\ m \in Mailboxes
        BY <1>4
      <4> QED BY <2>2, <4>1, <4>2, OneMailbox DEF IdRows
    <3>2. CASE a \in AliasesOf(d)
      <4>1. a \in Pks /\ alias[a] # None
        BY <3>2 DEF AliasesOf
      <4>2. PICK b, r : Self(k, b, r)
        BY <2>2 DEF SelvesOK, SelvesThere
      <4>3. a = b
        BY <2>2, <4>1, <4>2, SelfIs
      <4>4. alias[a].dom = mbox[k].dom /\ alias[a].address.local # ""
        BY <2>2, <4>2, <4>3, SelfFacts
      <4>5. mbox[k].dom # d
        BY <1>4, <2>2
      <4>6. PICK n : alias[a].address = At("", n)
        BY <3>2, <4>4, <4>5 DEF AliasesOf
      <4>7. alias[a].address.local = ""
        <5>1. At("", n).local = ""
          BY DEF At
        <5> QED BY <4>6, <5>1
      <4> QED BY <4>4, <4>7
    <3> QED BY <1>1, <3>1, <3>2
  <2>3. ASSUME NEW a \in Pks \ S, alias[a] # None
        PROVE  /\ alias[a].dom # None => dom'[alias[a].dom] = dom[alias[a].dom]
               /\ alias[a].address.local = "" =>
                    dalias'[alias[a].address.name] = dalias[alias[a].address.name]
    <3>1. a \notin AliasesOf(d)
      BY <1>1, <1>2 DEF Removed
    <3>2. ASSUME alias[a].dom # None PROVE dom'[alias[a].dom] = dom[alias[a].dom]
      <4>1. alias[a].dom \in Domains \ {d}
        BY <2>3, <3>1, <3>2, AliasRowIs DEF AliasesOf, IdRows, AliasesOK
      <4> QED BY <1>5, <4>1
    <3>3. ASSUME alias[a].address.local = ""
          PROVE  dalias'[alias[a].address.name] = dalias[alias[a].address.name]
      <4>1. PICK n : n = alias[a].address.name
        OBVIOUS
      <4>2. n \in AliasNames /\ alias[a].address = At("", n)
        BY <2>3, <3>3, <4>1, AliasRowIs, IdentitiesAssumption DEF IdRows, AliasesOK
      <4>3. dalias[n] # d
        BY <2>3, <3>1, <4>2 DEF AliasesOf, DomainAliasesOf
      <4> QED BY <1>3, <4>1, <4>2, <4>3
    <3> QED BY <3>2, <3>3
  <2>4. /\ \A k \in Mailboxes \ M, a \in Own :
             mbox[k] # None /\ alias[a].internal => alias[a].address # Address(k)
        /\ \A a \in Pks \ S :
             alias[a] # None /\ alias[a].dom # None => dom'[alias[a].dom] = dom[alias[a].dom]
        /\ \A a \in Pks \ S :
             alias[a] # None /\ alias[a].address.local = "" =>
               dalias'[alias[a].address.name] = dalias[alias[a].address.name]
    BY <2>2, <2>3
  <2> QED BY <1>2, <1>3, <1>4, <1>6, <2>1, <2>4, RemovedKeepsNames
<1>9. QuotaInStep'
  <2>1. \A x \in QuotasLike(dom[d]) : \E k \in M : x = Address(k)
    <3>1. ASSUME NEW x \in QuotasLike(dom[d]) PROVE \E k \in M : x = Address(k)
      <4>1. x \in quota /\ x.name = dom[d]
        BY DEF QuotasLike, OrdinaryNames
      <4>2. PICK k \in Mailboxes : mbox[k] # None /\ x = Address(k)
        BY <4>1, QuotaIs
      <4>3. dom[mbox[k].dom] = dom[d]
        BY <4>1, <4>2 DEF Address, At
      <4>4. mbox[k].dom = d
        BY <1>3, <4>2, <4>3, MailboxIs DEF IdRows, DomainsOK
      <4> QED BY <1>4, <4>2, <4>4
    <3> QED BY <3>1
  <2>2. quota' = quota \ {Address(k) : k \in M}
    BY <1>3, <2>1
  <2>3. ASSUME NEW y PROVE y \in quota' <=> \E k \in Mailboxes : mbox'[k] # None /\ y = Address(k)'
    <3>1. y \in quota <=> \E k \in Mailboxes : mbox[k] # None /\ y = Address(k)
      BY QuotaIs
    <3>2. \A k \in Mailboxes \ M, m \in M : mbox[k] # None => Address(k) # Address(m)
      BY <1>4, OneMailbox DEF IdRows
    <3>3. \A k \in Mailboxes \ M : mbox[k] # None => mbox'[k] # None /\ Address(k)' = Address(k)
      BY <1>4, <1>7
    <3>4. y \in quota' <=> y \in quota /\ \A m \in M : y # Address(m)
      BY <2>2
    <3> QED BY <1>4, <1>7, <3>1, <3>2, <3>3, <3>4
  <2> QED BY <2>3, QuotaAfter
<1> QED BY <1>8, <1>9

(* Creating a domain.                                                        *)
LEMMA CreateDomainNames ==
  ASSUME NamesInv, NEW d \in Domains, NEW n \in Names, CreateDomain(d, n)
  PROVE  SelvesOK' /\ QuotaInStep' /\ RecipientsFollow' /\ AliasInItsDomain'
<1> USE DEF NamesInv
<1>1. /\ dom[d] = None
      /\ dom' = [dom EXCEPT ![d] = n]
      /\ mbox' = mbox /\ alias' = alias /\ rcpts' = rcpts /\ quota' = quota
      /\ dalias' = dalias /\ stale' = stale
  BY DEF CreateDomain, aliasVars
<1>2. \A e \in Domains \ {d} : dom'[e] = dom[e]
  BY <1>1 DEF IdRows, DomainsOK
<1>3. \A k \in Mailboxes : mbox[k] # None =>
        dom'[mbox[k].dom] = dom[mbox[k].dom] /\ Address(k)' = Address(k)
  <2>1. ASSUME NEW k \in Mailboxes, mbox[k] # None
        PROVE  dom'[mbox[k].dom] = dom[mbox[k].dom] /\ Address(k)' = Address(k)
    <3>1. mbox[k].dom \in Domains \ {d}
      BY <1>1, <2>1, MailboxIs, IdentitiesAssumption DEF IdRows
    <3>2. dom'[mbox[k].dom] = dom[mbox[k].dom]
      BY <1>2, <3>1
    <3> QED BY <1>1, <3>2, AddressKept
  <2> QED BY <2>1
<1>4. SelvesThere'
  <2>1. ASSUME NEW k \in Mailboxes, mbox'[k] # None PROVE \E b, r : Self(k, b, r)'
    <3>1. PICK b, r : Self(k, b, r)
      BY <1>1, <2>1 DEF SelvesOK, SelvesThere
    <3>2. /\ mbox'[k] = mbox[k] /\ dom'[mbox[k].dom] = dom[mbox[k].dom]
          /\ alias'[b] = alias[b] /\ r \in rcpts' /\ \A s \in rcpts' : s.alias = b => s = r
      BY <1>1, <1>3, <2>1, <3>1 DEF Self
    <3>3. Self(k, b, r)'
      BY <3>1, <3>2, SelfKept
    <3> QED BY <3>3
  <2> QED BY <2>1 DEF SelvesThere
<1>5. NoOrphanSelfAlias'
  <2>1. PICK A2 : A2 = alias'
    OBVIOUS
  <2>2. ASSUME NEW b \in Pks, A2[b] # None, A2[b].internal
        PROVE  \/ A2[b].address.local = "" /\ dalias'[A2[b].address.name] # None
               \/ /\ A2[b].address.local # ""
                  /\ \E k \in Mailboxes : mbox'[k] # None /\ Address(k)' = A2[b].address
    <3>1. A2[b] = alias[b]
      BY <1>1, <2>1
    <3> QED BY <1>1, <1>3, <2>2, <3>1 DEF SelvesOK, NoOrphanSelfAlias, MailboxAt
  <2> QED BY <2>1, <2>2, NoOrphansAfter
<1>6. DomainAliasesPlain'
  BY <1>1 DEF SelvesOK, DomainAliasesPlain
<1>7. QuotaInStep'
  <2>1. ASSUME NEW y PROVE y \in quota' <=> \E k \in Mailboxes : mbox'[k] # None /\ y = Address(k)'
    BY <1>1, <1>3, QuotaIs
  <2> QED BY <2>1, QuotaAfter
<1>8. RecipientsFollow'
  <2>1. ASSUME NEW s \in rcpts, s.mbox # None, s.mbox \notin stale
        PROVE  s.address = Address(s.mbox)'
    <3>1. s.mbox \in Mailboxes /\ mbox[s.mbox] # None
      BY <2>1 DEF IdRows, RecipientsOK, RecipientRows
    <3> QED BY <1>3, <2>1, <3>1 DEF RecipientsFollow
  <2> QED BY <1>1, <2>1 DEF RecipientsFollow
<1>9. AliasInItsDomain'
  <2>1. ASSUME NEW b \in Pks, alias[b] # None, alias[b].dom # None
        PROVE  alias[b].address.name = dom'[alias[b].dom]
    <3>1. alias[b].dom \in Domains /\ dom[alias[b].dom] # None
      BY <2>1, AliasRowIs DEF IdRows, AliasesOK
    <3>2. dom'[alias[b].dom] = dom[alias[b].dom]
      BY <1>1, <1>2, <3>1
    <3> QED BY <2>1, <3>2 DEF AliasInItsDomain
  <2> QED BY <1>1, <2>1 DEF AliasInItsDomain
<1> QED BY <1>4, <1>5, <1>6, <1>7, <1>8, <1>9 DEF SelvesOK

(* Renaming a domain.                                                        *)
LEMMA RenameDomainNames ==
  ASSUME NamesInv, OrdinaryNames, NEW d \in Domains, NEW n \in Names, RenameDomain(d, n)
  PROVE  SelvesOK' /\ QuotaInStep' /\ RecipientsFollow' /\ AliasInItsDomain'
<1> USE DEF NamesInv
<1>1. /\ dom[d] # None
      /\ dom' = [dom EXCEPT ![d] = n]
      /\ quota' = QuotaRenamed(dom[d], n)
      /\ alias' = AliasesRenamed(d, n)
      /\ stale' = stale \cup {m \in Mailboxes : mbox[m] # None /\ mbox[m].dom = d}
      /\ mbox' = mbox /\ rcpts' = rcpts /\ dalias' = dalias
  BY DEF RenameDomain
<1>2. dom'[d] = n /\ \A e \in Domains \ {d} : dom'[e] = dom[e]
  BY <1>1 DEF IdRows, DomainsOK
<1>3. ASSUME NEW k \in Mailboxes, mbox[k] # None
      PROVE  /\ mbox[k].dom = d => Address(k)' = At(mbox[k].local, n)
             /\ mbox[k].dom # d => Address(k)' = Address(k)
  <2>1. CASE mbox[k].dom = d
    BY <1>1, <1>2, <2>1 DEF Address, At
  <2>2. CASE mbox[k].dom # d
    <3>1. mbox[k].dom \in Domains \ {d}
      BY <1>3, <2>2, MailboxIs DEF IdRows
    <3> QED BY <1>1, <1>2, <2>2, <3>1, AddressKept
  <2> QED BY <2>1, <2>2
<1>4. PICK A2 : A2 = alias'
  OBVIOUS
<1>5. ASSUME NEW a \in Pks
      PROVE  /\ alias[a] # None /\ alias[a].dom = d =>
                  A2[a] = [address |-> At(alias[a].address.local, n), dom |-> d,
                           internal |-> alias[a].internal]
             /\ ~(alias[a] # None /\ alias[a].dom = d) => A2[a] = alias[a]
  <2>1. A2[a] = IF alias[a] # None /\ alias[a].dom = d
                THEN [alias[a] EXCEPT !.address.name = n] ELSE alias[a]
    BY <1>1, <1>4 DEF AliasesRenamed
  <2>2. CASE alias[a] # None /\ alias[a].dom = d
    <3>1. PICK w : w = alias[a]
      OBVIOUS
    <3>2. /\ w = [address |-> w.address, dom |-> w.dom, internal |-> w.internal]
          /\ w.address = At(w.address.local, w.address.name)
      BY <2>2, <3>1, AliasRowIs DEF IdRows, AliasesOK
    <3>3. [w EXCEPT !.address.name = n]
            = [address |-> At(w.address.local, n), dom |-> w.dom, internal |-> w.internal]
      BY <3>2 DEF At
    <3> QED BY <2>1, <2>2, <3>1, <3>3
  <2>3. CASE ~(alias[a] # None /\ alias[a].dom = d)
    BY <2>1, <2>3
  <2> QED BY <2>2, <2>3
<1>6. ASSUME NEW a \in Pks, alias[a] # None
      PROVE  /\ A2[a].dom = alias[a].dom /\ A2[a].internal = alias[a].internal
             /\ A2[a].address.local = alias[a].address.local
             /\ alias[a].dom = d => A2[a].address.name = n
  <2>1. CASE alias[a].dom = d
    <3>1. A2[a] = [address |-> At(alias[a].address.local, n), dom |-> d,
                   internal |-> alias[a].internal]
      BY <1>5, <1>6, <2>1
    <3> QED BY <2>1, <3>1 DEF At
  <2>2. CASE alias[a].dom # d
    BY <1>5, <2>2
  <2> QED BY <2>1, <2>2
<1>7. \A a \in Pks : A2[a] # None => alias[a] # None
  BY <1>5
<1>8. ASSUME NEW k \in Mailboxes, mbox[k] # None, NEW b, NEW r, Self(k, b, r)
      PROVE  A2[b] = SelfAliasRow(Address(k)', mbox[k].dom)
  <2>1. /\ b \in Pks /\ alias[b] # None
        /\ alias[b].address = Address(k) /\ alias[b].dom = mbox[k].dom
        /\ alias[b].internal = TRUE
        /\ alias[b] = SelfAliasRow(Address(k), mbox[k].dom)
    <3>1. alias[b] = SelfAliasRow(Address(k), mbox[k].dom)
      BY <1>8 DEF Self
    <3> QED BY <1>8, <3>1, SelfFacts
  <2>2. CASE mbox[k].dom = d
    <3>1. A2[b] = [address |-> At(alias[b].address.local, n), dom |-> d,
                   internal |-> alias[b].internal]
      BY <1>5, <2>1, <2>2
    <3>2. alias[b].address.local = mbox[k].local
      BY <2>1 DEF Address, At
    <3>3. Address(k)' = At(mbox[k].local, n)
      BY <1>3, <1>8, <2>2
    <3> QED BY <2>1, <2>2, <3>1, <3>2, <3>3 DEF SelfAliasRow
  <2>3. CASE mbox[k].dom # d
    <3>1. A2[b] = alias[b] /\ Address(k)' = Address(k)
      BY <1>3, <1>5, <1>8, <2>1, <2>3
    <3> QED BY <2>1, <3>1
  <2> QED BY <2>2, <2>3
<1>9. SelvesThere'
  <2>1. ASSUME NEW k \in Mailboxes, mbox'[k] # None PROVE \E b, r : Self(k, b, r)'
    <3>1. mbox[k] # None
      BY <1>1, <2>1
    <3>2. PICK b, r : Self(k, b, r)
      BY <3>1 DEF SelvesOK, SelvesThere
    <3>3. alias'[b] = SelfAliasRow(Address(k)', mbox'[k].dom)
      BY <1>1, <1>4, <1>8, <3>1, <3>2
    <3>4. Self(k, b, r)'
      BY <1>1, <3>2, <3>3 DEF Self, SelfAliasRow
    <3> QED BY <3>4
  <2> QED BY <2>1 DEF SelvesThere
<1>10. NoOrphanSelfAlias'
  <2>1. ASSUME NEW b \in Pks, A2[b] # None, A2[b].internal
        PROVE  \/ A2[b].address.local = "" /\ dalias'[A2[b].address.name] # None
               \/ /\ A2[b].address.local # ""
                  /\ \E k \in Mailboxes : mbox'[k] # None /\ Address(k)' = A2[b].address
    <3>1. /\ alias[b] # None /\ alias[b].internal
          /\ A2[b].address.local = alias[b].address.local
      BY <1>6, <1>7, <2>1
    <3>2. CASE alias[b].address.local = ""
      <4>1. alias[b].dom # d
        BY <3>1, <3>2, AliasRowIs, IdentitiesAssumption DEF IdRows, AliasesOK
      <4>2. A2[b] = alias[b]
        BY <1>5, <4>1
      <4> QED BY <1>1, <3>1, <3>2, <4>2 DEF SelvesOK, NoOrphanSelfAlias
    <3>3. CASE alias[b].address.local # ""
      <4>1. PICK k \in Mailboxes : mbox[k] # None /\ Address(k) = alias[b].address
        BY <3>1, <3>3 DEF SelvesOK, NoOrphanSelfAlias, MailboxAt
      <4>2. PICK a, r : Self(k, a, r)
        BY <4>1 DEF SelvesOK, SelvesThere
      <4>3. b = a
        BY <3>1, <4>1, <4>2, SelfIs
      <4>4. A2[b] = SelfAliasRow(Address(k)', mbox[k].dom)
        BY <1>8, <4>1, <4>2, <4>3
      <4>5. A2[b].address = Address(k)'
        BY <4>4 DEF SelfAliasRow
      <4> QED BY <1>1, <3>1, <3>3, <4>1, <4>5
    <3> QED BY <3>2, <3>3
  <2> QED BY <1>4, <2>1, NoOrphansAfter
<1>11. DomainAliasesPlain'
  <2>1. ASSUME NEW s \in rcpts, A2[s.alias].address.local = "" PROVE s.mbox = None
    <3>1. s.alias \in Pks /\ alias[s.alias] # None
      BY DEF IdRows, RecipientsOK, RecipientRows
    <3> QED BY <1>6, <2>1, <3>1 DEF SelvesOK, DomainAliasesPlain
  <2> QED BY <1>1, <1>4, <2>1 DEF DomainAliasesPlain
<1>12. QuotaInStep'
  <2>1. PICK o : o = dom[d] /\ o # None
    BY <1>1
  <2>2. ASSUME NEW k \in Mailboxes, mbox[k] # None
        PROVE  /\ Address(k).name = o <=> mbox[k].dom = d
               /\ Address(k).local = mbox[k].local
    <3>1. Address(k).name = dom[mbox[k].dom] /\ Address(k).local = mbox[k].local
      BY DEF Address, At
    <3>2. mbox[k].dom \in Domains
      BY <2>2, MailboxIs DEF IdRows
    <3> QED BY <2>1, <3>1, <3>2 DEF IdRows, DomainsOK
  <2>3. ASSUME NEW y
        PROVE  y \in quota' <=> \/ y \in quota /\ y.name # o
                                \/ \E x \in quota : x.name = o /\ y = At(x.local, n)
    <3>1. QuotasLike(o) = {x \in quota : x.name = o}
      BY DEF QuotasLike, OrdinaryNames
    <3> QED BY <1>1, <2>1, <3>1 DEF QuotaRenamed
  <2>4. ASSUME NEW y PROVE y \in quota' <=> \E k \in Mailboxes : mbox'[k] # None /\ y = Address(k)'
    <3>1. ASSUME y \in quota' PROVE \E k \in Mailboxes : mbox'[k] # None /\ y = Address(k)'
      <4>1. CASE y \in quota /\ y.name # o
        <5>1. PICK k \in Mailboxes : mbox[k] # None /\ y = Address(k)
          BY <4>1, QuotaIs
        <5> QED BY <1>1, <1>3, <2>2, <4>1, <5>1
      <4>2. CASE \E x \in quota : x.name = o /\ y = At(x.local, n)
        <5>1. PICK x \in quota : x.name = o /\ y = At(x.local, n)
          BY <4>2
        <5>2. PICK k \in Mailboxes : mbox[k] # None /\ x = Address(k)
          BY <5>1, QuotaIs
        <5> QED BY <1>1, <1>3, <2>2, <5>1, <5>2
      <4> QED BY <2>3, <3>1, <4>1, <4>2
    <3>2. ASSUME NEW k \in Mailboxes, mbox'[k] # None, y = Address(k)' PROVE y \in quota'
      <4>1. mbox[k] # None /\ Address(k) \in quota
        BY <1>1, <3>2, QuotaIs
      <4>2. CASE mbox[k].dom = d
        <5>1. y = At(Address(k).local, n) /\ Address(k).name = o
          BY <1>3, <2>2, <3>2, <4>1, <4>2
        <5> QED BY <2>3, <4>1, <5>1
      <4>3. CASE mbox[k].dom # d
        <5>1. y = Address(k) /\ Address(k).name # o
          BY <1>3, <2>2, <3>2, <4>1, <4>3
        <5> QED BY <2>3, <4>1, <5>1
      <4> QED BY <4>2, <4>3
    <3> QED BY <3>1, <3>2
  <2> QED BY <2>4, QuotaAfter
<1>13. RecipientsFollow'
  <2>1. ASSUME NEW s \in rcpts, s.mbox # None, s.mbox \notin stale'
        PROVE  s.address = Address(s.mbox)'
    <3>1. s.mbox \in Mailboxes /\ mbox[s.mbox] # None
      BY <2>1 DEF IdRows, RecipientsOK, RecipientRows
    <3>2. mbox[s.mbox].dom # d /\ s.mbox \notin stale
      BY <1>1, <2>1, <3>1
    <3> QED BY <1>3, <2>1, <3>1, <3>2 DEF RecipientsFollow
  <2> QED BY <1>1, <2>1 DEF RecipientsFollow
<1>14. AliasInItsDomain'
  <2>1. ASSUME NEW b \in Pks, A2[b] # None, A2[b].dom # None
        PROVE  A2[b].address.name = dom'[A2[b].dom]
    <3>1. alias[b] # None /\ A2[b].dom = alias[b].dom
      BY <1>6, <1>7, <2>1
    <3>2. CASE alias[b].dom = d
      BY <1>2, <1>6, <3>1, <3>2
    <3>3. CASE alias[b].dom # d
      <4>1. A2[b] = alias[b] /\ alias[b].dom \in Domains \ {d}
        BY <1>5, <2>1, <3>1, <3>3, AliasRowIs DEF IdRows, AliasesOK
      <4> QED BY <1>2, <2>1, <4>1 DEF AliasInItsDomain
    <3> QED BY <3>2, <3>3
  <2> QED BY <1>4, <2>1 DEF AliasInItsDomain
<1> QED BY <1>9, <1>10, <1>11, <1>12, <1>13, <1>14 DEF SelvesOK

(* A request writes an alias that is not the self alias of a mailbox, and its *)
(* recipients: the others stay, and those that come are what they are linked  *)
(* to.  Mailboxes and domains stay.                                          *)
LEMMA AliasWrittenNames ==
  ASSUME NamesInv, NEW a \in Pks,
         dom' = dom, mbox' = mbox, quota' = quota, stale' = stale,
         \A m \in Mailboxes, r \in rcpts : mbox[m] # None => ~Self(m, a, r),
         alias'[a] # None,
         \A b \in Pks \ {a} : alias'[b] = alias[b],
         alias'[a].internal =>
           alias'[a].address.local = "" /\ dalias'[alias'[a].address.name] # None,
         alias'[a].dom # None => alias'[a].address.name = dom[alias'[a].dom],
         \A n \in AliasNames : dalias[n] # None => dalias'[n] # None,
         rcpts' \in SUBSET RecipientRows,
         \A s \in rcpts : s.alias # a => s \in rcpts',
         \A s \in rcpts' : s \notin rcpts =>
           /\ s.alias = a
           /\ s.mbox # None => s.mbox \in MailboxAt(s.address),
         alias'[a].address.local = "" => \A s \in rcpts' : s.alias = a => s.mbox = None
  PROVE  SelvesOK' /\ QuotaInStep' /\ RecipientsFollow' /\ AliasInItsDomain'
<1> USE DEF NamesInv
<1>1. \A k \in Mailboxes : Address(k)' = Address(k)
  BY DEF Address, At
<1>2. SelvesThere'
  <2>1. ASSUME NEW k \in Mailboxes, mbox'[k] # None PROVE \E b, r : Self(k, b, r)'
    <3>1. mbox[k] # None
      BY <2>1
    <3>2. PICK b, r : Self(k, b, r)
      BY <3>1 DEF SelvesOK, SelvesThere
    <3>3. b # a
      BY <3>1, <3>2 DEF Self
    <3>4. \A s \in rcpts' : s.alias # a => s \in rcpts
      OBVIOUS
    <3>5. Self(k, b, r)'
      BY <3>1, <3>2, <3>3, <3>4, OthersKeepSelves
    <3> QED BY <3>5
  <2> QED BY <2>1 DEF SelvesThere
<1>3. PICK A2 : A2 = alias'
  OBVIOUS
<1>4. NoOrphanSelfAlias'
  <2>1. ASSUME NEW b \in Pks, A2[b] # None, A2[b].internal
        PROVE  \/ A2[b].address.local = "" /\ dalias'[A2[b].address.name] # None
               \/ /\ A2[b].address.local # ""
                  /\ \E k \in Mailboxes : mbox'[k] # None /\ Address(k)' = A2[b].address
    <3>1. CASE b = a
      BY <1>3, <2>1, <3>1
    <3>2. CASE b # a
      <4>1. A2[b] = alias[b]
        BY <1>3, <3>2
      <4>2. CASE alias[b].address.local = ""
        <5>1. dalias[alias[b].address.name] # None
          BY <2>1, <4>1, <4>2 DEF SelvesOK, NoOrphanSelfAlias
        <5>2. alias[b].address.name \in AliasNames
          BY <2>1, <4>1, <4>2, AliasRowIs, IdentitiesAssumption DEF IdRows, AliasesOK
        <5> QED BY <4>1, <4>2, <5>1, <5>2
      <4>3. CASE alias[b].address.local # ""
        <5>1. PICK k \in Mailboxes : mbox[k] # None /\ Address(k) = alias[b].address
          BY <2>1, <4>1, <4>3 DEF SelvesOK, NoOrphanSelfAlias, MailboxAt
        <5> QED BY <1>1, <4>1, <4>3, <5>1
      <4> QED BY <4>2, <4>3
    <3> QED BY <3>1, <3>2
  <2>2. \A b \in Pks : A2[b] # None /\ A2[b].internal =>
          \/ A2[b].address.local = "" /\ dalias'[A2[b].address.name] # None
          \/ /\ A2[b].address.local # ""
             /\ \E k \in Mailboxes : mbox'[k] # None /\ Address(k)' = A2[b].address
    BY <2>1
  <2> QED BY ONLY <1>3, <2>2, NoOrphansAfter
<1>5. DomainAliasesPlain'
  <2>1. ASSUME NEW s \in rcpts', alias'[s.alias].address.local = "" PROVE s.mbox = None
    <3>1. CASE s.alias = a
      BY <2>1, <3>1
    <3>2. CASE s.alias # a
      <4>1. s \in rcpts /\ s.alias \in Pks
        BY <3>2 DEF IdRows, RecipientsOK, RecipientRows
      <4> QED BY <2>1, <3>2, <4>1 DEF SelvesOK, DomainAliasesPlain
    <3> QED BY <3>1, <3>2
  <2> QED BY <2>1 DEF DomainAliasesPlain
<1>6. QuotaInStep'
  <2>1. ASSUME NEW y PROVE y \in quota' <=> \E k \in Mailboxes : mbox'[k] # None /\ y = Address(k)'
    <3>1. y \in quota <=> \E k \in Mailboxes : mbox[k] # None /\ y = Address(k)
      BY QuotaIs
    <3> QED BY <1>1, <3>1
  <2> QED BY <2>1, QuotaAfter
<1>7. RecipientsFollow'
  <2>1. ASSUME NEW s \in rcpts', s.mbox # None, s.mbox \notin stale'
        PROVE  s.address = Address(s.mbox)'
    <3>1. s.mbox \in Mailboxes
      BY <2>1 DEF RecipientRows
    <3>2. CASE s \in rcpts
      BY <1>1, <2>1, <3>1, <3>2 DEF RecipientsFollow
    <3>3. CASE s \notin rcpts
      BY <1>1, <2>1, <3>1, <3>3 DEF MailboxAt
    <3> QED BY <3>2, <3>3
  <2> QED BY <2>1 DEF RecipientsFollow
<1>8. AliasInItsDomain'
  <2>1. ASSUME NEW b \in Pks, alias'[b] # None, alias'[b].dom # None
        PROVE  alias'[b].address.name = dom'[alias'[b].dom]
    <3>1. CASE b = a
      BY <2>1, <3>1
    <3>2. CASE b # a
      BY <2>1, <3>2 DEF AliasInItsDomain
    <3> QED BY <3>1, <3>2
  <2> QED BY <2>1 DEF AliasInItsDomain
<1> QED BY <1>2, <1>4, <1>5, <1>6, <1>7, <1>8 DEF SelvesOK

(* An alias that is free or another's is no self alias.                      *)
LEMMA NoSelf ==
  ASSUME IdRows, NEW a, alias[a] = None \/ ~alias[a].internal
  PROVE  \A m \in Mailboxes, r \in rcpts : mbox[m] # None => ~Self(m, a, r)
BY SelfFacts

(* Creating a domain alias.                                                  *)
LEMMA CreateDomainAliasNames ==
  ASSUME NamesInv, NEW n \in AliasNames, NEW d \in Domains, CreateDomainAlias(n, d), IdRows'
  PROVE  SelvesOK' /\ QuotaInStep' /\ RecipientsFollow' /\ AliasInItsDomain'
<1> USE DEF NamesInv
<1>1. PICK a, q, v : /\ a = NewPk /\ q = Row(a, At("", dom[d]), None, None)
                     /\ v = SelfAliasRow(At("", n), None)
  OBVIOUS
<1>2. /\ a \in Pks /\ alias[a] = None /\ dom[d] # None
      /\ dalias' = [dalias EXCEPT ![n] = d]
      /\ alias' = [alias EXCEPT ![a] = v]
      /\ rcpts' = rcpts \cup {q}
      /\ dom' = dom /\ mbox' = mbox /\ quota' = quota /\ stale' = stale
  BY <1>1, NewPkIs DEF CreateDomainAlias
<1>3. /\ v.dom = None /\ v.address.local = "" /\ v.address.name = n /\ v.internal = TRUE
      /\ q.alias = a /\ q.mbox = None
  BY <1>1 DEF SelfAliasRow, At, Row
<1>4. alias'[a] = v /\ \A b \in Pks \ {a} : alias'[b] = alias[b]
  BY <1>2 DEF IdRows, AliasesOK, AliasTable
<1>5. dalias'[n] # None /\ \A k \in AliasNames : dalias[k] # None => dalias'[k] # None
  BY <1>2, IdentitiesAssumption DEF IdRows, OthersOK
<1>6. q \in rcpts' /\ alias'[a] # None /\ rcpts' \in SUBSET RecipientRows
  BY <1>2, <1>3 DEF IdRows, RecipientsOK
<1>7. \A s \in rcpts : s.alias # a
  BY <1>2 DEF IdRows, RecipientsOK
<1>8. \A m \in Mailboxes, r \in rcpts : mbox[m] # None => ~Self(m, a, r)
  BY <1>2, NoSelf
<1>9. /\ alias'[a].internal =>
           alias'[a].address.local = "" /\ dalias'[alias'[a].address.name] # None
      /\ alias'[a].dom # None => alias'[a].address.name = dom[alias'[a].dom]
  BY <1>3, <1>4, <1>5
<1>10. /\ \A s \in rcpts : s.alias # a => s \in rcpts'
       /\ \A s \in rcpts' : s \notin rcpts =>
            /\ s.alias = a
            /\ s.mbox # None => s.mbox \in MailboxAt(s.address)
       /\ \A s \in rcpts' : s.alias = a => s.mbox = None
  BY <1>2, <1>3, <1>7
<1> QED BY <1>2, <1>4, <1>5, <1>6, <1>8, <1>9, <1>10, AliasWrittenNames

(* Creating an alias.                                                        *)
LEMMA CreateAliasNames ==
  ASSUME NamesInv, NEW x \in LocalAddresses, NEW X \in RecipientSets, CreateAlias(x, X), IdRows'
  PROVE  SelvesOK' /\ QuotaInStep' /\ RecipientsFollow' /\ AliasInItsDomain'
<1> USE DEF NamesInv
<1>1. PICK a : a = NewPk
  OBVIOUS
<1>2. PICK d \in Domains :
        /\ dom[d] = x.name
        /\ alias' = [alias EXCEPT ![a] = [address |-> x, dom |-> d, internal |-> FALSE]]
  BY <1>1 DEF CreateAlias
<1>3. /\ a \in Pks /\ alias[a] = None
      /\ rcpts' \in SetRecipients(a, x, X)
      /\ dom' = dom /\ mbox' = mbox /\ quota' = quota /\ dalias' = dalias /\ stale' = stale
  BY <1>1, NewPkIs DEF CreateAlias
<1>4. PICK v : v = [address |-> x, dom |-> d, internal |-> FALSE]
  OBVIOUS
<1>5. v.address = x /\ v.dom = d /\ v.internal = FALSE /\ x.local # ""
  <2>1. PICK l \in Locals, n \in Names : x = [local |-> l, name |-> n]
    BY DEF LocalAddresses, At
  <2> QED BY <1>4, <2>1, IdentitiesAssumption
<1>6. alias'[a] = v /\ \A b \in Pks \ {a} : alias'[b] = alias[b]
  BY <1>2, <1>3, <1>4 DEF IdRows, AliasesOK, AliasTable
<1>7. PICK R2 : R2 = rcpts'
  OBVIOUS
<1>8. /\ \A r \in rcpts : r.alias # a => r \in R2
      /\ \A r \in R2 : r \notin rcpts =>
           /\ r.alias = a
           /\ r.mbox \in MailboxAt(r.address) \cup {None}
      /\ \A y \in X : \E r \in R2 : r.alias = a /\ r.address = y
  <2>1. X \in SUBSET (LocalAddresses \cup {Far}) /\ rcpts \in SUBSET RecipientRows
    BY TargetsAre DEF IdRows, RecipientsOK
  <2> QED BY <1>3, <1>7, <2>1, RecipientsSet
<1>9. alias'[a] # None /\ rcpts' \in SUBSET RecipientRows
  <2>1. PICK r \in R2 : r.alias = a
    BY <1>8, TargetsAre
  <2> QED BY <1>7, <2>1 DEF IdRows, RecipientsOK
<1>10. \A m \in Mailboxes, r \in rcpts : mbox[m] # None => ~Self(m, a, r)
  BY <1>3, NoSelf
<1>11. /\ ~alias'[a].internal /\ alias'[a].address.local # ""
       /\ alias'[a].address.name = dom[alias'[a].dom]
  BY <1>2, <1>5, <1>6
<1>12. /\ \A s \in rcpts : s.alias # a => s \in rcpts'
       /\ \A s \in rcpts' : s \notin rcpts =>
            /\ s.alias = a
            /\ s.mbox # None => s.mbox \in MailboxAt(s.address)
  BY <1>7, <1>8
<1> QED BY <1>3, <1>6, <1>9, <1>10, <1>11, <1>12, AliasWrittenNames

(* Changing an alias, not its address.                                       *)
LEMMA UpdateAliasNames ==
  ASSUME NamesInv, OrdinaryNames, NEW a \in Pks, NEW x \in LocalAddresses,
         NEW X \in RecipientSets, UpdateAlias(a, x, X), IdRows'
  PROVE  SelvesOK' /\ QuotaInStep' /\ RecipientsFollow' /\ AliasInItsDomain'
<1> USE DEF NamesInv
<1>1. /\ alias[a] # None /\ ~alias[a].internal
      /\ x = alias[a].address
      /\ alias' = [alias EXCEPT ![a].address = x]
      /\ rcpts' \in SetRecipients(a, x, X)
      /\ dom' = dom /\ mbox' = mbox /\ quota' = quota /\ dalias' = dalias /\ stale' = stale
  BY DEF UpdateAlias, External, OrdinaryNames
<1>2. alias' = alias
  <2>1. PICK w : w = alias[a]
    OBVIOUS
  <2>2. w = [address |-> w.address, dom |-> w.dom, internal |-> w.internal]
    BY <1>1, <2>1, AliasRowIs DEF IdRows, AliasesOK
  <2>3. [w EXCEPT !.address = x] = w
    BY <1>1, <2>1, <2>2
  <2>4. alias' = [alias EXCEPT ![a] = w]
    BY <1>1, <2>1, <2>3
  <2> QED BY <2>1, <2>4 DEF IdRows, AliasesOK, AliasTable
<1>3. x.local # ""
  <2>1. PICK l \in Locals, n \in Names : x = [local |-> l, name |-> n]
    BY DEF LocalAddresses, At
  <2> QED BY <2>1, IdentitiesAssumption
<1>4. PICK R2 : R2 = rcpts'
  OBVIOUS
<1>5. /\ \A r \in rcpts : r.alias # a => r \in R2
      /\ \A r \in R2 : r \notin rcpts =>
           /\ r.alias = a
           /\ r.mbox \in MailboxAt(r.address) \cup {None}
  <2>1. X \in SUBSET (LocalAddresses \cup {Far}) /\ rcpts \in SUBSET RecipientRows
    BY TargetsAre DEF IdRows, RecipientsOK
  <2> QED BY <1>1, <1>4, <2>1, RecipientsSet
<1>6. rcpts' \in SUBSET RecipientRows
  BY DEF IdRows, RecipientsOK
<1>7. \A m \in Mailboxes, r \in rcpts : mbox[m] # None => ~Self(m, a, r)
  BY <1>1, NoSelf
<1>8. /\ alias'[a] # None /\ ~alias'[a].internal /\ alias'[a].address.local # ""
      /\ alias'[a].dom # None => alias'[a].address.name = dom[alias'[a].dom]
  BY <1>1, <1>2, <1>3 DEF AliasInItsDomain
<1>9. /\ \A s \in rcpts : s.alias # a => s \in rcpts'
      /\ \A s \in rcpts' : s \notin rcpts =>
           /\ s.alias = a
           /\ s.mbox # None => s.mbox \in MailboxAt(s.address)
  BY <1>4, <1>5
<1> QED BY <1>1, <1>2, <1>6, <1>7, <1>8, <1>9, AliasWrittenNames

(* Nothing changes but targets of domain aliases.                            *)
LEMMA NamesSame ==
  ASSUME NamesInv, dom' = dom, mbox' = mbox, alias' = alias, rcpts' = rcpts, quota' = quota,
         stale' = stale, \A n \in AliasNames : dalias[n] # None => dalias'[n] # None
  PROVE  SelvesOK' /\ QuotaInStep' /\ RecipientsFollow' /\ AliasInItsDomain'
<1> USE DEF NamesInv
<1>1. \A k \in Mailboxes : Address(k)' = Address(k)
  BY DEF Address, At
<1>2. SelvesThere'
  <2>1. ASSUME NEW k \in Mailboxes, mbox'[k] # None PROVE \E b, r : Self(k, b, r)'
    <3>1. PICK b, r : Self(k, b, r)
      BY <2>1 DEF SelvesOK, SelvesThere
    <3>2. r \in rcpts' /\ alias'[b] = alias[b] /\ \A s \in rcpts' : s.alias = b => s = r
      BY <3>1 DEF Self
    <3>3. Self(k, b, r)'
      BY <3>1, <3>2, SelfKept
    <3> QED BY <3>3
  <2> QED BY <2>1 DEF SelvesThere
<1>3. NoOrphanSelfAlias'
  <2>1. PICK A2 : A2 = alias'
    OBVIOUS
  <2>2. ASSUME NEW b \in Pks, A2[b] # None, A2[b].internal
        PROVE  \/ A2[b].address.local = "" /\ dalias'[A2[b].address.name] # None
               \/ /\ A2[b].address.local # ""
                  /\ \E k \in Mailboxes : mbox'[k] # None /\ Address(k)' = A2[b].address
    <3>1. A2[b] = alias[b]
      BY <2>1
    <3>2. CASE alias[b].address.local = ""
      <4>1. dalias[alias[b].address.name] # None
        BY <2>2, <3>1, <3>2 DEF SelvesOK, NoOrphanSelfAlias
      <4>2. alias[b].address.name \in AliasNames
        BY <2>2, <3>1, <3>2, AliasRowIs, IdentitiesAssumption DEF IdRows, AliasesOK
      <4> QED BY <3>1, <3>2, <4>1, <4>2
    <3>3. CASE alias[b].address.local # ""
      <4>1. PICK k \in Mailboxes : mbox[k] # None /\ Address(k) = alias[b].address
        BY <2>2, <3>1, <3>3 DEF SelvesOK, NoOrphanSelfAlias, MailboxAt
      <4> QED BY <1>1, <3>1, <3>3, <4>1
    <3> QED BY <3>2, <3>3
  <2> QED BY <2>1, <2>2, NoOrphansAfter
<1>4. DomainAliasesPlain'
  BY DEF SelvesOK, DomainAliasesPlain
<1>5. QuotaInStep'
  BY DEF QuotaInStep, Address, At
<1>6. RecipientsFollow'
  BY DEF RecipientsFollow, Address, At
<1>7. AliasInItsDomain'
  BY DEF AliasInItsDomain
<1> QED BY <1>2, <1>3, <1>4, <1>5, <1>6, <1>7 DEF SelvesOK

(* Giving a domain alias another target.                                     *)
LEMMA UpdateDomainAliasNames ==
  ASSUME NamesInv, OrdinaryNames, NEW n \in AliasNames, NEW k \in AliasNames, NEW d \in Domains,
         UpdateDomainAlias(n, k, d)
  PROVE  SelvesOK' /\ QuotaInStep' /\ RecipientsFollow' /\ AliasInItsDomain'
<1>1. /\ k = n /\ dom[d] # None
      /\ dalias' = [dalias EXCEPT ![n] = None, ![k] = d]
      /\ dom' = dom /\ mbox' = mbox /\ alias' = alias /\ rcpts' = rcpts
      /\ quota' = quota /\ stale' = stale
  BY DEF UpdateDomainAlias, aliasVars, OrdinaryNames
<1>2. \A j \in AliasNames : dalias[j] # None => dalias'[j] # None
  BY <1>1, IdentitiesAssumption DEF NamesInv, IdRows, OthersOK
<1> QED BY <1>1, <1>2, NamesSame

(* Deleting a domain alias: no self alias has its address.                   *)
LEMMA DeleteDomainAliasNames ==
  ASSUME NamesInv, NEW n \in AliasNames, DeleteDomainAlias(n)
  PROVE  SelvesOK' /\ QuotaInStep' /\ RecipientsFollow' /\ AliasInItsDomain'
<1> USE DEF NamesInv
<1>1. PICK M, T : M = {} /\ T = AliasAt(At("", n))
  OBVIOUS
<1>2. Removed(M, T, T)
  BY <1>1, RowsAreTypes, DeleteDomainAliasRemoves
<1>3. /\ dalias' = [dalias EXCEPT ![n] = None]
      /\ dom' = dom /\ mbox' = mbox /\ quota' = quota /\ stale' = stale
  BY DEF DeleteDomainAlias
<1>4. SelvesOK' /\ RecipientsFollow' /\ AliasInItsDomain'
  <2>1. /\ M \in SUBSET Mailboxes /\ SelvesOf(M) \subseteq T /\ stale' = stale \ M
        /\ \A k \in Mailboxes \ M : mbox'[k] = mbox[k]
        /\ \A k \in M : mbox'[k] = None
        /\ \A k \in Mailboxes \ M : mbox[k] # None => dom'[mbox[k].dom] = dom[mbox[k].dom]
        /\ \A a \in Pks \ T :
             alias[a] # None /\ alias[a].dom # None => dom'[alias[a].dom] = dom[alias[a].dom]
    BY <1>1, <1>3 DEF SelvesOf
  <2>2. \A k \in Mailboxes \ M, a \in T :
          mbox[k] # None /\ alias[a].internal => alias[a].address # Address(k)
    <3>1. ASSUME NEW k \in Mailboxes, NEW a \in T, mbox[k] # None, alias[a].address = Address(k)
          PROVE  FALSE
      <4>1. Address(k) = At("", n)
        BY <1>1, <3>1 DEF AliasAt
      <4>2. Address(k).local = mbox[k].local /\ At("", n).local = ""
        BY DEF Address, At
      <4> QED BY <3>1, <4>1, <4>2, MailboxIs, IdentitiesAssumption DEF IdRows
    <3> QED BY <3>1
  <2>3. ASSUME NEW a \in Pks \ T, alias[a] # None, alias[a].address.local = ""
        PROVE  dalias'[alias[a].address.name] = dalias[alias[a].address.name]
    <3>1. PICK k : k = alias[a].address.name
      OBVIOUS
    <3>2. k \in AliasNames /\ alias[a].address = At("", k)
      BY <2>3, <3>1, AliasRowIs, IdentitiesAssumption DEF IdRows, AliasesOK
    <3>3. k # n
      BY <1>1, <2>3, <3>2 DEF AliasAt
    <3> QED BY <1>3, <3>1, <3>2, <3>3 DEF IdRows, OthersOK
  <2>4. \A a \in Pks \ T : alias[a] # None /\ alias[a].address.local = "" =>
          dalias'[alias[a].address.name] = dalias[alias[a].address.name]
    BY <2>3
  <2> QED BY <1>2, <2>1, <2>2, <2>4, RemovedKeepsNames
<1>5. QuotaInStep'
  BY <1>3 DEF QuotaInStep, Address, At
<1> QED BY <1>4, <1>5

(* Deleting an alias, which is no self alias.                                *)
LEMMA DeleteAliasNames ==
  ASSUME NamesInv, NEW a \in Pks, DeleteAlias(a)
  PROVE  SelvesOK' /\ QuotaInStep' /\ RecipientsFollow' /\ AliasInItsDomain'
<1> USE DEF NamesInv
<1>1. PICK M, T : M = {} /\ T = {a}
  OBVIOUS
<1>2. Removed(M, T, T)
  BY <1>1, RowsAreTypes, DeleteAliasRemoves
<1>3. /\ ~alias[a].internal /\ dalias' = dalias
      /\ dom' = dom /\ mbox' = mbox /\ quota' = quota /\ stale' = stale
  BY DEF DeleteAlias, External
<1>4. SelvesOK' /\ RecipientsFollow' /\ AliasInItsDomain'
  <2>1. /\ M \in SUBSET Mailboxes /\ SelvesOf(M) \subseteq T /\ stale' = stale \ M
        /\ \A k \in Mailboxes \ M : mbox'[k] = mbox[k]
        /\ \A k \in M : mbox'[k] = None
        /\ \A k \in Mailboxes \ M : mbox[k] # None => dom'[mbox[k].dom] = dom[mbox[k].dom]
        /\ \A b \in Pks \ T :
             alias[b] # None /\ alias[b].dom # None => dom'[alias[b].dom] = dom[alias[b].dom]
        /\ \A k \in Mailboxes \ M, b \in T :
             mbox[k] # None /\ alias[b].internal => alias[b].address # Address(k)
        /\ \A b \in Pks \ T : alias[b] # None /\ alias[b].address.local = "" =>
             dalias'[alias[b].address.name] = dalias[alias[b].address.name]
    BY <1>1, <1>3 DEF SelvesOf
  <2> QED BY <1>2, <2>1, RemovedKeepsNames
<1>5. QuotaInStep'
  BY <1>3 DEF QuotaInStep, Address, At
<1> QED BY <1>4, <1>5

(* Repairing a mailbox, which has its self alias: nothing changes.            *)
LEMMA RepairNames ==
  ASSUME NamesInv, NEW m \in Mailboxes, Repair(m), IdRows'
  PROVE  SelvesOK' /\ QuotaInStep' /\ RecipientsFollow' /\ AliasInItsDomain'
<1> USE DEF NamesInv
<1>1. PICK b, q, v : /\ b = GetOrCreate(Address(m), mbox[m].dom)
                     /\ q = Row(b, Address(m), m, None)
                     /\ v = SelfAliasRow(Address(m), mbox[m].dom)
  OBVIOUS
<1>2. /\ mbox[m] # None /\ b \in Pks
      /\ alias' = [alias EXCEPT ![b] = v]
      /\ rcpts' = rcpts \cup {q}
      /\ UniqueRecipients(rcpts')
      /\ dom' = dom /\ mbox' = mbox /\ quota' = quota /\ dalias' = dalias /\ stale' = stale
      /\ alias[b] = v \/ \A c \in Pks : alias[c] # v
  BY <1>1, GetOrCreateIs DEF Repair
<1>3. PICK a, r : Self(m, a, r)
  BY <1>2 DEF SelvesOK, SelvesThere
<1>4. /\ a \in Pks /\ alias[a] = v /\ alias[a] # None
      /\ r \in rcpts /\ r.alias = a /\ r.mbox = m
  <2>1. a \in Pks /\ alias[a] # None /\ r \in rcpts
    BY <1>2, <1>3, SelfFacts
  <2>2. alias[a] = v /\ r.alias = a /\ r.mbox = m
    BY <1>1, <1>3 DEF Self
  <2> QED BY <2>1, <2>2
<1>5. alias[b] = v
  BY <1>2, <1>4
<1>6. a = b
  BY <1>2, <1>4, <1>5 DEF AliasesOK, IdRows, UniqueAliases
<1>7. alias' = alias
  BY <1>2, <1>5 DEF IdRows, AliasesOK, AliasTable
<1>8. q = r
  <2>1. q.alias = b /\ q.mbox = m /\ m # None
    BY <1>1, IdentitiesAssumption DEF Row
  <2>2. q \in rcpts' /\ r \in rcpts'
    BY <1>2, <1>4
  <2> QED BY <1>2, <1>4, <1>6, <2>1, <2>2 DEF UniqueRecipients
<1>9. rcpts' = rcpts
  BY <1>2, <1>4, <1>8
<1> QED BY <1>2, <1>7, <1>9, NamesSame

(* No mailbox, alias or quota exists yet.                                  *)
LEMMA NamesInitially ==
  ASSUME Init
  PROVE  NamesInv
<1>1. IdRows
  BY RowsInitially
<1>2. SelvesOK
  BY DEF Init, SelvesOK, SelvesThere, NoOrphanSelfAlias, DomainAliasesPlain
<1>3. QuotaInStep /\ RecipientsFollow /\ AliasInItsDomain
  BY DEF Init, QuotaInStep, RecipientsFollow, AliasInItsDomain
<1> QED BY <1>1, <1>2, <1>3 DEF NamesInv

(* What names an address still follows it after any request.               *)
LEMMA NamesStep ==
  ASSUME OrdinaryNames, NamesInv, Next
  PROVE  NamesInv'
<1> DEFINE Kept == SelvesOK' /\ QuotaInStep' /\ RecipientsFollow' /\ AliasInItsDomain'
<1>0. IdRows'
  BY RowsStep DEF NamesInv
<1>1. ASSUME NEW m \in Mailboxes, DeleteMailbox(m) \/ Repair(m) PROVE Kept
  BY <1>0, <1>1, DeleteMailboxNames, RepairNames
<1>2. ASSUME NEW m \in Mailboxes, NEW l \in Locals, NEW d \in Domains,
             CreateMailbox(m, l, d) \/ RenameMailbox(m, l, d)
      PROVE  Kept
  BY <1>0, <1>2, CreateMailboxNames, RenameMailboxNames
<1>3. ASSUME NEW d \in Domains, NEW n \in Names, CreateDomain(d, n) \/ RenameDomain(d, n)
      PROVE  Kept
  BY <1>3, CreateDomainNames, RenameDomainNames
<1>4. ASSUME NEW d \in Domains, DeleteDomain(d) PROVE Kept
  BY <1>4, DeleteDomainNames
<1>5. ASSUME NEW n \in AliasNames, NEW d \in Domains, CreateDomainAlias(n, d) PROVE Kept
  BY <1>0, <1>5, CreateDomainAliasNames
<1>6. ASSUME NEW n \in AliasNames, NEW k \in AliasNames, NEW d \in Domains,
             UpdateDomainAlias(n, k, d)
      PROVE  Kept
  BY <1>6, UpdateDomainAliasNames
<1>7. ASSUME NEW n \in AliasNames, DeleteDomainAlias(n) PROVE Kept
  BY <1>7, DeleteDomainAliasNames
<1>8. ASSUME NEW x \in LocalAddresses, NEW X \in RecipientSets, CreateAlias(x, X) PROVE Kept
  BY <1>0, <1>8, CreateAliasNames
<1>9. ASSUME NEW a \in Pks, NEW x \in LocalAddresses, NEW X \in RecipientSets,
             UpdateAlias(a, x, X)
      PROVE  Kept
  BY <1>0, <1>9, UpdateAliasNames
<1>10. ASSUME NEW a \in Pks, DeleteAlias(a) PROVE Kept
  BY <1>10, DeleteAliasNames
<1>11. Kept
  <2> HIDE DEF Kept
  <2> QED BY <1>1, <1>2, <1>3, <1>4, <1>5, <1>6, <1>7, <1>8, <1>9, <1>10 DEF Next
<1> QED BY <1>0, <1>11 DEF NamesInv

(* What names an address, when nothing changes.                            *)
LEMMA NamesStutter ==
  ASSUME NamesInv, UNCHANGED vars
  PROVE  NamesInv'
<1>1. /\ dom' = dom /\ mbox' = mbox /\ alias' = alias /\ rcpts' = rcpts /\ quota' = quota
      /\ dalias' = dalias /\ stale' = stale
  BY DEF vars
<1>2. IdRows'
  BY RowsStutter DEF NamesInv
<1> QED BY <1>1, <1>2, NamesSame DEF NamesInv

(* The recipient of a self alias names its mailbox.                          *)
LEMMA NamesInvImplies ==
  ASSUME NamesInv
  PROVE  NamesFollow
<1> USE DEF NamesInv
<1>1. ASSUME NEW m \in Mailboxes, mbox[m] # None, m \notin stale PROVE HasSelfAlias(m)
  <2>1. PICK a, r : Self(m, a, r)
    BY <1>1 DEF SelvesOK, SelvesThere
  <2>2. /\ a \in Pks /\ alias[a] # None
        /\ alias[a].address = Address(m) /\ alias[a].dom = mbox[m].dom
        /\ alias[a].internal = TRUE
        /\ r \in rcpts /\ r \in RecipientRows
    BY <1>1, <2>1, SelfFacts
  <2>3. {b \in AliasAt(Address(m)) : alias[b].internal} = {a}
    <3>1. ASSUME NEW b \in AliasAt(Address(m)), alias[b].internal PROVE b = a
      BY <1>1, <2>1, <3>1, SelfIs DEF AliasAt
    <3>2. a \in AliasAt(Address(m)) /\ alias[a].internal
      BY <2>2 DEF AliasAt
    <3> QED BY <3>1, <3>2
  <2>4. r.alias = a /\ r.mbox = m /\ r.ref = None
    BY <2>1 DEF Self
  <2>5. r.address = Address(m)
    BY <1>1, <2>2, <2>4, IdentitiesAssumption DEF RecipientsFollow
  <2>6. r = Row(a, Address(m), m, None)
    <3>1. r = [alias |-> r.alias, address |-> r.address, mbox |-> r.mbox, ref |-> r.ref]
      BY <2>2 DEF RecipientRows
    <3> QED BY <2>4, <2>5, <3>1 DEF Row
  <2>7. RecipientsOf(rcpts, a) = {r}
    BY <2>1, <2>2, <2>4 DEF RecipientsOf, Self
  <2> QED BY <2>2, <2>3, <2>6, <2>7 DEF HasSelfAlias
<1>2. SelfAliasKept
  BY <1>1 DEF SelfAliasKept
<1>3. IdTypeOK
  BY RowsAreTypes
<1> QED BY <1>2, <1>3 DEF NamesFollow, SelfAliases, SelvesOK

(* Self aliases, quota rows, recipients and aliases follow the names of       *)
(* mailboxes and domains, whatever is created, renamed and deleted.          *)
THEOREM NamesAlwaysFollow == OrdinaryNames => (Spec => []NamesFollow)
<1> SUFFICES ASSUME OrdinaryNames PROVE Spec => []NamesFollow
  OBVIOUS
<1>1. Init => NamesInv
  BY NamesInitially
<1>2. NamesInv /\ [Next]_vars => NamesInv'
  BY NamesStep, NamesStutter
<1>3. NamesInv => NamesFollow
  BY NamesInvImplies
<1> QED BY <1>1, <1>2, <1>3, PTL DEF Spec

-----------------------------------------------------------------------------
(* Whatever part runs, the rights file says what the access rules say but    *)
(* for what the history variable lists, no event is lost between two         *)
(* collections, and requests that run in turn leave one copy of each.        *)
THEOREM CalendarsKept == DirectorySpec => []CalendarsInv
<1>1. DirectoryInit => RightsIndInv /\ EventsIndInv
  BY RightsInitially, EventsInitially DEF DirectoryInit
<1>2. RightsIndInv /\ EventsIndInv /\ [DirectoryNext]_dVars => (RightsIndInv /\ EventsIndInv)'
  <2> SUFFICES ASSUME RightsIndInv, EventsIndInv, [DirectoryNext]_dVars
               PROVE  RightsIndInv' /\ EventsIndInv'
    OBVIOUS
  <2>1. (CRNext \/ UNCHANGED crVars) /\ (CENext \/ UNCHANGED ceVars)
    BY DEF DirectoryNext, dVars
  <2> QED BY <2>1, RightsStep, RightsStutter, EventsStep, EventsStutter
<1>3. RightsIndInv /\ EventsIndInv => CalendarsInv
  BY DEF RightsIndInv, EventsIndInv, CalendarsInv
<1> QED BY <1>1, <1>2, <1>3, PTL DEF DirectorySpec

(* Whatever part runs, addresses are followed by what points to them, and     *)
(* mail goes where its user asked it to go.                                  *)
THEOREM AddressesAlwaysFollow == OrdinaryNames => (DirectorySpec => []AddressesFollow)
<1> SUFFICES ASSUME OrdinaryNames PROVE DirectorySpec => []AddressesFollow
  OBVIOUS
<1>1. DirectoryInit => NamesInv /\ FWIndInv
  BY NamesInitially, ForwardsInitially DEF DirectoryInit
<1>2. NamesInv /\ FWIndInv /\ [DirectoryNext]_dVars => (NamesInv /\ FWIndInv)'
  <2> SUFFICES ASSUME NamesInv, FWIndInv, [DirectoryNext]_dVars
               PROVE  NamesInv' /\ FWIndInv'
    OBVIOUS
  <2>1. (Next \/ UNCHANGED vars) /\ (FWNext \/ UNCHANGED fwVars)
    BY DEF DirectoryNext, dVars
  <2> QED BY <2>1, NamesStep, NamesStutter, ForwardsStep
<1>3. NamesInv /\ FWIndInv => AddressesFollow
  BY NamesInvImplies, ForwardsImplied DEF AddressesFollow
<1> QED BY <1>1, <1>2, <1>3, PTL DEF DirectorySpec

(* Whatever part runs, no deletion and no change of recipients empties an     *)
(* alias but by removing an alias that was its recipient.                    *)
THEOREM AliasesNeverLeftEmpty == DirectorySpec => LeavesNoEmptyAlias
<1>1. DirectoryInit => IdRows
  BY RowsInitially DEF DirectoryInit
<1>2. IdRows /\ [DirectoryNext]_dVars => IdRows' /\ [NoneEmptied]_vars
  <2> SUFFICES ASSUME IdRows, [DirectoryNext]_dVars PROVE IdRows' /\ [NoneEmptied]_vars
    OBVIOUS
  <2>1. Next \/ UNCHANGED vars
    BY DEF DirectoryNext, dVars
  <2> QED BY <2>1, RowsStep, RowsStutter
<1>3. [NoneEmptied]_vars =>
        [\A a \in Pks : Emptied(a) =>
           \E r \in RecipientsOf(rcpts, a) : r.ref # None /\ alias'[r.ref] = None]_vars
  BY DEF NoneEmptied
<1> QED BY <1>1, <1>2, <1>3, PTL DEF DirectorySpec, LeavesNoEmptyAlias
=============================================================================
