------------------------- MODULE PolicyDaemonProofs -------------------------
(***************************************************************************)
(* Proofs about the policy daemon, for any number of connections, domains, *)
(* accounts and limits: type correctness, the inductive invariant IndInv,  *)
(* the three safety properties that follow from it, and the refinement of  *)
(* the abstract budget.                                                    *)
(***************************************************************************)
EXTENDS PolicyDaemon, FiniteSetTheorems, TLAPS

(* A connection's keys are keys of the hash, the domain's and the account's *)
(* being different ones.                                                    *)
LEMMA KeyAtType ==
  ASSUME TypeOK, NEW c \in Conns, acct[c] # None
  PROVE  /\ \A l \in Levels : KeyAt(c, l) \in Keys
         /\ KeyAt(c, "domain") # KeyAt(c, "account")
BY ConstantsAssumption DEF TypeOK, KeyAt, Keys, Levels

(* A coroutine's end is a reset of its local variables.                    *)
LEMMA EndRequestType ==
  ASSUME TypeOK, NEW c \in Conns, EndRequest(c)
  PROVE  /\ pc' \in [Conns -> {"free", "exists", "get", "decr", "send"}]
         /\ level' \in [Conns -> Levels]
         /\ acct' \in [Conns -> Accounts \cup {None}]
         /\ decr' \in [Conns -> SUBSET Levels]
         /\ reply' \in [Conns -> Replies]
         /\ charged' \in [Conns -> SUBSET Levels]
BY DEF TypeOK, EndRequest, Levels, Replies

(* Passing a check leaves the types alone.                                 *)
LEMMA NextCheckType ==
  ASSUME TypeOK, NEW c \in Conns, NEW found \in SUBSET Levels,
         NextCheck(c, found)
  PROVE  /\ pc' \in [Conns -> {"free", "exists", "get", "decr", "send"}]
         /\ level' \in [Conns -> Levels]
         /\ reply' \in [Conns -> Replies]
BY DEF TypeOK, NextCheck, AfterChecks, Levels, Replies

(* Every connection works on a key once it has an account.  A connection    *)
(* that is about to use a key has an account.                               *)
Busy(c) == pc[c] \in {"exists", "get", "decr"} => acct[c] # None

(* The type invariant of the daemon, with the fact that a request at work   *)
(* has an account, is inductive.                                            *)
LEMMA TypeStep ==
  ASSUME TypeOK, \A c \in Conns : Busy(c), [Next]_vars
  PROVE  TypeOK' /\ \A c \in Conns : Busy(c)'
<1> USE ConstantsAssumption DEF connVars, redisVars
<1>1. ASSUME NEW c \in Conns, Accept(c)
      PROVE  TypeOK' /\ \A d \in Conns : Busy(d)'
  BY <1>1 DEF Accept, TypeOK, Busy, Replies, Keys
<1>2. ASSUME NEW c \in Conns, Hexists(c)
      PROVE  TypeOK' /\ \A d \in Conns : Busy(d)'
  <2>1. decr[c] \in SUBSET Levels
    BY DEF TypeOK
  <2>2. CASE counter[KeyOf(c)] # None
    BY <1>2, <2>2 DEF Hexists, TypeOK, Busy
  <2>3. CASE counter[KeyOf(c)] = None
    <3>1. NextCheck(c, decr[c])
      BY <1>2, <2>3 DEF Hexists
    <3>2. UNCHANGED <<counter, spent, limit, acct, decr, charged, tasks, opened,
                      reset, todo>>
      BY <1>2 DEF Hexists
    <3>3. TypeOK'
      BY <2>1, <3>1, <3>2, NextCheckType DEF TypeOK
    <3>4. \A d \in Conns : Busy(d)'
      BY <1>2, <3>1, <3>2 DEF Hexists, NextCheck, AfterChecks, Busy, TypeOK
    <3> QED BY <3>3, <3>4
  <2> QED BY <2>2, <2>3
<1>3. ASSUME NEW c \in Conns, Hget(c)
      PROVE  TypeOK' /\ \A d \in Conns : Busy(d)'
  <2> DEFINE found == decr[c] \cup {level[c]}
  <2>1. found \in SUBSET Levels
    BY DEF TypeOK
  <2>2. UNCHANGED <<counter, spent, limit, tasks, opened, reset, todo>>
    BY <1>3 DEF Hget
  <2>3. CASE EndRequest(c)
    <3>1. TypeOK'
      BY <2>2, <2>3, EndRequestType DEF TypeOK
    <3>2. \A d \in Conns : Busy(d)'
      BY <2>3 DEF EndRequest, Busy, TypeOK
    <3> QED BY <3>1, <3>2
  <2>4. CASE /\ pc' = [pc EXCEPT ![c] = "send"]
             /\ reply' = [reply EXCEPT ![c] = "defer"]
             /\ UNCHANGED <<level, acct, decr, charged>>
    BY <2>2, <2>4 DEF TypeOK, Busy, Replies
  <2>5. CASE /\ decr' = [decr EXCEPT ![c] = found]
             /\ NextCheck(c, found)
             /\ UNCHANGED <<acct, charged>>
    <3>1. TypeOK'
      BY <2>1, <2>2, <2>5, NextCheckType DEF TypeOK
    <3>2. \A d \in Conns : Busy(d)'
      BY <1>3, <2>5 DEF Hget, NextCheck, AfterChecks, Busy, TypeOK
    <3> QED BY <3>1, <3>2
  <2> QED BY <1>3, <2>3, <2>4, <2>5 DEF Hget
<1>4. ASSUME NEW c \in Conns, DecrementLimit(c)
      PROVE  TypeOK' /\ \A d \in Conns : Busy(d)'
  <2>1. KeyOf(c) \in Keys
    BY <1>4, KeyAtType DEF DecrementLimit, KeyOf, TypeOK, Busy
  <2>2. Incremented(KeyOf(c), -1) \in Int
    BY <2>1 DEF Incremented, TypeOK
  <2>3. /\ counter' \in [Keys -> Int \cup {None}]
        /\ tasks' \in [Keys -> Nat]
        /\ spent' \in [Keys -> Nat]
    BY <1>4, <2>1, <2>2 DEF DecrementLimit, TypeOK
  <2>4. /\ charged' \in [Conns -> SUBSET Levels]
        /\ level' \in [Conns -> Levels]
        /\ pc' \in [Conns -> {"free", "exists", "get", "decr", "send"}]
        /\ reply' \in [Conns -> Replies]
    BY <1>4 DEF DecrementLimit, TypeOK, Levels, Replies
  <2>5. \A d \in Conns : Busy(d)'
    BY <1>4 DEF DecrementLimit, Busy, TypeOK
  <2> QED BY <1>4, <2>3, <2>4, <2>5 DEF DecrementLimit, TypeOK
<1>5. ASSUME NEW c \in Conns, EndRequest(c)
      PROVE  \A d \in Conns : Busy(d)'
  BY <1>5 DEF EndRequest, Busy, TypeOK
<1>6. ASSUME NEW c \in Conns, SendAction(c) \/ Abort(c)
      PROVE  TypeOK' /\ \A d \in Conns : Busy(d)'
  BY <1>5, <1>6, EndRequestType DEF SendAction, Abort, TypeOK
<1>7. ASSUME NEW c \in Conns, AbortDecrement(c)
      PROVE  TypeOK' /\ \A d \in Conns : Busy(d)'
  <2>1. KeyOf(c) \in Keys
    BY <1>7, KeyAtType DEF AbortDecrement, KeyOf, TypeOK, Busy
  <2>2. Incremented(KeyOf(c), -1) \in Int
    BY <2>1 DEF Incremented, TypeOK
  <2>3. /\ counter' \in [Keys -> Int \cup {None}]
        /\ spent' \in [Keys -> Nat]
    BY <1>7, <2>1, <2>2 DEF AbortDecrement, TypeOK
  <2> QED BY <1>5, <1>7, <2>3, EndRequestType DEF AbortDecrement, TypeOK
<1>8. ASSUME NEW k \in Keys, NotifyLimitReached(k)
      PROVE  TypeOK' /\ \A d \in Conns : Busy(d)'
  BY <1>8 DEF NotifyLimitReached, TypeOK, Busy, AlarmNames
<1>9. ASSUME ResetStep \/ ResetFails
      PROVE  TypeOK' /\ \A d \in Conns : Busy(d)'
  <2>1. CASE GetDomainsToReset
    BY <2>1 DEF GetDomainsToReset, CloseAlarms, Limited, TypeOK, Busy, Keys
  <2>2. CASE GetMailboxesToReset
    BY <2>2 DEF GetMailboxesToReset, CloseAlarms, Limited, TypeOK, Busy, Keys
  <2>3. CASE ResetCounter
    BY <2>3 DEF ResetCounter, TypeOK, Busy
  <2>4. CASE Reschedule \/ ResetFails
    BY <2>4 DEF Reschedule, ResetFails, TypeOK, Busy
  <2> QED BY <1>9, <2>1, <2>2, <2>3, <2>4 DEF ResetStep
<1>10. CASE Restart
  BY <1>10 DEF Restart, TypeOK, Busy, Levels, Replies
<1>11. CASE UNCHANGED vars
  BY <1>11 DEF vars, TypeOK, Busy
<1> QED
  BY <1>1, <1>2, <1>3, <1>4, <1>6, <1>7, <1>8, <1>9, <1>10, <1>11
     DEF Next, ConnStep

(* The daemon's state stays well typed, whatever requests, resets, time-    *)
(* outs, Redis errors and restarts do.                                      *)
THEOREM TypeCorrect == Spec => []TypeOK
<1>1. Init => TypeOK /\ \A c \in Conns : Busy(c)
  <2> SUFFICES ASSUME Init PROVE TypeOK /\ \A c \in Conns : Busy(c)
    OBVIOUS
  <2>1. /\ limit \in [Keys -> Nat \cup {None, NoRow}]
        /\ counter \in [Keys -> Int \cup {None}]
    <3>1. \A n \in Limits : n \in Nat
      BY ConstantsAssumption
    <3>2. \A n \in Limits : n \in Int
      BY <3>1
    <3> QED BY <3>1, <3>2 DEF Init
  <2>2. \A c \in Conns : Busy(c)
    BY DEF Init, DaemonInit, Busy
  <2> QED
    BY <2>1, <2>2 DEF Init, DaemonInit, TypeOK, Levels, Replies, AlarmNames
<1>2. /\ TypeOK
      /\ \A c \in Conns : Busy(c)
      /\ [Next]_vars
      => TypeOK' /\ (\A c \in Conns : Busy(c))'
  BY TypeStep
<1> QED
  BY <1>1, <1>2, PTL DEF Spec

-----------------------------------------------------------------------------
(* The requests in flight on a key are some of the connections.            *)
LEMMA InFlightFinite ==
  ASSUME NEW S \in SUBSET Conns
  PROVE  /\ IsFiniteSet(S)
         /\ Cardinality(S) \in Nat
         /\ Cardinality(Conns) \in Nat
         /\ Cardinality(S) <= Cardinality(Conns)
BY ConstantsAssumption, FS_Subset, FS_CardinalityType

(* What a step may do to a counter without breaking OverrunInv: leave it    *)
(* without a request joining those in flight, write a value that is not     *)
(* negative, or decrement it for a request that leaves them.                *)
Harmless(k) ==
  \/ counter'[k] = None
  \/ counter'[k] \in Nat
  \/ counter'[k] = counter[k] /\ InFlight(k)' \subseteq InFlight(k)
  \/ /\ counter[k] # None /\ counter'[k] = counter[k] - 1
     /\ \E c \in InFlight(k) : InFlight(k)' \subseteq InFlight(k) \ {c}

LEMMA OverrunStep ==
  ASSUME TypeOK, OverrunInv, \A k \in Keys : Harmless(k)
  PROVE  OverrunInv'
<1> SUFFICES ASSUME NEW k \in Keys, counter'[k] # None
             PROVE  counter'[k] - Cardinality(InFlight(k)') >= -Cardinality(Conns)
  BY DEF OverrunInv
<1> DEFINE S == InFlight(k)
           T == InFlight(k)'
           N == Cardinality(Conns)
<1>1. S \in SUBSET Conns /\ T \in SUBSET Conns
  BY DEF InFlight
<1>2. /\ N \in Nat
      /\ IsFiniteSet(S) /\ Cardinality(S) \in Nat
      /\ Cardinality(T) \in Nat /\ Cardinality(T) <= N
  BY <1>1, InFlightFinite
<1>3. counter[k] # None => counter[k] \in Int /\ counter[k] - Cardinality(S) >= -N
  BY DEF TypeOK, OverrunInv
<1>4. ASSUME counter'[k] \in Nat
      PROVE  counter'[k] - Cardinality(T) >= -N
  <2> HIDE DEF T, N
  <2> QED BY <1>2, <1>4
<1>5. ASSUME counter'[k] = counter[k], T \subseteq S
      PROVE  counter'[k] - Cardinality(T) >= -N
  <2>1. Cardinality(T) <= Cardinality(S)
    BY <1>2, <1>5, FS_Subset
  <2> HIDE DEF S, T, N
  <2> QED BY <1>2, <1>3, <1>5, <2>1
<1>6. ASSUME counter[k] # None, counter'[k] = counter[k] - 1,
             NEW c \in S, T \subseteq S \ {c}
      PROVE  counter'[k] - Cardinality(T) >= -N
  <2>1. IsFiniteSet(S \ {c}) /\ Cardinality(S \ {c}) = Cardinality(S) - 1
    BY <1>2, <1>6, FS_RemoveElement
  <2>2. Cardinality(T) <= Cardinality(S) - 1
    BY <1>6, <2>1, FS_Subset
  <2> HIDE DEF S, T, N
  <2> QED BY <1>2, <1>3, <1>6, <2>2
<1> QED
  BY <1>4, <1>5, <1>6 DEF Harmless

(* A step leaves the connections it does not touch as they were.           *)
SameConn(d) ==
  /\ pc'[d] = pc[d] /\ level'[d] = level[d] /\ acct'[d] = acct[d]
  /\ decr'[d] = decr[d] /\ reply'[d] = reply[d] /\ charged'[d] = charged[d]

(* No step of the daemon removes a counter.                                *)
CountersKept == \A k \in Keys : counter[k] # None => counter'[k] # None

LEMMA ConnFrame ==
  ASSUME TypeOK, CountersKept, NEW d \in Conns, ConnOK(d), SameConn(d)
  PROVE  ConnOK(d)'
<1>1. \A l \in decr[d] : acct[d] # None /\ KeyAt(d, l) \in Keys
  BY KeyAtType DEF TypeOK, ConnOK
<1>2. \A l \in decr[d] : KeyAt(d, l)' = KeyAt(d, l)
  BY DEF SameConn, KeyAt
<1>3. \A l \in decr'[d] : counter'[KeyAt(d, l)'] # None
  BY <1>1, <1>2 DEF SameConn, CountersKept, ConnOK
<1> QED
  BY <1>3 DEF SameConn, ConnOK

(* The end of a request restores the initial state of its connection.      *)
LEMMA ConnEnd ==
  ASSUME TypeOK, CountersKept, ConnInv, NEW c \in Conns, EndRequest(c)
  PROVE  ConnInv'
<1>1. ConnOK(c)'
  BY DEF EndRequest, ConnOK, TypeOK
<1>2. ASSUME NEW d \in Conns, d # c PROVE ConnOK(d)'
  <2>1. SameConn(d)
    BY <1>2 DEF EndRequest, SameConn, TypeOK
  <2> QED BY <2>1, ConnFrame DEF ConnInv
<1> QED
  BY <1>1, <1>2 DEF ConnInv

(* A request that ends is in flight no more.                               *)
LEMMA InFlightEnd ==
  ASSUME TypeOK, NEW c \in Conns, EndRequest(c), NEW k \in Keys
  PROVE  InFlight(k)' \subseteq InFlight(k) \ {c}
BY DEF EndRequest, InFlight, KeyAt, TypeOK

(* Without changes of these variables the same requests are in flight.     *)
LEMMA InFlightSame ==
  ASSUME UNCHANGED <<acct, decr, charged>>, NEW k \in Keys
  PROVE  InFlight(k)' = InFlight(k)
BY DEF InFlight, KeyAt

(* The inductive invariant is preserved by every step of the daemon.       *)
LEMMA IndStep ==
  ASSUME TypeOK, IndInv, [Next]_vars
  PROVE  IndInv'
<1> USE ConstantsAssumption DEF connVars, redisVars, IndInv
<1>1. ASSUME NEW c \in Conns, Accept(c)
      PROVE  IndInv'
  <2>1. CountersKept /\ \A k \in Keys : counter'[k] = counter[k]
    BY <1>1 DEF Accept, CountersKept
  <2>2. ConnOK(c)'
    <3>1. /\ decr[c] = {} /\ charged[c] = {} /\ reply[c] = "none"
          /\ acct[c] = None
      BY <1>1 DEF Accept, ConnInv, ConnOK
    <3>2. decr'[c] = {} /\ charged'[c] = {}
      BY <1>1, <3>1 DEF Accept
    <3>3. CASE pc' = [pc EXCEPT ![c] = "send"] /\ reply' = [reply EXCEPT ![c] = "dunno"]
      BY <3>2, <3>3 DEF ConnOK, TypeOK
    <3>4. ASSUME NEW a \in Accounts, acct' = [acct EXCEPT ![c] = a],
                 pc' = [pc EXCEPT ![c] = "exists"], UNCHANGED reply
          PROVE  ConnOK(c)'
      <4>1. acct'[c] # None /\ pc'[c] = "exists" /\ reply'[c] = "none"
        BY <3>1, <3>4 DEF TypeOK, Keys
      <4> QED BY <3>2, <4>1 DEF ConnOK
    <3> QED BY <1>1, <3>3, <3>4 DEF Accept
  <2>3. ASSUME NEW d \in Conns, d # c PROVE ConnOK(d)'
    <3>1. SameConn(d)
      BY <1>1, <2>3 DEF Accept, SameConn, TypeOK
    <3> QED BY <2>1, <3>1, ConnFrame DEF ConnInv
  <2>4. \A k \in Keys : InFlight(k)' \subseteq InFlight(k)
    BY <1>1 DEF Accept, InFlight, KeyAt, ConnInv, ConnOK, TypeOK
  <2>5. OverrunInv'
    BY <2>1, <2>4, OverrunStep DEF Harmless
  <2> QED BY <1>1, <2>2, <2>3, <2>5 DEF Accept, ConnInv, TodoInv
<1>2. ASSUME NEW c \in Conns, Hexists(c)
      PROVE  IndInv'
  <2>1. CountersKept /\ \A k \in Keys : counter'[k] = counter[k]
    BY <1>2 DEF Hexists, CountersKept
  <2>2. ConnOK(c)'
    <3>1. ConnOK(c) /\ decr[c] \in SUBSET Levels /\ level[c] \in Levels
      BY DEF ConnInv, TypeOK
    <3>2. CASE counter[KeyOf(c)] # None
      BY <1>2, <3>1, <3>2 DEF Hexists, ConnOK, KeyAt, TypeOK
    <3>3. CASE counter[KeyOf(c)] = None
      <4>1. /\ NextCheck(c, decr[c])
            /\ acct[c] # None /\ acct'[c] = acct[c] /\ reply[c] = "none"
            /\ charged[c] = {} /\ charged'[c] = {} /\ decr'[c] = decr[c]
            /\ decr[c] \subseteq {"domain"} \ {level[c]}
        BY <1>2, <3>1, <3>3 DEF Hexists, ConnOK
      <4>2. \A l \in decr'[c] : counter'[KeyAt(c, l)'] # None
        BY <1>2, <3>1, <4>1 DEF Hexists, ConnOK, KeyAt
      <4>3. CASE level[c] = "domain"
        BY <4>1, <4>2, <4>3 DEF NextCheck, ConnOK, TypeOK
      <4>4. CASE level[c] = "account" /\ decr[c] = {}
        BY <4>1, <4>2, <4>4 DEF NextCheck, AfterChecks, ConnOK, TypeOK
      <4>5. CASE level[c] = "account" /\ decr[c] = {"domain"}
        BY <4>1, <4>2, <4>5 DEF NextCheck, AfterChecks, ConnOK, TypeOK
      <4> QED BY <3>1, <4>1, <4>3, <4>4, <4>5 DEF Levels
    <3> QED BY <3>2, <3>3
  <2>3. ASSUME NEW d \in Conns, d # c PROVE ConnOK(d)'
    <3>1. SameConn(d)
      BY <1>2, <2>3 DEF Hexists, NextCheck, AfterChecks, SameConn, TypeOK
    <3> QED BY <2>1, <3>1, ConnFrame DEF ConnInv
  <2>4. \A k \in Keys : InFlight(k)' \subseteq InFlight(k)
    BY <1>2, InFlightSame DEF Hexists
  <2>5. OverrunInv'
    BY <2>1, <2>4, OverrunStep DEF Harmless
  <2> QED BY <1>2, <2>2, <2>3, <2>5 DEF Hexists, ConnInv, TodoInv
<1>3. ASSUME NEW c \in Conns, Hget(c)
      PROVE  IndInv'
  <2> DEFINE found == decr[c] \cup {level[c]}
  <2>1. CountersKept /\ \A k \in Keys : counter'[k] = counter[k]
    BY <1>3 DEF Hget, CountersKept
  <2>2. ConnOK(c) /\ acct[c] # None /\ KeyOf(c) \in Keys /\ level[c] \in Levels
    BY <1>3, KeyAtType DEF Hget, ConnInv, ConnOK, KeyOf, TypeOK
  <2>3. TodoInv'
    BY <1>3 DEF Hget, TodoInv
  <2>4. CASE EndRequest(c)
    BY <2>1, <2>3, <2>4, ConnEnd, InFlightEnd, OverrunStep DEF Harmless
  <2>5. CASE /\ pc' = [pc EXCEPT ![c] = "send"]
             /\ reply' = [reply EXCEPT ![c] = "defer"]
             /\ UNCHANGED <<level, acct, decr, charged>>
    <3>1. ConnOK(c)'
      BY <1>3, <2>2, <2>5 DEF Hget, ConnOK, KeyAt, TypeOK
    <3>2. ASSUME NEW d \in Conns, d # c PROVE ConnOK(d)'
      <4>1. SameConn(d)
        BY <2>5, <3>2 DEF SameConn, TypeOK
      <4> QED BY <2>1, <4>1, ConnFrame DEF ConnInv
    <3>3. OverrunInv'
      BY <2>1, <2>5, InFlightSame, OverrunStep DEF Harmless
    <3> QED BY <2>3, <3>1, <3>2, <3>3 DEF ConnInv
  <2>6. CASE /\ counter[KeyOf(c)] # None /\ counter[KeyOf(c)] > 0
             /\ decr' = [decr EXCEPT ![c] = found]
             /\ NextCheck(c, found)
             /\ UNCHANGED <<acct, charged>>
    <3>1. ConnOK(c)'
      <4>1. decr'[c] = found /\ acct'[c] = acct[c] /\ charged'[c] = {}
        BY <1>3, <2>2, <2>6 DEF Hget, ConnOK, TypeOK
      <4>2. \A l \in found : counter'[KeyAt(c, l)'] # None
        BY <1>3, <2>2, <2>6, <4>1 DEF Hget, ConnOK, KeyAt, KeyOf, TypeOK
      <4>3. CASE level[c] = "domain"
        BY <1>3, <2>2, <2>6, <4>1, <4>2, <4>3
           DEF Hget, NextCheck, ConnOK, TypeOK
      <4>4. CASE level[c] = "account"
        BY <1>3, <2>2, <2>6, <4>1, <4>2, <4>4
           DEF Hget, NextCheck, AfterChecks, ConnOK, TypeOK
      <4> QED BY <2>2, <4>3, <4>4 DEF Levels
    <3>2. ASSUME NEW d \in Conns, d # c PROVE ConnOK(d)'
      <4>1. SameConn(d)
        BY <2>6, <3>2 DEF NextCheck, AfterChecks, SameConn, TypeOK
      <4> QED BY <2>1, <4>1, ConnFrame DEF ConnInv
    <3>3. ASSUME NEW k \in Keys PROVE Harmless(k)
      <4>1. CASE k = KeyOf(c)
        BY <2>1, <2>2, <2>6, <4>1 DEF Harmless, TypeOK
      <4>2. CASE k # KeyOf(c)
        <5>1. InFlight(k)' \subseteq InFlight(k)
          BY <2>6, <4>2 DEF InFlight, KeyAt, KeyOf, TypeOK
        <5> QED BY <2>1, <5>1 DEF Harmless
      <4> QED BY <4>1, <4>2
    <3>4. OverrunInv'
      BY <3>3, OverrunStep
    <3> QED BY <2>3, <3>1, <3>2, <3>4 DEF ConnInv
  <2> QED BY <1>3, <2>4, <2>5, <2>6 DEF Hget
<1>4. ASSUME NEW c \in Conns, pc[c] = "decr"
      PROVE  /\ ConnOK(c) /\ acct[c] # None /\ level[c] \in Levels
             /\ KeyOf(c) \in Keys
             /\ counter[KeyOf(c)] # None
             /\ Incremented(KeyOf(c), -1) = counter[KeyOf(c)] - 1
             /\ Incremented(KeyOf(c), -1) \in Int
             /\ c \in InFlight(KeyOf(c))
  <2>1. ConnOK(c) /\ acct[c] # None /\ level[c] \in Levels
    BY <1>4 DEF ConnInv, ConnOK, TypeOK
  <2>2. KeyOf(c) \in Keys /\ counter[KeyOf(c)] # None
    BY <1>4, <2>1, KeyAtType DEF ConnOK, KeyOf
  <2>3. c \in InFlight(KeyOf(c))
    BY <1>4, <2>1 DEF ConnOK, InFlight, KeyOf
  <2>4. counter[KeyOf(c)] \in Int
    BY <2>2 DEF TypeOK
  <2> QED BY <2>1, <2>2, <2>3, <2>4 DEF Incremented
<1>5. ASSUME NEW c \in Conns, DecrementLimit(c)
      PROVE  IndInv'
  <2> DEFINE k == KeyOf(c)
  <2>0. /\ ConnOK(c) /\ acct[c] # None /\ level[c] \in Levels
        /\ k \in Keys /\ counter[k] # None /\ c \in InFlight(k)
        /\ Incremented(k, -1) = counter[k] - 1 /\ Incremented(k, -1) \in Int
    BY <1>4, <1>5 DEF DecrementLimit
  <2>1. /\ counter'[k] = counter[k] - 1 /\ counter'[k] # None
        /\ \A j \in Keys : j # k => counter'[j] = counter[j]
    BY <1>5, <2>0 DEF DecrementLimit, TypeOK
  <2>2. CountersKept
    BY <2>1 DEF CountersKept
  <2>3. /\ charged'[c] = charged[c] \cup {level[c]}
        /\ UNCHANGED <<acct, decr>>
        /\ \A d \in Conns : d # c => charged'[d] = charged[d]
    BY <1>5 DEF DecrementLimit, TypeOK
  <2>4. ConnOK(c)'
    <3>1. \A l \in decr[c] : KeyAt(c, l) \in Keys /\ KeyAt(c, l)' = KeyAt(c, l)
      BY <2>0, <2>3, KeyAtType DEF KeyAt, TypeOK
    <3>2. \A l \in decr'[c] : counter'[KeyAt(c, l)'] # None
      BY <2>0, <2>2, <2>3, <3>1 DEF CountersKept, ConnOK
    <3>3. CASE level[c] = "domain" /\ "account" \in decr[c]
      BY <1>5, <2>0, <2>3, <3>2, <3>3 DEF DecrementLimit, ConnOK, TypeOK, Levels
    <3>4. CASE ~(level[c] = "domain" /\ "account" \in decr[c])
      <4>1. decr[c] \subseteq charged'[c]
        BY <1>5, <2>0, <2>3, <3>4 DEF DecrementLimit, ConnOK, TypeOK, Levels
      <4>2. pc'[c] = "send" /\ reply'[c] = "dunno"
        BY <1>5, <3>4 DEF DecrementLimit, TypeOK
      <4>3. charged'[c] = decr'[c] /\ acct'[c] # None
        <5>1. charged[c] \subseteq decr[c] /\ level[c] \in decr[c]
          BY <1>5, <2>0 DEF DecrementLimit, ConnOK
        <5>2. charged'[c] = decr[c]
          BY <2>3, <4>1, <5>1
        <5> QED BY <2>0, <2>3, <5>2
      <4> QED
        BY <3>2, <4>2, <4>3 DEF ConnOK
    <3> QED BY <3>3, <3>4
  <2>5. ASSUME NEW d \in Conns, d # c PROVE ConnOK(d)'
    <3>1. SameConn(d)
      BY <1>5, <2>5 DEF DecrementLimit, SameConn, TypeOK
    <3> QED BY <2>2, <3>1, ConnFrame DEF ConnInv
  <2>6. ASSUME NEW j \in Keys PROVE Harmless(j)
    <3>1. InFlight(j)' \subseteq InFlight(j)
      BY <2>3 DEF InFlight, KeyAt, TypeOK
    <3>2. CASE j # k
      BY <2>1, <3>1, <3>2 DEF Harmless
    <3>3. CASE j = k
      <4>1. c \notin InFlight(j)'
        <5>1. \A l \in Levels : KeyAt(c, l)' = KeyAt(c, l)
          BY <2>3 DEF KeyAt
        <5>2. \A l \in Levels : l # level[c] => KeyAt(c, l) # j
          BY <2>0, <3>3, KeyAtType DEF KeyOf, Levels
        <5>3. \A l \in decr'[c] \ charged'[c] : l \in Levels /\ l # level[c]
          BY <2>3 DEF TypeOK
        <5> QED BY <5>1, <5>2, <5>3 DEF InFlight
      <4>2. InFlight(j)' \subseteq InFlight(j) \ {c}
        BY <3>1, <4>1
      <4> QED BY <2>0, <2>1, <3>3, <4>2 DEF Harmless
    <3> QED BY <3>2, <3>3
  <2>7. OverrunInv'
    BY <2>6, OverrunStep
  <2> QED BY <1>5, <2>4, <2>5, <2>7 DEF DecrementLimit, ConnInv, TodoInv
<1>6. ASSUME NEW c \in Conns, SendAction(c) \/ Abort(c)
      PROVE  IndInv'
  <2>1. EndRequest(c) /\ UNCHANGED <<counter, limit, todo>>
    BY <1>6 DEF SendAction, Abort
  <2>2. CountersKept
    BY <2>1 DEF CountersKept
  <2> QED
    BY <2>1, <2>2, ConnEnd, InFlightEnd, OverrunStep DEF Harmless, TodoInv
<1>7. ASSUME NEW c \in Conns, AbortDecrement(c)
      PROVE  IndInv'
  <2> DEFINE k == KeyOf(c)
  <2>0. /\ k \in Keys /\ counter[k] # None /\ c \in InFlight(k)
        /\ Incremented(k, -1) = counter[k] - 1 /\ Incremented(k, -1) \in Int
    BY <1>4, <1>7 DEF AbortDecrement
  <2>1. /\ counter'[k] = counter[k] - 1 /\ counter'[k] # None
        /\ \A j \in Keys : j # k => counter'[j] = counter[j]
    BY <1>7, <2>0 DEF AbortDecrement, TypeOK
  <2>2. CountersKept
    BY <2>1 DEF CountersKept
  <2>3. EndRequest(c) /\ UNCHANGED <<limit, todo>>
    BY <1>7 DEF AbortDecrement
  <2>4. ASSUME NEW j \in Keys PROVE Harmless(j)
    <3>1. InFlight(j)' \subseteq InFlight(j) \ {c}
      BY <2>3, InFlightEnd
    <3> QED BY <2>0, <2>1, <3>1 DEF Harmless
  <2> QED BY <2>2, <2>3, <2>4, ConnEnd, OverrunStep DEF TodoInv
<1>8. ASSUME UNCHANGED connVars, CountersKept,
             \A k \in Keys : counter'[k] \in Nat \/ counter'[k] = counter[k]
      PROVE  ConnInv' /\ OverrunInv'
  <2>1. \A d \in Conns : SameConn(d)
    BY <1>8 DEF SameConn
  <2>2. ConnInv'
    BY <1>8, <2>1, ConnFrame DEF ConnInv
  <2>3. \A k \in Keys : InFlight(k)' = InFlight(k)
    BY <1>8, InFlightSame
  <2>4. OverrunInv'
    BY <1>8, <2>3, OverrunStep DEF Harmless
  <2> QED BY <2>2, <2>4
<1>9. ASSUME NEW k \in Keys, NotifyLimitReached(k)
      PROVE  IndInv'
  BY <1>8, <1>9 DEF NotifyLimitReached, CountersKept, TodoInv
<1>10. ASSUME ResetStep \/ ResetFails
       PROVE  IndInv'
  <2>1. CASE GetDomainsToReset
    BY <1>8, <2>1 DEF GetDomainsToReset, CountersKept, TodoInv
  <2>2. CASE GetMailboxesToReset
    BY <1>8, <2>2 DEF GetMailboxesToReset, CountersKept, TodoInv
  <2>3. CASE ResetCounter
    <3>1. PICK e \in todo :
            /\ todo' = todo \ {e}
            /\ counter' = [counter EXCEPT ![e[1]] = e[2]]
            /\ UNCHANGED <<limit, connVars, tasks, opened, reset>>
      BY <2>3 DEF ResetCounter
    <3>2. e[1] \in Keys /\ e[2] \in Nat
      BY DEF TypeOK
    <3>3. \A k \in Keys : counter'[k] \in Nat \/ counter'[k] = counter[k]
      BY <3>1, <3>2 DEF TypeOK
    <3>4. CountersKept
      BY <3>3 DEF CountersKept
    <3>5. UNCHANGED connVars
      BY <3>1
    <3> QED BY <1>8, <3>1, <3>3, <3>4, <3>5 DEF TodoInv
  <2>4. CASE Reschedule \/ ResetFails
    BY <1>8, <2>4 DEF Reschedule, ResetFails, CountersKept, TodoInv
  <2> QED BY <1>10, <2>1, <2>2, <2>3, <2>4 DEF ResetStep
<1>11. CASE Restart
  <2>1. ConnInv'
    BY <1>11 DEF Restart, ConnInv, ConnOK
  <2>2. \A k \in Keys : InFlight(k)' \subseteq InFlight(k)
    BY <1>11 DEF Restart, InFlight
  <2>3. OverrunInv'
    BY <1>11, <2>2, OverrunStep DEF Restart, Harmless
  <2> QED BY <1>11, <2>1, <2>3 DEF Restart, TodoInv
<1>12. CASE UNCHANGED vars
  BY <1>8, <1>12 DEF vars, CountersKept, TodoInv
<1> QED
  BY <1>1, <1>2, <1>3, <1>5, <1>6, <1>7, <1>9, <1>10, <1>11, <1>12
     DEF Next, ConnStep

-----------------------------------------------------------------------------
(* The inductive invariant holds of every behaviour of the daemon.         *)
THEOREM IndInvariant == Spec => []IndInv
<1>1. Init => IndInv
  <2> SUFFICES ASSUME Init PROVE IndInv
    OBVIOUS
  <2>1. ConnInv /\ TodoInv
    BY DEF Init, DaemonInit, ConnInv, ConnOK, TodoInv
  <2>2. ASSUME NEW k \in Keys, counter[k] # None
        PROVE  counter[k] - Cardinality(InFlight(k)) >= -Cardinality(Conns)
    <3>1. InFlight(k) = {}
      BY DEF Init, DaemonInit, InFlight
    <3>2. Cardinality(InFlight(k)) = 0 /\ Cardinality(Conns) \in Nat
      BY <3>1, FS_EmptySet, FS_CardinalityType, ConstantsAssumption
    <3>3. counter[k] \in Limits
      BY <2>2 DEF Init
    <3>4. counter[k] \in Nat
      BY <3>3, ConstantsAssumption
    <3> QED BY <3>2, <3>4
  <2> QED BY <2>1, <2>2 DEF IndInv, OverrunInv
<1>2. TypeOK /\ IndInv /\ [Next]_vars => IndInv'
  BY IndStep
<1> QED
  BY <1>1, <1>2, TypeCorrect, PTL DEF Spec

(* What the model checker checks as one invariant of the daemon.            *)
THEOREM DaemonInvariant == Spec => []DaemonInv
BY TypeCorrect, IndInvariant, PTL DEF DaemonInv

(* No limit is overrun by more than one message per connection slot, in any *)
(* interleaving of requests, resets and failures.                           *)
THEOREM OverrunIsBounded == Spec => []OverrunBounded
<1>1. TypeOK /\ IndInv => OverrunBounded
  <2> SUFFICES ASSUME TypeOK, IndInv, NEW k \in Keys, counter[k] # None
               PROVE  counter[k] >= -Cardinality(Conns)
    BY DEF OverrunBounded
  <2> DEFINE S == InFlight(k)
             N == Cardinality(Conns)
  <2>1. Cardinality(S) \in Nat /\ N \in Nat
    BY InFlightFinite DEF InFlight
  <2>2. counter[k] \in Int /\ counter[k] - Cardinality(S) >= -N
    BY DEF TypeOK, IndInv, OverrunInv
  <2>3. counter[k] >= -N
    <3> HIDE DEF S, N
    <3> QED BY <2>1, <2>2
  <2> QED BY <2>3
<1> QED
  BY <1>1, TypeCorrect, IndInvariant, PTL

(* A refused request has been charged on no level.                         *)
THEOREM RefusalIsFree == Spec => []DeferredNotCharged
<1>1. IndInv => DeferredNotCharged
  BY DEF IndInv, ConnInv, ConnOK, DeferredNotCharged
<1> QED
  BY <1>1, IndInvariant, PTL

(* A request let through has been charged on every level that has a limit.  *)
THEOREM AcceptanceIsCharged == Spec => []AcceptedFullyCharged
<1>1. IndInv => AcceptedFullyCharged
  BY DEF IndInv, ConnInv, ConnOK, AcceptedFullyCharged
<1> QED
  BY <1>1, IndInvariant, PTL

-----------------------------------------------------------------------------
(* A decrement, noticed or not, is a Charge of the abstract budget.        *)
LEMMA ChargeStep ==
  ASSUME TypeOK, IndInv, NEW c \in Conns, pc[c] = "decr",
         counter' = [counter EXCEPT ![KeyOf(c)] = Incremented(KeyOf(c), -1)],
         UNCHANGED limit
  PROVE  Budget!Next
<1>1. ConnOK(c) /\ acct[c] # None /\ level[c] \in Levels
  BY DEF IndInv, ConnInv, ConnOK, TypeOK
<1>2. PICK k \in Keys : k = KeyOf(c)
  BY <1>1, KeyAtType DEF KeyOf
<1>3. counter[k] # None /\ c \in InFlight(k)
  BY <1>1, <1>2 DEF ConnOK, InFlight, KeyOf
<1> DEFINE S == InFlight(k)
           N == Cardinality(Conns)
<1>4. IsFiniteSet(S) /\ Cardinality(S) \in Nat /\ N \in Nat
  BY InFlightFinite DEF InFlight
<1>5. Cardinality(S) # 0
  BY <1>3, <1>4, FS_EmptySet
<1>6. counter[k] \in Int /\ counter[k] - Cardinality(S) >= -N
  BY <1>3 DEF TypeOK, IndInv, OverrunInv
<1>7. counter[k] > -N
  <2> HIDE DEF S, N
  <2> QED BY <1>4, <1>5, <1>6
<1>8. Budget!Charge(k)
  BY <1>2, <1>3, <1>7 DEF Budget!Charge, Incremented
<1> QED
  BY <1>8 DEF Budget!Next

(* The daemon implements the abstract budget: every step leaves the         *)
(* counters alone, charges one of them within the overdraft, or refills one *)
(* to its limit.                                                            *)
THEOREM DaemonImplementsBudget == Spec => ImplementsBudget
<1>1. Init => Budget!Init
  BY DEF Init, Budget!Init
<1>2. TypeOK /\ IndInv /\ [Next]_vars => [Budget!Next]_(Budget!vars)
  <2> SUFFICES ASSUME TypeOK, IndInv, [Next]_vars
               PROVE  Budget!Next \/ UNCHANGED <<counter, limit>>
    BY DEF Budget!vars
  <2>1. ASSUME NEW c \in Conns, Accept(c) \/ Hexists(c) \/ Hget(c)
                                 \/ SendAction(c) \/ Abort(c)
        PROVE  UNCHANGED <<counter, limit>>
    BY <2>1 DEF Accept, Hexists, Hget, SendAction, Abort, redisVars
  <2>2. ASSUME NEW c \in Conns, DecrementLimit(c) \/ AbortDecrement(c)
        PROVE  Budget!Next
    BY <2>2, ChargeStep DEF DecrementLimit, AbortDecrement
  <2>3. CASE ResetCounter
    <3>1. PICK e \in todo : /\ counter' = [counter EXCEPT ![e[1]] = e[2]]
                            /\ UNCHANGED limit
      BY <2>3 DEF ResetCounter
    <3>2. e[1] \in Keys /\ e[2] \in Nat /\ limit[e[1]] = e[2]
      BY DEF TypeOK, IndInv, TodoInv
    <3>3. e[2] # None
      BY <3>2, ConstantsAssumption
    <3>4. Budget!Refill(e[1])
      BY <3>1, <3>2, <3>3 DEF Budget!Refill
    <3> QED BY <3>2, <3>4 DEF Budget!Next
  <2>4. CASE GetDomainsToReset \/ GetMailboxesToReset \/ Reschedule
             \/ ResetFails \/ Restart
    BY <2>4 DEF GetDomainsToReset, GetMailboxesToReset, Reschedule, ResetFails,
                Restart, redisVars
  <2>5. ASSUME NEW k \in Keys, NotifyLimitReached(k)
        PROVE  UNCHANGED <<counter, limit>>
    BY <2>5 DEF NotifyLimitReached, redisVars
  <2>6. CASE UNCHANGED vars
    BY <2>6 DEF vars
  <2> QED
    BY <2>1, <2>2, <2>3, <2>4, <2>5, <2>6 DEF Next, ConnStep, ResetStep
<1> QED
  BY <1>1, <1>2, TypeCorrect, IndInvariant, PTL
     DEF Spec, ImplementsBudget, Budget!Spec
=============================================================================
