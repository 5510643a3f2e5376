------------------------- MODULE MessageLimitsProofs -------------------------
(* Proofs about the limits that the web application changes while the daemon *)
(* counts, for any number of requests, connections, domains and accounts: as *)
(* long as no step has lost track of it, a counter is in step with its limit.*)
EXTENDS MessageLimits, PolicyDaemonProofs

LimitValues == Nat \cup {None}
Request == [pc : {"loaded", "saved"}, pk : Pks, name : Keys, old : LimitValues, new : LimitValues]

WebRows == \A w \in Workers : web[w] = Idle \/ web[w] \in Request

(* Transactions that have saved wait for each other.                         *)
SavesApart ==
  \A w, x \in Workers :
    Saved(w) /\ Saved(x) /\ (web[w].pk = web[x].pk \/ web[w].name = web[x].name) => w = x

(* A row stays the row of a domain, or of a mailbox.                         *)
Classes ==
  \A w \in Workers : web[w].pc # "idle" =>
    /\ \A k \in Keys : pk[k] = web[w].pk => SameClass(k, web[w].name)
    /\ \A x \in Workers : web[x].pk = web[w].pk => SameClass(web[x].name, web[w].name)

(* The row a transaction has saved has its name already, or its counter is   *)
(* not tracked.                                                              *)
SavedRow ==
  \A w \in Workers : Saved(w) =>
    \A k \in Keys : synced[k] /\ pk[k] = web[w].pk => k = web[w].name

(* The counter of an object without a limit has not been decremented.        *)
NoneUnspent == \A k \in Keys : counter[k] = None => spent[k] = 0

(* What the counter of k should be when its limit is v.                      *)
Left(k, v) == IF v \in Nat THEN v - spent[k] ELSE None

(* Between the save and the commit the counter is in step with the limit to  *)
(* come, and the row is as it was loaded.                                    *)
SavedInStep ==
  \A w \in Workers : Saved(w) /\ synced[web[w].name] =>
    /\ counter[web[w].name] = Left(web[w].name, web[w].new)
    /\ IF pk[web[w].name] = None THEN web[w].old = None
       ELSE pk[web[w].name] = web[w].pk /\ limit[web[w].name] = web[w].old

Settled == SavesApart /\ SavedRow /\ SavedInStep /\ NoneUnspent /\ CountersInStep

MLIndInv ==
  /\ MLTypeOK
  /\ \A c \in Conns : Busy(c)
  /\ WebRows /\ Classes
  /\ Settled

-----------------------------------------------------------------------------
(* A worker that runs no request.                                            *)
LEMMA IdleIs == Idle.pc = "idle" /\ Idle.pk = None /\ Idle.name = None
  BY DEF Idle

(* A request is about a row and a key.                                       *)
LEMMA RequestIs ==
  ASSUME WebRows, NEW w \in Workers, web[w].pc # "idle"
  PROVE  /\ web[w] \in Request /\ web[w].pk \in Pks /\ web[w].pk # None
         /\ web[w].name \in Keys /\ web[w].name # None
         /\ web[w].old \in LimitValues /\ web[w].new \in LimitValues
  BY IdleIs, WebAssumption, ConstantsAssumption DEF WebRows, Request

(* Whoever has not saved takes no counter out of step.                       *)
LEMMA NothingSaved ==
  ASSUME Settled, UNCHANGED <<counter, spent, limit, pk, synced>>,
         \A x \in Workers : Saved(x) \/ Saved(x)' => web'[x] = web[x]
  PROVE  Settled'
<1>1. \A x \in Workers : Saved(x)' => Saved(x) /\ web'[x] = web[x]
  BY DEF Saved
<1>2. SavesApart' /\ SavedRow'
  BY <1>1 DEF Settled, SavesApart, SavedRow
<1>3. SavedInStep'
  BY <1>1 DEF Settled, SavedInStep, Left
<1>4. NoneUnspent'
  BY DEF Settled, NoneUnspent
<1>5. CountersInStep'
  BY <1>1 DEF Settled, CountersInStep, Uncommitted, Saved, InStep
<1> QED BY <1>2, <1>3, <1>4, <1>5 DEF Settled

(* Domains are no accounts.                                                  *)
LEMMA SameClassIs ==
  ASSUME NEW j, NEW k, NEW n, SameClass(k, j)
  PROVE  SameClass(j, k) /\ (SameClass(k, n) => SameClass(j, n) /\ SameClass(n, j))
  BY ConstantsAssumption DEF SameClass

(* A row is loaded, and changed in memory.                                   *)
LEMMA LoadStep ==
  ASSUME MLIndInv, NEW w \in Workers, NEW k \in Managed, NEW n \in Managed,
         NEW v \in Limits \cup {None}, Load(w, k, n, v)
  PROVE  MLIndInv'
<1> USE WebAssumption, ConstantsAssumption
<1>0. k \in Keys /\ n \in Keys /\ v \in LimitValues
  BY DEF LimitValues
<1>1. /\ web' = [web EXCEPT ![w] = [pc |-> "loaded", pk |-> pk[k], name |-> n,
                                    old |-> limit[k], new |-> v]]
      /\ UNCHANGED <<vars, pk, synced>> /\ pk[k] # None /\ web[w].pc = "idle" /\ SameClass(k, n)
  BY <1>0 DEF Load, SameClass, Keys
<1>2. pk[k] \in Pks /\ limit[k] \in LimitValues
  BY <1>0, <1>1 DEF MLIndInv, MLTypeOK, TypeOK, LimitValues
<1>3. web'[w] \in Request /\ \A x \in Workers \ {w} : web'[x] = web[x]
  BY <1>0, <1>1, <1>2 DEF MLIndInv, MLTypeOK, Request
<1>4. MLTypeOK'
  <2>1. web' \in [Workers -> [pc : {"idle", "loaded", "saved"}, pk : Pks \cup {None},
                          name : Keys \cup {None}, old : Nat \cup {None},
                          new : Nat \cup {None}]]
    BY <1>0, <1>1, <1>2 DEF MLIndInv, MLTypeOK, LimitValues
  <2> QED BY <1>1, <2>1 DEF MLIndInv, MLTypeOK, TypeOK, vars
<1>5. \A c \in Conns : Busy(c)'
  BY <1>1 DEF MLIndInv, Busy, vars
<1>6. WebRows'
  BY <1>3 DEF MLIndInv, WebRows
<1>7. Classes'
  <2>1. web'[w].pk = pk[k] /\ web'[w].name = n /\ pk' = pk
    BY <1>1 DEF MLIndInv, MLTypeOK
  <2>2. \A x \in Workers : web[x].pk = pk[k] => SameClass(web[x].name, n)
    <3> SUFFICES ASSUME NEW x \in Workers, web[x].pk = pk[k] PROVE SameClass(web[x].name, n)
      OBVIOUS
    <3>1. web[x].pc # "idle"
      BY <1>2, IdleIs DEF MLIndInv, WebRows, Request
    <3>2. SameClass(k, web[x].name)
      BY <1>0, <3>1 DEF MLIndInv, Classes
    <3> QED BY <1>1, <3>2, SameClassIs
  <2>3. \A j \in Keys : pk[j] = pk[k] => SameClass(j, n)
    BY <1>0, <1>1 DEF MLIndInv, MLTypeOK
  <2>4. \A x \in Workers \ {w} : web[x].pc # "idle" /\ web[x].pk = pk[k]
                                 => SameClass(n, web[x].name)
    BY <2>2 DEF SameClass
  <2>5. SameClass(n, n)
    BY <1>0 DEF SameClass, Keys
  <2> QED BY <1>3, <2>1, <2>2, <2>3, <2>4, <2>5 DEF MLIndInv, Classes
<1>8. Settled'
  <2>1. \A x \in Workers : Saved(x) \/ Saved(x)' => web'[x] = web[x]
    BY <1>1, <1>3 DEF Saved, MLIndInv, MLTypeOK
  <2> QED BY <1>1, <2>1, NothingSaved DEF MLIndInv, vars
<1> QED BY <1>4, <1>5, <1>6, <1>7, <1>8 DEF MLIndInv

(* A row that is to be inserted gets a primary key that nobody has.          *)
LEMMA NewStep ==
  ASSUME MLIndInv, NEW w \in Workers, NEW n \in Managed, NEW v \in Limits \cup {None}, New(w, n, v)
  PROVE  MLIndInv'
<1> USE WebAssumption, ConstantsAssumption
<1>0. n \in Keys /\ v \in LimitValues
  BY DEF LimitValues
<1>1. PICK p \in Pks \ {web[x].pk : x \in Workers} :
        /\ RowOf(p) = {}
        /\ web' = [web EXCEPT ![w] = [pc |-> "loaded", pk |-> p, name |-> n,
                                      old |-> None, new |-> v]]
        /\ UNCHANGED <<vars, pk, synced>> /\ web[w].pc = "idle"
  BY DEF New
<1>2. \A x \in Workers : web[x].pk # p
  BY <1>1
<1>3. web'[w] \in Request /\ \A x \in Workers \ {w} : web'[x] = web[x]
  BY <1>0, <1>1 DEF MLIndInv, MLTypeOK, Request, LimitValues
<1>4. MLTypeOK'
  <2>1. web' \in [Workers -> [pc : {"idle", "loaded", "saved"}, pk : Pks \cup {None},
                          name : Keys \cup {None}, old : Nat \cup {None},
                          new : Nat \cup {None}]]
    BY <1>0, <1>1 DEF MLIndInv, MLTypeOK, LimitValues
  <2> QED BY <1>1, <2>1 DEF MLIndInv, MLTypeOK, TypeOK, vars
<1>5. \A c \in Conns : Busy(c)'
  BY <1>1 DEF MLIndInv, Busy, vars
<1>6. WebRows'
  BY <1>3 DEF MLIndInv, WebRows
<1>7. Classes'
  <2>1. web'[w].pk = p /\ web'[w].name = n /\ pk' = pk
    BY <1>1 DEF MLIndInv, MLTypeOK
  <2>2. SameClass(n, n)
    BY <1>0 DEF SameClass, Keys
  <2>3. \A k \in Keys : pk[k] # p
    BY <1>1 DEF RowOf
  <2> SUFFICES ASSUME NEW y \in Workers, web'[y].pc # "idle"
               PROVE /\ \A k \in Keys : pk[k] = web'[y].pk => SameClass(k, web'[y].name)
                     /\ \A x \in Workers : web'[x].pk = web'[y].pk =>
                          SameClass(web'[x].name, web'[y].name)
    BY <2>1 DEF Classes
  <2>4. CASE y = w
    <3>1. \A x \in Workers : web'[x].pk = p => x = w
      BY <1>2, <1>3
    <3> QED BY <2>1, <2>2, <2>3, <2>4, <3>1
  <2>5. CASE y # w
    BY <1>2, <1>3, <2>1, <2>5 DEF MLIndInv, Classes
  <2> QED BY <2>4, <2>5
<1>8. Settled'
  <2>1. \A x \in Workers : Saved(x) \/ Saved(x)' => web'[x] = web[x]
    BY <1>1, <1>3 DEF Saved, MLIndInv, MLTypeOK
  <2> QED BY <1>1, <2>1, NothingSaved DEF MLIndInv, vars
<1> QED BY <1>4, <1>5, <1>6, <1>7, <1>8 DEF MLIndInv

(* What is left of a limit, and what the receiver makes of a counter.        *)
Remaining(v, s) == IF v \in Nat THEN v - s ELSE None
Resaved(old, new, count) ==
  IF old = new THEN count
  ELSE IF new = None THEN None
  ELSE (IF count = None THEN 0 ELSE count) + (IF old = None THEN new ELSE new - old)

(* The change of the limit, added to a counter in step with the old limit,   *)
(* gives one in step with the new limit.                                     *)
LEMMA CounterFollows ==
  ASSUME NEW old \in LimitValues, NEW new \in LimitValues, NEW s \in Nat,
         Remaining(old, s) = None => s = 0
  PROVE  LET after == Resaved(old, new, Remaining(old, s)) IN
         after = Remaining(new, IF after = None THEN 0 ELSE s)
<1> DEFINE count == Remaining(old, s)
           after == Resaved(old, new, count)
<1> USE ConstantsAssumption
<1>0. None \notin Nat
  OBVIOUS
<1>1. CASE old = new
  BY <1>0, <1>1 DEF LimitValues, Remaining, Resaved
<1>2. CASE old # new /\ new = None
  BY <1>0, <1>2 DEF Remaining, Resaved
<1>3. CASE old = None /\ new \in Nat
  BY <1>0, <1>3 DEF Remaining, Resaved
<1>4. CASE old \in Nat /\ new \in Nat /\ old # new
  <2>1. count = old - s /\ count \in Int /\ count # None
    BY <1>4 DEF Remaining
  <2>2. after = count + (new - old) /\ after # None
    <3> HIDE DEF count
    <3> QED BY <1>0, <1>4, <2>1 DEF Resaved
  <2>3. after = Remaining(new, IF after = None THEN 0 ELSE s)
    <3> HIDE DEF after, count
    <3> QED BY <1>4, <2>1, <2>2 DEF Remaining
  <2> QED BY <2>3
<1> QED BY <1>1, <1>2, <1>3, <1>4 DEF LimitValues

(* A save writes to Redis, and to the database what nobody sees yet.         *)
LEMMA SaveStep ==
  ASSUME MLIndInv, NEW w \in Workers, Save(w)
  PROVE  MLIndInv'
<1> USE WebAssumption, ConstantsAssumption
<1> DEFINE n == web[w].name
           c == set_message_limit(n, web[w].old, web[w].new)
<1>0. /\ web[w].pc \in {"loaded", "saved"} /\ web[w] \in Request /\ web[w].pk \in Pks
      /\ web[w].pk # None /\ n \in Keys
      /\ web[w].old \in LimitValues /\ web[w].new \in LimitValues
  BY RequestIs DEF Save, MLIndInv
<1>1. /\ \A x \in Workers \ {w} : Saved(x) => web[x].pk # web[w].pk /\ web[x].name # n
      /\ pk[n] \in {None, web[w].pk}
      /\ c[n] # None => c[n] \in Int
      /\ web' = [web EXCEPT ![w].pc = "saved"]
      /\ counter' = c
      /\ spent' = [spent EXCEPT ![n] = IF c[n] = None THEN 0 ELSE @]
      /\ synced' = [k \in Keys |->
                      /\ synced[k]
                      /\ k = n => KeepsTrack(w)
                      /\ k \in RowOf(web[w].pk) => k = n]
      /\ UNCHANGED <<limit, pk, connVars, tasks, opened, reset, todo>>
  BY DEF Save
<1>2. /\ c \in [Keys -> Int \cup {None}] /\ \A k \in Keys \ {n} : c[k] = counter[k]
  <2>1. counter \in [Keys -> Int \cup {None}]
    BY DEF MLIndInv, MLTypeOK, TypeOK
  <2> QED BY <1>0, <1>1, <2>1 DEF set_message_limit
<1>3. /\ web'[w] = [web[w] EXCEPT !.pc = "saved"]
      /\ web'[w].pk = web[w].pk /\ web'[w].name = n /\ web'[w].old = web[w].old
      /\ web'[w].new = web[w].new /\ web'[w] \in Request
      /\ \A x \in Workers \ {w} : web'[x] = web[x]
  <2>1. web \in [Workers -> [pc : {"idle", "loaded", "saved"}, pk : Pks \cup {None},
                          name : Keys \cup {None}, old : Nat \cup {None},
                          new : Nat \cup {None}]]
    BY DEF MLIndInv, MLTypeOK
  <2> QED BY <1>0, <1>1, <2>1 DEF Request
<1>4. /\ spent' \in [Keys -> Nat] /\ \A k \in Keys \ {n} : spent'[k] = spent[k]
      /\ spent'[n] = IF c[n] = None THEN 0 ELSE spent[n]
  <2>1. spent \in [Keys -> Nat]
    BY DEF MLIndInv, MLTypeOK, TypeOK
  <2> HIDE DEF c
  <2> QED BY <1>0, <1>1, <2>1
<1>5. /\ synced' \in [Keys -> BOOLEAN]
      /\ \A k \in Keys : synced'[k] => /\ synced[k] /\ (k = n => KeepsTrack(w))
                                       /\ (k \in RowOf(web[w].pk) => k = n)
  <2>1. synced \in [Keys -> BOOLEAN]
    BY DEF MLIndInv, MLTypeOK
  <2> QED BY <1>1, <2>1
<1> HIDE DEF c
<1>6. MLTypeOK'
  <2>1. web' \in [Workers -> [pc : {"idle", "loaded", "saved"}, pk : Pks \cup {None},
                          name : Keys \cup {None}, old : Nat \cup {None},
                          new : Nat \cup {None}]]
    BY <1>0, <1>1 DEF MLIndInv, MLTypeOK
  <2> QED BY <1>1, <1>2, <1>4, <1>5, <2>1 DEF MLIndInv, MLTypeOK, TypeOK, connVars
<1>7. \A d \in Conns : Busy(d)'
  BY <1>1 DEF MLIndInv, Busy, connVars
<1>8. WebRows'
  BY <1>3 DEF MLIndInv, WebRows
<1>9. Classes'
  BY <1>0, <1>1, <1>3 DEF MLIndInv, Classes
<1>10. SavesApart'
  BY <1>1, <1>3 DEF MLIndInv, Settled, SavesApart, Saved
<1>11. SavedRow'
  BY <1>1, <1>3, <1>5 DEF MLIndInv, Settled, SavedRow, Saved, RowOf
<1>12. NoneUnspent'
  BY <1>1, <1>2, <1>4 DEF MLIndInv, Settled, NoneUnspent
<1>13. ASSUME synced'[n]
       PROVE  /\ counter'[n] = IF web[w].new \in Nat THEN web[w].new - spent'[n] ELSE None
              /\ IF pk[n] = None THEN web[w].old = None
                 ELSE pk[n] = web[w].pk /\ limit[n] = web[w].old
  <2>1. synced[n] /\ KeepsTrack(w)
    BY <1>0, <1>5, <1>13
  <2>2. CASE web[w].pc = "loaded"
    <3>1. /\ IF pk[n] = None THEN counter[n] = None /\ web[w].old = None
             ELSE pk[n] = web[w].pk /\ limit[n] = web[w].old
      BY <2>1 DEF KeepsTrack
    <3>2. counter[n] = Left(n, web[w].old)
      <4>1. CASE pk[n] = None
        BY <3>1, <4>1 DEF Left
      <4>2. CASE pk[n] # None
        <5>1. ~Uncommitted(n)
          BY <1>1, <2>2, <3>1, <4>2 DEF Uncommitted, Saved
        <5> QED BY <1>0, <2>1, <3>1, <4>2, <5>1
              DEF MLIndInv, Settled, CountersInStep, InStep, Left
      <4> QED BY <4>1, <4>2
    <3>3. counter[n] = None => spent[n] = 0
      BY <1>0 DEF MLIndInv, Settled, NoneUnspent
    <3>4. spent[n] \in Nat /\ counter[n] \in Int \cup {None}
      BY <1>0 DEF MLIndInv, MLTypeOK, TypeOK
    <3>5. counter'[n] = c[n]
      BY <1>1
    <3>6. c[n] = IF web[w].old = web[w].new THEN counter[n]
                 ELSE IF web[w].new = None THEN None
                 ELSE Incremented(n, IF web[w].old = None THEN web[w].new
                                     ELSE web[w].new - web[w].old)
      BY <1>0 DEF c, set_message_limit, MLIndInv, MLTypeOK, TypeOK
    <3>7. spent'[n] = IF c[n] = None THEN 0 ELSE spent[n]
      BY <1>4
    <3>8. c[n] = IF web[w].new \in Nat THEN web[w].new - spent'[n] ELSE None
      <4>1. counter[n] = IF web[w].old \in Nat THEN web[w].old - spent[n] ELSE None
        BY <3>2 DEF Left
      <4>2. c[n] = IF web[w].old = web[w].new THEN counter[n]
                   ELSE IF web[w].new = None THEN None
                   ELSE (IF counter[n] = None THEN 0 ELSE counter[n])
                          + (IF web[w].old = None THEN web[w].new ELSE web[w].new - web[w].old)
        BY <3>6 DEF Incremented
      <4>3. /\ web[w].old \in LimitValues /\ web[w].new \in LimitValues /\ spent[n] \in Nat
            /\ counter[n] = None => spent[n] = 0
        BY <1>0, <3>3, <3>4
      <4>4. counter[n] = Remaining(web[w].old, spent[n])
            /\ c[n] = Resaved(web[w].old, web[w].new, counter[n])
        BY <4>1, <4>2 DEF Remaining, Resaved
      <4>5. c[n] = Remaining(web[w].new, spent'[n])
        BY ONLY <3>7, <4>3, <4>4, CounterFollows
      <4> QED BY <4>5 DEF Remaining
    <3> QED BY <3>1, <3>5, <3>8
  <2>3. CASE web[w].pc = "saved"
    <3>1. web[w].old = web[w].new
      BY <2>1, <2>3 DEF KeepsTrack
    <3>2. c = counter
      BY <3>1 DEF c, set_message_limit
    <3>3. /\ counter[n] = Left(n, web[w].new)
          /\ IF pk[n] = None THEN web[w].old = None
             ELSE pk[n] = web[w].pk /\ limit[n] = web[w].old
      BY <2>1, <2>3 DEF MLIndInv, Settled, SavedInStep, Saved
    <3>4. spent'[n] = IF counter[n] = None THEN 0 ELSE spent[n]
      BY <1>4, <3>2
    <3>5. spent[n] \in Nat
      BY <1>0 DEF MLIndInv, MLTypeOK, TypeOK
    <3> QED BY <1>1, <3>2, <3>3, <3>4, <3>5 DEF Left
  <2> QED BY <1>0, <2>2, <2>3
<1>14. SavedInStep'
  <2>1. ASSUME NEW x \in Workers \ {w}, Saved(x)
        PROVE  web[x].name # n /\ web[x].name \in Keys
    BY <1>1, <2>1, RequestIs DEF Saved, MLIndInv
  <2>2. ASSUME NEW x \in Workers \ {w}, Saved(x), synced'[web[x].name]
        PROVE  /\ counter'[web[x].name] = IF web[x].new \in Nat
                                            THEN web[x].new - spent'[web[x].name] ELSE None
               /\ IF pk[web[x].name] = None THEN web[x].old = None
                  ELSE pk[web[x].name] = web[x].pk /\ limit[web[x].name] = web[x].old
    <3>1. synced[web[x].name]
      BY <1>5, <2>1, <2>2
    <3>2. /\ counter[web[x].name] = IF web[x].new \in Nat
                                      THEN web[x].new - spent[web[x].name] ELSE None
          /\ IF pk[web[x].name] = None THEN web[x].old = None
             ELSE pk[web[x].name] = web[x].pk /\ limit[web[x].name] = web[x].old
      BY <2>2, <3>1 DEF MLIndInv, Settled, SavedInStep, Left
    <3> QED BY <1>1, <1>2, <1>4, <2>1, <2>2, <3>2
  <2>3. synced'[n] => counter'[n] = IF web[w].new \in Nat THEN web[w].new - spent'[n] ELSE None
    BY <1>13
  <2>4. \A x \in Workers \ {w} : web'[x].pc = "saved" => Saved(x)
    BY <1>3 DEF Saved
  <2> QED BY <1>1, <1>3, <1>13, <2>2, <2>3, <2>4 DEF SavedInStep, Saved, Left
<1>15. CountersInStep'
  <2> SUFFICES ASSUME NEW k \in Keys, synced'[k], ~Uncommitted(k)' PROVE InStep(k)'
    BY DEF CountersInStep
  <2>0. web'[w].pc = "saved"
    BY <1>0, <1>3 DEF Request
  <2>1. k # n /\ pk[k] # web[w].pk
    <3>1. k # web'[w].name /\ web'[w].pk # pk'[k]
      BY <2>0 DEF Uncommitted, Saved
    <3> QED BY <1>1, <1>3, <3>1
  <2>2. ~Uncommitted(k)
    BY <1>1, <1>3, <2>1 DEF Uncommitted, Saved
  <2> QED BY <1>1, <1>2, <1>4, <1>5, <2>1, <2>2 DEF MLIndInv, Settled, CountersInStep, InStep
<1> QED BY <1>6, <1>7, <1>8, <1>9, <1>10, <1>11, <1>12, <1>14, <1>15 DEF MLIndInv, Settled

(* The types of the requests when one worker has become idle.                *)
LEMMA EndedType ==
  ASSUME MLIndInv, NEW w \in Workers, web' = [web EXCEPT ![w] = Idle]
  PROVE  /\ web' \in [Workers -> [pc : {"idle", "loaded", "saved"}, pk : Pks \cup {None},
                          name : Keys \cup {None}, old : Nat \cup {None},
                          new : Nat \cup {None}]]
         /\ web'[w] = Idle /\ \A x \in Workers \ {w} : web'[x] = web[x]
         /\ WebRows'
         /\ \A x \in Workers : web'[x].pc # "idle" => x # w /\ web'[x] = web[x]
<1>1. web \in [Workers -> [pc : {"idle", "loaded", "saved"}, pk : Pks \cup {None},
                          name : Keys \cup {None}, old : Nat \cup {None},
                          new : Nat \cup {None}]]
  BY DEF MLIndInv, MLTypeOK
<1>2. Idle \in [pc : {"idle", "loaded", "saved"}, pk : Pks \cup {None},
                          name : Keys \cup {None}, old : Nat \cup {None},
                          new : Nat \cup {None}]
  BY DEF Idle
<1>3. web'[w] = Idle /\ \A x \in Workers \ {w} : web'[x] = web[x]
  BY <1>1
<1>4. WebRows'
  BY <1>3 DEF WebRows, MLIndInv
<1> QED BY <1>1, <1>2, <1>3, <1>4, IdleIs

(* The database forgets a request that fails, Redis does not.                *)
LEMMA RollbackStep ==
  ASSUME MLIndInv, NEW w \in Workers, Rollback(w)
  PROVE  MLIndInv'
<1> USE WebAssumption, ConstantsAssumption
<1> DEFINE n == web[w].name
<1>0. n \in Keys
  BY RequestIs DEF Rollback, MLIndInv
<1>1. /\ web' = [web EXCEPT ![w] = Idle] /\ UNCHANGED <<vars, pk>>
      /\ synced' = [synced EXCEPT ![n] = @ /\ (Saved(w) => web[w].old = web[w].new)]
  BY DEF Rollback
<1>2. /\ synced' \in [Keys -> BOOLEAN]
      /\ \A k \in Keys : synced'[k] => synced[k]
      /\ synced'[n] => (Saved(w) => web[w].old = web[w].new)
  <2>1. synced \in [Keys -> BOOLEAN]
    BY DEF MLIndInv, MLTypeOK
  <2> DEFINE ok == Saved(w) => web[w].old = web[w].new
  <2>2. synced' = [synced EXCEPT ![n] = @ /\ ok]
    BY <1>1
  <2> HIDE DEF ok
  <2>3. \A k \in Keys : synced'[k] = IF k = n THEN synced[n] /\ ok ELSE synced[k]
    <3> DEFINE b == synced[n] /\ ok
    <3>1. synced' = [synced EXCEPT ![n] = b]
      BY <2>2
    <3> HIDE DEF b
    <3>2. \A k \in Keys : synced'[k] = IF k = n THEN b ELSE synced[k]
      BY <1>0, <2>1, <3>1
    <3> QED BY <3>2, Zenon DEF b
  <2>4. DOMAIN synced' = Keys /\ synced' = [k \in Keys |-> synced'[k]]
    BY <2>1, <2>2, Zenon
  <2>5. synced'[n] => ok
    BY <1>0, <2>3, Zenon
  <2>6. ASSUME NEW k \in Keys PROVE synced'[k] \in BOOLEAN /\ (synced'[k] => synced[k])
    <3>1. CASE k = n
      <4>1. synced'[k] = (synced[n] /\ ok)
        BY <2>3, <3>1, Zenon
      <4>2. (synced[n] /\ ok) \in BOOLEAN
        BY Zenon
      <4> QED BY <3>1, <4>1, <4>2, Zenon
    <3>2. CASE k # n
      <4>1. synced'[k] = synced[k]
        BY <2>3, <3>2, Zenon
      <4> QED BY <2>1, <4>1, Zenon
    <3> QED BY <3>1, <3>2
  <2>7. synced' \in [Keys -> BOOLEAN]
    BY <2>4, <2>6, Zenon
  <2> QED BY <2>5, <2>6, <2>7 DEF ok
<1>3. MLTypeOK'
  <2>1. web' \in [Workers -> [pc : {"idle", "loaded", "saved"}, pk : Pks \cup {None},
                          name : Keys \cup {None}, old : Nat \cup {None},
                          new : Nat \cup {None}]]
    BY <1>1, EndedType
  <2> QED BY <1>1, <1>2, <2>1 DEF MLIndInv, MLTypeOK, TypeOK, vars
<1>4. \A d \in Conns : Busy(d)'
  BY <1>1 DEF MLIndInv, Busy, vars
<1>5. WebRows'
  BY <1>1, EndedType
<1>6. Classes'
  <2>1. \A x, y \in Workers : web'[x].pc # "idle" /\ web'[y].pk = web'[x].pk =>
          /\ web'[x] = web[x] /\ web[x].pc # "idle" /\ web[y].pk = web[x].pk /\ web'[y] = web[y]
    <3> SUFFICES ASSUME NEW x \in Workers, NEW y \in Workers, web'[x].pc # "idle",
                        web'[y].pk = web'[x].pk
                 PROVE  /\ web'[x] = web[x] /\ web[x].pc # "idle"
                        /\ web[y].pk = web[x].pk /\ web'[y] = web[y]
      OBVIOUS
    <3>1. web'[x] = web[x] /\ x # w
      BY <1>1, EndedType
    <3>2. web[x].pk # None
      BY <3>1, RequestIs DEF MLIndInv
    <3>3. y # w
      BY <1>1, <3>1, <3>2, EndedType, IdleIs
    <3> QED BY <1>1, <3>1, <3>3, EndedType
  <2> QED BY <1>1, <2>1 DEF MLIndInv, Classes
<1>7. \A x \in Workers : Saved(x)' => x # w /\ web'[x] = web[x] /\ Saved(x)
  BY <1>1, EndedType, IdleIs DEF Saved
<1>8. SavesApart' /\ SavedRow'
  BY <1>1, <1>2, <1>7 DEF MLIndInv, Settled, SavesApart, SavedRow, vars
<1>9. SavedInStep'
  <2>1. \A x \in Workers : Saved(x) => web[x].name \in Keys
    BY RequestIs DEF Saved, MLIndInv
  <2> QED BY <1>1, <1>2, <1>7, <2>1 DEF MLIndInv, Settled, SavedInStep, Left, vars
<1>10. NoneUnspent'
  BY <1>1 DEF MLIndInv, Settled, NoneUnspent, vars
<1>11. CountersInStep'
  <2> SUFFICES ASSUME NEW k \in Keys, synced'[k], ~Uncommitted(k)' PROVE InStep(k)'
    BY DEF CountersInStep
  <2>1. InStep(k)
    <3>1. CASE ~Uncommitted(k)
      BY <1>2, <3>1 DEF MLIndInv, Settled, CountersInStep
    <3>2. CASE Uncommitted(k)
      <4>1. Saved(w) /\ (n = k \/ web[w].pk = pk[k])
        <5>1. \A x \in Workers \ {w} : web'[x] = web[x]
          BY <1>1, EndedType
        <5> QED BY <1>1, <3>2, <5>1 DEF Uncommitted, Saved
      <4>2. k = n
        BY <1>2, <4>1 DEF MLIndInv, Settled, SavedRow
      <4>3. web[w].old = web[w].new /\ synced[n]
        BY <1>2, <4>1, <4>2
      <4>4. /\ counter[n] = Left(n, web[w].old)
            /\ IF pk[n] = None THEN web[w].old = None ELSE limit[n] = web[w].old
        BY <4>1, <4>3 DEF MLIndInv, Settled, SavedInStep
      <4>5. pk[n] = None <=> limit[n] = NoRow
        BY <1>0 DEF MLIndInv, MLTypeOK
      <4> QED BY <4>2, <4>4, <4>5 DEF InStep, Left
    <3> QED BY <3>1, <3>2
  <2> QED BY <1>1, <2>1 DEF InStep, vars
<1> QED BY <1>3, <1>4, <1>5, <1>6, <1>8, <1>9, <1>10, <1>11 DEF MLIndInv, Settled

(* A row is deleted, with the mailboxes of a domain; its counter stays.      *)
LEMMA RemoveStep ==
  ASSUME MLIndInv, NEW k \in Managed, Delete(k)
  PROVE  MLIndInv'
<1> USE WebAssumption, ConstantsAssumption
<1> DEFINE Gone == {k} \cup {a \in Accounts : DomainOf[a] = k}
<1>0. k \in Keys /\ Gone \subseteq Keys
  BY DEF Keys
<1>1. /\ \A n \in Gone : ~Uncommitted(n)
      /\ pk' = [n \in Keys |-> IF n \in Gone THEN None ELSE pk[n]]
      /\ limit' = [n \in Keys |-> IF n \in Gone THEN NoRow ELSE limit[n]]
      /\ opened' = [n \in Keys |-> IF n \in Gone THEN {} ELSE opened[n]]
      /\ synced' = [n \in Keys |-> synced[n] /\ (n \in Gone => counter[n] = None)]
      /\ UNCHANGED <<redisVars, web, connVars, tasks, reset, todo>>
  BY DEF Delete
<1>2. \A a \in Accounts : DomainOf[a] \in Gone => a \in Gone
  BY DEF Keys
<1> HIDE DEF Gone
<1>3. \A n \in Keys : IF n \in Gone THEN pk'[n] = None /\ limit'[n] = NoRow /\ opened'[n] = {}
                       ELSE pk'[n] = pk[n] /\ limit'[n] = limit[n] /\ opened'[n] = opened[n]
  BY <1>1
<1>4. synced' \in [Keys -> BOOLEAN]
      /\ \A n \in Keys : synced'[n] => synced[n] /\ (n \in Gone => counter[n] = None)
  <2>1. synced \in [Keys -> BOOLEAN]
    BY DEF MLIndInv, MLTypeOK
  <2> QED BY <1>1, <2>1
<1>5. MLTypeOK'
  <2>1. TypeOK'
    <3>1. limit' \in [Keys -> Nat \cup {None, NoRow}]
      BY <1>1 DEF MLIndInv, MLTypeOK, TypeOK
    <3>2. opened' \in [Keys -> SUBSET AlarmNames]
      BY <1>1 DEF MLIndInv, MLTypeOK, TypeOK
    <3> QED BY <1>1, <3>1, <3>2 DEF MLIndInv, MLTypeOK, TypeOK, redisVars, connVars
  <2>2. pk' \in [Keys -> Pks \cup {None}]
    BY <1>1 DEF MLIndInv, MLTypeOK
  <2>3. \A n \in Keys : pk'[n] = None <=> limit'[n] = NoRow
    BY <1>3 DEF MLIndInv, MLTypeOK
  <2>4. \A j, n \in Keys : pk'[j] = pk'[n] => j = n \/ pk'[n] = None
    BY <1>3 DEF MLIndInv, MLTypeOK
  <2>5. \A a \in Accounts : pk'[a] # None => pk'[DomainOf[a]] # None
    BY <1>2, <1>3 DEF MLIndInv, MLTypeOK, Keys
  <2> QED BY <1>1, <1>4, <2>1, <2>2, <2>3, <2>4, <2>5 DEF MLIndInv, MLTypeOK
<1>6. \A d \in Conns : Busy(d)'
  BY <1>1 DEF MLIndInv, Busy, connVars
<1>7. WebRows'
  BY <1>1 DEF MLIndInv, WebRows
<1>8. \A w \in Workers : web[w].pc # "idle" => web[w].pk # None
  BY RequestIs DEF MLIndInv
<1>9. Classes'
  BY <1>1, <1>3, <1>8 DEF MLIndInv, Classes
<1>10. SavesApart' /\ NoneUnspent'
  BY <1>1 DEF MLIndInv, Settled, SavesApart, NoneUnspent, Saved, redisVars
<1>11. SavedRow'
  BY <1>1, <1>3, <1>4, <1>8 DEF MLIndInv, Settled, SavedRow, Saved
<1>12. SavedInStep'
  <2>1. \A w \in Workers : Saved(w) => web[w].name \in Keys \ Gone
    BY <1>0, <1>1, RequestIs DEF MLIndInv, Uncommitted, Saved
  <2>2. \A x \in Workers : Saved(x)' <=> Saved(x)
    BY <1>1 DEF Saved
  <2>3. \A x \in Workers : Saved(x) /\ synced'[web[x].name] =>
          /\ counter[web[x].name] = Left(web[x].name, web[x].new)
          /\ IF pk'[web[x].name] = None THEN web[x].old = None
             ELSE pk'[web[x].name] = web[x].pk /\ limit'[web[x].name] = web[x].old
    BY <1>3, <1>4, <2>1 DEF MLIndInv, Settled, SavedInStep
  <2> QED BY <1>1, <2>2, <2>3 DEF SavedInStep, Left, redisVars
<1>13. CountersInStep'
  <2> SUFFICES ASSUME NEW n \in Keys, synced'[n], ~Uncommitted(n)' PROVE InStep(n)'
    BY DEF CountersInStep
  <2>1. CASE n \in Gone
    BY <1>1, <1>3, <1>4, <2>1 DEF InStep, redisVars
  <2>2. CASE n \notin Gone
    <3>1. ~Uncommitted(n)
      BY <1>1, <1>3, <2>2 DEF Uncommitted, Saved
    <3>2. InStep(n)
      BY <1>4, <3>1 DEF MLIndInv, Settled, CountersInStep
    <3> QED BY <1>1, <1>3, <2>2, <3>2 DEF InStep, redisVars
  <2> QED BY <2>1, <2>2
<1> QED BY <1>5, <1>6, <1>7, <1>9, <1>10, <1>11, <1>12, <1>13 DEF MLIndInv, Settled

(* Every row has at most one former name, of its own class, and every name   *)
(* that a request moves goes to one name.                                    *)
LEMMA FormerIs ==
  ASSUME MLIndInv, NEW w \in Workers, web[w].pc # "idle"
  PROVE  /\ \A n, j, k \in Keys : j \in Former(web[w], n) /\ k \in Former(web[w], n) => j = k
         /\ \A k, m, n \in Keys : k \in Former(web[w], m) /\ k \in Former(web[w], n) => m = n
         /\ \A k, n \in Keys : k \in Former(web[w], n) => SameClass(k, n) /\ pk[k] # None
<1> USE WebAssumption, ConstantsAssumption
<1>0. /\ web[w].pk # None /\ web[w].name \in Keys
      /\ \A k \in Keys : pk[k] = web[w].pk => SameClass(k, web[w].name)
      /\ \A j, k \in Keys : pk[j] = pk[k] => j = k \/ pk[k] = None
  BY RequestIs DEF MLIndInv, Classes, MLTypeOK
<1>1. ASSUME NEW k \in Keys, NEW n \in Keys, k \in Former(web[w], n)
      PROVE  \/ n = web[w].name /\ pk[k] = web[w].pk
             \/ /\ k \in Accounts /\ n \in Accounts /\ pk[k] # None
                /\ pk[DomainOf[k]] = web[w].pk /\ DomainOf[n] = web[w].name
                /\ LocalOf[k] = LocalOf[n]
  BY <1>1 DEF Former
<1>2. \A a \in Accounts : DomainOf[a] \in Domains /\ DomainOf[a] \in Keys /\ a \in Keys
                            /\ a \notin Domains
  BY DEF Keys
<1>3. ASSUME NEW n \in Keys, NEW j \in Keys, NEW k \in Keys,
             j \in Former(web[w], n), k \in Former(web[w], n)
      PROVE  j = k
  <2>1. CASE n = web[w].name /\ pk[j] = web[w].pk
    BY <1>0, <1>1, <1>2, <1>3, <2>1
  <2>2. CASE j \in Accounts /\ n \in Accounts /\ DomainOf[n] = web[w].name
    <3>1. n # web[w].name
      BY <1>2, <2>2
    <3>2. /\ pk[DomainOf[j]] = web[w].pk /\ pk[DomainOf[k]] = web[w].pk
          /\ j \in Accounts /\ k \in Accounts /\ LocalOf[j] = LocalOf[k]
      BY <1>1, <1>3, <3>1
    <3>3. DomainOf[j] = DomainOf[k]
      BY <1>0, <1>2, <3>2
    <3> QED BY <3>2, <3>3
  <2> QED BY <1>1, <1>3, <2>1, <2>2
<1>4. ASSUME NEW k \in Keys, NEW m \in Keys, NEW n \in Keys,
             k \in Former(web[w], m), k \in Former(web[w], n)
      PROVE  m = n
  <2>1. CASE m = web[w].name /\ pk[k] = web[w].pk
    <3>1. ~(k \in Accounts /\ pk[DomainOf[k]] = web[w].pk)
      BY <1>0, <1>2, <2>1
    <3> QED BY <1>1, <1>4, <2>1, <3>1
  <2>2. CASE k \in Accounts /\ pk[DomainOf[k]] = web[w].pk
    <3>1. pk[k] # web[w].pk
      BY <1>0, <1>2, <2>2
    <3>2. /\ m \in Accounts /\ n \in Accounts /\ DomainOf[m] = DomainOf[n]
          /\ LocalOf[m] = LocalOf[n]
      BY <1>1, <1>4, <3>1
    <3> QED BY <3>2
  <2> QED BY <1>1, <1>4, <2>1, <2>2
<1>5. ASSUME NEW k \in Keys, NEW n \in Keys, k \in Former(web[w], n)
      PROVE  SameClass(k, n) /\ pk[k] # None
  BY <1>0, <1>1, <1>5 DEF SameClass
<1> QED BY <1>3, <1>4, <1>5

(* The former name that a column takes its value from.                       *)
LEMMA ChosenIs ==
  ASSUME MLIndInv, NEW w \in Workers, web[w].pc # "idle", NEW n \in Keys,
         NEW k \in Keys, k \in Former(web[w], n)
  PROVE  (CHOOSE j \in Former(web[w], n) : TRUE) = k
<1>1. (CHOOSE j \in Former(web[w], n) : TRUE) \in Former(web[w], n)
  OBVIOUS
<1>2. (CHOOSE j \in Former(web[w], n) : TRUE) \in Keys
  BY <1>1 DEF Former
<1> QED BY <1>1, <1>2, FormerIs

(* The names that are left or taken by the request.                          *)
LEMMA VacatedIs ==
  ASSUME NEW r, NEW n \in Keys
  PROVE  n \in Vacated(r) <=> n = r.name \/ (\E m \in Keys : n \in Former(r, m))
<1> DEFINE A == UNION {Former(r, m) : m \in Keys}
<1>1. n \in A <=> \E m \in Keys : n \in Former(r, m)
  BY Zenon
<1>2. Vacated(r) = {r.name} \cup A
  BY DEF Vacated
<1> HIDE DEF A
<1>3. n \in Vacated(r) <=> n = r.name \/ n \in A
  BY <1>2
<1> QED BY <1>1, <1>3

(* Otherwise it holds the old value, or none when the name has been left.    *)
LEMMA ColumnUnmoved ==
  ASSUME NEW r, NEW f, NEW missing, NEW n \in Keys, \A k \in Keys : k \notin Former(r, n)
  PROVE  Column(r, f, missing)[n] = IF n \in Vacated(r) THEN missing ELSE f[n]
<1>1. Former(r, n) = {}
  <2>1. Former(r, n) \subseteq Keys
    BY DEF Former
  <2> QED BY <2>1
<1> QED BY <1>1 DEF Column

(* The column again, for the values of a type.                               *)
LEMMA ColumnType ==
  ASSUME MLIndInv, NEW w \in Workers, web[w].pc # "idle", NEW T, NEW f \in [Keys -> T],
         NEW missing \in T
  PROVE  Column(web[w], f, missing) \in [Keys -> T]
<1> DEFINE r == web[w]
<1>1. \A n \in Keys : Former(r, n) \subseteq Keys
  BY DEF Former
<1>2. \A n \in Keys : Former(r, n) # {} => (CHOOSE k \in Former(r, n) : TRUE) \in Keys
  BY <1>1
<1> QED BY <1>2 DEF Column

(* A commit writes the row and moves the rows that are named after it.       *)
LEMMA CommitStep ==
  ASSUME MLIndInv, NEW w \in Workers, Commit(w)
  PROVE  MLIndInv'
<1> USE WebAssumption, ConstantsAssumption
<1> DEFINE r == web[w]
           N == web[w].name
<1>0. /\ Saved(w) /\ web[w].pc # "idle" /\ r.pk \in Pks /\ r.pk # None /\ N \in Keys
      /\ r.new \in LimitValues /\ Nameable(N)
  BY RequestIs DEF Commit, Saved, MLIndInv
<1>1. /\ web' = [web EXCEPT ![w] = Idle]
      /\ pk' = [Column(r, pk, None) EXCEPT ![N] = r.pk]
      /\ limit' = [Column(r, limit, NoRow) EXCEPT ![N] = r.new]
      /\ opened' = Column(r, opened, {})
      /\ synced' = [k \in Keys |-> synced[k] /\ (\A n \in Keys : k \in Former(r, n) => k = n)
                                           /\ Former(r, k) \subseteq {k}]
      /\ UNCHANGED <<redisVars, connVars, tasks, reset, todo>>
  BY DEF Commit
<1> DEFINE Moved(k, n) == k \in Former(r, n)
<1>2. /\ \A n, j, k \in Keys : Moved(j, n) /\ Moved(k, n) => j = k
      /\ \A k, m, n \in Keys : Moved(k, m) /\ Moved(k, n) => m = n
      /\ \A k, n \in Keys : Moved(k, n) => SameClass(k, n) /\ pk[k] # None
  BY <1>0, FormerIs
<1>3. \A k \in Keys : pk[k] = r.pk => Moved(k, N)
  BY <1>0 DEF Former
<1>4. \A k, n \in Keys : Moved(k, n) /\ n # N =>
        /\ k \in Accounts /\ n \in Accounts /\ DomainOf[n] = N /\ pk[DomainOf[k]] = r.pk
        /\ DomainOf[k] \in Keys /\ k # DomainOf[k]
  BY DEF Former, Keys
<1>5. synced' \in [Keys -> BOOLEAN]
      /\ \A k \in Keys : synced'[k] =>
           synced[k] /\ \A n \in Keys : (Moved(k, n) => k = n) /\ (Moved(n, k) => k = n)
  <2>1. synced \in [Keys -> BOOLEAN]
    BY DEF MLIndInv, MLTypeOK
  <2> QED BY <1>1, <2>1
<1>6. /\ pk \in [Keys -> Pks \cup {None}] /\ limit \in [Keys -> Nat \cup {None, NoRow}]
      /\ opened \in [Keys -> SUBSET AlarmNames]
      /\ \A k \in Keys : pk[k] = None <=> limit[k] = NoRow
      /\ \A j, k \in Keys : pk[j] = pk[k] => j = k \/ pk[k] = None
      /\ \A a \in Accounts : pk[a] # None => pk[DomainOf[a]] # None
  BY DEF MLIndInv, MLTypeOK, TypeOK
<1>7. /\ Column(r, pk, None) \in [Keys -> Pks \cup {None}]
      /\ Column(r, limit, NoRow) \in [Keys -> Nat \cup {None, NoRow}]
      /\ opened' \in [Keys -> SUBSET AlarmNames]
  <2> HIDE DEF r
  <2>1. Column(web[w], pk, None) \in [Keys -> Pks \cup {None}]
    BY <1>0, <1>6, ColumnType
  <2>2. Column(web[w], limit, NoRow) \in [Keys -> Nat \cup {None, NoRow}]
    BY <1>0, <1>6, ColumnType
  <2>3. Column(web[w], opened, {}) \in [Keys -> SUBSET AlarmNames]
    BY <1>0, <1>6, ColumnType
  <2> QED BY <1>1, <2>1, <2>2, <2>3 DEF r
<1>8. /\ pk' \in [Keys -> Pks \cup {None}] /\ limit' \in [Keys -> Nat \cup {None, NoRow}]
      /\ pk'[N] = r.pk /\ limit'[N] = r.new
      /\ \A k \in Keys \ {N} : pk'[k] = Column(r, pk, None)[k]
                               /\ limit'[k] = Column(r, limit, NoRow)[k]
  BY <1>0, <1>1, <1>7 DEF LimitValues
<1>9. ASSUME NEW n \in Keys \ {N}
      PROVE  /\ \A k \in Keys : Moved(k, n) => pk'[n] = pk[k] /\ limit'[n] = limit[k]
             /\ (\A k \in Keys : ~Moved(k, n)) /\ (\A m \in Keys : ~Moved(n, m))
                  => pk'[n] = pk[n] /\ limit'[n] = limit[n]
             /\ (\A k \in Keys : ~Moved(k, n)) /\ (\E m \in Keys : Moved(n, m))
                  => pk'[n] = None /\ limit'[n] = NoRow
  <2> HIDE DEF Moved
  <2>1. /\ pk'[n] = Column(web[w], pk, None)[n]
        /\ limit'[n] = Column(web[w], limit, NoRow)[n]
    BY <1>8, <1>9
  <2>2. ASSUME NEW k \in Keys, Moved(k, n) PROVE pk'[n] = pk[k] /\ limit'[n] = limit[k]
    <3>1. k \in Former(web[w], n)
      BY <2>2 DEF Moved
    <3>2. /\ Column(web[w], pk, None)[n] = pk[k]
          /\ Column(web[w], limit, NoRow)[n] = limit[k]
      <4>1. n \in Keys /\ k \in Keys /\ w \in Workers /\ web[w].pc # "idle"
        BY <1>0, <1>9, <2>2
      <4>2. (CHOOSE j \in Former(web[w], n) : TRUE) = k
        BY <3>1, <4>1, ChosenIs
      <4>3. Former(web[w], n) # {}
        BY <3>1
      <4> QED BY <4>1, <4>2, <4>3 DEF Column
    <3> QED BY <2>1, <3>2
  <2>3. ASSUME \A k \in Keys : ~Moved(k, n)
        PROVE  /\ pk'[n] = IF n \in Vacated(web[w]) THEN None ELSE pk[n]
               /\ limit'[n] = IF n \in Vacated(web[w]) THEN NoRow ELSE limit[n]
    <3>1. \A k \in Keys : k \notin Former(web[w], n)
      BY <2>3 DEF Moved
    <3> QED BY <1>9, <2>1, <3>1, ColumnUnmoved
  <2>4. n \in Vacated(web[w]) <=> \E m \in Keys : Moved(n, m)
    BY <1>9, VacatedIs DEF Moved
  <2> QED BY <2>2, <2>3, <2>4
<1> HIDE DEF Moved
<1>10. MLTypeOK'
  <2>1. TypeOK'
    BY <1>1, <1>7, <1>8 DEF MLIndInv, MLTypeOK, TypeOK, redisVars, connVars
  <2>2. \A k \in Keys : pk'[k] = None <=> limit'[k] = NoRow
    <3>1. r.new # NoRow
      BY <1>0 DEF LimitValues
    <3>2. ASSUME NEW k \in Keys \ {N} PROVE pk'[k] = None <=> limit'[k] = NoRow
      BY <1>6, <1>9, <3>2
    <3> QED BY <1>0, <1>8, <3>1, <3>2
  <2>0. \A f, g \in Keys : pk[f] = pk[g] /\ pk[g] # None => f = g
    BY <1>6
  <2>3. ASSUME NEW j \in Keys, NEW k \in Keys, pk'[j] = pk'[k], pk'[k] # None
        PROVE  j = k
    <3>1. ASSUME NEW m \in Keys \ {N}, pk'[m] # None
          PROVE  \/ \E f \in Keys : Moved(f, m) /\ pk'[m] = pk[f]
                 \/ pk'[m] = pk[m] /\ \A n \in Keys : ~Moved(m, n)
      BY <1>9, <3>1
    <3>2. ASSUME NEW m \in Keys \ {N}, pk'[m] # None PROVE pk'[m] # r.pk
      <4>1. CASE \E f \in Keys : Moved(f, m) /\ pk'[m] = pk[f]
        <5>1. PICK f \in Keys : Moved(f, m) /\ pk'[m] = pk[f]
          BY <4>1
        <5>2. pk[DomainOf[f]] = r.pk /\ DomainOf[f] \in Keys /\ f # DomainOf[f]
          BY <1>4, <3>2, <5>1
        <5> QED BY <1>0, <1>6, <5>1, <5>2
      <4>2. CASE pk'[m] = pk[m] /\ \A n \in Keys : ~Moved(m, n)
        BY <1>0, <1>3, <4>2
      <4> QED BY <3>1, <3>2, <4>1, <4>2
    <3>3. CASE j # N /\ k # N
      <4>1. CASE \E f \in Keys : Moved(f, j) /\ pk'[j] = pk[f]
        <5>1. PICK f \in Keys : Moved(f, j) /\ pk'[j] = pk[f]
          BY <4>1
        <5>2. PICK g \in Keys : pk'[k] = pk[g] /\ (Moved(g, k) \/ (g = k /\ ~Moved(k, j)))
          <6>1. CASE \E g \in Keys : Moved(g, k) /\ pk'[k] = pk[g]
            BY <6>1
          <6>2. CASE pk'[k] = pk[k] /\ \A n \in Keys : ~Moved(k, n)
            BY <6>2
          <6> QED BY <2>3, <3>1, <3>3, <6>1, <6>2
        <5>3. f = g
          BY ONLY <2>0, <2>3, <5>1, <5>2, f \in Keys, g \in Keys
        <5> QED BY <1>2, <5>1, <5>2, <5>3
      <4>2. CASE pk'[j] = pk[j] /\ \A n \in Keys : ~Moved(j, n)
        <5>1. PICK g \in Keys : pk'[k] = pk[g] /\ (Moved(g, k) \/ g = k)
          BY <2>3, <3>1, <3>3
        <5>2. j = g
          BY ONLY <2>0, <2>3, <4>2, <5>1, j \in Keys, g \in Keys
        <5> QED BY <4>2, <5>1, <5>2
      <4> QED BY <2>3, <3>1, <3>3, <4>1, <4>2
    <3> QED BY <1>8, <2>3, <3>2, <3>3
  <2>4. ASSUME NEW a \in Accounts, pk'[a] # None PROVE pk'[DomainOf[a]] # None
    <3> DEFINE d == DomainOf[a]
    <3>0. d \in Keys /\ a \in Keys /\ d \in Domains /\ d \notin Accounts
      BY DEF Keys
    <3>1. CASE d = N
      BY <1>0, <1>8, <3>1
    <3>2. CASE d # N
      <4>1. pk[d] # None
        <5>1. CASE a = N
          BY <1>0, <5>1 DEF Nameable
        <5>2. CASE a # N
          <6>1. \A k \in Keys : ~Moved(k, a)
            BY <1>4, <3>0, <3>2, <5>2
          <6>2. pk[a] # None
            BY <1>9, <2>4, <3>0, <5>2, <6>1
          <6> QED BY <1>6, <6>2
        <5> QED BY <5>1, <5>2
      <4>2. \A k \in Keys : ~Moved(k, d)
        BY <1>4, <3>0, <3>2
      <4>3. \A m \in Keys : ~Moved(d, m)
        <5> SUFFICES ASSUME NEW m \in Keys, Moved(d, m) PROVE FALSE
          OBVIOUS
        <5>1. m = N /\ pk[d] = r.pk /\ N \in Domains
          <6>1. m = N
            BY <1>4, <3>0
          <6>2. SameClass(d, N) /\ pk[d] = r.pk
            BY <1>0, <1>2, <3>0, <6>1 DEF Moved, Former
          <6> QED BY <3>0, <6>1, <6>2 DEF SameClass
        <5>2. a # N
          BY <3>0, <5>1
        <5>3. \A k \in Keys : ~Moved(k, a)
          BY <1>4, <3>0, <3>2, <5>2
        <5>4. PICK b \in Accounts : DomainOf[b] = N /\ LocalOf[b] = LocalOf[a]
          BY <5>1
        <5>5. pk[a] # None
          BY <1>9, <2>4, <3>0, <5>2, <5>3
        <5>6. b \in Keys /\ Moved(a, b)
          BY <3>0, <5>1, <5>4, <5>5 DEF Moved, Former, Keys
        <5> QED BY <1>9, <2>4, <3>0, <5>2, <5>3, <5>6
      <4> QED BY <1>9, <3>0, <3>2, <4>1, <4>2, <4>3
    <3> QED BY <3>1, <3>2
  <2>5. web' \in [Workers -> [pc : {"idle", "loaded", "saved"}, pk : Pks \cup {None},
                          name : Keys \cup {None}, old : Nat \cup {None},
                          new : Nat \cup {None}]]
    BY <1>1, EndedType
  <2> QED BY <1>5, <1>8, <2>1, <2>2, <2>3, <2>4, <2>5 DEF MLTypeOK
<1>11. \A d \in Conns : Busy(d)'
  BY <1>1 DEF MLIndInv, Busy, connVars
<1>12. WebRows'
  BY <1>1, EndedType
<1>13. Classes'
  <2> SUFFICES ASSUME NEW x \in Workers, web'[x].pc # "idle"
               PROVE  /\ \A k \in Keys : pk'[k] = web'[x].pk => SameClass(k, web'[x].name)
                      /\ \A y \in Workers : web'[y].pk = web'[x].pk =>
                           SameClass(web'[y].name, web'[x].name)
    BY DEF Classes
  <2>1. x # w /\ web'[x] = web[x] /\ web[x].pk # None /\ web[x].pc # "idle"
    <3>1. x # w /\ web'[x] = web[x]
      BY <1>1, EndedType
    <3> QED BY <3>1, RequestIs DEF MLIndInv
  <2>2. /\ \A k \in Keys : pk[k] = web[x].pk => SameClass(k, web[x].name)
        /\ \A y \in Workers : web[y].pk = web[x].pk => SameClass(web[y].name, web[x].name)
    BY <2>1 DEF MLIndInv, Classes
  <2>3. ASSUME NEW k \in Keys, pk'[k] = web[x].pk PROVE SameClass(k, web[x].name)
    <3>1. CASE k = N
      BY <1>8, <2>2, <2>3, <3>1
    <3>2. CASE k # N /\ \E f \in Keys : Moved(f, k)
      <4>1. PICK f \in Keys : Moved(f, k)
        BY <3>2
      <4>2. SameClass(f, web[x].name) /\ SameClass(f, k)
        BY <1>2, <1>9, <2>2, <2>3, <3>2, <4>1
      <4> QED BY <4>2, SameClassIs
    <3>3. CASE k # N /\ \A f \in Keys : ~Moved(f, k)
      BY <1>9, <2>1, <2>2, <2>3, <3>3
    <3> QED BY <3>1, <3>2, <3>3
  <2>4. ASSUME NEW y \in Workers, web'[y].pk = web[x].pk
        PROVE  web'[y] = web[y]
    BY <1>1, <2>1, <2>4, EndedType, IdleIs
  <2> QED BY <2>1, <2>2, <2>3, <2>4
<1>14. \A x \in Workers : Saved(x)' => x # w /\ web'[x] = web[x] /\ Saved(x)
  BY <1>1, EndedType, IdleIs DEF Saved
<1>15. SavesApart'
  BY <1>14 DEF MLIndInv, Settled, SavesApart
<1>16. ASSUME NEW k \in Keys \ {N}, synced'[k]
       PROVE  pk'[k] = pk[k] /\ limit'[k] = limit[k]
  BY <1>5, <1>9, <1>16
<1>17. SavedRow'
  <2> SUFFICES ASSUME NEW x \in Workers, Saved(x)', NEW k \in Keys, synced'[k],
                      pk'[k] = web'[x].pk
               PROVE  k = web'[x].name
    BY DEF SavedRow
  <2>1. x # w /\ web'[x] = web[x] /\ Saved(x)
    BY <1>14
  <2>2. web[x].pk # r.pk
    BY <1>0, <2>1 DEF MLIndInv, Settled, SavesApart
  <2>3. k # N
    BY <1>8, <2>1, <2>2
  <2> QED BY <1>5, <1>16, <2>1, <2>3 DEF MLIndInv, Settled, SavedRow
<1>18. SavedInStep'
  <2>1. ASSUME NEW x \in Workers, Saved(x), x # w, synced'[web[x].name]
        PROVE  /\ counter[web[x].name] = Left(web[x].name, web[x].new)
               /\ IF pk'[web[x].name] = None THEN web[x].old = None
                  ELSE pk'[web[x].name] = web[x].pk /\ limit'[web[x].name] = web[x].old
    <3>1. web[x].name # N
      BY <1>0, <2>1 DEF MLIndInv, Settled, SavesApart
    <3>2. web[x].name \in Keys
      BY <2>1, RequestIs DEF MLIndInv, Saved
    <3> QED BY <1>5, <1>16, <2>1, <3>1, <3>2 DEF MLIndInv, Settled, SavedInStep
  <2>2. counter' = counter /\ spent' = spent
    BY <1>1 DEF redisVars
  <2> SUFFICES ASSUME NEW x \in Workers, Saved(x)', synced'[web'[x].name]
               PROVE  /\ counter'[web'[x].name] = IF web'[x].new \in Nat
                            THEN web'[x].new - spent'[web'[x].name] ELSE None
                      /\ IF pk'[web'[x].name] = None THEN web'[x].old = None
                         ELSE /\ pk'[web'[x].name] = web'[x].pk
                              /\ limit'[web'[x].name] = web'[x].old
    BY DEF SavedInStep, Left
  <2>3. x # w /\ web'[x] = web[x] /\ Saved(x)
    BY <1>14
  <2> QED BY <2>1, <2>2, <2>3 DEF Left
<1>19. NoneUnspent'
  BY <1>1 DEF MLIndInv, Settled, NoneUnspent, redisVars
<1>20. CountersInStep'
  <2> SUFFICES ASSUME NEW k \in Keys, synced'[k], ~Uncommitted(k)' PROVE InStep(k)'
    BY DEF CountersInStep
  <2>1. CASE k = N
    <3>1. counter[N] = Left(N, r.new)
      BY <1>0, <1>5, <2>1 DEF MLIndInv, Settled, SavedInStep
    <3> QED BY <1>1, <1>8, <2>1, <3>1 DEF InStep, Left, redisVars
  <2>2. CASE k # N
    <3>1. pk'[k] = pk[k] /\ limit'[k] = limit[k] /\ synced[k]
      BY <1>5, <1>16, <2>2
    <3>2. ~Uncommitted(k)
      <4>1. pk[k] # r.pk
        BY <1>0, <1>3, <1>5, <2>2
      <4>2. \A x \in Workers \ {w} : web'[x] = web[x]
        BY <1>1, EndedType
      <4> QED BY <2>2, <3>1, <4>1, <4>2 DEF Uncommitted, Saved
    <3> QED BY <1>1, <3>1, <3>2 DEF MLIndInv, Settled, CountersInStep, InStep, redisVars
  <2> QED BY <2>1, <2>2
<1> QED BY <1>10, <1>11, <1>12, <1>13, <1>15, <1>17, <1>18, <1>19, <1>20 DEF MLIndInv, Settled

(* Apart from the reset, the daemon only decrements: one counter at a time.  *)
Charges ==
  \/ UNCHANGED redisVars
  \/ \E k \in Keys : /\ counter' = [counter EXCEPT ![k] = Incremented(k, -1)]
                     /\ spent' = [spent EXCEPT ![k] = @ + 1]

(* So do its steps, each one, and none changes a limit.                      *)
LEMMA DaemonCharges ==
  ASSUME TypeOK, \A c \in Conns : Busy(c),
         \/ \E c \in Conns : Accept(c) \/ ConnStep(c) \/ Abort(c) \/ AbortDecrement(c)
         \/ \E k \in Keys : NotifyLimitReached(k)
         \/ GetDomainsToReset \/ GetMailboxesToReset \/ Reschedule \/ ResetFails \/ Restart
  PROVE  Charges /\ limit' = limit
<1> USE DEF connVars, redisVars
<1>1. ASSUME NEW c \in Conns, pc[c] = "decr" PROVE KeyOf(c) \in Keys
  BY <1>1, KeyAtType DEF KeyOf, TypeOK, Busy
<1>2. CASE \E c \in Conns : Accept(c) \/ Abort(c)
  BY <1>2 DEF Accept, Abort, Charges
<1>3. CASE \E c \in Conns : ConnStep(c)
  <2>1. PICK c \in Conns : Hexists(c) \/ Hget(c) \/ DecrementLimit(c) \/ SendAction(c)
    BY <1>3 DEF ConnStep
  <2>2. CASE Hexists(c) \/ Hget(c) \/ SendAction(c)
    BY <2>2 DEF Hexists, Hget, SendAction, Charges
  <2>3. CASE DecrementLimit(c)
    <3>1. /\ pc[c] = "decr" /\ limit' = limit
          /\ counter' = [counter EXCEPT ![KeyOf(c)] = Incremented(KeyOf(c), -1)]
          /\ spent' = [spent EXCEPT ![KeyOf(c)] = @ + 1]
      BY <2>3 DEF DecrementLimit
    <3> QED BY <1>1, <3>1 DEF Charges
  <2> QED BY <2>1, <2>2, <2>3
<1>4. CASE \E c \in Conns : AbortDecrement(c)
  <2>1. PICK c \in Conns : AbortDecrement(c)
    BY <1>4
  <2>2. /\ pc[c] = "decr" /\ limit' = limit
        /\ counter' = [counter EXCEPT ![KeyOf(c)] = Incremented(KeyOf(c), -1)]
        /\ spent' = [spent EXCEPT ![KeyOf(c)] = @ + 1]
    BY <2>1 DEF AbortDecrement
  <2> QED BY <1>1, <2>2 DEF Charges
<1>5. CASE \E k \in Keys : NotifyLimitReached(k)
  BY <1>5 DEF NotifyLimitReached, Charges
<1>6. CASE GetDomainsToReset \/ GetMailboxesToReset \/ Reschedule \/ ResetFails \/ Restart
  BY <1>6 DEF GetDomainsToReset, GetMailboxesToReset, Reschedule, ResetFails, Restart, Charges
<1> QED BY <1>2, <1>3, <1>4, <1>5, <1>6

(* A decrement keeps a tracked counter in step.                              *)
LEMMA ChargesStep ==
  ASSUME MLIndInv, Charges, UNCHANGED <<limit, pk, web>>,
         synced' = [k \in Keys |-> synced[k] /\ (counter[k] = None => counter'[k] = None)]
  PROVE  Settled' /\ synced' \in [Keys -> BOOLEAN]
<1> USE ConstantsAssumption
<1>0. /\ counter \in [Keys -> Int \cup {None}] /\ spent \in [Keys -> Nat]
      /\ synced \in [Keys -> BOOLEAN]
  BY DEF MLIndInv, MLTypeOK, TypeOK
<1>1. synced' \in [Keys -> BOOLEAN]
      /\ \A k \in Keys : synced'[k] => synced[k] /\ (counter[k] = None => counter'[k] = None)
  BY <1>0
<1>2. ASSUME NEW k \in Keys
      PROVE  \/ counter'[k] = counter[k] /\ spent'[k] = spent[k]
             \/ counter[k] = None /\ counter'[k] # None
             \/ counter[k] \in Int /\ counter'[k] = counter[k] - 1 /\ spent'[k] = spent[k] + 1
  <2>1. CASE UNCHANGED redisVars
    BY <2>1 DEF redisVars
  <2>2. CASE \E j \in Keys : /\ counter' = [counter EXCEPT ![j] = Incremented(j, -1)]
                            /\ spent' = [spent EXCEPT ![j] = @ + 1]
    <3>1. PICK j \in Keys : /\ counter' = [counter EXCEPT ![j] = Incremented(j, -1)]
                            /\ spent' = [spent EXCEPT ![j] = @ + 1]
      BY <2>2
    <3>2. CASE k # j
      BY <1>0, <3>1, <3>2
    <3>3. CASE k = j
      <4>1. counter'[k] = Incremented(k, -1) /\ spent'[k] = spent[k] + 1
        BY <1>0, <3>1, <3>3
      <4> QED BY <1>0, <4>1 DEF Incremented
    <3> QED BY <3>2, <3>3
  <2> QED BY <2>1, <2>2 DEF Charges
<1>3. ASSUME NEW k \in Keys, NEW v \in Nat \cup {None, NoRow}, synced'[k],
             counter[k] = IF v \in Nat THEN v - spent[k] ELSE None
      PROVE  counter'[k] = IF v \in Nat THEN v - spent'[k] ELSE None
  <2>1. spent[k] \in Nat /\ None \notin Int
    BY <1>0
  <2>2. counter[k] = None => counter'[k] = None
    BY <1>1, <1>3
  <2> QED BY <1>2, <1>3, <2>1, <2>2
<1>4. SavesApart' /\ SavedRow'
  BY <1>1 DEF MLIndInv, Settled, SavesApart, SavedRow, Saved
<1>5. SavedInStep'
  <2>1. ASSUME NEW w \in Workers, Saved(w), synced'[web[w].name]
        PROVE  /\ counter'[web[w].name] = IF web[w].new \in Nat
                                            THEN web[w].new - spent'[web[w].name] ELSE None
               /\ IF pk[web[w].name] = None THEN web[w].old = None
                  ELSE pk[web[w].name] = web[w].pk /\ limit[web[w].name] = web[w].old
    <3>1. web[w].name \in Keys /\ web[w].new \in Nat \cup {None, NoRow}
      BY <2>1, RequestIs DEF MLIndInv, Saved, LimitValues
    <3>2. /\ counter[web[w].name] = IF web[w].new \in Nat
                                      THEN web[w].new - spent[web[w].name] ELSE None
          /\ IF pk[web[w].name] = None THEN web[w].old = None
             ELSE pk[web[w].name] = web[w].pk /\ limit[web[w].name] = web[w].old
      BY <1>1, <2>1, <3>1 DEF MLIndInv, Settled, SavedInStep, Left
    <3> QED BY <1>3, <2>1, <3>1, <3>2
  <2> QED BY <2>1 DEF SavedInStep, Saved, Left
<1>6. NoneUnspent'
  BY <1>0, <1>2 DEF MLIndInv, Settled, NoneUnspent
<1>7. CountersInStep'
  <2> SUFFICES ASSUME NEW k \in Keys, synced'[k], ~Uncommitted(k)' PROVE InStep(k)'
    BY DEF CountersInStep
  <2>1. ~Uncommitted(k)
    BY DEF Uncommitted, Saved
  <2>2. counter[k] = IF limit[k] \in Nat THEN limit[k] - spent[k] ELSE None
    BY <1>1, <2>1 DEF MLIndInv, Settled, CountersInStep, InStep
  <2>3. limit[k] \in Nat \cup {None, NoRow}
    BY DEF MLIndInv, MLTypeOK, TypeOK
  <2> QED BY <1>3, <2>2, <2>3 DEF InStep
<1> QED BY <1>1, <1>4, <1>5, <1>6, <1>7 DEF Settled

(* A reset brings a counter in step, if no request is about to change it.    *)
LEMMA ResetCounterStep ==
  ASSUME MLIndInv, ResetCounter, UNCHANGED <<pk, web>>,
         synced' = [k \in Keys |->
              IF \E e \in todo \ todo' : e[1] = k
                THEN limit[k] = counter'[k] /\ ~Uncommitted(k)
                ELSE synced[k]]
  PROVE  Settled' /\ synced' \in [Keys -> BOOLEAN] /\ limit' = limit
<1> USE ConstantsAssumption
<1>0. /\ counter \in [Keys -> Int \cup {None}] /\ spent \in [Keys -> Nat]
      /\ synced \in [Keys -> BOOLEAN] /\ todo \subseteq Keys \X Nat
  BY DEF MLIndInv, MLTypeOK, TypeOK
<1>1. PICK e \in todo : /\ todo' = todo \ {e}
                        /\ counter' = [counter EXCEPT ![e[1]] = e[2]]
                        /\ spent' = [spent EXCEPT ![e[1]] = 0]
                        /\ limit' = limit
  BY DEF ResetCounter
<1>2. e[1] \in Keys /\ e[2] \in Nat /\ todo \ todo' = {e}
  BY <1>0, <1>1
<1> DEFINE r == e[1]
<1>3. /\ counter'[r] = e[2] /\ spent'[r] = 0
      /\ \A k \in Keys \ {r} : counter'[k] = counter[k] /\ spent'[k] = spent[k]
  BY <1>0, <1>1, <1>2
<1>4. /\ synced' \in [Keys -> BOOLEAN]
      /\ \A k \in Keys \ {r} : synced'[k] => synced[k]
      /\ synced'[r] => limit[r] = counter'[r] /\ ~Uncommitted(r)
  <2>1. synced' = [k \in Keys |-> IF k = r THEN limit[k] = counter'[k] /\ ~Uncommitted(k)
                                 ELSE synced[k]]
    BY <1>2
  <2> QED BY <1>0, <1>2, <2>1
<1>5. ASSUME NEW w \in Workers, Saved(w), synced'[r]
      PROVE  web[w].name # r /\ pk[r] # web[w].pk
  BY <1>4, <1>5 DEF Uncommitted
<1> HIDE DEF r
<1>6. SavesApart'
  BY DEF MLIndInv, Settled, SavesApart, Saved
<1>7. SavedRow'
  BY <1>2, <1>4, <1>5 DEF MLIndInv, Settled, SavedRow, Saved, r
<1>8. SavedInStep'
  <2>1. ASSUME NEW w \in Workers, Saved(w), synced'[web[w].name]
        PROVE  /\ counter'[web[w].name] = IF web[w].new \in Nat
                                            THEN web[w].new - spent'[web[w].name] ELSE None
               /\ IF pk[web[w].name] = None THEN web[w].old = None
                  ELSE pk[web[w].name] = web[w].pk /\ limit[web[w].name] = web[w].old
    <3>1. web[w].name \in Keys \ {r}
      BY <1>5, <2>1, RequestIs DEF MLIndInv, Saved
    <3>2. /\ counter[web[w].name] = IF web[w].new \in Nat
                                      THEN web[w].new - spent[web[w].name] ELSE None
          /\ IF pk[web[w].name] = None THEN web[w].old = None
             ELSE pk[web[w].name] = web[w].pk /\ limit[web[w].name] = web[w].old
      BY <1>4, <2>1, <3>1 DEF MLIndInv, Settled, SavedInStep, Left
    <3> QED BY <1>3, <3>1, <3>2
  <2> QED BY <1>1, <2>1 DEF SavedInStep, Saved, Left
<1>9. NoneUnspent'
  BY <1>2, <1>3 DEF MLIndInv, Settled, NoneUnspent
<1>10. CountersInStep'
  <2> SUFFICES ASSUME NEW k \in Keys, synced'[k], ~Uncommitted(k)' PROVE InStep(k)'
    BY DEF CountersInStep
  <2>1. CASE k = r
    <3>1. limit[k] = counter'[k] /\ counter'[k] \in Nat /\ spent'[k] = 0
      BY <1>2, <1>3, <1>4, <2>1
    <3> QED BY <1>1, <3>1 DEF InStep
  <2>2. CASE k # r
    <3>1. ~Uncommitted(k)
      BY DEF Uncommitted, Saved
    <3>2. InStep(k)
      BY <1>4, <2>2, <3>1 DEF MLIndInv, Settled, CountersInStep
    <3> QED BY <1>1, <1>3, <2>2, <3>2 DEF InStep
  <2> QED BY <2>1, <2>2
<1> QED BY <1>1, <1>4, <1>6, <1>7, <1>8, <1>9, <1>10 DEF Settled

(* The daemon, whatever the requests are doing.                              *)
LEMMA DaemonKeeps ==
  ASSUME MLIndInv, DaemonStep
  PROVE  MLIndInv'
<1>1. UNCHANGED <<pk, web>>
  BY DEF DaemonStep
<1>2. [Next]_vars
  BY DEF DaemonStep, Next, ResetStep
<1>3. TypeOK' /\ \A c \in Conns : Busy(c)'
  BY <1>2, TypeStep DEF MLIndInv, MLTypeOK
<1>4. Settled' /\ synced' \in [Keys -> BOOLEAN] /\ limit' = limit
  <2>1. CASE /\ ResetCounter
             /\ synced' = [k \in Keys |->
                   IF \E e \in todo \ todo' : e[1] = k
                     THEN limit[k] = counter'[k] /\ ~Uncommitted(k)
                     ELSE synced[k]]
    BY <1>1, <2>1, ResetCounterStep
  <2>2. CASE /\ \/ \E c \in Conns : Accept(c) \/ ConnStep(c) \/ Abort(c) \/ AbortDecrement(c)
                \/ \E k \in Keys : NotifyLimitReached(k)
                \/ GetDomainsToReset \/ GetMailboxesToReset \/ Reschedule
                \/ ResetFails \/ Restart
             /\ synced' = [k \in Keys |-> synced[k] /\ (counter[k] = None => counter'[k] = None)]
    <3>1. Charges /\ limit' = limit
      BY <2>2, DaemonCharges DEF MLIndInv, MLTypeOK
    <3> QED BY <1>1, <2>2, <3>1, ChargesStep
  <2> QED BY <2>1, <2>2 DEF DaemonStep
<1>5. MLTypeOK'
  BY <1>1, <1>3, <1>4 DEF MLIndInv, MLTypeOK
<1>6. WebRows' /\ Classes'
  BY <1>1 DEF MLIndInv, WebRows, Classes
<1> QED BY <1>3, <1>4, <1>5, <1>6 DEF MLIndInv

(* Nothing has happened yet: every counter is its limit.                     *)
LEMMA LimitsInitially == MLInit => MLIndInv
<1> SUFFICES ASSUME MLInit PROVE MLIndInv
  OBVIOUS
<1> USE WebAssumption, ConstantsAssumption
<1> DEFINE Rows(f) == /\ \A k \in Keys : f[k] = None <=> limit[k] = NoRow
                      /\ \A j, k \in Keys : f[j] = f[k] => j = k \/ f[k] = None
<1>1. \E f \in [Keys -> Pks \cup {None}] : Rows(f)
  <2>1. PICK g \in [Keys -> Pks] : \A j, k \in Keys : g[j] = g[k] => j = k
    OBVIOUS
  <2> DEFINE h == [k \in Keys |-> IF limit[k] = NoRow THEN None ELSE g[k]]
  <2>2. h \in [Keys -> Pks \cup {None}] /\ Rows(h)
    BY <2>1
  <2> QED BY <2>2
<1>2. pk \in [Keys -> Pks \cup {None}] /\ Rows(pk)
  BY <1>1 DEF MLInit
<1>3. /\ limit \in [Keys -> Limits \cup {None, NoRow}]
      /\ counter = [k \in Keys |-> IF limit[k] = NoRow THEN None ELSE limit[k]]
      /\ \A a \in Accounts : limit[DomainOf[a]] = NoRow => limit[a] = NoRow
      /\ web = [w \in Workers |-> Idle] /\ synced = [k \in Keys |-> TRUE]
      /\ DaemonInit
  BY DEF MLInit
<1>4. TypeOK
  <2>1. /\ limit \in [Keys -> Nat \cup {None, NoRow}]
        /\ counter \in [Keys -> Int \cup {None}]
    <3>1. \A k \in Keys : limit[k] \in Nat \cup {None, NoRow}
      BY <1>3
    <3> QED BY <1>3, <3>1
  <2> QED BY <1>3, <2>1 DEF DaemonInit, TypeOK, Levels, Replies, AlarmNames
<1>5. web \in [Workers -> [pc : {"idle", "loaded", "saved"}, pk : Pks \cup {None},
                          name : Keys \cup {None}, old : Nat \cup {None},
                          new : Nat \cup {None}]]
  BY <1>3 DEF Idle
<1>6. MLTypeOK
  BY <1>2, <1>3, <1>4, <1>5 DEF MLTypeOK, Keys
<1>7. \A c \in Conns : Busy(c)
  BY <1>3 DEF DaemonInit, Busy
<1>8. \A w \in Workers : web[w] = Idle /\ web[w].pc = "idle"
  BY <1>3, IdleIs
<1>9. WebRows /\ Classes /\ SavesApart /\ SavedRow /\ SavedInStep
  BY <1>8 DEF WebRows, Classes, SavesApart, SavedRow, SavedInStep, Saved
<1>10. \A k \in Keys : InStep(k) /\ spent[k] = 0
  <2> SUFFICES ASSUME NEW k \in Keys PROVE InStep(k) /\ spent[k] = 0
    OBVIOUS
  <2>1. /\ counter[k] = IF limit[k] = NoRow THEN None ELSE limit[k]
        /\ limit[k] \in Nat \cup {None, NoRow} /\ spent[k] = 0
    BY <1>3, <1>4 DEF DaemonInit, TypeOK
  <2> QED BY <2>1 DEF InStep
<1> QED BY <1>6, <1>7, <1>9, <1>10 DEF MLIndInv, Settled, NoneUnspent, CountersInStep

-----------------------------------------------------------------------------
(* Whatever requests, messages, resets and failures come together, every key *)
(* has one row of its own class, and a counter that no step has lost track   *)
(* of is the limit minus the messages sent.                                  *)
THEOREM LimitsInvariant == MLSpec => []MLIndInv
<1>1. MLIndInv /\ [MLNext]_allVars => MLIndInv'
  <2> SUFFICES ASSUME MLIndInv, [MLNext]_allVars PROVE MLIndInv'
    OBVIOUS
  <2>1. CASE DaemonStep
    BY <2>1, DaemonKeeps
  <2>2. ASSUME NEW w \in Workers, WebStep(w) PROVE MLIndInv'
    BY <2>2, LoadStep, NewStep, SaveStep, CommitStep, RollbackStep DEF WebStep
  <2>3. ASSUME NEW k \in Managed, Delete(k) PROVE MLIndInv'
    BY <2>3, RemoveStep
  <2>4. CASE UNCHANGED allVars
    <3>1. UNCHANGED <<vars, pk, web, synced>>
      BY <2>4 DEF allVars
    <3>2. MLTypeOK' /\ \A c \in Conns : Busy(c)'
      BY <3>1 DEF MLIndInv, MLTypeOK, TypeOK, Busy, vars
    <3>3. WebRows' /\ Classes'
      BY <3>1 DEF MLIndInv, WebRows, Classes
    <3>4. Settled'
      BY <3>1, NothingSaved DEF MLIndInv, vars
    <3> QED BY <3>2, <3>3, <3>4 DEF MLIndInv
  <2> QED BY <2>1, <2>2, <2>3, <2>4 DEF MLNext
<1> QED BY <1>1, LimitsInitially, PTL DEF MLSpec

(* The types and keys of the tables of limits, and the counters.             *)
THEOREM LimitsHold == MLSpec => []LimitsInv
<1>1. MLIndInv => LimitsInv
  BY DEF MLIndInv, Settled, LimitsInv
<1> QED BY <1>1, LimitsInvariant, PTL

(* Only a save repeated or out of date, a rename, a delete, a rollback or an *)
(* overlap with the daemon takes a counter and its limit apart.              *)
THEOREM CountersStayInStep == MLSpec => []CountersInStep
<1>1. LimitsInv => CountersInStep
  BY DEF LimitsInv
<1> QED BY <1>1, LimitsHold, PTL
=============================================================================
