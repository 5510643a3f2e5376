--------------------------- MODULE MessageLimits ---------------------------
(***************************************************************************)
(* The web application and the background jobs that change message_limit   *)
(* while the policy daemon runs (modoboa/policyd/handlers.py, the domain   *)
(* and mailbox models of modoboa/admin and the serializers that save them).*)
(*                                                                         *)
(* A request runs in one database transaction (ATOMIC_REQUESTS): what it   *)
(* saves is visible to others after its commit, but the receiver of the    *)
(* post_save signal writes to Redis at once.  The receiver adds to the     *)
(* counter the difference between the saved limit and the one the instance *)
(* was loaded with, which is never refreshed (AdminObject._loaded_values). *)
(* A job is a request that saves its instance unchanged.                   *)
(***************************************************************************)
EXTENDS PolicyDaemon

CONSTANTS
  Workers,   \* web and job workers: the requests that may run together
  Pks,       \* primary keys
  LocalOf,   \* the local part of each account, split_mailbox(...)[0]
  WebOps,    \* the operations of this instance, of "create", "rename",
             \* "delete", "resave", "rollback"
  Managed,   \* bound: the objects that requests touch; the others have no limit
  MaxCount   \* bound: neither a counter nor the messages of a day pass it

ASSUME WebAssumption ==
  /\ Workers \cap Keys = {}
  /\ None \notin Pks
  /\ \E f \in [Keys -> Pks] : \A j, k \in Keys : f[j] = f[k] => j = k
  /\ DOMAIN LocalOf = Accounts
  /\ \A a, b \in Accounts : DomainOf[a] = DomainOf[b] /\ LocalOf[a] = LocalOf[b]
                              => a = b
  /\ \A a \in Accounts, d \in Domains :
       \E b \in Accounts : DomainOf[b] = d /\ LocalOf[b] = LocalOf[a]
  /\ WebOps \subseteq {"create", "rename", "delete", "resave", "rollback"}
  /\ Managed \subseteq Keys
  /\ MaxCount \in Nat

VARIABLES
  pk,     \* primary key of the row of each key, None when there is no row
  web,    \* the request each worker runs and the model instance it holds
  synced  \* history: no step that loses track of the counter has happened

webVars == <<pk, web, synced>>
allVars == <<vars, pk, web, synced>>

Idle == [pc |-> "idle", pk |-> None, name |-> None, old |-> None, new |-> None]

(* Any rows, with the counters a reset leaves.                             *)
MLInit ==
  /\ limit \in [Keys -> Limits \cup {None, NoRow}]
  /\ \A k \in Keys \ Managed : limit[k] \in {None, NoRow}
  /\ \A a \in Accounts : limit[DomainOf[a]] = NoRow => limit[a] = NoRow
  /\ counter = [k \in Keys |-> IF limit[k] = NoRow THEN None ELSE limit[k]]
  /\ DaemonInit
  /\ pk = CHOOSE f \in [Keys -> Pks \cup {None}] :
            /\ \A k \in Keys : f[k] = None <=> limit[k] = NoRow
            /\ \A j, k \in Keys : f[j] = f[k] => j = k \/ f[k] = None
  /\ web = [w \in Workers |-> Idle]
  /\ synced = [k \in Keys |-> TRUE]

-----------------------------------------------------------------------------
(* Redis, as seen by the signal receivers *)

(* Mutant: the counter is increased by the new limit, not by the change.   *)
set_message_limit_whole(k, old, new) ==
  IF old = new THEN counter
  ELSE [counter EXCEPT ![k] = IF new = None THEN None ELSE Incremented(k, new)]

(* Mutant: removing the limit leaves the counter.                          *)
set_message_limit_keep(k, old, new) ==
  IF old = new \/ new = None THEN counter
  ELSE [counter EXCEPT ![k] = Incremented(k, IF old = None THEN new ELSE new - old)]

(* The new content of the hash when an instance that was loaded with limit  *)
(* `old` (None for a new instance) is saved with limit `new`.               *)
set_message_limit(k, old, new) ==
  IF old = new THEN counter
  ELSE [counter EXCEPT ![k] =
          IF new = None THEN None
          ELSE Incremented(k, IF old = None THEN new ELSE new - old)]

-----------------------------------------------------------------------------
(* Requests *)

Saved(w) == web[w].pc = "saved"

(* The key under which the row of an instance is stored, if there is one.  *)
RowOf(p) == {k \in Keys : pk[k] = p}

(* Some transaction has written the row of k, or a row named k.            *)
Uncommitted(k) == \E w \in Workers : Saved(w) /\ (web[w].name = k \/ web[w].pk = pk[k])

SameClass(k, n) == {k, n} \subseteq Domains \/ {k, n} \subseteq Accounts

(* A mailbox belongs to an existing domain.                                *)
Nameable(n) == n \in Accounts => pk[DomainOf[n]] # None

(* Load an instance from the database and set the attributes to save.      *)
Load(w, k, n, v) ==
  /\ web[w].pc = "idle"
  /\ pk[k] # None
  /\ n = k \/ ("rename" \in WebOps /\ SameClass(k, n) /\ Nameable(n))
  /\ web' = [web EXCEPT ![w] = [pc |-> "loaded", pk |-> pk[k], name |-> n,
                                old |-> limit[k], new |-> v]]
  /\ UNCHANGED <<vars, pk, synced>>

(* Build an instance of a new row; its _loaded_values are empty.           *)
New(w, n, v) ==
  /\ "create" \in WebOps
  /\ web[w].pc = "idle"
  /\ pk[n] = None /\ Nameable(n)
  /\ \E p \in Pks \ {web[x].pk : x \in Workers} :
       /\ RowOf(p) = {}
       /\ web' = [web EXCEPT ![w] = [pc |-> "loaded", pk |-> p, name |-> n,
                                     old |-> None, new |-> v]]
  /\ UNCHANGED <<vars, pk, synced>>

(* The save that keeps the counter in step with the limit: the first one of *)
(* the request, of a row that still has the name and the limit it was       *)
(* loaded with, or of a new row whose name has left nothing in Redis.       *)
KeepsTrack(w) ==
  LET r == web[w] IN
  /\ r.pc = "loaded" \/ r.old = r.new
  /\ IF pk[r.name] = None THEN RowOf(r.pk) = {} /\ counter[r.name] = None /\ r.old = None
                          ELSE pk[r.name] = r.pk /\ limit[r.name] = r.old

(* save(): the write waits for the transactions that hold the row or the    *)
(* name; a name taken meanwhile is an error.  The Redis command of the      *)
(* receiver is executed although nothing is committed yet.  Only the domain *)
(* serializers save the same instance twice.                                *)
Save(w) ==
  LET r == web[w]
      c == set_message_limit(r.name, r.old, r.new) IN
  /\ r.pc = "loaded" \/ (r.pc = "saved" /\ "resave" \in WebOps /\ r.name \in Domains)
  /\ \A x \in Workers \ {w} : Saved(x) => web[x].pk # r.pk /\ web[x].name # r.name
  /\ pk[r.name] \in {None, r.pk}
  /\ c[r.name] # None => c[r.name] \in -MaxCount .. MaxCount
  /\ web' = [web EXCEPT ![w].pc = "saved"]
  /\ counter' = c
  /\ spent' = [spent EXCEPT ![r.name] = IF c[r.name] = None THEN 0 ELSE @]
  /\ synced' = [k \in Keys |->
                  /\ synced[k]
                  /\ k = r.name => KeepsTrack(w)
                  /\ k \in RowOf(r.pk) => k = r.name]
  /\ UNCHANGED <<limit, pk, connVars, tasks, opened, reset, todo>>

(* The former name of the row that is named n after the request: a renamed  *)
(* domain takes its mailboxes along.                                        *)
Former(r, n) ==
  {k \in Keys : \/ n = r.name /\ pk[k] = r.pk
                \/ /\ {k, n} \subseteq Accounts /\ pk[k] # None
                   /\ pk[DomainOf[k]] = r.pk /\ DomainOf[n] = r.name
                   /\ LocalOf[k] = LocalOf[n]}

(* The names whose row is written or moved by the request.                 *)
Vacated(r) == {r.name} \cup UNION {Former(r, n) : n \in Keys}

(* A column of the database after the request.                             *)
Column(r, f, missing) ==
  [n \in Keys |-> IF Former(r, n) # {} THEN f[CHOOSE k \in Former(r, n) : TRUE]
                  ELSE IF n \in Vacated(r) THEN missing ELSE f[n]]

(* save() writes every column, and inserts the row again if it is gone.    *)
Commit(w) ==
  LET r == web[w] IN
  /\ Saved(w)
  /\ Nameable(r.name)
  /\ web' = [web EXCEPT ![w] = Idle]
  /\ pk' = [Column(r, pk, None) EXCEPT ![r.name] = r.pk]
  /\ limit' = [Column(r, limit, NoRow) EXCEPT ![r.name] = r.new]
  /\ opened' = Column(r, opened, {})
  /\ synced' = [k \in Keys |-> synced[k] /\ (\A n \in Keys : k \in Former(r, n) => k = n)
                                       /\ Former(r, k) \subseteq {k}]
  /\ UNCHANGED <<redisVars, connVars, tasks, reset, todo>>

(* The request fails, because its name was taken, its domain deleted or for *)
(* a reason of its own: the database forgets it, Redis does not.            *)
Rollback(w) ==
  /\ web[w].pc # "idle"
  /\ \/ "rollback" \in WebOps
     \/ pk[web[w].name] \notin {None, web[w].pk}
     \/ ~Nameable(web[w].name)
  /\ web' = [web EXCEPT ![w] = Idle]
  /\ synced' = [synced EXCEPT ![web[w].name] =
                  @ /\ (Saved(w) => web[w].old = web[w].new)]
  /\ UNCHANGED <<vars, pk>>

(* A request that deletes a row, with the mailboxes of a domain.  Nothing   *)
(* is removed from Redis.                                                   *)
Delete(k) ==
  LET Gone == {k} \cup {a \in Accounts : DomainOf[a] = k} IN
  /\ "delete" \in WebOps
  /\ pk[k] # None
  /\ \A n \in Gone : ~Uncommitted(n)
  /\ pk' = [n \in Keys |-> IF n \in Gone THEN None ELSE pk[n]]
  /\ limit' = [n \in Keys |-> IF n \in Gone THEN NoRow ELSE limit[n]]
  /\ opened' = [n \in Keys |-> IF n \in Gone THEN {} ELSE opened[n]]
  /\ synced' = [n \in Keys |-> synced[n] /\ (n \in Gone => counter[n] = None)]
  /\ UNCHANGED <<redisVars, web, connVars, tasks, reset, todo>>

-----------------------------------------------------------------------------
(* The daemon at work.  A reset brings a counter back in step, unless the   *)
(* limit it writes is no longer, or not yet, the one of the row; so does    *)
(* nothing else.  A decrement of a counter removed meanwhile creates it.    *)
DaemonStep ==
  /\ \/ /\ ResetCounter
        /\ synced' = [k \in Keys |->
              IF \E e \in todo \ todo' : e[1] = k
                THEN limit[k] = counter'[k] /\ ~Uncommitted(k)
                ELSE synced[k]]
     \/ /\ \/ \E c \in Conns :
                \/ Accept(c) /\ \A k \in Keys : spent[k] < MaxCount
                \/ ConnStep(c) \/ Abort(c) \/ AbortDecrement(c)
           \/ \E k \in Keys : NotifyLimitReached(k)
           \/ GetDomainsToReset \/ GetMailboxesToReset \/ Reschedule
           \/ ResetFails
           \/ Restart
        /\ synced' = [k \in Keys |-> synced[k] /\ (counter[k] = None => counter'[k] = None)]
  /\ UNCHANGED <<pk, web>>

WebStep(w) ==
  \/ \E n \in Managed, v \in Limits \cup {None} :
       New(w, n, v) \/ \E k \in Managed : Load(w, k, n, v)
  \/ Save(w) \/ Commit(w) \/ Rollback(w)

MLNext ==
  \/ DaemonStep
  \/ \E w \in Workers : WebStep(w)
  \/ \E k \in Managed : Delete(k)

MLSpec == MLInit /\ [][MLNext]_allVars

MLFairSpec ==
  /\ MLSpec
  /\ \A c \in Conns : WF_allVars(ConnStep(c) /\ DaemonStep)
  /\ \A k \in Keys : WF_allVars(NotifyLimitReached(k) /\ DaemonStep)
  /\ WF_allVars(ResetStep /\ DaemonStep)

-----------------------------------------------------------------------------
(* Properties *)

MLTypeOK ==
  /\ TypeOK
  /\ pk \in [Keys -> Pks \cup {None}]
  /\ \A k \in Keys : pk[k] = None <=> limit[k] = NoRow
  /\ \A j, k \in Keys : pk[j] = pk[k] => j = k \/ pk[k] = None
  /\ \A a \in Accounts : pk[a] # None => pk[DomainOf[a]] # None
  /\ web \in [Workers -> [pc : {"idle", "loaded", "saved"}, pk : Pks \cup {None},
                          name : Keys \cup {None}, old : Nat \cup {None},
                          new : Nat \cup {None}]]
  /\ synced \in [Keys -> BOOLEAN]

(* What a counter should be: the limit minus the messages sent since it was *)
(* last set, and absent when there is no limit.                             *)
InStep(k) == counter[k] = IF limit[k] \in Nat THEN limit[k] - spent[k] ELSE None

(* Incrementing the counter by the change of the limit keeps the two in     *)
(* step, whatever the daemon does between the save and the commit: only a   *)
(* save repeated or out of date, a rename, a delete, a rollback, or a reset *)
(* or a decrement that overlaps the request can take them apart.            *)
CountersInStep == \A k \in Keys : synced[k] /\ ~Uncommitted(k) => InStep(k)

(* ... with the types and the keys of the tables.                           *)
LimitsInv == MLTypeOK /\ CountersInStep

(* Once the administrators have left the limits alone, every counter whose  *)
(* object has a limit ends up in step with it, however far apart the two    *)
(* had come.                                                                *)
Quiet == \A w \in Workers : web[w].pc = "idle"
ResetHeals ==
  (<>[]Quiet) => <>[](\A k \in Keys : limit[k] \in Nat => InStep(k))

(* sent_messages of an object, shown to the administrators.                *)
SentMessages(k) == IF counter[k] = None THEN 0 ELSE limit[k] - counter[k]

(* The docstring of sent_messages: it is the number of messages sent today, *)
(* hence never negative.                                                    *)
SentMessagesIsACount ==
  \A k \in Keys : limit[k] \in Nat /\ ~Uncommitted(k) => SentMessages(k) >= 0

(* What test_domain_signal_handler asserts after it has removed a limit:    *)
(* there is no counter left for the object.                                 *)
(* Not what the code does: README.md, Known deviations.                    *)
NoLimitNoCounter ==
  \A k \in Keys : limit[k] = None /\ ~Uncommitted(k) => counter[k] = None
=============================================================================
