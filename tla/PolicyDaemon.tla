---------------------------- MODULE PolicyDaemon ----------------------------
(***************************************************************************)
(* The Postfix policy daemon (modoboa/policyd/core.py).                    *)
(*                                                                         *)
(* The daemon is one asyncio event loop.  Every connection is a coroutine  *)
(* that handles one request and is suspended at each `await`: between two  *)
(* awaits nothing else runs, at an await anything else may.  An action of  *)
(* this module is therefore one Redis command together with the code that  *)
(* runs until the next await.                                              *)
(*                                                                         *)
(* The counters live in the Redis hash "messages_count", the limits in the *)
(* database; both outlive the daemon and both are also written by the web  *)
(* application (module MessageLimits).  Here the limits do not change.     *)
(***************************************************************************)
EXTENDS Integers, FiniteSets

CONSTANTS
  Conns,     \* connection slots: the requests that may be open together
  Domains,   \* local domains; a domain's name is its key in the hash
  Accounts,  \* accounts (sasl_username); the address is the key in the hash
  DomainOf,  \* the domain part of each account, split_mailbox(...)[1]
  Limits,    \* the values message_limit takes in the model
  None,      \* Python's None: no such field in the hash, message_limit is NULL
  NoRow,     \* there is no such domain or mailbox in the database
  MaxTasks,  \* bound: requests arrive only while fewer notifications wait
  Faults     \* the faults of this instance: "timeout", "redis", "restart"

Keys == Domains \cup Accounts

ASSUME ConstantsAssumption ==
  /\ IsFiniteSet(Conns)
  /\ Domains \cap Accounts = {}
  /\ DomainOf \in [Accounts -> Domains]
  /\ Limits \subseteq Nat
  /\ None \notin Int /\ NoRow \notin Int /\ None # NoRow
  /\ None \notin Keys
  /\ MaxTasks \in Nat
  /\ Faults \subseteq {"timeout", "redis", "restart"}

VARIABLES
  counter,  \* the Redis hash: messages each key may still send today
  limit,    \* the message_limit column of domains and mailboxes
  pc,       \* where each connection's coroutine is suspended
  level,    \* which counter it works on: first the domain's, then the account's
  acct,     \* the sasl_username of the request
  decr,     \* the levels whose check succeeded (decr_domain, decr_user)
  reply,    \* the action sent, or about to be sent, for the request
  tasks,    \* pending notify_limit_reached coroutines, per key
  opened,   \* internal names of the opened alarms of each key
  reset,    \* the reset_counters coroutine
  todo,     \* (key, limit) pairs it has read and not yet written
  charged,  \* history: the levels already decremented for the request
  spent     \* history: decrements since the counter was last set

connVars == <<pc, level, acct, decr, reply, charged>>
redisVars == <<counter, spent>>
vars == <<counter, limit, pc, level, acct, decr, reply, tasks, opened, reset,
          todo, charged, spent>>

Levels == {"domain", "account"}
Replies == {"none", "dunno", "defer"}
AlarmNames == {"sending_limit", "limit_reached"}

(* The key of the hash that a connection works on.                         *)
KeyAt(c, l) == IF l = "domain" THEN DomainOf[acct[c]] ELSE acct[c]
KeyOf(c) == KeyAt(c, level[c])

(* The daemon has just been started.                                       *)
DaemonInit ==
  /\ pc = [c \in Conns |-> "free"]
  /\ level = [c \in Conns |-> "domain"]
  /\ acct = [c \in Conns |-> None]
  /\ decr = [c \in Conns |-> {}]
  /\ reply = [c \in Conns |-> "none"]
  /\ tasks = [k \in Keys |-> 0]
  /\ opened = [k \in Keys |-> {}]
  /\ reset = "sleep"
  /\ todo = {}
  /\ charged = [c \in Conns |-> {}]
  /\ spent = [k \in Keys |-> 0]

Init ==
  /\ limit \in [Keys -> Limits \cup {None}]
  /\ counter = limit
  /\ DaemonInit

-----------------------------------------------------------------------------
(* Connections *)

(* The coroutine ends, and its local variables with it.                    *)
EndRequest(c) ==
  /\ pc' = [pc EXCEPT ![c] = "free"]
  /\ level' = [level EXCEPT ![c] = "domain"]
  /\ acct' = [acct EXCEPT ![c] = None]
  /\ decr' = [decr EXCEPT ![c] = {}]
  /\ reply' = [reply EXCEPT ![c] = "none"]
  /\ charged' = [charged EXCEPT ![c] = {}]

(* A request arrives.  One that is incomplete, is not about a recipient or  *)
(* carries no sasl_username is answered at once.  (A sasl_username without  *)
(* a domain part makes the first HEXISTS raise: the slot stays free.)       *)
Accept(c) ==
  /\ pc[c] = "free"
  /\ \A k \in Keys : tasks[k] < MaxTasks
  /\ \/ /\ pc' = [pc EXCEPT ![c] = "send"]
        /\ reply' = [reply EXCEPT ![c] = "dunno"]
        /\ UNCHANGED acct
     \/ \E a \in Accounts :
          /\ acct' = [acct EXCEPT ![c] = a]
          /\ pc' = [pc EXCEPT ![c] = "exists"]
          /\ UNCHANGED reply
  /\ UNCHANGED <<redisVars, limit, level, decr, charged, tasks, opened, reset,
                 todo>>

(* Mutant: the account's counter is decremented first, the domain's never.  *)
AfterChecksAccountFirst(c, found) ==
  /\ pc' = [pc EXCEPT ![c] = IF found = {} THEN "send" ELSE "decr"]
  /\ level' = [level EXCEPT ![c] = IF "account" \in found THEN "account"
                                                          ELSE "domain"]
  /\ reply' = [reply EXCEPT ![c] = IF found = {} THEN "dunno" ELSE @]

(* Both checks are done: decrement what was found, the domain first.       *)
AfterChecks(c, found) ==
  /\ pc' = [pc EXCEPT ![c] = IF found = {} THEN "send" ELSE "decr"]
  /\ level' = [level EXCEPT ![c] = IF "domain" \in found THEN "domain"
                                                         ELSE "account"]
  /\ reply' = [reply EXCEPT ![c] = IF found = {} THEN "dunno" ELSE @]

(* Mutant: after the domain's check, the domain is checked again.          *)
NextCheckStays(c, found) ==
  IF level[c] = "domain"
    THEN pc' = [pc EXCEPT ![c] = "exists"] /\ UNCHANGED <<level, reply>>
    ELSE AfterChecks(c, found)

(* The current check is over without a refusal.                            *)
NextCheck(c, found) ==
  IF level[c] = "domain"
    THEN /\ pc' = [pc EXCEPT ![c] = "exists"]
         /\ level' = [level EXCEPT ![c] = "account"]
         /\ UNCHANGED reply
    ELSE AfterChecks(c, found)

Hexists(c) ==
  /\ pc[c] = "exists"
  /\ IF counter[KeyOf(c)] # None
       THEN pc' = [pc EXCEPT ![c] = "get"] /\ UNCHANGED <<level, reply>>
       ELSE NextCheck(c, decr[c])
  /\ UNCHANGED <<redisVars, limit, acct, decr, charged, tasks, opened, reset,
                 todo>>

(* Mutant: no counter is ever too low.                                     *)
HgetNeverRefuses(c) ==
  LET found == decr[c] \cup {level[c]} IN
  /\ pc[c] = "get"
  /\ decr' = [decr EXCEPT ![c] = found]
  /\ NextCheck(c, found)
  /\ UNCHANGED <<acct, charged, redisVars, limit, tasks, opened, reset, todo>>

(* Mutant: a counter is decremented as soon as it has been checked.        *)
HgetCharges(c) ==
  LET k == KeyOf(c)
      v == counter[k]
      found == decr[c] \cup {level[c]} IN
  /\ pc[c] = "get"
  /\ IF v <= 0
       THEN /\ pc' = [pc EXCEPT ![c] = "send"]
            /\ reply' = [reply EXCEPT ![c] = "defer"]
            /\ UNCHANGED <<redisVars, level, decr, charged>>
       ELSE /\ counter' = [counter EXCEPT ![k] = v - 1]
            /\ spent' = [spent EXCEPT ![k] = @ + 1]
            /\ charged' = [charged EXCEPT ![c] = found]
            /\ decr' = [decr EXCEPT ![c] = found]
            /\ IF level[c] = "domain"
                 THEN NextCheck(c, found)
                 ELSE /\ pc' = [pc EXCEPT ![c] = "send"]
                      /\ reply' = [reply EXCEPT ![c] = "dunno"]
                      /\ UNCHANGED level
  /\ UNCHANGED <<acct, limit, tasks, opened, reset, todo>>

(* int(None) raises when the field was removed after HEXISTS saw it.       *)
Hget(c) ==
  LET v == counter[KeyOf(c)]
      found == decr[c] \cup {level[c]} IN
  /\ pc[c] = "get"
  /\ \/ v = None /\ EndRequest(c)
     \/ /\ v # None /\ v <= 0
        /\ pc' = [pc EXCEPT ![c] = "send"]
        /\ reply' = [reply EXCEPT ![c] = "defer"]
        /\ UNCHANGED <<level, acct, decr, charged>>
     \/ /\ v # None /\ v > 0
        /\ decr' = [decr EXCEPT ![c] = found]
        /\ NextCheck(c, found)
        /\ UNCHANGED <<acct, charged>>
  /\ UNCHANGED <<redisVars, limit, tasks, opened, reset, todo>>

(* HINCRBY creates a missing field with value 0 before it adds.            *)
Incremented(k, n) == (IF counter[k] = None THEN 0 ELSE counter[k]) + n

(* Mutant: the notification comes one message too late.                    *)
DecrementLimitLate(c) ==
  LET k == KeyOf(c)
      new == Incremented(k, -1) IN
  /\ pc[c] = "decr"
  /\ counter' = [counter EXCEPT ![k] = new]
  /\ tasks' = [tasks EXCEPT ![k] = IF new < 0 THEN @ + 1 ELSE @]
  /\ charged' = [charged EXCEPT ![c] = @ \cup {level[c]}]
  /\ spent' = [spent EXCEPT ![k] = @ + 1]
  /\ IF level[c] = "domain" /\ "account" \in decr[c]
       THEN level' = [level EXCEPT ![c] = "account"] /\ UNCHANGED <<pc, reply>>
       ELSE /\ pc' = [pc EXCEPT ![c] = "send"]
            /\ reply' = [reply EXCEPT ![c] = "dunno"]
            /\ UNCHANGED level
  /\ UNCHANGED <<limit, acct, decr, opened, reset, todo>>

(* Mutant: only one of the two counters is decremented.                    *)
DecrementLimitOne(c) ==
  LET k == KeyOf(c)
      new == Incremented(k, -1) IN
  /\ pc[c] = "decr"
  /\ counter' = [counter EXCEPT ![k] = new]
  /\ tasks' = [tasks EXCEPT ![k] = IF new <= 0 THEN @ + 1 ELSE @]
  /\ charged' = [charged EXCEPT ![c] = @ \cup {level[c]}]
  /\ spent' = [spent EXCEPT ![k] = @ + 1]
  /\ pc' = [pc EXCEPT ![c] = "send"]
  /\ reply' = [reply EXCEPT ![c] = "dunno"]
  /\ UNCHANGED <<limit, level, acct, decr, opened, reset, todo>>

DecrementLimit(c) ==
  LET k == KeyOf(c)
      new == Incremented(k, -1) IN
  /\ pc[c] = "decr"
  /\ counter' = [counter EXCEPT ![k] = new]
  /\ tasks' = [tasks EXCEPT ![k] = IF new <= 0 THEN @ + 1 ELSE @]
  /\ charged' = [charged EXCEPT ![c] = @ \cup {level[c]}]
  /\ spent' = [spent EXCEPT ![k] = @ + 1]
  /\ IF level[c] = "domain" /\ "account" \in decr[c]
       THEN level' = [level EXCEPT ![c] = "account"] /\ UNCHANGED <<pc, reply>>
       ELSE /\ pc' = [pc EXCEPT ![c] = "send"]
            /\ reply' = [reply EXCEPT ![c] = "dunno"]
            /\ UNCHANGED level
  /\ UNCHANGED <<limit, acct, decr, opened, reset, todo>>

SendAction(c) ==
  /\ pc[c] = "send"
  /\ EndRequest(c)
  /\ UNCHANGED <<redisVars, limit, tasks, opened, reset, todo>>

(* wait_for(..., timeout=5) cancels the coroutine, or a command raises: the *)
(* client gets no answer and what has been decremented stays decremented.   *)
Abort(c) ==
  /\ Faults \cap {"timeout", "redis"} # {}
  /\ pc[c] # "free"
  /\ EndRequest(c)
  /\ UNCHANGED <<redisVars, limit, tasks, opened, reset, todo>>

(* The same, while the answer to an executed HINCRBY is awaited: the counter *)
(* has moved but the code that would notify never sees its value.            *)
AbortDecrement(c) ==
  LET k == KeyOf(c) IN
  /\ Faults \cap {"timeout", "redis"} # {}
  /\ pc[c] = "decr"
  /\ counter' = [counter EXCEPT ![k] = Incremented(k, -1)]
  /\ spent' = [spent EXCEPT ![k] = @ + 1]
  /\ EndRequest(c)
  /\ UNCHANGED <<limit, tasks, opened, reset, todo>>

-----------------------------------------------------------------------------
(* Notifications *)

(* create_alarm runs in a thread; without the row it raises and the whole   *)
(* notification is lost.                                                    *)
NotifyLimitReached(k) ==
  /\ tasks[k] > 0
  /\ tasks' = [tasks EXCEPT ![k] = @ - 1]
  /\ opened' = IF limit[k] = NoRow THEN opened
               ELSE [opened EXCEPT ![k] = @ \cup {"sending_limit"}]
  /\ UNCHANGED <<redisVars, limit, connVars, reset, todo>>

-----------------------------------------------------------------------------
(* The nightly reset *)

Limited(S) == {k \in S : limit[k] \in Nat}

(* The alarms that a reset closes are selected by this internal name.      *)
CloseAlarms(S) ==
  opened' = [k \in Keys |-> IF k \in S THEN opened[k] \ {"limit_reached"}
                                       ELSE opened[k]]

(* Midnight: read the domains' limits and close the alarms attached to      *)
(* those domains, which include the alarms of their mailboxes.              *)
GetDomainsToReset ==
  LET D == Limited(Domains) IN
  /\ reset = "sleep"
  /\ reset' = "domains"
  /\ todo' = {<<d, limit[d]>> : d \in D}
  /\ CloseAlarms(D \cup {a \in Accounts : DomainOf[a] \in D})
  /\ UNCHANGED <<redisVars, limit, connVars, tasks>>

GetMailboxesToReset ==
  LET A == Limited(Accounts) IN
  /\ reset = "domains" /\ todo = {}
  /\ reset' = "mailboxes"
  /\ todo' = {<<a, limit[a]>> : a \in A}
  /\ CloseAlarms(A)
  /\ UNCHANGED <<redisVars, limit, connVars, tasks>>

(* Mutant: HINCRBY instead of HSET.                                        *)
ResetCounterAdds ==
  \E e \in todo :
    /\ todo' = todo \ {e}
    /\ counter' = [counter EXCEPT ![e[1]] = @ + e[2]]
    /\ spent' = [spent EXCEPT ![e[1]] = 0]
    /\ UNCHANGED <<limit, connVars, tasks, opened, reset>>

(* Mutant: HSETNX instead of HSET.                                         *)
ResetCounterOnce ==
  \E e \in todo :
    /\ todo' = todo \ {e}
    /\ counter' = [counter EXCEPT ![e[1]] = IF @ = None THEN e[2] ELSE @]
    /\ UNCHANGED <<spent, limit, connVars, tasks, opened, reset>>

(* HSET of one counter, with the limit read earlier.                       *)
ResetCounter ==
  \E e \in todo :
    /\ todo' = todo \ {e}
    /\ counter' = [counter EXCEPT ![e[1]] = e[2]]
    /\ spent' = [spent EXCEPT ![e[1]] = 0]
    /\ UNCHANGED <<limit, connVars, tasks, opened, reset>>

(* Mutant: the reset runs once.                                            *)
RescheduleNever ==
  /\ reset = "mailboxes" /\ todo = {}
  /\ reset' = "dead"
  /\ UNCHANGED <<redisVars, limit, connVars, tasks, opened, todo>>

(* The coroutine schedules itself again only at its very end.              *)
Reschedule ==
  /\ reset = "mailboxes" /\ todo = {}
  /\ reset' = "sleep"
  /\ UNCHANGED <<redisVars, limit, connVars, tasks, opened, todo>>

ResetFails ==
  /\ "redis" \in Faults
  /\ reset \in {"domains", "mailboxes"}
  /\ reset' = "dead"
  /\ todo' = {}
  /\ UNCHANGED <<redisVars, limit, connVars, tasks, opened>>

ResetStep == GetDomainsToReset \/ GetMailboxesToReset \/ ResetCounter
             \/ Reschedule

-----------------------------------------------------------------------------
(* SIGTERM stops the loop and cancels every task; the supervisor starts the *)
(* daemon again, which schedules the next reset.  Redis keeps the counters. *)
Restart ==
  /\ "restart" \in Faults
  /\ pc' = [c \in Conns |-> "free"]
  /\ level' = [c \in Conns |-> "domain"]
  /\ acct' = [c \in Conns |-> None]
  /\ decr' = [c \in Conns |-> {}]
  /\ reply' = [c \in Conns |-> "none"]
  /\ charged' = [c \in Conns |-> {}]
  /\ tasks' = [k \in Keys |-> 0]
  /\ reset' = "sleep"
  /\ todo' = {}
  /\ UNCHANGED <<redisVars, limit, opened>>

ConnStep(c) == Hexists(c) \/ Hget(c) \/ DecrementLimit(c) \/ SendAction(c)

Next ==
  \/ \E c \in Conns : \/ Accept(c) \/ ConnStep(c)
                     \/ Abort(c) \/ AbortDecrement(c)
  \/ \E k \in Keys : NotifyLimitReached(k)
  \/ ResetStep
  \/ ResetFails
  \/ Restart

(* The event loop resumes every coroutine whose await is over, and midnight *)
(* comes; clients, timeouts and faults are under no obligation.             *)
Fairness ==
  /\ \A c \in Conns : WF_vars(ConnStep(c))
  /\ \A k \in Keys : WF_vars(NotifyLimitReached(k))
  /\ WF_vars(ResetStep)

Spec == Init /\ [][Next]_vars
FairSpec == Spec /\ Fairness

-----------------------------------------------------------------------------
(* Properties *)

TypeOK ==
  /\ counter \in [Keys -> Int \cup {None}]
  /\ limit \in [Keys -> Nat \cup {None, NoRow}]
  /\ pc \in [Conns -> {"free", "exists", "get", "decr", "send"}]
  /\ level \in [Conns -> Levels]
  /\ acct \in [Conns -> Accounts \cup {None}]
  /\ decr \in [Conns -> SUBSET Levels]
  /\ reply \in [Conns -> Replies]
  /\ tasks \in [Keys -> Nat]
  /\ opened \in [Keys -> SUBSET AlarmNames]
  /\ reset \in {"sleep", "domains", "mailboxes", "dead"}
  /\ todo \subseteq Keys \X Nat
  /\ charged \in [Conns -> SUBSET Levels]
  /\ spent \in [Keys -> Nat]

(* The requests that have passed the check of key k and have not yet        *)
(* decremented it.                                                          *)
InFlight(k) ==
  {c \in Conns : /\ acct[c] # None
                 /\ \E l \in decr[c] \ charged[c] : KeyAt(c, l) = k}

(* apply_policies checks a counter and decrements it in separate commands,  *)
(* so requests handled together may overrun a limit, but never by more than *)
(* the number of connections open at once.                                  *)
OverrunBounded ==
  \A k \in Keys : counter[k] # None => counter[k] >= -Cardinality(Conns)

(* A refused request costs nothing: apply_policies decrements no counter    *)
(* before both checks have passed.                                          *)
DeferredNotCharged ==
  \A c \in Conns : reply[c] = "defer" => charged[c] = {}

(* A request let through has been charged on every level whose limit was    *)
(* found, the domain's as well as the account's.                            *)
AcceptedFullyCharged ==
  \A c \in Conns : reply[c] = "dunno" => charged[c] = decr[c]

(* Where a coroutine stands tells what it has found and what it has         *)
(* decremented so far.                                                      *)
ConnOK(c) ==
  /\ acct[c] = None => decr[c] = {}
  /\ charged[c] \subseteq decr[c]
  /\ \A l \in decr[c] : counter[KeyAt(c, l)] # None
  /\ pc[c] # "send" => reply[c] = "none"
  /\ pc[c] = "free" => acct[c] = None
  /\ pc[c] \in {"exists", "get", "decr"} => acct[c] # None
  /\ pc[c] \in {"exists", "get"} =>
       charged[c] = {} /\ decr[c] \subseteq {"domain"} \ {level[c]}
  /\ pc[c] = "decr" =>
       /\ level[c] \in decr[c] \ charged[c]
       /\ charged[c] = IF level[c] = "domain" THEN {} ELSE decr[c] \ {"account"}
  /\ reply[c] = "defer" => charged[c] = {}
  /\ reply[c] = "dunno" => charged[c] = decr[c]

ConnInv == \A c \in Conns : ConnOK(c)

(* The reset coroutine writes the limits that the objects have.            *)
TodoInv == \A e \in todo : limit[e[1]] = e[2]

(* Requests that have passed the check of a key will still decrement it:    *)
(* that is accounted for.                                                   *)
OverrunInv ==
  \A k \in Keys :
    counter[k] # None =>
      counter[k] - Cardinality(InFlight(k)) >= -Cardinality(Conns)

(* The inductive invariant behind the three properties below and above: no  *)
(* step of apply_policies, of the reset or of a failure loses count of what *)
(* the suspended requests have taken and may still take.                    *)
IndInv == ConnInv /\ TodoInv /\ OverrunInv

(* What TLAPS proves to be inductive.                                       *)
DaemonInv == TypeOK /\ IndInv

(* Every request is answered or its connection dropped.                     *)
RequestsEnd == \A c \in Conns : pc[c] # "free" ~> pc[c] = "free"

Exhausted(k) == counter[k] # None /\ counter[k] <= 0

(* A key whose last message has been taken gets its alarm.                  *)
ExhaustionReported ==
  \A k \in Keys :
    (Exhausted(k) /\ spent[k] > 0) ~> "sending_limit" \in opened[k]

(* The daemon implements the abstract budget of module SendingBudget, with  *)
(* an overdraft of one message per connection: it takes one unit at a time, *)
(* and its resets put back exactly the limit, in the end and again.         *)
Budget == INSTANCE SendingBudget
            WITH budget <- counter, Slack <- Cardinality(Conns)
ImplementsBudget == Budget!Spec
ImplementsFairBudget == Budget!FairSpec

(* What get_domains_to_reset and get_mailboxes_to_reset say they do: when   *)
(* the objects to reset are read, every alarm about them is closed.         *)
(* Not what the code does: README.md, Known deviations.                    *)
ResetClosesAlarms ==
  [][\A e \in todo' \ todo : opened'[e[1]] = {}]_vars
=============================================================================
