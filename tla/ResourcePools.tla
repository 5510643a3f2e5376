--------------------------- MODULE ResourcePools ---------------------------
(***************************************************************************)
(* The limits of a reseller and of his domain administrators               *)
(* (modoboa/limits), for one kind of object that is counted, mailboxes.    *)
(*                                                                         *)
(* What the reseller gives an administrator is taken from his own limit    *)
(* and comes back when the administrator is demoted or deleted.  A request *)
(* is a transaction: what it reads may be out of date when it commits, and *)
(* the limit it loaded is saved as it is then computed.                    *)
(***************************************************************************)
EXTENDS Integers, FiniteSets, FiniteSetsExt

CONSTANTS
  Admins,    \* accounts that the reseller creates
  Reseller,  \* the owner of these accounts
  Slots,     \* web requests that may be in progress together
  MaxLimit,  \* bound: limits that requests ask for, and the first pool
  MaxPool,   \* bound: what the reseller may have, or own, when something returns
  Absent     \* the role of an account there is not

ASSUME PoolAssumption ==
  /\ Reseller \notin Admins /\ Absent \notin {"SimpleUsers", "DomainAdmins"}
  /\ IsFiniteSet(Admins) /\ IsFiniteSet(Slots) /\ Slots # {}
  /\ MaxLimit \in Nat /\ MaxPool \in Nat

VARIABLES
  rank,     \* the role of each account
  limit,    \* the limit of each account, -1 when there is none
  used,     \* the mailboxes that each account owns
  slot,     \* what each request has read and wants to write
  parallel, \* are requests served in parallel?
  ledger,   \* history: what super admins have given the reseller and his admins
  exact,    \* history: no limit has been unlimited, no pool returned twice
  sound     \* history: no limit has been set below what was used

poolVars == <<limit, used>>
rpVars == <<rank, poolVars, slot, parallel, ledger, exact, sound>>

Holders == Admins \cup {Reseller}
Unlimited == -1
FreeSlot == [pc |-> "free"]

RPInit ==
  /\ rank = [x \in Admins |-> Absent]
  /\ limit = [h \in Holders |-> IF h = Reseller THEN MaxLimit ELSE 0]
  /\ used = [h \in Holders |-> 0]
  /\ slot = [q \in Slots |-> FreeSlot]
  /\ parallel \in BOOLEAN
  /\ ledger = MaxLimit
  /\ exact = TRUE
  /\ sound = TRUE

-----------------------------------------------------------------------------
(* Requests begin when the server has room for them, and may go wrong in    *)
(* between, in which case nothing is written.                               *)
Ready(q) == /\ slot[q] = FreeSlot
            /\ parallel \/ \A p \in Slots : slot[p] = FreeSlot

Reads(q, r) ==
  /\ slot' = [slot EXCEPT ![q] = r]
  /\ UNCHANGED <<rank, poolVars, parallel, ledger, exact, sound>>

Ends(q) == slot' = [slot EXCEPT ![q] = FreeSlot]

Active(h) == IF h = Reseller THEN TRUE ELSE rank[h] = "DomainAdmins"

Exists(h) == IF h = Reseller THEN TRUE ELSE rank[h] # Absent

(* Mutant: no limit is ever reached.                                        *)
ExceededNever(h, count) == FALSE

(* is_exceeded                                                              *)
Exceeded(h, count) == limit[h] # Unlimited /\ used[h] + count > limit[h]

(* The creator of a mailbox owns it.                                        *)
CheckLimit(q, h) ==
  /\ Ready(q) /\ Active(h)
  /\ ~Exceeded(h, 1)
  /\ Reads(q, [pc |-> "create", who |-> h])

Insert(q) ==
  /\ slot[q].pc = "create"
  /\ Exists(slot[q].who)
  /\ used' = [used EXCEPT ![slot[q].who] = @ + 1]
  /\ Ends(q)
  /\ UNCHANGED <<rank, limit, parallel, ledger, exact, sound>>

(* Mutant: what the account already has is taken once more.                 *)
TakenAgain(had, v) == v

(* What allocate_resources_from_user takes from the pool.                   *)
Taken(had, v) == IF had > Unlimited THEN v - had ELSE v

(* ... and when it does not refuse.                                         *)
Allocatable(had, v) ==
  /\ v = Unlimited => limit[Reseller] = Unlimited
  /\ v # had => Taken(had, v) <= limit[Reseller] - used[Reseller]

(* The reseller sets the limit of x, or a super admin does through version 2 *)
(* of the API, which takes it from the owner all the same.                   *)
LoadLimits(q, x, v) ==
  /\ Ready(q) /\ rank[x] # Absent
  /\ Allocatable(limit[x], v)
  /\ limit[Reseller] - Taken(limit[x], v) <= MaxPool
  /\ Reads(q, [pc |-> "allocate", who |-> x, value |-> v, saves |-> v # limit[x],
               pool |-> limit[Reseller] - Taken(limit[x], v)])

SaveLimits(q) ==
  LET r == slot[q] IN
  /\ r.pc = "allocate"
  /\ rank[r.who] # Absent
  /\ limit' = [limit EXCEPT ![r.who] = r.value,
                            ![Reseller] = IF r.saves THEN r.pool ELSE @]
  /\ exact' = (exact /\ r.value # Unlimited /\ rank[r.who] = "DomainAdmins")
  /\ sound' = (sound /\ (r.value # Unlimited => used[r.who] <= r.value))
  /\ Ends(q)
  /\ UNCHANGED <<rank, used, parallel, ledger>>

(* Something else refuses the request.                                      *)
Refuse(q) ==
  /\ slot[q] # FreeSlot
  /\ Ends(q)
  /\ UNCHANGED <<rank, poolVars, parallel, ledger, exact, sound>>

-----------------------------------------------------------------------------
(* Requests whose reads do not matter here                                  *)

Quiet == parallel \/ \A q \in Slots : slot[q] = FreeSlot

(* create_user_limits: nothing is given to what a reseller creates.  When    *)
(* requests are served in parallel one account is enough.                   *)
CreateAdmin(x, r) ==
  /\ Quiet /\ rank[x] = Absent
  /\ parallel => \A y \in Admins : rank[y] = Absent
  /\ rank' = [rank EXCEPT ![x] = r]
  /\ limit' = [limit EXCEPT ![x] = 0]
  /\ UNCHANGED <<used, slot, parallel, ledger, exact, sound>>

DeleteMailbox(h) ==
  /\ Quiet /\ used[h] > 0
  /\ used' = [used EXCEPT ![h] = @ - 1]
  /\ UNCHANGED <<rank, limit, slot, parallel, ledger, exact, sound>>

(* A super admin sets any limit through version 1 of the API.               *)
SuperSets(h, v) ==
  /\ Quiet /\ Active(h) /\ v # limit[h]
  /\ limit' = [limit EXCEPT ![h] = v]
  /\ ledger' = IF parallel THEN ledger ELSE ledger + v - limit[h]
  /\ exact' = (exact /\ v # Unlimited)
  /\ sound' = (sound /\ (v # Unlimited => used[h] <= v))
  /\ UNCHANGED <<rank, used, slot, parallel>>

(* move_pool_resource: the limit of x itself stays as it is.                *)
PoolWith(x) == limit[Reseller] + (IF limit[x] < 0 THEN 0 ELSE limit[x])

(* A role without pool: what x owned has no owner any more.                 *)
Demote(x) ==
  /\ Quiet /\ rank[x] = "DomainAdmins"
  /\ PoolWith(x) <= MaxPool
  /\ rank' = [rank EXCEPT ![x] = "SimpleUsers"]
  /\ limit' = [limit EXCEPT ![Reseller] = PoolWith(x)]
  /\ used' = [used EXCEPT ![x] = 0]
  /\ UNCHANGED <<slot, parallel, ledger, exact, sound>>

(* ... with which x has what the reseller has got back.                     *)
Promote(x) ==
  /\ Quiet /\ rank[x] = "SimpleUsers"
  /\ rank' = [rank EXCEPT ![x] = "DomainAdmins"]
  /\ exact' = (exact /\ limit[x] = 0)
  /\ UNCHANGED <<poolVars, slot, parallel, ledger, sound>>

(* The pool of a deleted account, whatever its role, and what it owned.     *)
DeleteAdmin(x) ==
  /\ Quiet /\ rank[x] # Absent
  /\ PoolWith(x) <= MaxPool /\ used[Reseller] + used[x] <= MaxPool
  /\ rank' = [rank EXCEPT ![x] = Absent]
  /\ limit' = [limit EXCEPT ![Reseller] = PoolWith(x), ![x] = 0]
  /\ used' = [used EXCEPT ![Reseller] = @ + used[x], ![x] = 0]
  /\ exact' = (exact /\ (rank[x] = "SimpleUsers" => limit[x] = 0))
  /\ UNCHANGED <<slot, parallel, ledger, sound>>

-----------------------------------------------------------------------------
Amounts == Unlimited .. MaxLimit

SlotStep(q) ==
  \/ \E h \in Holders : CheckLimit(q, h)
  \/ \E x \in Admins, v \in Amounts : LoadLimits(q, x, v)
  \/ Insert(q) \/ SaveLimits(q) \/ Refuse(q)

AccountStep(x) ==
  \/ \E r \in {"SimpleUsers", "DomainAdmins"} : CreateAdmin(x, r)
  \/ Demote(x) \/ Promote(x) \/ DeleteAdmin(x)

(* What happens after an unlimited pool or a second return has been seen is *)
(* not followed.                                                            *)
RPNext ==
  /\ exact
  /\ \/ \E q \in Slots : SlotStep(q)
     \/ \E x \in Admins : AccountStep(x)
     \/ \E h \in Holders : DeleteMailbox(h) \/ \E v \in Amounts : SuperSets(h, v)

RPSpec == RPInit /\ [][RPNext]_rpVars

-----------------------------------------------------------------------------
(* Properties *)

RPTypeOK ==
  /\ rank \in [Admins -> {"SimpleUsers", "DomainAdmins", Absent}]
  /\ limit \in [Holders -> Int]
  /\ used \in [Holders -> Nat]
  /\ \A q \in Slots : slot[q].pc \in {"free", "create", "allocate"}
  /\ \A x \in Admins : rank[x] # "DomainAdmins" /\ ~parallel => used[x] = 0
  /\ ledger \in Int
  /\ {parallel, exact, sound} \subseteq BOOLEAN

(* Nothing is created or lost when limits move: what the reseller and his   *)
(* administrators may have is what super admins have given them, however    *)
(* often it was given, taken back, and returned by those who were demoted   *)
(* or deleted.                                                              *)
PoolConserved ==
  exact /\ ~parallel =>
    limit[Reseller] + MapThenSumSet(LAMBDA x : limit[x],
                                    {a \in Admins : rank[a] = "DomainAdmins"})
      = ledger

(* Nobody owns more than his limit, also after a pool and what was bought   *)
(* with it have moved to the reseller.  Requests served in parallel do not  *)
(* see each other's mailboxes: then an administrator may pass his limit, or *)
(* one just lowered, but only by the number of requests at once, and no     *)
(* further however often they come.                                         *)
WithinLimits ==
  exact /\ sound =>
    IF parallel
      THEN \A x \in Admins : Active(x) => used[x] <= limit[x] + Cardinality(Slots)
      ELSE \A h \in Holders : Active(h) => used[h] <= limit[h]

(* Both, with the types: nothing is created or lost, and nobody has more    *)
(* than his share.                                                          *)
PoolInv == RPTypeOK /\ PoolConserved /\ WithinLimits
=============================================================================
