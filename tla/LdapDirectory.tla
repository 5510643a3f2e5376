---------------------------- MODULE LdapDirectory ----------------------------
(* The export of accounts to an LDAP directory (modoboa/ldapsync), which    *)
(* other programs ask for passwords.  Simple users have an entry there,     *)
(* found by their name.  It is written by a receiver of post_save: inside   *)
(* the transaction of the request, which holds the lock of the row but may  *)
(* still fail; and by one of pre_delete, before anything is locked.         *)
EXTENDS Naturals

CONSTANTS
  LdapUsers, \* primary keys of accounts
  Uids,      \* their names
  Secrets,   \* passwords
  Hands,     \* requests that may be in progress together
  MaxHands,  \* bound on the requests begun
  NoUser, Erased, NoLdapEntry, Locked

(* A row of an account.                                                     *)
Row == [name : Uids, secret : Secrets, active : BOOLEAN, role : {"user", "admin", "none"}]

ASSUME LdapAssumption ==
  /\ NoUser \notin Row /\ Erased \notin Row /\ NoUser # Erased
  /\ NoLdapEntry \notin Secrets /\ Locked \notin Secrets /\ MaxHands \in Nat

VARIABLES
  users,   \* the committed rows: name, password, whether active, and the role
  entries, \* the directory: NoLdapEntry, Locked or the password of each name
  hand,    \* the requests: instance loaded, what it has done, what it may undo
  remote,  \* the parameter ldap_sync_delete_remote_account
  adrift,  \* history: accounts saved, or changed, without or after their entry
  left,    \* history: names whose entry was left behind by their account
  taken    \* history: requests begun

ldVars == <<users, entries, hand, remote, adrift, left, taken>>

Empty == [pc |-> "idle"]
Begun(h) == hand[h].pc # "idle"
Locks(h, u) == hand[h].pc = "saved" /\ hand[h].user = u
UserExists(u) == users[u] \notin {NoUser, Erased}

LDInit ==
  /\ users = [u \in LdapUsers |-> NoUser]
  /\ entries = [n \in Uids |-> NoLdapEntry]
  /\ hand = [h \in Hands |-> Empty]
  /\ remote \in BOOLEAN
  /\ adrift = {} /\ left = {} /\ taken = 0

-----------------------------------------------------------------------------
(* update_ldap_account: an entry that is missing is created, with the       *)
(* password even if the account is disabled (create_ldap_account).          *)
Pushed(r) ==
  [entries EXCEPT ![r.name] = IF @ = NoLdapEntry \/ r.active THEN r.secret ELSE Locked]
Wanted(r) == IF r.active THEN r.secret ELSE Locked

UidFree(n) ==
  /\ \A u \in LdapUsers : UserExists(u) => users[u].name # n
  /\ \A h \in Hands : hand[h].pc = "saved" => hand[h].row.name # n

Begin(h, r) ==
  /\ ~Begun(h) /\ taken < MaxHands
  /\ hand' = [hand EXCEPT ![h] = r]
  /\ taken' = taken + 1

(* A new account: the receiver does nothing when the row is inserted, and   *)
(* again when the role is set, since the instance remembers that it had     *)
(* none.                                                                    *)
AddUser(u, r) ==
  /\ taken < MaxHands /\ users[u] = NoUser /\ UidFree(r.name)
  /\ users' = [users EXCEPT ![u] = r]
  /\ adrift' = adrift \cup {u} /\ taken' = taken + 1
  /\ UNCHANGED <<entries, hand, remote, left>>

(* The import of a CSV file saves the account once more, with its address.  *)
ImportUser(u, r) ==
  /\ taken < MaxHands /\ users[u] = NoUser /\ UidFree(r.name)
  /\ users' = [users EXCEPT ![u] = r]
  /\ entries' = IF r.role = "user" THEN Pushed(r) ELSE entries
  /\ adrift' = IF entries'[r.name] = Wanted(r) THEN adrift \ {u} ELSE adrift \cup {u}
  /\ left' = IF r.role = "user" THEN left \ {r.name} ELSE left
  /\ taken' = taken + 1
  /\ UNCHANGED <<hand, remote>>

(* update, of the account serializers: the row and the role are loaded, and *)
(* changed in memory.                                                       *)
LoadUser(h, u, r) ==
  /\ UserExists(u)
  /\ Begin(h, [pc |-> "loaded", user |-> u, was |-> users[u], row |-> r, again |-> FALSE])
  /\ UNCHANGED <<users, entries, remote, adrift, left>>

(* What post_save does for the instance of h.  With a new role the instance *)
(* is saved twice: by the setter, with the former role and password, and at *)
(* the end.  A row that is gone is inserted, which is no update.            *)
Saved(h) ==
  LET r == hand[h].row  was == hand[h].was  there == UserExists(hand[h].user) IN
  CASE r.role = "user" /\ (there \/ was.role # "user") -> Pushed(r)
    [] r.role = "admin" /\ was.role = "user" /\ there -> Pushed([r EXCEPT !.secret = was.secret])
    [] OTHER -> entries

(* Requests in states S about the account, or its name, have been overtaken.*)
(* A request marked so is one whose entry is not, or may not be, its own.   *)
Overtaken(h, r, u, n, S) ==
  [x \in Hands |-> IF x = h THEN r
                   ELSE IF hand[x].pc \in S /\ (hand[x].user = u \/ hand[x].row.name = n)
                        THEN [hand[x] EXCEPT !.again = TRUE] ELSE hand[x]]

(* Mutant: pre_save, before the UPDATE has locked the row.                  *)
SaveUserUnlocked(h) ==
  LET u == hand[h].user  n == hand[h].row.name IN
  /\ hand[h].pc = "loaded"
  /\ UidFree(n) \/ (UserExists(u) /\ users[u].name = n)
  /\ entries' = Saved(h)
  /\ hand' = Overtaken(h, [hand[h] EXCEPT !.pc = "saved",
                                         !.again = entries'[n] # Wanted(hand[h].row)],
                       u, n, {"locked"})
  /\ UNCHANGED <<users, remote, adrift, left, taken>>

(* save: the UPDATE locks the row, then the receiver writes the entry.      *)
SaveUser(h) ==
  LET u == hand[h].user  n == hand[h].row.name IN
  /\ hand[h].pc = "loaded"
  /\ \A x \in Hands : ~Locks(x, u)
  /\ UidFree(n) \/ (UserExists(u) /\ users[u].name = n)
  /\ entries' = Saved(h)
  /\ hand' = Overtaken(h, [hand[h] EXCEPT !.pc = "saved",
                                         !.again = entries'[n] # Wanted(hand[h].row)],
                       u, n, {"locked"})
  /\ UNCHANGED <<users, remote, adrift, left, taken>>

(* The role is kept in another table: only a request that changes it writes *)
(* there, and a deletion has emptied it.                                    *)
RoleAfter(h) ==
  LET r == hand[h].row  u == hand[h].user IN
  IF r.role # hand[h].was.role THEN r.role
  ELSE IF ~UserExists(u) THEN "none" ELSE users[u].role

CommitUser(h) ==
  LET r == hand[h].row  u == hand[h].user
      old == IF ~UserExists(u) THEN {} ELSE {users[u].name} \ {r.name}
      simple == RoleAfter(h) = "user"
  IN /\ hand[h].pc = "saved"
     /\ users' = [users EXCEPT ![u] = [r EXCEPT !.role = RoleAfter(h)]]
     /\ adrift' = IF r.role = "user" /\ ~hand[h].again
                  THEN adrift \ {u} ELSE adrift \cup {u}
     /\ left' = IF simple THEN (left \cup old) \ {r.name} ELSE left \cup old \cup {r.name}
     /\ hand' = [hand EXCEPT ![h] = Empty]
     /\ UNCHANGED <<entries, remote, taken>>

(* Something else in the request fails, after the entry has been written.   *)
RollbackUser(h) ==
  /\ hand[h].pc = "saved"
  /\ adrift' = adrift \cup {hand[h].user}
  /\ left' = left \cup {hand[h].row.name}
  /\ hand' = [hand EXCEPT ![h] = Empty]
  /\ UNCHANGED <<users, entries, remote, taken>>

(* ... or before: invalid data, a name in use, no answer from the server.   *)
HandFails(h) ==
  /\ hand[h].pc \in {"loaded", "deleting"}
  /\ hand' = [hand EXCEPT ![h] = Empty]
  /\ UNCHANGED <<users, entries, remote, adrift, left, taken>>

(* delete *)
BeginDelete(h, u) ==
  /\ UserExists(u)
  /\ Begin(h, [pc |-> "deleting", user |-> u, was |-> users[u], row |-> users[u],
               again |-> FALSE])
  /\ UNCHANGED <<users, entries, remote, adrift, left>>

Disabled(n) ==
  [entries EXCEPT ![n] = IF @ = NoLdapEntry \/ remote THEN NoLdapEntry ELSE Locked]

(* Mutant: the entry stays as it is.                                        *)
PreDeleteNothing(h) ==
  /\ hand[h].pc = "deleting"
  /\ hand' = [hand EXCEPT ![h].pc = "locked", ![h].again = FALSE]
  /\ UNCHANGED <<users, entries, remote, adrift, left, taken>>

(* delete_ldap_account: the entry of the name that was loaded, whoever has  *)
(* it by now.                                                               *)
PreDelete(h) ==
  LET u == hand[h].user  n == hand[h].was.name IN
  /\ hand[h].pc = "deleting"
  /\ IF UserExists(u) /\ users[u].role = "user"
     THEN /\ entries' = Disabled(n)
          /\ adrift' = adrift \cup {v \in LdapUsers \ {u} : UserExists(v) /\ users[v].name = n}
          /\ left' = left \ {n}
     ELSE UNCHANGED <<entries, adrift, left>>
  /\ hand' = Overtaken(h, [hand[h] EXCEPT !.pc = "locked", !.again = \E x \in Hands : Locks(x, u)],
                       u, n, {"saved", "locked"})
  /\ UNCHANGED <<users, remote, taken>>

DeleteUserRow(h) ==
  LET u == hand[h].user IN
  /\ hand[h].pc = "locked"
  /\ \A x \in Hands : ~Locks(x, u)
  /\ left' = IF UserExists(u) /\ (hand[h].again \/ users[u].name # hand[h].was.name)
             THEN left \cup {users[u].name, hand[h].was.name} ELSE left
  /\ users' = [users EXCEPT ![u] = Erased]
  /\ adrift' = adrift \ {u}
  /\ hand' = [hand EXCEPT ![h] = Empty]
  /\ UNCHANGED <<entries, remote, taken>>

DeleteRollback(h) ==
  /\ hand[h].pc = "locked"
  /\ adrift' = adrift \cup {hand[h].user}
  /\ hand' = [hand EXCEPT ![h] = Empty]
  /\ UNCHANGED <<users, entries, remote, left, taken>>

(* clean_inactive_accounts: an update, of which no receiver hears.          *)
CleanInactiveUser(u) ==
  /\ UserExists(u) /\ users[u].active /\ \A h \in Hands : ~Locks(h, u)
  /\ users' = [users EXCEPT ![u].active = FALSE]
  /\ adrift' = adrift \cup {u}
  /\ UNCHANGED <<entries, hand, remote, left, taken>>

LDNext ==
  \/ \E h \in Hands :
       \/ SaveUser(h) \/ CommitUser(h) \/ RollbackUser(h) \/ HandFails(h)
       \/ PreDelete(h) \/ DeleteUserRow(h) \/ DeleteRollback(h)
       \/ \E u \in LdapUsers : BeginDelete(h, u)
       \/ \E u \in LdapUsers, r \in Row : r.role # "none" /\ LoadUser(h, u, r)
  \/ \E u \in LdapUsers :
       \/ CleanInactiveUser(u)
       \/ \E r \in Row : r.role # "none" /\ (AddUser(u, r) \/ ImportUser(u, r))

LDSpec == LDInit /\ [][LDNext]_ldVars

-----------------------------------------------------------------------------
LDTypeOK ==
  /\ \A u \in LdapUsers : UserExists(u) => users[u] \in Row
  /\ \A n \in Uids : entries[n] \in {NoLdapEntry, Locked} \cup Secrets
  /\ adrift \subseteq LdapUsers /\ left \subseteq Uids /\ taken \in 0 .. MaxHands

InProgress(u) ==
  \E h \in Hands : hand[h].pc \in {"saved", "locked"} /\ hand[h].user = u

(* The entry of a simple user has his password exactly when he is active,   *)
(* however requests about him overlap: it is written while the row is       *)
(* locked.  Except after a request that failed later, one that found        *)
(* another role than there is now, an account that is new or was disabled   *)
(* by the command, and a deletion that met a new owner of the name.         *)
EntryFollows ==
  \A u \in LdapUsers \ adrift :
    UserExists(u) /\ users[u].role = "user" /\ ~InProgress(u) =>
      entries[users[u].name] = Wanted(users[u])

(* Nobody can use the entry of an account that is gone, except when it was  *)
(* renamed, or became an administrator, or was saved by another request     *)
(* while it was deleted.                                                    *)
NobodyLeft ==
  \A n \in Uids \ left : entries[n] \in Secrets =>
    \/ \E u \in LdapUsers : UserExists(u) /\ users[u].name = n /\ users[u].role = "user"
    \/ \E h \in Hands : hand[h].pc = "saved" /\ hand[h].row.name = n

(* Not true: a disabled account cannot be used in the directory.            *)
DisabledIsLocked ==
  \A u \in LdapUsers : UserExists(u) /\ users[u].role = "user" /\ ~users[u].active =>
    entries[users[u].name] \notin Secrets

LdapInv == LDTypeOK /\ EntryFollows /\ NobodyLeft
=============================================================================
