------------------------------ MODULE DkimKeys ------------------------------
(***************************************************************************)
(* The DKIM keys of domains and the map in which rspamd finds them         *)
(* (modoboa/admin, modoboa/rspamd).                                        *)
(*                                                                         *)
(* A request that enables DKIM enqueues the command manage_dkim_keys with  *)
(* the domain's name and commits later; the worker of the queue dkim       *)
(* writes the key to a file of that name, and then the job that updates    *)
(* the map is enqueued.  Each queue has one worker.                        *)
(***************************************************************************)
EXTENDS Naturals

CONSTANTS
  DomainRows,  \* domain rows
  DomainNames, \* domain names; the key of name n is the file n.pem, called n too
  NoName,      \* the empty string
  MaxKeys,     \* bound: keys that openssl is asked for
  MaxRequests  \* bound: requests

ASSUME DkimAssumption ==
  NoName \notin DomainNames /\ MaxKeys \in Nat /\ MaxRequests \in Nat

VARIABLES
  domain,   \* name, enable_dkim, dkim_private_key_path, dkim_public_key (0: empty)
  file,     \* the key in each file, 0 when there is no file
  keys,     \* the last key
  requests, \* requests so far
  pending,  \* what a request will commit
  dkim_queue, \* names that the queue dkim holds
  command,  \* the command in progress
  updates,  \* the updates of the map in the queue modoboa
  key_map,  \* the path of each name in the map file, NoName for an empty one
  calm,     \* does each request wait until all queues are empty?
  robbed    \* history: domains whose file holds the key of another domain

dkVars == <<domain, file, keys, requests, pending, dkim_queue, command, updates,
            key_map, calm, robbed>>

Gone == [name |-> NoName, on |-> FALSE, path |-> NoName, key |-> 0]
NoTask == [row |-> NoName, name |-> NoName]
NoCommand == [pc |-> "idle", todo |-> {}, done |-> {}, job |-> NoTask]
NoEntry == "none"

DKInit ==
  /\ domain = [d \in DomainRows |-> Gone]
  /\ file = [n \in DomainNames |-> 0]
  /\ keys = 0 /\ requests = 0
  /\ pending = [d \in {} |-> Gone]
  /\ dkim_queue = {}
  /\ command = NoCommand
  /\ updates = {}
  /\ key_map = [n \in DomainNames |-> NoEntry]
  /\ calm \in BOOLEAN
  /\ robbed = {}

Live(d) == domain[d].name # NoName
NoRequests == DOMAIN pending = {}
AtRest == NoRequests /\ dkim_queue = {} /\ command = NoCommand /\ updates = {}
NameFree(n) == \A d \in DomainRows : domain[d].name # n

-----------------------------------------------------------------------------
(* Enqueues: jobs are enqueued, then the row is committed.                  *)

Enqueues(d, row, jobs) ==
  /\ NoRequests /\ (calm => AtRest)
  /\ requests < MaxRequests /\ requests' = requests + 1
  /\ pending' = [x \in {d} |-> row]
  /\ dkim_queue' = dkim_queue \cup jobs
  /\ UNCHANGED <<domain, file, keys, command, updates, key_map, calm, robbed>>

CreateRow(d, n, on) ==
  /\ ~Live(d) /\ NameFree(n)
  /\ Enqueues(d, [name |-> n, on |-> on, path |-> NoName, key |-> 0],
              IF on THEN {n} ELSE {})

EnableDkim(d) ==
  /\ Live(d) /\ ~domain[d].on
  /\ Enqueues(d, [domain[d] EXCEPT !.on = TRUE], {domain[d].name})

(* The public key is kept.                                                  *)
PathDisabled(d) == NoName

DisableDkim(d) ==
  /\ Live(d) /\ domain[d].on
  /\ Enqueues(d, [domain[d] EXCEPT !.on = FALSE, !.path = PathDisabled(d)], {})

(* A new key length empties both columns.                                   *)
ChangeLength(d) ==
  /\ Live(d)
  /\ Enqueues(d, [domain[d] EXCEPT !.path = NoName, !.key = 0], {domain[d].name})

RenameRow(d, n) ==
  /\ Live(d) /\ NameFree(n)
  /\ Enqueues(d, [domain[d] EXCEPT !.name = n], {})

(* All columns are written as they were loaded.                             *)
CommitRow ==
  /\ \E d \in DOMAIN pending :
       /\ domain' = [domain EXCEPT ![d] = pending[d]]
       /\ robbed' = IF pending[d].path = NoName THEN robbed \ {d} ELSE robbed
  /\ pending' = [d \in {} |-> Gone]
  /\ UNCHANGED <<file, keys, requests, dkim_queue, command, updates, key_map, calm>>

DeleteSigned(d) ==
  /\ Live(d) /\ NoRequests /\ (calm => AtRest)
  /\ requests < MaxRequests /\ requests' = requests + 1
  /\ domain' = [domain EXCEPT ![d] = Gone]
  /\ robbed' = robbed \ {d}
  /\ UNCHANGED <<file, keys, pending, dkim_queue, command, updates, key_map, calm>>

-----------------------------------------------------------------------------
(* manage_dkim_keys *)

Starts(ds) ==
  command' = IF ds = {} THEN NoCommand
             ELSE [NoCommand EXCEPT
                     !.pc = "next",
                     !.todo = {[row |-> d, name |-> domain[d].name] : d \in ds}]

Wanting == {d \in DomainRows : domain[d].on /\ domain[d].path = NoName}

(* In calm the job runs when the request has committed.                     *)
TakeJob(n) ==
  /\ command = NoCommand /\ n \in dkim_queue /\ (calm => NoRequests)
  /\ dkim_queue' = dkim_queue \ {n}
  /\ Starts({d \in Wanting : domain[d].name = n})
  /\ UNCHANGED <<domain, file, keys, requests, pending, updates, key_map, calm, robbed>>

(* The command without a domain, by hand.                                   *)
GenerateAll ==
  /\ command = NoCommand /\ (calm => AtRest)
  /\ requests < MaxRequests /\ requests' = requests + 1
  /\ Starts(Wanting)
  /\ UNCHANGED <<domain, file, keys, pending, dkim_queue, updates, key_map, calm, robbed>>

(* create_new_dkim_key, as far as openssl genrsa, which writes over a file  *)
(* of the same name.                                                        *)
Generate(j) ==
  /\ command.pc = "next" /\ j \in command.todo
  /\ keys < MaxKeys
  /\ keys' = keys + 1
  /\ file' = [file EXCEPT ![j.name] = keys + 1]
  /\ robbed' = robbed \cup {d \in DomainRows \ {j.row} : domain[d].path = j.name}
  /\ command' = [command EXCEPT !.pc = "save", !.todo = @ \ {j}, !.job = j]
  /\ UNCHANGED <<domain, requests, pending, dkim_queue, updates, key_map, calm>>

(* Mutant: the public key is not saved.                                     *)
SavedPathOnly(j) == domain[j.row].key

(* The public key is made from the file.                                    *)
SavedKey(j) == file[j.name]

(* Two columns are saved; those of a deleted domain cannot be, which ends   *)
(* the command.                                                             *)
SaveKey ==
  LET j == command.job IN
  /\ command.pc = "save"
  /\ IF Live(j.row)
       THEN /\ domain' = [domain EXCEPT ![j.row].path = j.name, ![j.row].key = SavedKey(j)]
            /\ command' = [command EXCEPT !.pc = "next", !.done = @ \cup {j.row}, !.job = NoTask]
       ELSE command' = NoCommand /\ UNCHANGED domain
  /\ UNCHANGED <<file, keys, requests, pending, dkim_queue, updates, key_map, calm, robbed>>

(* The public key cannot be made: the file is there, the row is not saved.  *)
PublicKeyFails ==
  /\ command.pc = "save"
  /\ command' = [command EXCEPT !.pc = "next", !.done = @ \cup {command.job.row}, !.job = NoTask]
  /\ UNCHANGED <<domain, file, keys, requests, pending, dkim_queue, updates, key_map,
                 calm, robbed>>

(* openssl fails, or the directory cannot be written: an alarm, and on to   *)
(* the next domain.                                                         *)
GenerateFails(j) ==
  /\ command.pc = "next" /\ j \in command.todo
  /\ command' = [command EXCEPT !.todo = @ \ {j}, !.done = @ \cup {j.row}]
  /\ UNCHANGED <<domain, file, keys, requests, pending, dkim_queue, updates, key_map, calm, robbed>>

(* Mutant: the signal names no domain.                                      *)
SignalNothing == updates

(* dkim_keys_created, whether there is a key or not.                        *)
Signalled == updates \cup {command.done}

EndCommand ==
  /\ command.pc = "next" /\ command.todo = {}
  /\ updates' = Signalled
  /\ command' = NoCommand
  /\ UNCHANGED <<domain, file, keys, requests, pending, dkim_queue, key_map, calm, robbed>>

(* update_rspamd_maps: a line with a name and no path cannot be read, and   *)
(* then no update succeeds any more.                                        *)
Unreadable == \E n \in DomainNames : key_map[n] = NoName

Entry(n, ds) ==
  LET rows == {d \in ds : domain[d].name = n} IN
  IF rows = {} THEN key_map[n]
  ELSE LET d == CHOOSE x \in rows : TRUE IN
       IF domain[d].on THEN domain[d].path ELSE NoEntry

UpdateMap(ds) ==
  /\ ds \in updates
  /\ updates' = updates \ {ds}
  /\ key_map' = IF Unreadable THEN key_map ELSE [n \in DomainNames |-> Entry(n, ds)]
  /\ UNCHANGED <<domain, file, keys, requests, pending, dkim_queue, command, calm, robbed>>

-----------------------------------------------------------------------------
DomainStep(d) ==
  \/ \E n \in DomainNames : RenameRow(d, n) \/ \E on \in BOOLEAN : CreateRow(d, n, on)
  \/ EnableDkim(d) \/ DisableDkim(d) \/ ChangeLength(d) \/ DeleteSigned(d)

CommandStep ==
  \/ \E n \in dkim_queue : TakeJob(n)
  \/ \E j \in command.todo : Generate(j) \/ GenerateFails(j)
  \/ SaveKey \/ PublicKeyFails \/ EndCommand

DKNext ==
  \/ \E d \in DomainRows : DomainStep(d)
  \/ CommitRow \/ GenerateAll \/ CommandStep
  \/ \E ds \in updates : UpdateMap(ds)

DKSpec == DKInit /\ [][DKNext]_dkVars

-----------------------------------------------------------------------------
(* Properties *)

DKTypeOK ==
  /\ domain \in [DomainRows -> [name : DomainNames \cup {NoName}, on : BOOLEAN,
                             path : DomainNames \cup {NoName}, key : 0 .. MaxKeys]]
  /\ \A d, e \in DomainRows : Live(d) /\ domain[d].name = domain[e].name => d = e
  /\ file \in [DomainNames -> 0 .. keys]
  /\ command.pc \in {"idle", "next", "save"}
  /\ dkim_queue \subseteq DomainNames /\ updates \subseteq SUBSET DomainRows
  /\ key_map \in [DomainNames -> DomainNames \cup {NoName, NoEntry}]
  /\ \A d \in DomainRows : domain[d].on /\ domain[d].path # NoName => file[domain[d].path] # 0
  /\ robbed \subseteq DomainRows

(* The public key of a domain, which its DNS record shows, belongs to the   *)
(* private key with which its messages are signed.  Only a new domain of    *)
(* its former name can write over that.                                     *)
KeyPair ==
  \A d \in DomainRows \ robbed :
    domain[d].on /\ domain[d].path # NoName => domain[d].key = file[domain[d].path]

(* When all queues are empty a domain that wants DKIM has a key, and rspamd *)
(* finds it under the domain's name, unless the domain was renamed since or *)
(* the map is unreadable.                                                   *)
SignedWhenQuiet ==
  calm /\ AtRest /\ ~Unreadable =>
    \A d \in DomainRows :
      domain[d].on => /\ domain[d].path # NoName
                      /\ domain[d].path = domain[d].name =>
                           key_map[domain[d].name] = domain[d].path

(* Both, with the types and the uniqueness of names.                        *)
KeyInv == DKTypeOK /\ KeyPair /\ SignedWhenQuiet

(* One failure does not end all updates of the map.                         *)
(* Not what the code does: README.md, Known deviations.                     *)
MapReadable == ~Unreadable

(* rspamd does not sign for domains that do not want it.                    *)
(* Not what the code does: README.md, Known deviations.                     *)
DisabledNotSigned ==
  AtRest => \A d \in DomainRows : Live(d) /\ ~domain[d].on => key_map[domain[d].name] = NoEntry
=============================================================================
