---------------------------- MODULE SieveScripts ----------------------------
(***************************************************************************)
(* Filters and automatic replies (modoboa/sievefilters, modoboa/autoreply). *)
(*                                                                         *)
(* The ManageSieve server keeps the scripts of every user, one of them      *)
(* active.  A request reads a script, changes its copy and stores it again. *)
(* The automatic reply is a row of the database and a filter of the active  *)
(* script: the row is saved first, the filter follows.                      *)
(***************************************************************************)
EXTENDS Naturals

CONSTANTS
  Owners,       \* users with a mailbox
  Manager,      \* one of them, who may edit the replies of the others
  ScriptNames,  \* names of scripts
  DefaultScript,\* the one that manage_sieve_rule creates
  Filters,      \* filters that users write
  Reply,        \* the filter "autoreply"
  Editors,      \* requests that may be in progress together
  Missing,      \* no script
  MaxEdits      \* bound: requests ever made

ASSUME SieveAssumption ==
  /\ Manager \in Owners /\ DefaultScript \in ScriptNames
  /\ Missing \notin ScriptNames /\ Reply \notin Filters
  /\ MaxEdits \in Nat

VARIABLES
  script,  \* per user and name the state of each filter, or Missing
  active,  \* per user the active script, or Missing
  reply,   \* per user the row ARmessage: "none", "on" or "off"
  edit,    \* what each request has done so far
  edits,   \* history: the number of requests
  steady   \* history: has the user's reply been saved, by himself, and nobody
           \* changed the active script, the filter or the row since?

svVars == <<script, active, reply, edit, edits, steady>>

Apart == [pc |-> "apart"]
AllFilters == Filters \cup {Reply}
Contents == [AllFilters -> {"none", "on", "off"}]
Empty == [f \in AllFilters |-> "none"]

SvInit ==
  /\ active \in [Owners -> {Missing, DefaultScript}]
  /\ script = [u \in Owners |-> [s \in ScriptNames |-> IF s = active[u] THEN Empty ELSE Missing]]
  /\ reply = [u \in Owners |-> "none"]
  /\ edit = [v \in Editors |-> Apart]
  /\ edits = 0
  /\ steady = [u \in Owners |-> FALSE]

-----------------------------------------------------------------------------
Arrives == edits < MaxEdits /\ edits' = edits + 1
Enters(v, r) == Arrives /\ edit[v] = Apart /\ edit' = [edit EXCEPT ![v] = r]
Leaves(v) == edit' = [edit EXCEPT ![v] = Apart] /\ UNCHANGED edits

Put(u, s, c) == script' = [script EXCEPT ![u][s] = c]
Unsteady(u) == steady' = [steady EXCEPT ![u] = FALSE]

(* Requests that store a whole script, or change which one is active.       *)
CreateSet(u, s, activate) ==
  /\ Arrives
  /\ Put(u, s, Empty)
  /\ active' = IF activate THEN [active EXCEPT ![u] = s] ELSE active
  /\ Unsteady(u)
  /\ UNCHANGED <<reply, edit>>

UpdateSet(u, s, c) ==
  /\ Arrives
  /\ script[u][s] # Missing
  /\ Put(u, s, c)
  /\ Unsteady(u)
  /\ UNCHANGED <<active, reply, edit>>

ActivateSet(u, s) ==
  /\ Arrives
  /\ script[u][s] # Missing
  /\ active' = [active EXCEPT ![u] = s]
  /\ Unsteady(u)
  /\ UNCHANGED <<script, reply, edit>>

DeactivateActive(u) ==
  /\ Arrives
  /\ active' = [active EXCEPT ![u] = Missing]
  /\ Unsteady(u)
  /\ UNCHANGED <<script, reply, edit>>

(* The server refuses to delete the active script.                          *)
DestroySet(u, s) ==
  /\ Arrives
  /\ s # active[u] /\ script[u][s] # Missing
  /\ Put(u, s, Missing)
  /\ UNCHANGED <<active, reply, edit, steady>>

-----------------------------------------------------------------------------
(* What the library sievelib does to the copy of the script.                *)
Changed(c, op, f) ==
  CASE op \in {"add", "enable"} -> [c EXCEPT ![f] = "on"]
    [] op = "disable" -> [c EXCEPT ![f] = "off"]
    [] op = "remove" -> [c EXCEPT ![f] = "none"]
    [] op \in {"update", "move"} -> c
Possible(c, op, f) == IF op = "add" THEN c[f] = "none" ELSE op = "move" \/ c[f] # "none"

(* filters, update_filter, disable_filter, enable_filter, delete_filter and *)
(* move_filter read the script ...                                          *)
ReadScript(v, u, s, op, f) ==
  /\ script[u][s] # Missing
  /\ Possible(script[u][s], op, f)
  /\ Enters(v, [pc |-> "push", user |-> u, set |-> s, op |-> op, filter |-> f,
                read |-> script[u][s]])
  /\ UNCHANGED <<script, active, reply, steady>>

(* ... and store it, over whatever has been stored in between.              *)
StoreScript(v) ==
  /\ edit[v].pc = "push"
  /\ Put(edit[v].user, edit[v].set, Changed(edit[v].read, edit[v].op, edit[v].filter))
  /\ IF edit[v].filter = Reply \/ script[edit[v].user][edit[v].set] # edit[v].read
     THEN Unsteady(edit[v].user) ELSE UNCHANGED steady
  /\ Leaves(v)
  /\ UNCHANGED <<active, reply>>

-----------------------------------------------------------------------------
(* ARMessageSerializer saves the row; the filter is then written with the   *)
(* scripts of the user who makes the request.                               *)
SaveReply(v, u, of, state) ==
  /\ u \in {of, Manager}
  /\ Enters(v, [pc |-> "list", user |-> u, of |-> of, state |-> state])
  /\ reply' = [reply EXCEPT ![of] = state]
  /\ Unsteady(of)
  /\ UNCHANGED <<script, active>>

(* manage_sieve_rule: the active script, or a new one that becomes active.  *)
OpenActive(v) ==
  LET u == edit[v].user
      s == IF active[u] = Missing THEN DefaultScript ELSE active[u]
      c == IF active[u] = Missing THEN Empty ELSE script[u][s]
  IN  /\ edit[v].pc = "list"
      /\ Put(u, s, c)
      /\ active' = [active EXCEPT ![u] = s]
      /\ edit' = [edit EXCEPT ![v] = [pc |-> "rule", user |-> u, of |-> @.of,
                                        state |-> @.state, set |-> s, read |-> c]]
      /\ UNCHANGED <<reply, edits, steady>>

(* Mutant: a reply that is disabled keeps its filter.                       *)
WithRuleKept(c, state) ==
  IF state = "on" THEN [c EXCEPT ![Reply] = IF @ = "none" THEN "on" ELSE @] ELSE c

(* update_sieve_rule leaves a filter disabled that is.                      *)
WithRule(c, state) ==
  IF state = "on" THEN [c EXCEPT ![Reply] = IF @ = "none" THEN "on" ELSE @]
  ELSE [c EXCEPT ![Reply] = "none"]

UpToDate(w, state) ==
  /\ w.user = w.of /\ reply[w.of] = state
  /\ active[w.user] = w.set /\ script[w.user][w.set] = w.read

WriteRule(v) ==
  LET w == edit[v]
  IN  /\ w.pc = "rule"
      /\ Put(w.user, w.set, WithRule(w.read, w.state))
      /\ steady' = [steady EXCEPT ![w.user] = UpToDate(w, w.state)]
      /\ Leaves(v)
      /\ UNCHANGED <<active, reply>>

(* No space left, or no connection.                                         *)
EditFails(v) ==
  /\ edit[v] # Apart
  /\ Leaves(v)
  /\ UNCHANGED <<script, active, reply, steady>>

-----------------------------------------------------------------------------
Ops == {"add", "update", "enable", "disable", "remove", "move"}

SetRequest(u) ==
  \E s \in ScriptNames :
    \/ \E b \in BOOLEAN : CreateSet(u, s, b)
    \/ \E c \in Contents : UpdateSet(u, s, c)
    \/ ActivateSet(u, s) \/ DestroySet(u, s)

SvNext ==
  \/ \E u \in Owners : SetRequest(u) \/ DeactivateActive(u)
  \/ \E v \in Editors, u \in Owners, s \in ScriptNames, op \in Ops, f \in AllFilters :
       ReadScript(v, u, s, op, f)
  \/ \E v \in Editors, u \in Owners, of \in Owners, state \in {"on", "off"} :
       SaveReply(v, u, of, state)
  \/ \E v \in Editors : StoreScript(v) \/ OpenActive(v) \/ WriteRule(v) \/ EditFails(v)

SvSpec == SvInit /\ [][SvNext]_svVars

-----------------------------------------------------------------------------
SvTypeOK ==
  /\ script \in [Owners -> [ScriptNames -> Contents \cup {Missing}]]
  /\ active \in [Owners -> ScriptNames \cup {Missing}]
  /\ reply \in [Owners -> {"none", "on", "off"}]
  /\ steady \in [Owners -> BOOLEAN]

(* After a user has saved his automatic reply, the active script has its    *)
(* filter exactly when the reply is enabled, until somebody changes the     *)
(* script, the filter or the row behind his back.                           *)
RuleFollows ==
  \A u \in Owners : steady[u] =>
    /\ active[u] # Missing
    /\ (reply[u] = "on") <=> (script[u][active[u]][Reply] # "none")

(* ... with the types.                                                      *)
SieveInv == SvTypeOK /\ RuleFollows

(* A filter stays in its script until a request removes it.                 *)
(* Not what the code does: README.md, Known deviations.                     *)
FiltersStay ==
  [][\A u \in Owners, s \in ScriptNames, f \in Filters :
       /\ script[u][s] # Missing /\ script[u][s][f] # "none"
       /\ script'[u][s] # Missing /\ script'[u][s][f] = "none"
       => \E v \in Editors : edit[v].pc = "push" /\ edit[v].op = "remove" /\ edit[v].filter = f]_svVars
=============================================================================
