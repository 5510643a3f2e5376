--------------------------- MODULE CalendarRights ---------------------------
(***************************************************************************)
(* The rights file of Radicale (modoboa/calendars).                        *)
(*                                                                         *)
(* Users share their calendars by access rules.  A job writes the rules to *)
(* a file, but only when a rule is younger than the file: times of rules   *)
(* have a fraction, that of the file is cut to the second, so a rule is    *)
(* younger if it was saved in the file's second or later.  The clock here  *)
(* counts seconds.                                                         *)
(***************************************************************************)
EXTENDS Naturals, FiniteSets

CONSTANTS
  UserCalendars, \* primary keys of calendars
  Guests,        \* mailboxes that calendars are shared with
  Titles,        \* names of calendars, of one owner
  Gone,          \* no row, no file
  MaxClock,      \* bound: seconds
  MaxRights      \* bound: requests ever made

ASSUME RightsAssumption ==
  Gone \notin Titles \cup [title : Titles, path : Titles] /\ MaxClock \in Nat /\ MaxRights \in Nat

VARIABLES
  now,     \* the clock
  agenda,  \* per calendar its name and its path, or Gone
  rule,    \* per calendar and guest the AccessRule, or Gone
  file,    \* the rights file, or Gone
  writer,  \* the run of generate_rights
  missed,  \* history: rules saved while they were being written, in a second
           \* before the one in which the file was closed
  rights   \* history: the number of requests

crVars == <<now, agenda, rule, file, writer, missed, rights>>

Shares == UserCalendars \X Guests
Permissions == SUBSET {"r", "w"}
Idle == [pc |-> "idle"]

CRInit ==
  /\ now = 0
  /\ agenda = [c \in UserCalendars |-> Gone]
  /\ rule = [s \in Shares |-> Gone]
  /\ file = Gone
  /\ writer = Idle
  /\ missed = {}
  /\ rights = 0

Tick ==
  /\ now < MaxClock
  /\ now' = now + 1
  /\ UNCHANGED <<agenda, rule, file, writer, missed, rights>>

-----------------------------------------------------------------------------
Changes == rights < MaxRights /\ rights' = rights + 1

(* set_user_calendar_path: the path is set at creation ...                  *)
CreateCalendar(c, t) ==
  /\ Changes
  /\ agenda[c] = Gone
  /\ agenda' = [agenda EXCEPT ![c] = [title |-> t, path |-> t]]
  /\ UNCHANGED <<now, rule, file, writer, missed>>

(* ... and kept when the name changes.                                      *)
UpdateCalendar(c, t) ==
  /\ Changes
  /\ agenda[c] # Gone
  /\ agenda' = [agenda EXCEPT ![c].title = t]
  /\ UNCHANGED <<now, rule, file, writer, missed>>

(* What the writer has read of rules that change now is out of date.        *)
Saved(new) ==
  /\ rule' = new
  /\ LET changed == {s \in Shares : new[s] # rule[s]}
     IN  /\ missed' = missed \ changed
         /\ writer' = IF writer.pc = "write" THEN [writer EXCEPT !.late = @ \cup changed] ELSE writer

DeleteCalendar(c) ==
  /\ Changes
  /\ agenda[c] # Gone
  /\ agenda' = [agenda EXCEPT ![c] = Gone]
  /\ Saved([s \in Shares |-> IF s[1] = c THEN Gone ELSE rule[s]])
  /\ UNCHANGED <<now, file>>

Rule(p) == [perm |-> p, at |-> now]

CreateRule(s, p) ==
  /\ Changes
  /\ agenda[s[1]] # Gone /\ rule[s] = Gone
  /\ Saved([rule EXCEPT ![s] = Rule(p)])
  /\ UNCHANGED <<now, agenda, file>>

(* AccessRuleSerializer.update: another calendar and guest are possible.    *)
UpdateRule(s, to, p) ==
  /\ Changes
  /\ rule[s] # Gone
  /\ agenda[to[1]] # Gone /\ (to = s \/ rule[to] = Gone)
  /\ Saved([rule EXCEPT ![s] = Gone, ![to] = Rule(p)])
  /\ UNCHANGED <<now, agenda, file>>

DeleteRule(s) ==
  /\ Changes
  /\ rule[s] # Gone
  /\ Saved([rule EXCEPT ![s] = Gone])
  /\ UNCHANGED <<now, agenda, file>>

-----------------------------------------------------------------------------
(* Mutant: the time of the file is not cut to the second.                   *)
YoungerStrictly(s) == rule[s] # Gone /\ rule[s].at > file.mtime

Younger(s) == rule[s] # Gone /\ rule[s].at >= file.mtime

(* handle: without a rule younger than the file there is nothing to do.  To *)
(* open the file is to empty it.                                            *)
OpenFile(force) ==
  /\ writer = Idle
  /\ ~force /\ file # Gone => \E s \in Shares : Younger(s)
  /\ file' = [lines |-> {}, tokens |-> {}, mtime |-> now, whole |-> FALSE]
  /\ writer' = [pc |-> "rules"]
  /\ UNCHANGED <<now, agenda, rule, missed, rights>>

Lines == {[section |-> <<s[2], agenda[s[1]].title>>, guest |-> s[2], path |-> agenda[s[1]].path,
           perm |-> rule[s].perm, of |-> s[1]] : s \in {x \in Shares : rule[x] # Gone}}

(* _user_access_rules: one query.                                           *)
ReadRules ==
  /\ writer.pc = "rules"
  /\ writer' = [pc |-> "write", lines |-> Lines, late |-> {}]
  /\ UNCHANGED <<now, agenda, rule, file, missed, rights>>

(* _token_access_rules, and what has been written reaches the file.         *)
CloseFile ==
  /\ writer.pc = "write"
  /\ file' = [lines |-> writer.lines, tokens |-> {c \in UserCalendars : agenda[c] # Gone},
              mtime |-> now, whole |-> TRUE]
  /\ missed' = {s \in writer.late : rule[s] # Gone /\ rule[s].at < now}
  /\ writer' = Idle
  /\ UNCHANGED <<now, agenda, rule, rights>>

WriterKilled ==
  /\ writer # Idle
  /\ writer' = Idle
  /\ UNCHANGED <<now, agenda, rule, file, missed, rights>>

-----------------------------------------------------------------------------
CRNext ==
  \/ Tick \/ ReadRules \/ CloseFile \/ WriterKilled
  \/ \E force \in BOOLEAN : OpenFile(force)
  \/ \E c \in UserCalendars :
       DeleteCalendar(c) \/ \E t \in Titles : CreateCalendar(c, t) \/ UpdateCalendar(c, t)
  \/ \E s \in Shares :
       \/ DeleteRule(s)
       \/ \E p \in Permissions : CreateRule(s, p) \/ \E to \in Shares : UpdateRule(s, to, p)

CRSpec == CRInit /\ [][CRNext]_crVars

-----------------------------------------------------------------------------
CRTypeOK ==
  /\ now \in 0..MaxClock /\ rights \in 0..MaxRights
  /\ agenda \in [UserCalendars -> {Gone} \cup [title : Titles, path : Titles]]
  /\ rule \in [Shares -> {Gone} \cup [perm : Permissions, at : 0..MaxClock]]
  /\ missed \subseteq Shares
  /\ file # Gone => file.mtime \in 0..now /\ file.whole \in BOOLEAN

InFile(s) ==
  \E x \in file.lines : x.of = s[1] /\ x.guest = s[2] /\ x.perm = rule[s].perm
                        /\ (agenda[s[1]] # Gone => x.path = agenda[s[1]].path)

(* While no run is in progress, every rule is in the file as it is, or is   *)
(* young enough for the next run to write it; except the ones saved while   *)
(* the file was written, over the end of a second, and after a killed run.  *)
RightsFollow ==
  writer = Idle /\ file # Gone /\ file.whole =>
    \A s \in Shares : rule[s] # Gone => s \in missed \/ InFile(s) \/ Younger(s)

(* ... with the types.                                                      *)
RightsInv == CRTypeOK /\ RightsFollow

(* A rule that is deleted leaves the file.                                  *)
(* Not what the code does: README.md, Known deviations.                     *)
NothingStale ==
  file # Gone /\ file.whole =>
    (\A x \in file.lines : rule[<<x.of, x.guest>>] # Gone) \/ \E s \in Shares : Younger(s)

(* Every section of the file has a name of its own.                         *)
(* Not what the code does: README.md, Known deviations.                     *)
SectionsDistinct ==
  file # Gone => \A x, y \in file.lines : x.section = y.section => x = y
=============================================================================
