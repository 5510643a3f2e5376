----------------------------- MODULE DnsChecks -----------------------------
(* The hourly DNS checks of a domain (admin/dns_checker.py, the managers of *)
(* MXRecord and DNSRecord, admin/jobs.py) and what its administrators do to *)
(* its alarms meanwhile.  Rows of answers stay valid for Ttl hours, those   *)
(* of wrong records for no time.  The job commits every statement.          *)
EXTENDS Integers, FiniteSets

CONSTANTS
  Mxs,        \* mail exchangers
  Providers,  \* DNSBL providers
  Types,      \* kinds of TXT records that are checked
  Trusted,    \* values of valid_mxs to try: sets of exchangers
  Ttl,        \* hours a good answer stays valid
  MaxTouches, \* bound: changes of DNS, of parameters, of alarms and the domain
  Absent      \* no row

ASSUME DCAssumption ==
  /\ Ttl \in Nat \ {0} /\ MaxTouches \in Nat /\ Trusted \subseteq SUBSET Mxs
  /\ Absent \notin {"on", "off", "yes", "no"}
  /\ \A row \in [life : 0 .. Ttl, managed : BOOLEAN] : row # Absent

VARIABLES
  answer,  \* what the servers answer at the moment
  allowed, \* valid_mxs; when it is empty every exchanger is allowed
  domain,  \* the row: enabled, disabled or Absent
  mxrow,   \* per exchanger its row or Absent
  listed,  \* per exchanger and provider the DNSBLResult: "yes", "no", Absent
  record,  \* per type the DNSRecord or Absent
  open,    \* per alarm of the MX checks the number of opened rows
  closed,  \* and of closed ones
  warned,  \* per provider whether an alarm about it is opened
  check,   \* the job, with what it loaded
  due,     \* the hour's check was not started yet
  touched, \* history: the alarms changed since they were checked
  revived, \* history: a job inserted the domain again after its deletion
  failed,  \* history: the last job raised
  seen,    \* history: what the last check of the exchangers was told
  touches  \* history: how much was changed

dcVars == <<answer, allowed, domain, mxrow, listed, record, open, closed, warned, check,
            due, touched, revived, failed, seen, touches>>
dcRows == <<mxrow, listed, record>>
alarmVars == <<open, closed, warned>>
dcHistory == <<touched, revived, failed, seen>>

MXAlarms == {"no_mx", "invalid_mx"}
Values == {"none", "good", "bad"}
Answers == [mx : SUBSET Mxs, black : SUBSET (Mxs \X Providers), txt : [Types -> Values]]
Quiet == [at |-> "idle", loaded |-> Absent, mx |-> {}, left |-> {}]

DCInit ==
  /\ answer = [mx |-> Mxs, black |-> {}, txt |-> [t \in Types |-> "good"]]
  /\ allowed = {}
  /\ domain = "on"
  /\ mxrow = [m \in Mxs |-> Absent]
  /\ listed = [x \in Mxs \X Providers |-> Absent]
  /\ record = [t \in Types |-> Absent]
  /\ open = [a \in MXAlarms |-> 0] /\ closed = [a \in MXAlarms |-> 0]
  /\ warned = {}
  /\ check = Quiet /\ due = TRUE
  /\ touched = {} /\ revived = FALSE /\ failed = FALSE /\ seen = Absent /\ touches = 0

MXRows == {m \in Mxs : mxrow[m] # Absent}

-----------------------------------------------------------------------------
(* The job *)

(* launch_domain_dns_checks loads the domain, if it is enabled, and the     *)
(* checker removes the results of providers that are no longer asked.       *)
StartCheck ==
  /\ check.at = "idle" /\ due /\ domain = "on"
  /\ check' = [Quiet EXCEPT !.at = "mx", !.loaded = domain]
  /\ due' = FALSE
  /\ UNCHANGED <<answer, allowed, domain, dcRows, alarmVars, dcHistory, touches>>

(* Mutant: the date of a row is not looked at.                              *)
AllRows == {m \in Mxs : mxrow[m] # Absent}

(* The rows that are still valid are used.  When there are none, all are    *)
(* removed, with their DNSBL results, and made again from the answer.       *)
FreshRows == {m \in MXRows : mxrow[m].life > 0}
GetMX ==
  /\ check.at = "mx" /\ domain # Absent
  /\ \/ FreshRows # {} /\ check' = [check EXCEPT !.at = "valid", !.mx = FreshRows]
        /\ UNCHANGED dcRows
     \/ FreshRows = {}
        /\ mxrow' = [m \in Mxs |-> IF m \in answer.mx
                                     THEN [life |-> Ttl, managed |-> FALSE] ELSE Absent]
        /\ listed' = [x \in Mxs \X Providers |-> Absent]
        /\ check' = [check EXCEPT !.at = "valid", !.mx = answer.mx]
        /\ UNCHANGED record
  /\ UNCHANGED <<answer, allowed, domain, alarmVars, due, dcHistory, touches>>

(* check_valid_mx: which alarm it opens, and which it closes.  It finds the *)
(* alarm by get_or_create among the opened ones: with several of a name it  *)
(* raises MultipleObjectsReturned.                                          *)
Problem == IF check.mx = {} THEN {"no_mx"}
           ELSE IF allowed # {} /\ check.mx \cap allowed = {} THEN {"invalid_mx"} ELSE {}

(* Mutant: that there are exchangers again is noticed with valid ones only. *)
SolvedByValid == IF check.mx # {} /\ check.mx \cap allowed # {} THEN MXAlarms ELSE {}

Solved == IF check.mx = {} THEN {}
          ELSE IF allowed # {} /\ check.mx \cap allowed # {} THEN MXAlarms ELSE {"no_mx"}

CheckValidMX ==
  /\ check.at = "valid" /\ domain # Absent
  /\ \A a \in Problem : open[a] <= 1
  /\ open' = [a \in MXAlarms |-> IF a \in Problem THEN 1 ELSE IF a \in Solved THEN 0 ELSE open[a]]
  /\ closed' = [a \in MXAlarms |-> IF a \in Solved THEN closed[a] + open[a] ELSE closed[a]]
  /\ mxrow' = [m \in Mxs |-> IF m \in check.mx \cap allowed
                               THEN [mxrow[m] EXCEPT !.managed = TRUE] ELSE mxrow[m]]
  /\ check' = [check EXCEPT !.at = "txt"]
  /\ touched' = touched \ (Problem \cup Solved)
  /\ seen' = [mx |-> check.mx, allowed |-> allowed]
  /\ UNCHANGED <<answer, allowed, domain, listed, record, warned, due, revived, failed, touches>>

(* The records that are no longer valid, made again from the answers; a     *)
(* wrong one is valid for no time.                                          *)
Asked(t) == record[t] = Absent \/ record[t].life = 0
CheckRecords ==
  /\ check.at = "txt" /\ domain # Absent
  /\ record' = [t \in Types |->
       IF ~Asked(t) THEN record[t]
       ELSE IF answer.txt[t] = "none" THEN Absent
       ELSE [good |-> answer.txt[t] = "good", life |-> IF answer.txt[t] = "good" THEN Ttl ELSE 0]]
  /\ check' = [check EXCEPT !.at = "dnsbl", !.left = IF check.mx = {} THEN {} ELSE Providers]
  /\ UNCHANGED <<answer, allowed, domain, mxrow, listed, alarmVars, due, dcHistory, touches>>

(* query_dnsbl and store_dnsbl_result, for one provider.  The status of a   *)
(* row that exists is written before it is compared with the new one, so    *)
(* only new rows open an alarm; the others close those that are opened, in  *)
(* the order of the exchangers: last is the one whose turn comes last.      *)
Black(m, p) == <<m, p>> \in answer.black

(* Mutant: a provider that knows nothing of an exchanger leaves no row.     *)
StoredListed(p) == {x \in answer.black : x[1] \in check.mx /\ x[2] = p}

Stored(p) == {x \in Mxs \X Providers : x[1] \in check.mx /\ x[2] = p}
StoreResults(p) ==
  /\ check.at = "dnsbl" /\ p \in check.left /\ domain # Absent
  /\ listed' = [x \in Mxs \X Providers |->
       IF x \notin Stored(p) THEN listed[x] ELSE IF Black(x[1], p) THEN "yes" ELSE "no"]
  /\ \E last \in check.mx :
       warned' = IF Black(last, p) /\ listed[<<last, p>>] = Absent
                   THEN warned \cup {p} ELSE warned \ {p}
  /\ check' = [check EXCEPT !.left = check.left \ {p}]
  /\ UNCHANGED <<answer, allowed, domain, mxrow, record, open, closed, due, dcHistory, touches>>

(* domain.save() writes the row that was loaded, or inserts it when it was  *)
(* deleted meanwhile.                                                       *)
Finish ==
  /\ check.at = "dnsbl" /\ check.left = {}
  /\ domain' = check.loaded
  /\ revived' = (revived \/ domain = Absent)
  /\ check' = Quiet /\ failed' = FALSE
  /\ UNCHANGED <<answer, allowed, dcRows, alarmVars, due, touched, seen, touches>>

(* The job raises: several opened alarms of one name, or a row whose domain *)
(* is gone.  RQ does not try it again.                                      *)
CheckFails ==
  /\ \/ check.at = "valid" /\ \E a \in Problem : open[a] > 1
     \/ check.at \in {"mx", "valid", "txt"} /\ domain = Absent
     \/ check.at = "dnsbl" /\ check.left # {} /\ domain = Absent
  /\ check' = Quiet /\ failed' = TRUE
  /\ UNCHANGED <<answer, allowed, domain, dcRows, alarmVars, due, touched, revived, seen, touches>>

(* The next hour; no check needs one.  handle_dns_checks looks for the      *)
(* domains of the minute in which it runs: a check may be skipped.           *)
HourPasses ==
  /\ check.at = "idle"
  /\ mxrow' = [m \in Mxs |-> IF m \in MXRows /\ mxrow[m].life > 0
                                 THEN [mxrow[m] EXCEPT !.life = @ - 1] ELSE mxrow[m]]
  /\ record' = [t \in Types |-> IF Asked(t) THEN record[t] ELSE [record[t] EXCEPT !.life = @ - 1]]
  /\ due' = TRUE
  /\ UNCHANGED <<answer, allowed, domain, listed, alarmVars, check, dcHistory, touches>>

-----------------------------------------------------------------------------
(* Everybody else *)

Touch == touches < MaxTouches /\ touches' = touches + 1

(* The zone changes, a list of black names does, or no server answers.      *)
AnswersChange ==
  /\ Touch
  /\ \/ \E ms \in SUBSET Mxs : answer' = [answer EXCEPT !.mx = ms]
     \/ \E x \in Mxs \X Providers :
          answer' = [answer EXCEPT !.black = IF x \in @ THEN @ \ {x} ELSE @ \cup {x}]
     \/ \E t \in Types, v \in Values : answer' = [answer EXCEPT !.txt[t] = v]
  /\ UNCHANGED <<allowed, domain, dcRows, alarmVars, check, due, dcHistory>>

(* A super administrator saves the parameter valid_mxs.                     *)
ChangeValidMXs ==
  /\ Touch
  /\ allowed' \in Trusted
  /\ UNCHANGED <<answer, domain, dcRows, alarmVars, check, due, dcHistory>>

(* AlarmViewSet: an alarm is closed, opened again, or deleted.              *)
SwitchAlarm(a) ==
  /\ Touch
  /\ \/ open[a] > 0 /\ open' = [open EXCEPT ![a] = @ - 1]
        /\ closed' = [closed EXCEPT ![a] = @ + 1]
     \/ closed[a] > 0 /\ closed' = [closed EXCEPT ![a] = @ - 1]
        /\ open' = [open EXCEPT ![a] = @ + 1]
     \/ open[a] > 0 /\ open' = [open EXCEPT ![a] = @ - 1] /\ UNCHANGED closed
  /\ touched' = touched \cup {a}
  /\ UNCHANGED <<answer, allowed, domain, dcRows, warned, check, due, revived, failed, seen>>

SwitchChecks ==
  /\ Touch
  /\ domain # Absent
  /\ domain' = IF domain = "on" THEN "off" ELSE "on"
  /\ UNCHANGED <<answer, allowed, dcRows, alarmVars, check, due, dcHistory>>

(* The rows of a deleted domain go by cascade.                              *)
DeleteDomain ==
  /\ Touch
  /\ domain # Absent
  /\ domain' = Absent
  /\ mxrow' = [m \in Mxs |-> Absent] /\ listed' = [x \in Mxs \X Providers |-> Absent]
  /\ record' = [t \in Types |-> Absent]
  /\ open' = [a \in MXAlarms |-> 0] /\ closed' = [a \in MXAlarms |-> 0] /\ warned' = {}
  /\ seen' = Absent
  /\ UNCHANGED <<answer, allowed, check, due, touched, revived, failed>>

DCJobStep ==
  \/ StartCheck \/ GetMX \/ CheckValidMX \/ CheckRecords \/ Finish \/ CheckFails
  \/ \E p \in Providers : StoreResults(p)

DCNext ==
  \/ DCJobStep \/ HourPasses
  \/ AnswersChange \/ ChangeValidMXs \/ SwitchChecks \/ DeleteDomain
  \/ \E a \in MXAlarms : SwitchAlarm(a)

DCSpec == DCInit /\ [][DCNext]_dcVars

(* RQ executes the jobs, and an hour ends some time.                        *)
DCFairness == WF_dcVars(DCJobStep) /\ WF_dcVars(HourPasses)

-----------------------------------------------------------------------------
DCTypeOK ==
  /\ answer \in Answers /\ allowed \in {{}} \cup Trusted
  /\ domain \in {"on", "off", Absent}
  /\ mxrow \in [Mxs -> {Absent} \cup [life : 0..Ttl, managed : BOOLEAN]]
  /\ listed \in [Mxs \X Providers -> {"yes", "no", Absent}]
  /\ record \in [Types -> {Absent} \cup [good : BOOLEAN, life : 0..Ttl]]
  /\ open \in [MXAlarms -> Nat] /\ closed \in [MXAlarms -> Nat] /\ warned \subseteq Providers
  /\ touched \subseteq MXAlarms /\ touches \in 0..MaxTouches

(* What the administrators are told about the exchangers is what the last   *)
(* check found: one alarm is opened, and one only, as long as the problem   *)
(* lasts, and none when it is over - unless they changed the alarm          *)
(* themselves (check_valid_mx).                                             *)
AlarmsTrue ==
  seen # Absent =>
    /\ "no_mx" \in touched \/ open["no_mx"] = IF seen.mx = {} THEN 1 ELSE 0
    /\ \/ "invalid_mx" \in touched \/ seen.mx = {} \/ seen.allowed = {}
       \/ open["invalid_mx"] = IF seen.mx \cap seen.allowed = {} THEN 1 ELSE 0

(* A DNSBL result is about an exchanger that the domain has, and when a     *)
(* check came to its end every exchanger has one of every provider: a       *)
(* domain is not shown as sound because nobody was asked                    *)
(* (store_dnsbl_result, MXRecord.get_or_create_for_domain).                 *)
ResultsComplete ==
  /\ \A x \in Mxs \X Providers : listed[x] # Absent => mxrow[x[1]] # Absent
  /\ check.at = "idle" /\ ~failed =>
       \A m \in MXRows, p \in Providers : listed[<<m, p>>] # Absent

DnsInv == DCTypeOK /\ AlarmsTrue /\ ResultsComplete

(* When nothing changes any more, the rows show in the end what the servers *)
(* answer, however the checks and the changes overlapped: no stale row is   *)
(* kept for ever.                                                           *)
Sound ==
  /\ MXRows = answer.mx
  /\ \A t \in Types : IF answer.txt[t] = "none" THEN record[t] = Absent
                      ELSE record[t] # Absent /\ record[t].good = (answer.txt[t] = "good")
StatusCatchesUp == <>[](domain # "on" \/ failed \/ Sound)

(* Not true of the code: see the README.                                    *)
ListedHasAlarm ==
  check.at = "idle" /\ ~failed =>
    \A p \in Providers : (\E m \in MXRows : listed[<<m, p>>] = "yes") => p \in warned
DeletedStaysDeleted == ~revived
InvalidAlarmCloses == seen # Absent /\ seen.allowed = {} => open["invalid_mx"] = 0
=============================================================================
