---------------------------- MODULE DmarcReports ----------------------------
(* Aggregate reports about the mail of our domains (modoboa/dmarc).  They   *)
(* arrive by e-mail; a command imports them, for each mail that Postfix     *)
(* pipes into it, or for all mails of a mailbox, again and again since none *)
(* is removed there.  A report is imported in one transaction, once.  The   *)
(* statistics of a domain are those of a week.                              *)
(*                                                                          *)
(* Every report has one record for each domain of Senders.  A mail is a     *)
(* sequence of reports, of Garbled parts that cannot be read, for which the *)
(* command exits after the mail, and of Hollow ones, reports that lack a    *)
(* policy and are skipped.  Time is counted in half days; week w begins at  *)
(* 14 * w.                                                                  *)
EXTENDS Integers, FiniteSets, Sequences

CONSTANTS
  Reports,    \* reports, of one reporter
  Senders,    \* domains that records are about
  Importers,  \* runs of the command that may be in progress together
  ReportMails, \* the mails there may be
  Period,     \* the begin and the end of what each report covers
  MaxInbox, MaxImports, \* bounds on mails in the mailbox, and on runs
  Garbled, Hollow, Unstored

VARIABLES
  local,    \* the local domains
  inbox,    \* the mailbox for reports
  report,   \* the reports stored: the domains of their records
  known,    \* is there a row for the reporter?
  import,   \* the runs in progress
  ignored,  \* history: domains of each report's records that were not local
  cascaded, \* history: ... of those that went with their domain
  accepted, \* history: reports in the mails of runs that have ended well
  imports   \* history: runs begun

dmVars == <<local, inbox, report, known, import, ignored, cascaded, accepted, imports>>
dmHistory == <<ignored, cascaded, accepted, imports>>

ASSUME DmarcAssumption ==
  /\ Period \in [Reports -> {s \in (0 .. 27) \X (0 .. 27) : s[1] <= s[2]}]
  /\ ReportMails \subseteq Seq(Reports \cup {Garbled, Hollow})
  /\ Garbled \notin Reports /\ Hollow \notin Reports
  /\ \A S \in SUBSET Senders : S # Unstored
  /\ {MaxInbox, MaxImports} \subseteq Nat

NoImport == [pc |-> "none"]
Weeks == 0 .. 1
InMails(mails) == UNION {{m[i] : i \in 1 .. Len(m)} : m \in {mails[j] : j \in 1 .. Len(mails)}}
(* The runs that have inserted the row of r, or of the reporter.            *)
Holds(p, r) == import[p].pc = "records" /\ Head(import[p].parts) = r
Introduces(p) == import[p].pc \in {"insert", "records"} /\ import[p].first
IsStored(r) == report[r] # Unstored

DMInit ==
  /\ local \in SUBSET Senders
  /\ inbox = <<>> /\ known = FALSE
  /\ report = [r \in Reports |-> Unstored]
  /\ import = [p \in Importers |-> NoImport]
  /\ ignored = [r \in Reports |-> {}] /\ cascaded = [r \in Reports |-> {}]
  /\ accepted = {} /\ imports = 0

-----------------------------------------------------------------------------
MailArrives(mail) ==
  /\ Len(inbox) < MaxInbox
  /\ inbox' = Append(inbox, mail)
  /\ UNCHANGED <<local, report, known, import, dmHistory>>

AddLocal(d) ==
  /\ d \notin local
  /\ local' = local \cup {d}
  /\ UNCHANGED <<inbox, report, known, import, dmHistory>>

(* The records go with their domain; one that is being inserted holds its   *)
(* row.                                                                     *)
RemoveLocal(d) ==
  /\ d \in local
  /\ \A p \in Importers : import[p].pc = "records" => d \notin import[p].kept
  /\ local' = local \ {d}
  /\ report' = [r \in Reports |->
                  IF IsStored(r) THEN report[r] \ {d} ELSE Unstored]
  /\ cascaded' = [r \in Reports |->
                    IF IsStored(r) /\ d \in report[r] THEN cascaded[r] \cup {d}
                    ELSE cascaded[r]]
  /\ UNCHANGED <<inbox, known, import, ignored, accepted, imports>>

-----------------------------------------------------------------------------
Imports(p, i) == import' = [import EXCEPT ![p] = i]

(* import_from_imap, with all mails there are, or import_report_from_stdin  *)
(* with one.                                                                *)
StartImport(p, mails) ==
  /\ import[p] = NoImport /\ imports < MaxImports
  /\ Imports(p, [pc |-> "mail", mails |-> mails, parts |-> <<>>, err |-> FALSE, first |-> FALSE,
              rest |-> {}, kept |-> {}, all |-> InMails(mails) \cap Reports])
  /\ imports' = imports + 1
  /\ UNCHANGED <<local, inbox, report, known, ignored, cascaded, accepted>>

(* import_report_from_email: the next mail, unless one before had a part    *)
(* that could not be read, after which the command exits.                   *)
NextMail(p) ==
  LET i == import[p] IN
  /\ i.pc = "mail" /\ i.parts = <<>> /\ ~i.err /\ i.mails # <<>>
  /\ Imports(p, [i EXCEPT !.mails = Tail(@), !.parts = Head(i.mails)])
  /\ UNCHANGED <<local, inbox, report, known, dmHistory>>

EndsWell(p) ==
  LET i == import[p] IN
  /\ i.pc = "mail" /\ i.parts = <<>> /\ ~i.err /\ i.mails = <<>>
  /\ Imports(p, NoImport)
  /\ accepted' = accepted \cup i.all
  /\ UNCHANGED <<local, inbox, report, known, ignored, cascaded, imports>>

(* sys.exit(65), an error that nobody catches (an element is missing), a    *)
(* row that another run has inserted first, or a killed process: what was   *)
(* not committed is undone.                                                 *)
ImportDies(p) ==
  /\ import[p] # NoImport
  /\ Imports(p, NoImport)
  /\ UNCHANGED <<local, inbox, report, known, dmHistory>>

ReadGarbled(p) ==
  LET i == import[p] IN
  /\ i.pc = "mail" /\ i.parts # <<>> /\ Head(i.parts) = Garbled
  /\ Imports(p, [i EXCEPT !.parts = Tail(@), !.err = TRUE])
  /\ UNCHANGED <<local, inbox, report, known, dmHistory>>

(* A report that is skipped leaves the row of its reporter.                 *)
SkipHollow(p) ==
  LET i == import[p] IN
  /\ i.pc = "mail" /\ i.parts # <<>> /\ Head(i.parts) = Hollow
  /\ known \/ \A q \in Importers : ~Introduces(q)
  /\ known' = TRUE
  /\ Imports(p, [i EXCEPT !.parts = Tail(@)])
  /\ UNCHANGED <<local, inbox, report, dmHistory>>

(* import_report: the reporter is looked up, or inserted, for which another *)
(* run that does so makes this one wait; a report that is there already is  *)
(* left alone.                                                              *)
LookUp(p) ==
  LET i == import[p] IN
  /\ i.pc = "mail" /\ i.parts # <<>> /\ Head(i.parts) \in Reports
  /\ known \/ \A q \in Importers : ~Introduces(q)
  /\ IF IsStored(Head(i.parts))
     THEN Imports(p, [i EXCEPT !.parts = Tail(@)])
     ELSE Imports(p, [i EXCEPT !.pc = "insert", !.first = ~known])
  /\ UNCHANGED <<local, inbox, report, known, dmHistory>>

(* The row of the report is inserted when no other run holds it, and none   *)
(* has committed it.                                                        *)
InsertReport(p) ==
  LET i == import[p] IN
  /\ i.pc = "insert" /\ ~IsStored(Head(i.parts))
  /\ \A q \in Importers : ~Holds(q, Head(i.parts))
  /\ Imports(p, [i EXCEPT !.pc = "records", !.rest = Senders, !.kept = {}])
  /\ UNCHANGED <<local, inbox, report, known, dmHistory>>

(* import_record: one that is not about a local domain is left out.         *)
ImportRecord(p, d) ==
  LET i == import[p] IN
  /\ i.pc = "records" /\ d \in i.rest
  /\ Imports(p, [i EXCEPT !.rest = @ \ {d}, !.kept = IF d \in local THEN @ \cup {d} ELSE @])
  /\ UNCHANGED <<local, inbox, report, known, dmHistory>>

AfterReport(i) == [i EXCEPT !.pc = "mail", !.parts = Tail(@), !.first = FALSE]

(* Mutant: no transaction, so that what a run has done remains.             *)
CommitAnyReport(p) ==
  LET i == import[p]  r == Head(i.parts) IN
  /\ i.pc = "records"
  /\ report' = [report EXCEPT ![r] = i.kept]
  /\ ignored' = [ignored EXCEPT ![r] = Senders \ (i.kept \cup i.rest)]
  /\ known' = TRUE
  /\ Imports(p, AfterReport(i))
  /\ UNCHANGED <<local, inbox, cascaded, accepted, imports>>

CommitReport(p) ==
  LET i == import[p]  r == Head(i.parts) IN
  /\ i.pc = "records" /\ i.rest = {}
  /\ report' = [report EXCEPT ![r] = i.kept]
  /\ ignored' = [ignored EXCEPT ![r] = Senders \ i.kept]
  /\ known' = TRUE
  /\ Imports(p, AfterReport(i))
  /\ UNCHANGED <<local, inbox, cascaded, accepted, imports>>

-----------------------------------------------------------------------------
(* Mutant: the last day of the week is Saturday.                            *)
week_range_short(w) == <<14 * w, 14 * w + 10>>
(* week_range: from Monday to Sunday, both at midnight.                     *)
week_range(w) == <<14 * w, 14 * w + 12>>

(* get_aligment_stats: reports that begin or end in the week.               *)
InWeek(span, w) ==
  \E i \in 1 .. 2 : week_range(w)[1] <= span[i] /\ span[i] <= week_range(w)[2]
ReportsOf(d, w) ==
  {r \in Reports : IsStored(r) /\ d \in report[r] /\ InWeek(Period[r], w)}

DMNext ==
  \/ \E mail \in ReportMails : MailArrives(mail)
  \/ \E d \in Senders : AddLocal(d) \/ RemoveLocal(d)
  \/ \E p \in Importers :
       \/ StartImport(p, inbox) \/ \E mail \in ReportMails : StartImport(p, <<mail>>)
       \/ NextMail(p) \/ EndsWell(p) \/ ImportDies(p) \/ ReadGarbled(p) \/ SkipHollow(p)
       \/ LookUp(p) \/ InsertReport(p) \/ CommitReport(p)
       \/ \E d \in Senders : ImportRecord(p, d)

DMSpec == DMInit /\ [][DMNext]_dmVars

-----------------------------------------------------------------------------
DMTypeOK ==
  /\ local \subseteq Senders /\ inbox \in Seq(ReportMails) /\ Len(inbox) <= MaxInbox
  /\ \A r \in Reports : IsStored(r) => report[r] \subseteq local
  /\ accepted \subseteq Reports /\ imports \in 0 .. MaxImports

(* A stored report has all its records, except of domains that were not     *)
(* local when it was imported or have been removed since: runs that meet    *)
(* over a report, or die, leave nothing half done that the next would then  *)
(* pass over.                                                               *)
ReportsWhole ==
  \A r \in Reports : IsStored(r) =>
    report[r] \cup ignored[r] \cup cascaded[r] = Senders

(* What a run has taken from Postfix or from the mailbox without an error   *)
(* is stored.                                                               *)
AcceptedIsStored == \A r \in accepted : IsStored(r)

(* The records of a report about a day are counted in exactly one week,     *)
(* unless it is about a part of a Sunday.                                   *)
DailyCountedOnce ==
  \A r \in Reports : IsStored(r) =>
    LET s == Period[r]  sunday == s[1] = s[2] /\ s[1] % 14 = 13 IN
    s[2] - s[1] <= 1 /\ ~sunday =>
      \A d \in report[r] : Cardinality({w \in Weeks : r \in ReportsOf(d, w)}) = 1

(* Not true: each record is counted once.                                   *)
AllCountedOnce ==
  \A r \in Reports : IsStored(r) =>
    \A d \in report[r] : Cardinality({w \in Weeks : r \in ReportsOf(d, w)}) = 1

DmarcInv == DMTypeOK /\ ReportsWhole /\ AcceptedIsStored /\ DailyCountedOnce
=============================================================================
