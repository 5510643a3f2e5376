------------------------------ MODULE MailLog ------------------------------
(* The command "logparser" (modoboa/maillog): every five minutes it reads   *)
(* the whole of Postfix's current log file again, adds up its messages per  *)
(* minute and records them in one RRD file per domain and a global one, and *)
(* in the table of messages.  Nothing is kept about how far the log has     *)
(* been read: the last minute of each RRD file and the last message of the  *)
(* table tell what is new.                                                  *)
(*                                                                          *)
(* A line of the log queues a message, says what became of it for one       *)
(* recipient, or is counted by itself (a refused message, a spam found by   *)
(* amavis).  The runs of the command exclude each other: can_start.         *)
EXTENDS Integers, FiniteSets, Sequences

CONSTANTS
  QueueIds,     \* queue ids of Postfix
  LocalNames,   \* the domains of the database
  Elsewhere,    \* any other domain
  MinuteLength, \* seconds in a minute
  MaxSeconds,   \* bound: when the clock stops
  MaxLines,     \* bound on the lines ever written
  MaxRuns,      \* bound on the runs of the command
  MaxFiles      \* bound on the log files

ASSUME MailLogAssumption ==
  /\ Elsewhere \notin LocalNames /\ "global" \notin LocalNames
  /\ {MinuteLength, MaxSeconds, MaxLines, MaxRuns, MaxFiles} \subseteq Nat \ {0}
  /\ IsFiniteSet(QueueIds) /\ Cardinality(QueueIds) <= MaxLines

RrdFiles == LocalNames \cup {"global"}
Never == -1

VARIABLES
  second,  \* the present second
  log,     \* every line written so far
  starts,  \* where a log file begins: the last of them is the current one
  parser,  \* the run of the command
  runs,    \* how many there have been
  rrd,     \* per file its first and last minute and the messages recorded
  stored,  \* Maillog rows per line
  cut,     \* history: files and minutes that a run or a rotation cut in two
  read     \* history: the lines that a run has read to its end

mlogVars == <<second, log, starts, parser, runs, rrd, stored, cut, read>>

Minute(s) == s \div MinuteLength
Minutes == 0 .. Minute(MaxSeconds)

NoRun == [pc |-> "idle"]
Upper(S) == CHOOSE x \in S : \A y \in S : y <= x

Queued(q, s) == [kind |-> "queued", id |-> q, domain |-> Elsewhere, at |-> s]

(* The log begins with messages that are on their way.                      *)
MLogInit ==
  /\ second = 0 /\ starts = {1}
  /\ \E ids \in [1 .. Cardinality(QueueIds) -> QueueIds] :
       /\ \A q \in QueueIds : \E i \in DOMAIN ids : ids[i] = q
       /\ log = [i \in DOMAIN ids |-> Queued(ids[i], 0)]
  /\ parser = NoRun /\ runs = 0
  /\ rrd = [f \in RrdFiles |-> [first |-> Never, last |-> Never, count |-> [t \in Minutes |-> 0]]]
  /\ stored = [i \in 1 .. MaxLines |-> 0]
  /\ cut = {} /\ read = {}

-----------------------------------------------------------------------------
(* Postfix, the clock and logrotate *)

Write(line) ==
  /\ Len(log) < MaxLines
  /\ log' = Append(log, line)
  /\ UNCHANGED <<second, starts, parser, runs, rrd, stored, cut, read>>

LogQueued(q) == Write(Queued(q, second))

LogStatus(q, d) ==
  /\ \E i \in DOMAIN log : log[i].kind = "queued" /\ log[i].id = q
  /\ Write([kind |-> "status", id |-> q, domain |-> d, at |-> second])

LogReject(d) == Write([kind |-> "reject", id |-> "NOQUEUE", domain |-> d, at |-> second])

ClockTick ==
  /\ second < MaxSeconds
  /\ second' = second + 1
  /\ UNCHANGED <<log, starts, parser, runs, rrd, stored, cut, read>>

Rotate ==
  /\ Len(log) + 1 \notin starts /\ Cardinality(starts) < MaxFiles
  /\ starts' = starts \cup {Len(log) + 1}
  /\ cut' = cut \cup (RrdFiles \X {Minute(second)})
  /\ UNCHANGED <<second, log, parser, runs, rrd, stored, read>>

-----------------------------------------------------------------------------
(* One run *)

(* can_start, and open: the domains and the current file.                   *)
Start ==
  /\ parser.pc = "idle" /\ runs < MaxRuns
  /\ parser' = [pc |-> "parsing", from |-> Upper(starts), next |-> Upper(starts), todo |-> {}]
  /\ runs' = runs + 1
  /\ UNCHANGED <<second, log, starts, rrd, stored, cut, read>>

(* The file that a run has opened ends where the next one begins.           *)
EndOfFile ==
  LET later == {s \in starts : s > parser.from} IN
  IF later = {} THEN Len(log) ELSE (CHOOSE s \in later : \A u \in later : s <= u) - 1

(* workdict: the message of line i was queued in this file, before it.      *)
Known(i) ==
  \E k \in parser.from .. i : log[k].kind = "queued" /\ log[k].id = log[i].id

(* inc_counter is called for line i ...                                     *)
Counts(i) ==
  \/ log[i].kind = "reject"
  \/ log[i].kind = "status" /\ Known(i)

(* ... for its domain, if that is one of ours, and globally.                *)
CountsFor(i, f) == Counts(i) /\ f \in {log[i].domain, "global"}

(* Mutant: a row of the same second may be any message.                     *)
StoredAlreadySecond(i) ==
  \E k \in 1 .. MaxLines : stored[k] > 0 /\ log[k].at >= log[i].at

(* The table has a later message, or this one at this second.               *)
StoredAlready(i) ==
  \E k \in 1 .. MaxLines :
    /\ stored[k] > 0
    /\ \/ log[k].at > log[i].at
       \/ log[k].at = log[i].at /\ log[k].id = log[i].id

ReadLine ==
  /\ parser.pc = "parsing" /\ parser.next <= EndOfFile
  /\ LET i == parser.next IN
       stored' = IF log[i].kind = "status" /\ Known(i) /\ ~StoredAlready(i)
                   THEN [stored EXCEPT ![i] = @ + 1] ELSE stored
  /\ parser' = [parser EXCEPT !.next = @ + 1]
  /\ UNCHANGED <<second, log, starts, runs, rrd, cut, read>>

Lines == parser.from .. (parser.next - 1)

(* data[f][t], kept in the memory of the run.                               *)
Data(f, t) == {i \in Lines : CountsFor(i, f) /\ Minute(log[i].at) = t}

EndReading ==
  /\ parser.pc = "parsing" /\ parser.next > EndOfFile
  /\ parser' = [parser EXCEPT !.pc = "graphs",
                              !.todo = {v \in RrdFiles \X Minutes : Data(v[1], v[2]) # {}}]
  /\ cut' = cut \cup {v \in RrdFiles \X {Minute(second)} : Data(v[1], v[2]) # {}}
  /\ UNCHANGED <<second, log, starts, runs, rrd, stored, read>>

(* Mutant: what the file has of the minute is added to.                     *)
RecordedAgain(f, t) ==
  IF rrd[f].first = Never THEN [rrd[f] EXCEPT !.first = t, !.last = t]
  ELSE [rrd[f] EXCEPT !.last = t, !.count[t] = @ + Cardinality(Data(f, t))]

(* update_rrd: a new file begins at its first minute, which it cannot hold  *)
(* any more; a minute that the file has passed is not touched.              *)
Recorded(f, t) ==
  IF rrd[f].first = Never THEN [rrd[f] EXCEPT !.first = t, !.last = t]
  ELSE IF t <= rrd[f].last THEN rrd[f]
  ELSE [rrd[f] EXCEPT !.last = t, !.count[t] = Cardinality(Data(f, t))]

(* The minutes of a file in order; the global file first.                   *)
InOrder(u) ==
  /\ \A v \in parser.todo : v[1] = u[1] => u[2] <= v[2]
  /\ u[1] # "global" => \A v \in parser.todo : v[1] # "global"

UpdateRrd(f, t) ==
  /\ parser.pc = "graphs" /\ <<f, t>> \in parser.todo /\ InOrder(<<f, t>>)
  /\ rrd' = [rrd EXCEPT ![f] = Recorded(f, t)]
  /\ parser' = [parser EXCEPT !.todo = @ \ {<<f, t>>}]
  /\ UNCHANGED <<second, log, starts, runs, stored, cut, read>>

Finish ==
  /\ parser.pc = "graphs" /\ parser.todo = {}
  /\ read' = read \cup {i \in Lines : Counts(i)}
  /\ parser' = NoRun
  /\ UNCHANGED <<second, log, starts, runs, rrd, stored, cut>>

(* The run is killed, ...                                                   *)
Killed ==
  /\ parser.pc # "idle"
  /\ parser' = NoRun
  /\ UNCHANGED <<second, log, starts, runs, rrd, stored, cut, read>>

(* ... maybe after it has filled some of the minutes without messages.      *)
KilledFilling(f, t) ==
  /\ parser.pc = "graphs" /\ <<f, t>> \in parser.todo /\ InOrder(<<f, t>>)
  /\ rrd[f].first # Never
  /\ \E p \in (rrd[f].last + 1) .. (t - 1) : rrd' = [rrd EXCEPT ![f].last = p]
  /\ parser' = NoRun
  /\ UNCHANGED <<second, log, starts, runs, stored, cut, read>>

-----------------------------------------------------------------------------
PostfixStep ==
  \/ \E q \in QueueIds : LogQueued(q)
  \/ \E q \in QueueIds, d \in LocalNames \cup {Elsewhere} : LogStatus(q, d)
  \/ \E d \in LocalNames : LogReject(d)

ParserStep ==
  \/ Start \/ ReadLine \/ EndReading \/ Finish \/ Killed
  \/ \E f \in RrdFiles, t \in Minutes : UpdateRrd(f, t) \/ KilledFilling(f, t)

MLogNext == PostfixStep \/ ClockTick \/ Rotate \/ ParserStep

MLogSpec == MLogInit /\ [][MLogNext]_mlogVars

-----------------------------------------------------------------------------
(* Properties *)

MLogTypeOK ==
  /\ second \in 0 .. MaxSeconds
  /\ \A i \in DOMAIN log : log[i].kind \in {"queued", "status", "reject"} /\ log[i].at <= second
  /\ starts \subseteq 1 .. MaxLines + 1 /\ runs \in 0 .. MaxRuns
  /\ parser.pc \in {"idle", "parsing", "graphs"}
  /\ rrd \in [RrdFiles -> [first : Minutes \cup {Never}, last : Minutes \cup {Never},
                        count : [Minutes -> 0 .. MaxLines]]]
  /\ \A f \in RrdFiles : rrd[f].first <= rrd[f].last
  /\ stored \in [1 .. MaxLines -> Nat]
  /\ cut \subseteq RrdFiles \X Minutes /\ read \subseteq DOMAIN log

Written(f, t) ==
  {i \in DOMAIN log :
     log[i].kind # "queued" /\ f \in {log[i].domain, "global"} /\ Minute(log[i].at) = t}

(* The log is read again every five minutes and runs are killed: still no   *)
(* message is recorded twice, in an RRD file ...                            *)
CountedOnce ==
  \A f \in RrdFiles, t \in Minutes : rrd[f].count[t] <= Cardinality(Written(f, t))

(* ... or in the table.                                                     *)
StoredOnce == \A i \in DOMAIN log : stored[i] <= 1

(* What a run has read to the end of the log is in the RRD files, unless    *)
(* the minute was the first of the file, or was not over yet.               *)
ReadIsCounted ==
  \A f \in RrdFiles, t \in Minutes :
    <<f, t>> \notin cut /\ t # rrd[f].first =>
      rrd[f].count[t] >= Cardinality(read \cap Written(f, t))

(* ... and in the table, unless another recipient of the same message is    *)
(* there for the same second.                                               *)
ReadIsStored ==
  \A i \in read : log[i].kind = "status" =>
    \E k \in DOMAIN log : stored[k] = 1 /\ log[k].id = log[i].id /\ log[k].at = log[i].at

(* What was read is in the RRD files once, ...                              *)
CountsExact == MLogTypeOK /\ CountedOnce /\ ReadIsCounted

(* ... and in the table.                                                    *)
RowsExact == StoredOnce /\ ReadIsStored

(* Both: a line that was read is in the statistics and in the table, once,   *)
(* however often the log is read again.                                     *)
LogExact == CountsExact /\ RowsExact

(* Every message is counted in its minute.                                  *)
(* Not what the code does: README.md, Known deviations.                     *)
EveryMinuteCounted ==
  \A f \in RrdFiles, t \in Minutes : rrd[f].count[t] >= Cardinality(read \cap Written(f, t))

(* The table has every recipient.                                           *)
(* Not what the code does: README.md, Known deviations.                     *)
EveryRecipientStored == \A i \in read : log[i].kind = "status" => stored[i] = 1
=============================================================================
