--------------------------- MODULE CalendarEvents ---------------------------
(***************************************************************************)
(* Events of calendars, kept by a CalDAV server (modoboa/calendars).       *)
(*                                                                         *)
(* Modoboa has a row per calendar; the server has a collection at its path *)
(* and the events in it.  A request that moves an event fetches it, deletes *)
(* it from the one collection and puts it into the other.                  *)
(***************************************************************************)
EXTENDS Naturals, FiniteSets

CONSTANTS
  CalendarPks, \* primary keys; a user and a shared calendar may have the same
  Uids,        \* events
  Windows,     \* requests that may be in progress together
  MaxActs      \* bound: requests ever made

ASSUME EventsAssumption == MaxActs \in Nat

VARIABLES
  row,     \* per calendar: "none", "known" or "deleted"
  made,    \* the collections that exist
  holds,   \* the events in each collection
  window,  \* what each request has still to do
  seen,    \* history: events that were ever stored
  wanted,  \* history: those that nobody has deleted
  dropped, \* history: those that a request had removed when it failed
  inturn,  \* history: has every request so far run alone, to its end?
  acts     \* history: the number of requests

ceVars == <<row, made, holds, window, seen, wanted, dropped, inturn, acts>>

EventCalendars == {"user", "shared"} \X CalendarPks
Closed == [pc |-> "closed"]

CEInit ==
  /\ row \in [EventCalendars -> {"none", "known"}]
  /\ made = {c \in EventCalendars : row[c] = "known"}
  /\ holds = [c \in EventCalendars |-> {}]
  /\ window = [t \in Windows |-> Closed]
  /\ seen = {} /\ wanted = {} /\ dropped = {}
  /\ inturn = TRUE
  /\ acts = 0

-----------------------------------------------------------------------------
Opens(t, r) ==
  /\ acts < MaxActs
  /\ window[t] = Closed
  /\ acts' = acts + 1
  /\ window' = [window EXCEPT ![t] = r]
  /\ inturn' = (inturn /\ \A x \in Windows : window[x] = Closed)

Goes(t, r) == window' = [window EXCEPT ![t] = r] /\ UNCHANGED <<inturn, acts>>

(* PUT into a collection.                                                   *)
Stored(c, e) == holds' = [holds EXCEPT ![c] = @ \cup {e}]

(* The row of a calendar is saved before the server is asked for its        *)
(* collection.                                                              *)
CreateCalendarRow(t, c) ==
  /\ row[c] = "none"
  /\ row' = [row EXCEPT ![c] = "known"]
  /\ Opens(t, [pc |-> "mkcalendar", to |-> c])
  /\ UNCHANGED <<made, holds, seen, wanted, dropped>>

create_calendar(t) ==
  /\ window[t].pc = "mkcalendar"
  /\ made' = made \cup {window[t].to}
  /\ Goes(t, Closed)
  /\ UNCHANGED <<row, holds, seen, wanted, dropped>>

(* Only the row is deleted.                                                 *)
DeleteCalendarRow(c) ==
  /\ row[c] = "known"
  /\ row' = [row EXCEPT ![c] = "deleted"]
  /\ UNCHANGED <<made, holds, window, seen, wanted, dropped, inturn, acts>>

(* create_event gives the event a uid of its own; import_events takes those *)
(* of the file, here ones that are new to the server, one by one.           *)
ImportEvents(t, c, es) ==
  /\ row[c] = "known"
  /\ es # {} /\ es \cap seen = {}
  /\ Opens(t, [pc |-> "store", to |-> c, left |-> es])
  /\ seen' = seen \cup es
  /\ UNCHANGED <<row, made, holds, wanted, dropped>>

CreateEvent(t, c, e) == ImportEvents(t, c, {e})

StoreNext(t, e) ==
  LET w == window[t]
  IN  /\ w.pc = "store" /\ e \in w.left
      /\ w.to \in made
      /\ Stored(w.to, e)
      /\ wanted' = wanted \cup {e}
      /\ Goes(t, IF w.left = {e} THEN Closed ELSE [w EXCEPT !.left = @ \ {e}])
      /\ UNCHANGED <<row, made, seen, dropped>>

-----------------------------------------------------------------------------
(* update_event compares primary keys to see whether the calendar changes.  *)
CalendarChanged(from, to) == from[2] # to[2]

LoadEvent(t, e, from, to) ==
  /\ row[from] = "known" /\ row[to] = "known"
  /\ e \in holds[from]
  /\ Opens(t, IF CalendarChanged(from, to)
              THEN [pc |-> "remove", uid |-> e, from |-> from, to |-> to]
              ELSE [pc |-> "put", uid |-> e, moved |-> FALSE, to |-> from, asked |-> to])
  /\ UNCHANGED <<row, made, holds, seen, wanted, dropped>>

(* Mutant: the event is deleted where it is going to be put.                *)
RemoveNew(t) ==
  LET w == window[t]
  IN  /\ w.pc = "remove"
      /\ holds' = [holds EXCEPT ![w.to] = @ \ {w.uid}]
      /\ Goes(t, [pc |-> "put", uid |-> w.uid, moved |-> TRUE, to |-> w.to, asked |-> w.to])
      /\ UNCHANGED <<row, made, seen, wanted, dropped>>

RemoveOld(t) ==
  LET w == window[t]
  IN  /\ w.pc = "remove"
      /\ holds' = [holds EXCEPT ![w.from] = @ \ {w.uid}]
      /\ Goes(t, [pc |-> "put", uid |-> w.uid, moved |-> TRUE, to |-> w.to, asked |-> w.to])
      /\ UNCHANGED <<row, made, seen, wanted, dropped>>

PutEvent(t) ==
  /\ window[t].pc = "put"
  /\ window[t].to \in made
  /\ Stored(window[t].to, window[t].uid)
  /\ Goes(t, Closed)
  /\ UNCHANGED <<row, made, seen, wanted, dropped>>

(* The server answers with an error, or the process is killed.              *)
WindowFails(t) ==
  /\ window[t] # Closed
  /\ window' = [window EXCEPT ![t] = Closed]
  /\ dropped' = IF window[t].pc = "put" /\ window[t].moved
                THEN dropped \cup {window[t].uid} ELSE dropped
  /\ inturn' = FALSE
  /\ UNCHANGED <<row, made, holds, seen, wanted, acts>>

(* delete_event: nobody notices that the event was not there.               *)
DeleteEvent(e, c) ==
  /\ acts < MaxActs
  /\ row[c] = "known"
  /\ holds' = [holds EXCEPT ![c] = @ \ {e}]
  /\ wanted' = IF e \in holds[c] THEN wanted \ {e} ELSE wanted
  /\ inturn' = (inturn /\ \A x \in Windows : window[x] = Closed)
  /\ acts' = acts + 1
  /\ UNCHANGED <<row, made, window, seen, dropped>>

-----------------------------------------------------------------------------
CEFor(t, c) ==
  \/ CreateCalendarRow(t, c)
  \/ \E e \in Uids : CreateEvent(t, c, e) \/ \E to \in EventCalendars : LoadEvent(t, e, c, to)
  \/ \E es \in SUBSET Uids : ImportEvents(t, c, es)

CENext ==
  \/ \E t \in Windows, c \in EventCalendars : CEFor(t, c)
  \/ \E t \in Windows :
       \/ create_calendar(t) \/ RemoveOld(t) \/ PutEvent(t) \/ WindowFails(t)
       \/ \E e \in Uids : StoreNext(t, e)
  \/ \E c \in EventCalendars : DeleteCalendarRow(c) \/ \E e \in Uids : DeleteEvent(e, c)

CESpec == CEInit /\ [][CENext]_ceVars

-----------------------------------------------------------------------------
CETypeOK ==
  /\ row \in [EventCalendars -> {"none", "known", "deleted"}]
  /\ made \subseteq EventCalendars
  /\ holds \in [EventCalendars -> SUBSET Uids]
  /\ wanted \subseteq seen /\ dropped \subseteq seen /\ seen \subseteq Uids
  /\ inturn \in BOOLEAN /\ acts \in 0..MaxActs

(* An event that nobody has deleted is in a collection, or in the hands of  *)
(* a request that moves it, or that request has failed: requests that move  *)
(* an event together lose no event.                                         *)
EventsKept ==
  \A e \in wanted :
    \/ e \in dropped
    \/ \E c \in EventCalendars : e \in holds[c]
    \/ \E t \in Windows : window[t].pc = "put" /\ window[t].uid = e

(* Requests that run one after the other leave one copy of every event.     *)
OneCopy ==
  inturn => \A c, d \in EventCalendars : c # d => holds[c] \cap holds[d] = {}

(* Both, with the types.                                                    *)
EventsInv == CETypeOK /\ EventsKept /\ OneCopy

(* An event arrives in the calendar it is moved to.                         *)
(* Not what the code does: README.md, Known deviations.                     *)
MovesArrive ==
  [][\A t \in Windows : window[t].pc = "put" /\ window'[t] = Closed
       => window[t].uid \in holds'[window[t].asked] \cup dropped']_ceVars
=============================================================================
