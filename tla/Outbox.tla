------------------------------- MODULE Outbox -------------------------------
(***************************************************************************)
(* What the webmail promises about messages to be sent later, without      *)
(* rows, jobs, requests and copies: each message waits until its datetime, *)
(* is handed over, and then is sent once, is given up or is cancelled; it  *)
(* is never forgotten, and what is sent or cancelled stays so.  Messages    *)
(* have nothing to do with each other: in a step several may move.         *)
(***************************************************************************)
EXTENDS Integers

CONSTANTS Messages, MaxTime, Null

VARIABLES
  now,      \* the present minute
  state,    \* how far each message has come
  due,      \* the datetime of those that wait or are handed over
  count     \* how often each was sent

vars == <<now, state, due, count>>

States == {"new", "waiting", "handed", "sent", "failed", "cancelled"}

Init ==
  /\ now = 0
  /\ state = [m \in Messages |-> "new"]
  /\ due = [m \in Messages |-> Null]
  /\ count = [m \in Messages |-> 0]

Tick == now' = now + 1 /\ UNCHANGED <<state, due, count>>

Moves(m, from, to) == state[m] \in from /\ state'[m] = to

(* The user is told the datetime.                                          *)
Confirm(m) ==
  /\ Moves(m, {"new", "waiting", "failed"}, "waiting")
  /\ due'[m] \in 1 .. MaxTime
  /\ count'[m] = count[m]

(* Nobody takes a message before its time, nor one that does not wait.      *)
HandOver(m) ==
  /\ Moves(m, {"waiting"}, "handed")
  /\ due[m] <= now /\ due'[m] = due[m]
  /\ count'[m] = count[m]

(* A message that was not touched waits again.                             *)
Return(m) ==
  /\ Moves(m, {"handed"}, "waiting")
  /\ due'[m] = due[m]
  /\ count'[m] = count[m]

Deliver(m) ==
  /\ Moves(m, {"handed"}, "sent")
  /\ due'[m] = Null
  /\ count'[m] = count[m] + 1

GiveUp(m) ==
  /\ Moves(m, {"waiting", "handed"}, "failed")
  /\ due'[m] = Null
  /\ count'[m] = count[m]

(* While a message is handed over its cancellation waits for the outcome.   *)
Cancel(m) ==
  /\ Moves(m, {"waiting", "handed", "failed"}, "cancelled")
  /\ due'[m] = Null
  /\ count'[m] = count[m]

Stay(m) == Moves(m, {state[m]}, state[m]) /\ due'[m] = due[m] /\ count'[m] = count[m]

Step(m) ==
  \/ Stay(m) \/ Confirm(m) \/ HandOver(m) \/ Return(m) \/ Deliver(m)
  \/ GiveUp(m) \/ Cancel(m)

Next ==
  \/ Tick
  \/ /\ now' = now
     /\ state' \in [Messages -> States]
     /\ due' \in [Messages -> 1 .. MaxTime \cup {Null}]
     /\ count' \in [Messages -> Nat]
     /\ \A m \in Messages : Step(m)

Spec == Init /\ [][Next]_vars
=============================================================================
