---------------------------- MODULE MCDirectory ----------------------------
(* Model-checking instance of what follows the names of domains, mailboxes  *)
(* and calendars: aliases, recipients and quotas, or the transports of      *)
(* relay domains, or amavis's users and policies, or the rights file of     *)
(* Radicale, or the events of calendars, or the forwards of accounts.  They *)
(* share no state here: in each behaviour one of them runs.  Mailboxes,     *)
(* guests and accounts are the same model values, domains and windows too:  *)
(* one symmetry serves all.                                                 *)
EXTENDS Identities, RelayDomains, SpamPolicies, CalendarRights, CalendarEvents, Forwards

CONSTANTS n1, n2, n3, x1, x2, l1, l2, d1, d2, m1, m2, a1, a2, a3, t1, t2, t3

VARIABLE part \* which component runs

dVars == <<vars, rdVars, spVars, crVars, ceVars, fwVars, part>>

DirectoryInit ==
  /\ part \in {"identities", "relays", "policies", "rights", "events", "forwards"}
  /\ Init /\ RDInit /\ SPInit /\ CRInit /\ CEInit /\ FWInit
  /\ part # "events" => made = {}

DirectoryNext ==
  \/ part = "identities" /\ Next /\ UNCHANGED <<rdVars, spVars, crVars, ceVars, fwVars, part>>
  \/ part = "relays" /\ RDNext /\ UNCHANGED <<vars, spVars, crVars, ceVars, fwVars, part>>
  \/ part = "policies" /\ SPNext /\ UNCHANGED <<vars, rdVars, crVars, ceVars, fwVars, part>>
  \/ part = "rights" /\ CRNext /\ UNCHANGED <<vars, rdVars, spVars, ceVars, fwVars, part>>
  \/ part = "events" /\ CENext /\ UNCHANGED <<vars, rdVars, spVars, crVars, fwVars, part>>
  \/ part = "forwards" /\ FWNext /\ UNCHANGED <<vars, rdVars, spVars, crVars, ceVars, part>>

DirectorySpec == DirectoryInit /\ [][DirectoryNext]_dVars

(* The rights file says what the access rules say, and events are where     *)
(* their calendars have them (generate_rights.py, caldav_.py).              *)
CalendarsInv == RightsInv /\ EventsInv

MCShort(n) == n
(* Addresses: where mail for them goes, by their rows and by what users ask.*)
AddressesFollow == NamesFollow /\ ForwardsInv

MCLonger == {<<n1, n2>>}

Symmetry == Permutations(Mailboxes) \cup Permutations(Domains)
=============================================================================
