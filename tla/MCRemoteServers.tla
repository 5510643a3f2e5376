-------------------------- MODULE MCRemoteServers --------------------------
(* Model-checking instance of three parts of the program that follow the    *)
(* state of a server: an address book that is synchronised, the DNS checks  *)
(* of a domain, and the list of messages in the browser.  They share no     *)
(* state: in each behaviour one of them runs.                               *)
EXTENDS AddressBookSync, DnsChecks, MessageList

CONSTANTS c1, c2, x1, x2, p1, t1, l1, l2

VARIABLE part \* which of them runs

rVars == <<abVars, dcVars, mlistVars, part>>

RemoteInit ==
  /\ part \in {"contacts", "dns", "list"}
  /\ ABInit /\ DCInit /\ MListInit
  /\ part # "list" => content[Start] = {}

BookPart(A) == part = "contacts" /\ A /\ UNCHANGED <<dcVars, mlistVars, part>>
DnsPart(A) == part = "dns" /\ A /\ UNCHANGED <<abVars, mlistVars, part>>
ListPart(A) == part = "list" /\ A /\ UNCHANGED <<abVars, dcVars, part>>

RemoteNext == BookPart(ABNext) \/ DnsPart(DCNext) \/ ListPart(MListNext)

(* The fairness of the three specifications.                                *)
RemoteSpec ==
  /\ RemoteInit /\ [][RemoteNext]_rVars
  /\ WF_rVars(BookPart(SyncStep)) /\ WF_rVars(BookPart(Commits)) /\ WF_rVars(BookPart(StartJob))
  /\ WF_rVars(DnsPart(DCJobStep)) /\ WF_rVars(DnsPart(HourPasses))
  /\ WF_rVars(ListPart(\E r \in asked : ReadList(r)))
  /\ WF_rVars(ListPart(\E a \in answers : ShowList(a)))
  /\ WF_rVars(ListPart(ExecuteMove)) /\ WF_rVars(ListPart(MoveAnswered))
  /\ WF_rVars(ListPart(AutoRefresh))

(* Values of valid_mxs.                                                     *)
MCTrusted == {{}, {x1}}

(* The rows and alarms of the DNS checks, and what the list moves, are true  *)
(* to what the servers have told (check_valid_mx, move_selection).          *)
ViewsInv == DnsInv /\ MessageListInv

(* The DNS checks catch up with the answers of the servers, and the list of *)
(* messages with the folder (DNSChecker.run, autoRefreshContent).           *)
ViewsCatchUp == (part = "dns" => StatusCatchesUp) /\ (part = "list" => ListCatchesUp)
=============================================================================
