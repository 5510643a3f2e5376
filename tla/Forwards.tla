------------------------------ MODULE Forwards ------------------------------
(* Where the mail of an address goes: the aliases at it, the forward that   *)
(* its user asks for, and accounts that are enabled and disabled            *)
(* (modoboa/admin).                                                         *)
(*                                                                          *)
(* At the address of a mailbox there is an internal self alias, whose only  *)
(* recipient is the mailbox, and at most one other alias, in which the user *)
(* keeps a forward and administrators write too.  Each has a flag enabled,  *)
(* and Postfix sends mail to the recipients of those that are enabled.  An  *)
(* account stands for its mailbox and its address, which stay the same      *)
(* here; Identities models how they change.                                 *)
EXTENDS Naturals

CONSTANTS
  Accounts,  \* accounts with a mailbox
  Outside,   \* a recipient elsewhere
  MaxBegun,  \* bound: what users and administrators begin
  NoAlias,
  Upset

ASSUME ForwardsAssumption ==
  /\ Outside \notin Accounts /\ "none" \notin Accounts
  /\ NoAlias \notin [on : BOOLEAN, to : SUBSET (Accounts \cup {Outside})]
  /\ MaxBegun \in Nat

VARIABLES
  account,  \* "none", "active" or "disabled"
  self,     \* the self aliases: "none", "on" or "off"
  ext,      \* the other alias at each address
  ask,      \* a user's request to forward, once it has been authenticated
  page,     \* the page on which an administrator edits an alias or account
  chosen,   \* history: the recipients each user has chosen, less those deleted,
            \* or Upset when something else has interfered since
  late,     \* history: disabled accounts that mail was led to afterwards
  begun     \* what has been begun

fwVars == <<account, self, ext, ask, page, chosen, late, begun>>

Recipients == Accounts \cup {Outside}
NoAsk == [at |-> "none"]
NoPage == [at |-> "none"]
RegisteredAccounts == {m \in Accounts : account[m] # "none"}

FWInit ==
  /\ account = [m \in Accounts |-> "active"] /\ self = [m \in Accounts |-> "on"]
  /\ ext = [x \in Accounts |-> NoAlias]
  /\ ask = NoAsk /\ page = NoPage
  /\ chosen = [m \in Accounts |-> {m}] /\ late = {} /\ begun = 0

(* Somebody begins something.                                               *)
Begins == begun < MaxBegun /\ begun' = begun + 1

(* AliasesMap: to whom mail for address x goes.  Without any the address    *)
(* itself is looked up, or the catchall of its domain.                      *)
Delivered(x) ==
  (IF self[x] = "on" THEN {x} ELSE {}) \cup
  (IF ext[x] # NoAlias /\ ext[x].on THEN ext[x].to ELSE {})

(* The disabled accounts to which alone a changed alias leads.              *)
LedTo(E) ==
  {y \in Accounts : account[y] = "disabled" /\
     \E x \in Accounts : E[x] # ext[x] /\ E[x] # NoAlias /\ E[x].on /\ E[x].to = {y}}

(* What happens at the addresses of S was not chosen by their users.        *)
Disturbed(S) == [m \in Accounts |-> IF m \in S /\ account[m] # "none" THEN Upset ELSE chosen[m]]

-----------------------------------------------------------------------------
(* Accounts *)

(* The self alias is as enabled as the account (manage_alias_for_mailbox).  *)
CreateAccount(m, s) ==
  /\ Begins
  /\ account[m] = "none" /\ s \in {"active", "disabled"}
  /\ account' = [account EXCEPT ![m] = s]
  /\ self' = [self EXCEPT ![m] = IF s = "active" THEN "on" ELSE "off"]
  /\ chosen' = [chosen EXCEPT ![m] = IF s = "active" /\ ext[m] = NoAlias THEN {m} ELSE Upset]
  /\ UNCHANGED <<ext, ask, page, late>>

(* mailbox_deleted_handler takes the mailbox out of the aliases, of which   *)
(* the empty ones go, and remove_alias_for_mailbox all those at its address.*)
(* What is open on a page that goes cannot be saved any more (404).         *)
Without(x, m) ==
  CASE ext[x] = NoAlias \/ x = m \/ ext[x].to = {m} -> NoAlias
    [] OTHER -> [ext[x] EXCEPT !.to = @ \ {m}]
DeleteAccount(m) ==
  /\ Begins
  /\ account[m] # "none"
  /\ account' = [account EXCEPT ![m] = "none"]
  /\ self' = [self EXCEPT ![m] = "none"]
  /\ ext' = [x \in Accounts |-> Without(x, m)]
  /\ ask' = IF ask.at = m THEN NoAsk ELSE ask
  /\ page' = IF page.at = m \/ (page.at # "none" /\ page.of = "alias" /\ ext'[page.at] = NoAlias)
             THEN NoPage ELSE page
  /\ chosen' = [x \in Accounts |->
       CASE x = m -> {}
         [] x # m /\ (chosen[x] = Upset \/ (ext[x] # NoAlias /\ ext'[x] = NoAlias)) -> Upset
         [] OTHER -> chosen[x] \ {m}]
  /\ late' = (late \cup LedTo(ext')) \ {m}

(* Mutant: every alias with the mailbox is disabled.                        *)
AliasesDisabledAll(E, m) ==
  [x \in Accounts |-> IF E[x] # NoAlias /\ m \in E[x].to THEN [E[x] EXCEPT !.on = FALSE] ELSE E[x]]

(* disable_aliases_on_account_disabled: those that lead to it alone.        *)
AliasesDisabled(E, m) ==
  [x \in Accounts |-> IF E[x] # NoAlias /\ E[x].to = {m} THEN [E[x] EXCEPT !.on = FALSE] ELSE E[x]]

(* The page of an account holds the addresses of its aliases, internal ones *)
(* excepted, and its flag.                                                  *)
AliasAddresses(m) == {x \in Accounts : ext[x] # NoAlias /\ m \in ext[x].to}
OpenAccount(m) ==
  /\ Begins
  /\ page = NoPage /\ ask = NoAsk /\ account[m] # "none"
  /\ page' = [of |-> "account", at |-> m, aliases |-> AliasAddresses(m), state |-> account[m]]
  /\ UNCHANGED <<account, self, ext, ask, chosen, late>>

(* WritableAccountSerializer.update: the aliases of the page get the        *)
(* mailbox, the others lose it or go, and then the account is saved.        *)
AliasWritten(x, m, L) ==
  CASE x \in L /\ ext[x] = NoAlias -> [on |-> TRUE, to |-> {m}]
    [] x \in L /\ ext[x] # NoAlias -> [ext[x] EXCEPT !.to = @ \cup {m}]
    [] x \notin L /\ ext[x] # NoAlias /\ ext[x].to = {m} -> NoAlias
    [] OTHER -> IF ext[x] = NoAlias THEN NoAlias ELSE [ext[x] EXCEPT !.to = @ \ {m}]

(* Saved with another state, with another alias added or removed, or with   *)
(* neither: what has changed meanwhile is put back either way.              *)
SaveAccount(s, L) ==
  /\ page.at # "none" /\ page.of = "account"
  /\ \/ L = page.aliases
     \/ s = page.state /\ \E x \in Accounts : L \in {page.aliases \cup {x}, page.aliases \ {x}}
  /\ LET m == page.at
         E == [x \in Accounts |-> AliasWritten(x, m, L)]
         off == s = "disabled"
     IN /\ account' = [account EXCEPT ![m] = s]
        /\ ext' = IF off THEN AliasesDisabled(E, m) ELSE E
        /\ self' = IF off THEN [self EXCEPT ![m] = "off"] ELSE self
        /\ chosen' = Disturbed({x \in Accounts :
             E[x] # ext[x] \/ (off /\ (x = m \/ (E[x] # NoAlias /\ E[x].to = {m})))})
        /\ late' = (late \cup LedTo(E)) \ {m}
  /\ page' = NoPage
  /\ UNCHANGED <<ask, begun>>

ClosePage == page # NoPage /\ page' = NoPage
             /\ UNCHANGED <<account, self, ext, ask, chosen, late, begun>>

(* clean_inactive_accounts: an update of the rows, of which no receiver     *)
(* hears.                                                                   *)
CleanInactive(m) ==
  /\ Begins
  /\ account[m] = "active"
  /\ account' = [account EXCEPT ![m] = "disabled"] /\ late' = late \cup {m}
  /\ UNCHANGED <<self, ext, ask, page, chosen>>

-----------------------------------------------------------------------------
(* The aliases, by administrators *)

AddAlias(x, to) ==
  /\ Begins
  /\ ext[x] = NoAlias /\ to # {} /\ to \subseteq RegisteredAccounts \cup {Outside}
  /\ ext' = [ext EXCEPT ![x] = [on |-> TRUE, to |-> to]]
  /\ chosen' = Disturbed({x})
  /\ late' = late \cup LedTo(ext')
  /\ UNCHANGED <<account, self, ask, page>>

OpenAlias(x) ==
  /\ Begins
  /\ page = NoPage /\ ask = NoAsk /\ ext[x] # NoAlias
  /\ page' = [of |-> "alias", at |-> x, on |-> ext[x].on, to |-> ext[x].to]
  /\ UNCHANGED <<account, self, ext, ask, chosen, late>>

(* The flag or one recipient is changed, and all of the page is saved; a    *)
(* recipient whose mailbox has been deleted is not found.                   *)
SaveAlias(on, to) ==
  /\ page.at # "none" /\ page.of = "alias"
  /\ to # {} /\ to \subseteq RegisteredAccounts \cup {Outside}
  /\ \/ to = page.to
     \/ on = page.on /\ \E r \in Recipients : to \in {page.to \cup {r}, page.to \ {r}}
  /\ ext' = [ext EXCEPT ![page.at] = [on |-> on, to |-> to]]
  /\ chosen' = Disturbed({page.at})
  /\ late' = late \cup LedTo(ext')
  /\ page' = NoPage
  /\ UNCHANGED <<account, self, ask, begun>>

RemoveAlias(x) ==
  /\ Begins
  /\ ext[x] # NoAlias
  /\ ext' = [ext EXCEPT ![x] = NoAlias]
  /\ page' = IF page.at = x /\ page.of = "alias" THEN NoPage ELSE page
  /\ chosen' = Disturbed({x})
  /\ UNCHANGED <<account, self, ask, late>>

-----------------------------------------------------------------------------
(* The forward, by the user *)

(* The request is authenticated, and looks for the alias; one at a time.    *)
Forward(m, to, keep) ==
  /\ Begins
  /\ account[m] = "active" /\ ask = NoAsk
  /\ to \subseteq Recipients /\ (to = {} => ~keep)
  /\ ask' = [at |-> m, to |-> to, keep |-> keep, found |-> ext[m] # NoAlias]
  /\ UNCHANGED <<account, self, ext, page, chosen, late>>

(* Without recipients the alias is deleted, and the self alias enabled.     *)
NoForward(m) ==
  /\ ask.at = m /\ ask.to = {}
  /\ ask' = NoAsk
  /\ ext' = [ext EXCEPT ![m] = NoAlias]
  /\ self' = [self EXCEPT ![m] = "on"]
  /\ page' = IF page.at = m /\ page.of = "alias" THEN NoPage ELSE page
  /\ chosen' = [chosen EXCEPT ![m] = {m}]
  /\ late' = IF account[m] = "disabled" THEN late \cup {m} ELSE late
  /\ UNCHANGED <<account, begun>>

(* The alias is created or written.  The request fails when the alias that  *)
(* it found has gone, or another has been created (a unique key), or a      *)
(* mailbox among the recipients is not found.                               *)
ForwardWritten(m) ==
  /\ ask.at = m /\ ask.to # {} /\ ask.found = (ext[m] # NoAlias)
  /\ LET to == ask.to \cup (IF ask.keep THEN {m} ELSE {}) IN
       /\ to \subseteq RegisteredAccounts \cup {Outside}
       /\ ext' = [ext EXCEPT ![m] = [on |-> IF ask.found THEN @.on ELSE TRUE, to |-> to]]
       /\ chosen' = [chosen EXCEPT ![m] = IF ext'[m].on THEN to ELSE Upset]
  /\ late' = late \cup LedTo(ext') \cup {y \in {m} : ask.keep /\ account[m] = "disabled"}
  /\ ask' = NoAsk
  /\ UNCHANGED <<account, page, begun>>

(* Mutant: the self alias stays as it is.                                   *)
SaveForwardBeside(m) == ForwardWritten(m) /\ UNCHANGED self

(* The self alias is enabled when copies are kept, and disabled otherwise.  *)
SaveForward(m) ==
  /\ ForwardWritten(m)
  /\ self' = [self EXCEPT ![m] = IF ask.keep THEN "on" ELSE "off"]

ForwardFails(m) ==
  /\ ask.at = m /\ ask' = NoAsk
  /\ UNCHANGED <<account, self, ext, page, chosen, late, begun>>

FWNext ==
  \/ \E m \in Accounts :
       \/ \E s \in {"active", "disabled"} : CreateAccount(m, s)
       \/ DeleteAccount(m) \/ OpenAccount(m) \/ CleanInactive(m)
       \/ \E to \in SUBSET Recipients : AddAlias(m, to)
       \/ OpenAlias(m) \/ RemoveAlias(m)
       \/ \E to \in SUBSET Recipients, keep \in BOOLEAN : Forward(m, to, keep)
       \/ NoForward(m) \/ SaveForward(m) \/ ForwardFails(m)
  \/ \E s \in {"active", "disabled"}, L \in SUBSET Accounts : SaveAccount(s, L)
  \/ \E on \in BOOLEAN, to \in SUBSET Recipients : SaveAlias(on, to)
  \/ ClosePage

FWSpec == FWInit /\ [][FWNext]_fwVars

-----------------------------------------------------------------------------
FWTypeOK ==
  /\ account \in [Accounts -> {"none", "active", "disabled"}]
  /\ self \in [Accounts -> {"none", "on", "off"}]
  /\ \A x \in Accounts : ext[x] = NoAlias \/ ext[x] \in [on : BOOLEAN, to : SUBSET Recipients]
  /\ \A m \in Accounts : chosen[m] = Upset \/ chosen[m] \subseteq Recipients
  /\ late \subseteq Accounts /\ begun \in 0 .. MaxBegun

(* No alias is without recipients, and none leads to a mailbox that is gone.*)
RecipientsExist ==
  \A x \in Accounts : ext[x] # NoAlias =>
    ext[x].to # {} /\ ext[x].to \subseteq RegisteredAccounts \cup {Outside}

(* Mail goes where the user has last asked it to go, whatever has happened  *)
(* to the accounts it goes to, except when an administrator has written     *)
(* another alias at the address, the account has been disabled meanwhile    *)
(* (its self alias stays disabled when it is enabled again), or the only    *)
(* recipient was.                                                           *)
ForwardsKept == \A m \in RegisteredAccounts : chosen[m] = Upset \/ Delivered(m) = chosen[m]

(* No alias leads to a disabled account alone, unless one was written after *)
(* it was disabled, or a command has disabled it behind the receivers.      *)
DisabledReceiveNothing ==
  \A m \in Accounts \ late : account[m] = "disabled" => \A x \in Accounts : Delivered(x) # {m}

(* Not true: an enabled account that forwards nothing gets its mail.        *)
ActiveReceive == \A m \in Accounts : account[m] = "active" => Delivered(m) # {}

ForwardsInv == FWTypeOK /\ RecipientsExist /\ ForwardsKept /\ DisabledReceiveNothing
=============================================================================
