---------------------------- MODULE SecondFactors ----------------------------
(***************************************************************************)
(* The second factors of an account (modoboa/core): a TOTP device, FIDO    *)
(* keys and recovery codes, and two flags in the row of the user that say  *)
(* which of them are in use.                                               *)
(*                                                                         *)
(* Every request loads the row at its start and saves the whole of it at   *)
(* its end; devices, keys and codes are rows of their own, changed in      *)
(* between without a transaction.  One account is modelled.                *)
(***************************************************************************)
EXTENDS FiniteSets

CONSTANTS
  FidoKeys, \* FIDO keys the user may register
  Logins    \* requests that may be in progress together

VARIABLES
  flag,        \* the columns totp_enabled and webauthn_enabled
  device,      \* is there a TOTP device?
  fido,        \* the registered keys
  codes,       \* is there a static device with recovery codes?
  login,       \* what each request has loaded and has still to do
  undisturbed  \* history: has every request so far run alone, to its end?

sfVars == <<flag, device, fido, codes, login, undisturbed>>

Outside == [pc |-> "none"]
tfa_enabled(f) == f.totp \/ f.webauthn

SFInit ==
  /\ flag = [totp |-> FALSE, webauthn |-> FALSE]
  /\ device = FALSE /\ fido = {} /\ codes = FALSE
  /\ login = [q \in Logins |-> Outside]
  /\ undisturbed = TRUE

-----------------------------------------------------------------------------
(* A request loads the row.                                                 *)
Loads(q, pc, key) ==
  /\ login[q] = Outside
  /\ login' = [login EXCEPT ![q] = [pc |-> pc, flag |-> flag, key |-> key]]
  /\ undisturbed' = (undisturbed /\ \A x \in Logins : login[x] = Outside)

Then(q, pc, f) ==
  /\ login' = [login EXCEPT ![q] = [pc |-> pc, flag |-> f, key |-> @.key]]
  /\ UNCHANGED undisturbed
Done(q) == login' = [login EXCEPT ![q] = Outside] /\ UNCHANGED undisturbed

(* request.user.save(): both columns as they were loaded, or changed since. *)
Save(q) ==
  /\ login[q].pc = "save"
  /\ flag' = login[q].flag
  /\ Done(q)
  /\ UNCHANGED <<device, fido, codes>>

(* Another request that saves the row: a profile, a password, a new hash.   *)
SaveProfile(q) == Loads(q, "save", {}) /\ UNCHANGED <<flag, device, fido, codes>>

(* tfa_setup: get_or_create.                                                *)
tfa_setup ==
  /\ device' = TRUE
  /\ UNCHANGED <<flag, fido, codes, login, undisturbed>>

(* tfa_setup_check: a valid PIN code of the device enables it.              *)
tfa_setup_check(q) ==
  /\ device /\ ~flag.totp
  /\ Loads(q, "confirm", {})
  /\ UNCHANGED <<flag, device, fido, codes>>

(* create_static_tokens leaves existing codes alone.                        *)
Confirm(q) ==
  /\ login[q].pc = "confirm"
  /\ codes' = TRUE
  /\ Then(q, "save", [login[q].flag EXCEPT !.totp = TRUE])
  /\ UNCHANGED <<flag, device, fido>>

tfa_disable(q) ==
  /\ flag.totp
  /\ Loads(q, "disable", {})
  /\ UNCHANGED <<flag, device, fido, codes>>

RemoveDevice(q) ==
  /\ login[q].pc = "disable"
  /\ device' = FALSE
  /\ Then(q, "drop", [login[q].flag EXCEPT !.totp = FALSE])
  /\ UNCHANGED <<flag, fido, codes>>

(* Mutant: the row is asked, which still has the factor that goes.          *)
DropCodesByRow(q) ==
  /\ login[q].pc = "drop"
  /\ codes' = (codes /\ tfa_enabled(flag))
  /\ Then(q, "save", login[q].flag)
  /\ UNCHANGED <<flag, device, fido>>

(* The codes go with the last factor, as far as this request knows.         *)
DropCodes(q) ==
  /\ login[q].pc = "drop"
  /\ codes' = (codes /\ tfa_enabled(login[q].flag))
  /\ Then(q, "save", login[q].flag)
  /\ UNCHANGED <<flag, device, fido>>

(* registration_end: the key, the flag, the codes.                          *)
registration_end(q, k) ==
  /\ k \notin fido
  /\ Loads(q, "register", {k})
  /\ UNCHANGED <<flag, device, fido, codes>>

CreateKey(q) ==
  /\ login[q].pc = "register"
  /\ fido' = fido \cup login[q].key
  /\ Then(q, IF login[q].flag.webauthn THEN "codes" ELSE "flag", login[q].flag)
  /\ UNCHANGED <<flag, device, codes>>

SaveKeyFlag(q) ==
  /\ login[q].pc = "flag"
  /\ flag' = [login[q].flag EXCEPT !.webauthn = TRUE]
  /\ Then(q, "codes", flag')
  /\ UNCHANGED <<device, fido, codes>>

CreateCodes(q) ==
  /\ login[q].pc = "codes"
  /\ codes' = TRUE
  /\ Done(q)
  /\ UNCHANGED <<flag, device, fido>>

(* destroy: only keys of a user whose flag is set are found.                *)
destroy(q, k) ==
  /\ k \in fido /\ flag.webauthn
  /\ Loads(q, "destroy", {k})
  /\ UNCHANGED <<flag, device, fido, codes>>

DeleteKey(q) ==
  /\ login[q].pc = "destroy"
  /\ fido' = fido \ login[q].key
  /\ Then(q, "count", login[q].flag)
  /\ UNCHANGED <<flag, device, codes>>

(* With another key left, the request is over: the flag it loaded is set.   *)
CountKeys(q) ==
  /\ login[q].pc = "count"
  /\ IF fido # {} THEN Done(q)
     ELSE Then(q, "drop", [login[q].flag EXCEPT !.webauthn = FALSE])
  /\ UNCHANGED <<flag, device, fido, codes>>

(* The process is killed between two statements.                            *)
RequestKilled(q) ==
  /\ login[q] # Outside
  /\ login' = [login EXCEPT ![q] = Outside]
  /\ undisturbed' = FALSE
  /\ UNCHANGED <<flag, device, fido, codes>>

-----------------------------------------------------------------------------
SFNext ==
  \/ tfa_setup
  \/ \E q \in Logins :
       \/ tfa_setup_check(q) \/ Confirm(q) \/ tfa_disable(q) \/ RemoveDevice(q) \/ DropCodes(q)
       \/ CreateKey(q) \/ SaveKeyFlag(q) \/ CreateCodes(q) \/ DeleteKey(q) \/ CountKeys(q)
       \/ SaveProfile(q) \/ Save(q) \/ RequestKilled(q)
       \/ \E k \in FidoKeys : registration_end(q, k) \/ destroy(q, k)

SFSpec == SFInit /\ [][SFNext]_sfVars

-----------------------------------------------------------------------------
SFTypeOK ==
  /\ flag \in [totp : BOOLEAN, webauthn : BOOLEAN]
  /\ device \in BOOLEAN /\ codes \in BOOLEAN /\ undisturbed \in BOOLEAN
  /\ fido \subseteq FidoKeys
  /\ login \in [Logins -> {Outside} \cup
       [pc : {"save", "confirm", "disable", "drop", "register", "flag", "codes", "destroy", "count"},
        flag : [totp : BOOLEAN, webauthn : BOOLEAN], key : SUBSET FidoKeys]]

(* As long as requests run one after the other and to their ends, the flags *)
(* say what there is: the user is asked for a second factor exactly when he *)
(* has one, and has recovery codes exactly as long.                         *)
FactorsAgree ==
  undisturbed /\ (\A q \in Logins : login[q] = Outside) =>
    /\ flag.webauthn <=> fido # {}
    /\ flag.totp => device
    /\ codes <=> tfa_enabled(flag)

(* ... with the types.                                                      *)
FactorsInv == SFTypeOK /\ FactorsAgree

(* A registered key is asked for, also after requests have overlapped.      *)
(* Not what the code does: README.md, Known deviations.                     *)
KeysAreUsed == \A q \in Logins : login[q] = Outside => (fido # {} => flag.webauthn)
=============================================================================
