-------------------------- MODULE GlobalParameters --------------------------
(* The row LocalConfig (modoboa/core/models.py): the parameters of all      *)
(* applications in one JSON column, and the flag that asks for a new        *)
(* configuration of Dovecot.  Requests and a job load the row, change their *)
(* copy and save it, some of them with every column; forms in browsers hold *)
(* the values of an application since they were opened; the command         *)
(* update_dovecot_conf runs beside them.  Values are numbers, never used    *)
(* twice; 0 is the default.                                                 *)
EXTENDS Naturals

CONSTANTS
  Sheets,  \* forms that may be open together
  MaxSaves \* bound: values ever given

ASSUME ParametersAssumption == MaxSaves \in Nat

VARIABLES
  config,   \* the row: values of the parameters, and need_dovecot_update
  kind,     \* per value of "ldap" what it makes of Dovecot's file
  dovecot,  \* the value in that file, 0 when it is empty or has none
  sheet,    \* the forms, and the requests that they have sent
  api,      \* the job communicate_with_public_api
  update,   \* the command update_dovecot_conf
  values,   \* the last value
  meant,    \* history: what users have last chosen for each parameter
  undone,   \* history: parameters that a stale form or copy has set back
  missed    \* history: the flag was taken back although the file was old

gpVars == <<config, kind, dovecot, sheet, api, update, values, meant, undone, missed>>

(* Two parameters of the application core, one of another.                  *)
ParametersOf(app) == IF app = "core" THEN {"ldap", "logo"} ELSE {"size"}
Parameters == {"ldap", "logo", "size"}

Closed == [at |-> "closed"]
NoRunYet == [at |-> "idle"]

GPInit ==
  /\ config = [value |-> [p \in Parameters |-> 0], need |-> FALSE]
  /\ kind = [v \in 0 .. MaxSaves |-> "none"]
  /\ dovecot = 0
  /\ sheet = [s \in Sheets |-> Closed]
  /\ api = NoRunYet /\ update = NoRunYet
  /\ values = 0
  /\ meant = [p \in Parameters |-> 0] /\ undone = {} /\ missed = FALSE

(* Mutant: the other parameters of the application get their defaults.      *)
set_values_reset(copy, new) ==
  [p \in Parameters |-> IF p \in DOMAIN new THEN new[p]
                        ELSE IF \E q \in DOMAIN new : p \in ParametersOf("core") /\ q \in ParametersOf("core")
                             THEN 0 ELSE copy[p]]

(* Manager.set_values on the copy that was loaded.                          *)
set_values(copy, new) == [p \in Parameters |-> IF p \in DOMAIN new THEN new[p] ELSE copy[p]]

-----------------------------------------------------------------------------
(* A commit: what was chosen, who has now an old copy or form, and what the *)
(* commit sets back because its own was old.                                *)
Stale(r) == IF r.at \in {"closed", "idle"} THEN r ELSE [r EXCEPT !.old = TRUE]
Commit(value, need, old, chosen) ==
  /\ config' = [value |-> value, need |-> need]
  /\ meant' = [p \in Parameters |-> IF p \in chosen THEN value[p] ELSE meant[p]]
  /\ undone' = (undone \ chosen) \cup
       (IF old THEN {p \in Parameters \ chosen : value[p] # config.value[p]} ELSE {})
  /\ missed' = (~need /\ (missed \/ (old /\ (config.need \/ value["ldap"] # config.value["ldap"]))))

(* A form is opened: the values of its application (retrieve).              *)
OpenForm(s, app) ==
  /\ sheet[s].at = "closed" /\ values < MaxSaves
  /\ sheet' = [sheet EXCEPT ![s] =
       [at |-> "open", app |-> app, old |-> FALSE,
        form |-> [p \in ParametersOf(app) |-> config.value[p]]]]
  /\ UNCHANGED <<config, kind, dovecot, api, update, values, meant, undone, missed>>

CloseForm(s) ==
  /\ sheet[s].at = "open" /\ sheet' = [sheet EXCEPT ![s] = Closed]
  /\ UNCHANGED <<config, kind, dovecot, api, update, values, meant, undone, missed>>

(* The user changes one parameter and saves: the middleware loads the row,  *)
(* and all the values of the form are set.                                  *)
SaveForm(s, p, k) ==
  /\ sheet[s].at = "open" /\ p \in ParametersOf(sheet[s].app) \ {"logo"}
  /\ values < MaxSaves /\ values' = values + 1
  /\ p # "ldap" => k = "none"
  /\ kind' = [kind EXCEPT ![values'] = k]
  /\ sheet' = [sheet EXCEPT ![s] =
       [at |-> "saving", app |-> @.app, old |-> @.old, chosen |-> p,
        value |-> set_values(config.value, [@.form EXCEPT ![p] = values'])]]
  /\ UNCHANGED <<config, dovecot, api, update, meant, undone, missed>>

(* Mutant: post_save is not called.                                         *)
CommitFormSilent(s) ==
  /\ sheet[s].at = "saving"
  /\ Commit(sheet[s].value, config.need, sheet[s].old, {sheet[s].chosen})
  /\ sheet' = [[t \in Sheets |-> Stale(sheet[t])] EXCEPT ![s] = Closed]
  /\ api' = Stale(api)
  /\ UNCHANGED <<kind, dovecot, update, values>>

(* update of the viewset: only the column of the parameters is saved, and   *)
(* for core the flag (post_save).                                           *)
CommitForm(s) ==
  /\ sheet[s].at = "saving"
  /\ Commit(sheet[s].value, config.need \/ sheet[s].app = "core", sheet[s].old, {sheet[s].chosen})
  /\ sheet' = [[t \in Sheets |-> Stale(sheet[t])] EXCEPT ![s] = Closed]
  /\ api' = Stale(api)
  /\ UNCHANGED <<kind, dovecot, update, values>>

(* ThemeLogoAPIView: a logo uploaded from the form is stored at once, with  *)
(* every column of the row; the answer changes the form.                    *)
UploadLogo(s) ==
  /\ sheet[s].at = "open" /\ sheet[s].app = "core"
  /\ values < MaxSaves /\ values' = values + 1
  /\ sheet' = [sheet EXCEPT ![s] =
       [at |-> "uploading", app |-> "core", old |-> FALSE, older |-> @.old, need |-> config.need,
        form |-> [@.form EXCEPT !["logo"] = values'],
        value |-> set_values(config.value, [p \in {"logo"} |-> values'])]]
  /\ UNCHANGED <<config, kind, dovecot, api, update, meant, undone, missed>>
CommitLogo(s) ==
  /\ sheet[s].at = "uploading"
  /\ Commit(sheet[s].value, sheet[s].need, sheet[s].old, {"logo"})
  /\ sheet' = [[t \in Sheets |-> Stale(sheet[t])] EXCEPT ![s] =
       [at |-> "open", app |-> "core", old |-> @.old \/ @.older, form |-> @.form]]
  /\ api' = Stale(api)
  /\ UNCHANGED <<kind, dovecot, update, values>>

-----------------------------------------------------------------------------
(* communicate_with_public_api: the row is loaded, the server asked, and    *)
(* every column saved; CommandError when the server does not answer.        *)
AskServer ==
  /\ api.at = "idle" /\ api' = [at |-> "asked", old |-> FALSE, copy |-> config]
  /\ UNCHANGED <<config, kind, dovecot, sheet, update, values, meant, undone, missed>>
ServerAnswers ==
  /\ api.at = "asked" /\ api' = NoRunYet
  /\ Commit(api.copy.value, api.copy.need, api.old, {})
  /\ sheet' = [t \in Sheets |-> Stale(sheet[t])]
  /\ UNCHANGED <<kind, dovecot, update, values>>
ServerFails ==
  /\ api.at = "asked" /\ api' = NoRunYet
  /\ UNCHANGED <<config, kind, dovecot, sheet, update, values, meant, undone, missed>>

-----------------------------------------------------------------------------
(* Mutant: the flag is cleared as soon as it was seen.                      *)
CheckFlagClears ==
  /\ update.at = "idle" /\ config.need
  /\ update' = [at |-> "needed"]
  /\ config' = [config EXCEPT !.need = FALSE]
  /\ UNCHANGED <<kind, dovecot, sheet, api, values, meant, undone, missed>>

(* update_dovecot_conf: the flag, then the parameters, the file, and the    *)
(* flag again.  update_dovecot_config_file raises before it opens the file  *)
(* when a value cannot be written.                                          *)
CheckFlag ==
  /\ update.at = "idle" /\ config.need
  /\ update' = [at |-> "needed"]
  /\ UNCHANGED <<config, kind, dovecot, sheet, api, values, meant, undone, missed>>
ReadParameters ==
  /\ update.at = "needed"
  /\ LET v == config.value["ldap"]
     IN update' = IF kind[v] = "refused" THEN NoRunYet
                  ELSE [at |-> IF kind[v] = "ldap" THEN "open" ELSE "done", value |-> v]
  /\ UNCHANGED <<config, kind, dovecot, sheet, api, values, meant, undone, missed>>
OpenFile ==
  /\ update.at = "open" /\ dovecot' = 0 /\ update' = [update EXCEPT !.at = "write"]
  /\ UNCHANGED <<config, kind, sheet, api, values, meant, undone, missed>>
WriteFile ==
  /\ update.at = "write" /\ dovecot' = update.value /\ update' = [update EXCEPT !.at = "done"]
  /\ UNCHANGED <<config, kind, sheet, api, values, meant, undone, missed>>
ClearFlag ==
  /\ update.at = "done" /\ update' = NoRunYet
  /\ config' = [config EXCEPT !.need = FALSE]
  /\ missed' = (config.value["ldap"] # update.value)
  /\ UNCHANGED <<kind, dovecot, sheet, api, values, meant, undone>>
Killed ==
  /\ update.at # "idle" /\ update' = NoRunYet
  /\ UNCHANGED <<config, kind, dovecot, sheet, api, values, meant, undone, missed>>

GPNext ==
  \/ \E s \in Sheets :
       \/ \E app \in {"core", "limits"} : OpenForm(s, app)
       \/ \E p \in Parameters, k \in {"none", "ldap", "refused"} : SaveForm(s, p, k)
       \/ CloseForm(s) \/ CommitForm(s) \/ UploadLogo(s) \/ CommitLogo(s)
  \/ AskServer \/ ServerAnswers \/ ServerFails
  \/ CheckFlag \/ ReadParameters \/ OpenFile \/ WriteFile \/ ClearFlag \/ Killed

GPSpec == GPInit /\ [][GPNext]_gpVars

-----------------------------------------------------------------------------
GPTypeOK ==
  /\ config \in [value : [Parameters -> 0 .. MaxSaves], need : BOOLEAN]
  /\ kind \in [0 .. MaxSaves -> {"none", "ldap", "refused"}]
  /\ dovecot \in 0 .. MaxSaves
  /\ DOMAIN sheet = Sheets /\ values \in 0 .. MaxSaves
  /\ undone \subseteq Parameters /\ missed \in BOOLEAN

(* A parameter has the value that was last chosen for it, unless somebody   *)
(* whose form or copy of the row was old has saved all of it since.         *)
ParametersKept == \A p \in Parameters : config.value[p] = meant[p] \/ p \in undone

(* While the flag is down Dovecot has the present LDAP settings, even after *)
(* runs that were killed with an empty file; except when a run or a save    *)
(* that was overtaken has taken the flag down.                              *)
DovecotFollows ==
  ~config.need /\ ~missed /\ kind[config.value["ldap"]] = "ldap" => dovecot = config.value["ldap"]

(* Not true: doc-ng/installation/dovecot.md:460 "each time your modoboa     *)
(* LDAP configuration is updated, your dovecot LDAP configuration will also *)
(* be".                                                                     *)
NeverMissed == ~missed

ParametersInv == GPTypeOK /\ ParametersKept /\ DovecotFollows
=============================================================================
