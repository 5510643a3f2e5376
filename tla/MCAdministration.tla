-------------------------- MODULE MCAdministration --------------------------
(* Model-checking instance of the components of modoboa/admin, of the       *)
(* second factors of accounts, of the global parameters and of the export   *)
(* to LDAP, that share no state here: in each behaviour one of them runs.   *)
(* Keys and exported accounts are the model values of people, requests      *)
(* those of administrators: one symmetry serves all.                        *)
EXTENDS MailboxOperations, ObjectAccess, ResourcePools, DkimKeys, SecondFactors,
        GlobalParameters, LdapDirectory, TLC

CONSTANTS m1, m2, l1, l2, d1, d2, p1, p2, p3, e1, x1, x2, re, q1, q2, k1, k2, n1, n2, t1, t2

VARIABLE part \* which component runs

aVars == <<vars, oaVars, rpVars, dkVars, sfVars, gpVars, ldVars, part>>

AdministrationInit ==
  /\ part \in {"orders", "access", "limits", "dkim", "factors", "parameters", "ldap"}
  /\ Init /\ OAInit /\ RPInit /\ DKInit /\ SFInit /\ GPInit /\ LDInit
  /\ part # "limits" => ~parallel
  /\ part # "dkim" => calm
  /\ part # "ldap" => remote

OrdersPart ==
  part = "orders" /\ Next /\ UNCHANGED <<oaVars, rpVars, dkVars, sfVars, gpVars, ldVars, part>>
AccessPart ==
  part = "access" /\ OANext /\ UNCHANGED <<vars, rpVars, dkVars, sfVars, gpVars, ldVars, part>>
LimitsPart ==
  part = "limits" /\ RPNext /\ UNCHANGED <<vars, oaVars, dkVars, sfVars, gpVars, ldVars, part>>
DkimPart ==
  part = "dkim" /\ DKNext /\ UNCHANGED <<vars, oaVars, rpVars, sfVars, gpVars, ldVars, part>>
FactorsPart ==
  part = "factors" /\ SFNext /\ UNCHANGED <<vars, oaVars, rpVars, dkVars, gpVars, ldVars, part>>
ParametersPart ==
  part = "parameters" /\ GPNext /\ UNCHANGED <<vars, oaVars, rpVars, dkVars, sfVars, ldVars, part>>
DirectoryPart ==
  part = "ldap" /\ LDNext /\ UNCHANGED <<vars, oaVars, rpVars, dkVars, sfVars, gpVars, part>>

AdministrationNext == OrdersPart \/ AccessPart \/ LimitsPart \/ DkimPart \/ FactorsPart
                      \/ ParametersPart \/ DirectoryPart

AdministrationSpec == AdministrationInit /\ [][AdministrationNext]_aVars

Symmetry == Permutations(People \ {Root}) \cup Permutations(Admins)

(* Of the keys of domains and of the parameters: what their modules state.  *)
SettingsInv == KeyInv /\ ParametersInv

(* Of the second factors of accounts, and of their entries in the directory.*)
AccountsInv == FactorsInv /\ LdapInv
=============================================================================
