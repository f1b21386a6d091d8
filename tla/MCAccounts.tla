----------------------------- MODULE MCAccounts ------------------------------
(***************************************************************************)
(* Two parts of the relay that keep out of each other's columns: the ways  *)
(* in and out of an account, and email.  A behaviour follows one of them;  *)
(* the other rests in one of its initial states.                           *)
(*                                                                         *)
(* Requests are alike, no property is a liveness property, and no CHOOSE   *)
(* is made over them.                                                      *)
(***************************************************************************)
EXTENDS Account, Mail, TLC

CONSTANT Busy  \* bound: the people who change their mind

VARIABLE part

Symmetry == Permutations(Request)

AcctRests ==
  /\ AcctInit /\ account = "none" /\ \A r \in Request : request[r].kind = "register"
MailRests ==
  MailInit /\ paying = {} /\ switched = CHOOSE s \in Switches : TRUE

\* Bound: a request about leaving comes with another one.
Leaving == {r \in Request : request[r].kind \in {"erase", "keep", "admin"}}

MCInit ==
  \/ part = "account" /\ AcctInit /\ Cardinality(Leaving) # 1 /\ MailRests
  \/ part = "mail" /\ MailInit /\ AcctRests

OthersStay ==
  \A p \in Person \ Busy :
    (p \in paying <=> p \in paying') /\ (p \in leaving <=> p \in leaving')
    /\ (p \in optedOut <=> p \in optedOut') /\ age[p] = age'[p]

MCNext ==
  /\ UNCHANGED part
  /\ \/ part = "account" /\ AcctNext /\ UNCHANGED mailVars
     \/ part = "mail" /\ MailNext /\ OthersStay /\ UNCHANGED acctVars

MCSpec == MCInit /\ [][MCNext]_<<part, acctVars, mailVars>>

\* Each part's variables keep their types; no session outlives its account, no
\* campaign goes over the day's limit.
AccountsTypeOK == AcctTypeOK /\ MailTypeOK

=============================================================================
