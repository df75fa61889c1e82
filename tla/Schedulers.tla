----------------------------- MODULE Schedulers -----------------------------
(***************************************************************************)
(* The two background schedulers that mail, each with the mail settings    *)
(* that change under it.  They share nothing else: a behaviour is one of   *)
(* the digest or one of the domain check.                                  *)
(***************************************************************************)
EXTENDS Digest, DomainHealth

CONSTANT Duties

VARIABLE duty

vars == <<duty, mailVars, digestVars, healthVars>>

TypeOK == duty \in Duties /\ MailTypeOK /\ DigestTypeOK /\ HealthTypeOK

\* The duty that is not followed starts in one fixed state.
Init ==
  /\ duty \in Duties /\ MailInit /\ DigestInit /\ HealthInit
  /\ duty # "digest" => zone = Min(Zones)
  /\ duty # "domain_health" => regExp = Min(Dates) /\ ns = CHOOSE n \in NSets : TRUE

Settings == MailStep /\ UNCHANGED <<digestVars, healthVars>>

Next ==
  /\ UNCHANGED duty
  /\ \/ Settings
     \/ duty = "digest" /\ DigestNext /\ UNCHANGED healthVars
     \/ duty = "domain_health" /\ HealthNext /\ UNCHANGED digestVars

Spec == Init /\ [][Next]_vars
=============================================================================
