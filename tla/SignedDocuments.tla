---------------------------- MODULE SignedDocuments ----------------------------
(***************************************************************************)
(* What is signed with the certificate of a company besides its invoices:  *)
(* the documents it receives and those of its certification, while the     *)
(* certificate is renewed, expires or changes key.                         *)
(***************************************************************************)
EXTENDS Reception, Certification

VARIABLES part  \* what the behaviour is about, beside the certificate

vars == <<part, certVars, receptionVars, certificationVars>>

Parts == {"certificates", "reception", "step 2", "step 3"}

Init == part \in Parts /\ CertInit /\ ReceptionInit /\ CertificationInit

Next ==
  /\ \/ CertNext /\ UNCHANGED <<receptionVars, certificationVars>>
     \/ part = "reception" /\ ReceptionNext /\ UNCHANGED certificationVars
     \/ part = "step 2" /\ Step2Next /\ UNCHANGED receptionVars
     \/ part = "step 3" /\ Step3Next /\ UNCHANGED receptionVars
  /\ UNCHANGED part

Spec == Init /\ [][Next]_vars
=============================================================================
