---------------------- MODULE MCCredentialTransaction -----------------------
(* CredentialSettingsTransaction and CertificateTrust for TLC.  They never   *)
(* act on the same state, so a behaviour is one of `part`, chosen at the     *)
(* start, while the other rests where it began.  At most MaxImages directory *)
(* images may await an fsync, so at most MaxImages - 1 changes in a row fail *)
(* to be made durable; nothing else needs a bound.                           *)
EXTENDS CredentialSettingsTransaction, CertificateTrust, TLC

CONSTANT MaxImages

VARIABLE part

MCInit == part \in {"credentials", "certificates"} /\ Init /\ TrustInit

MCNext ==
  /\ UNCHANGED part
  /\ \/ part = "credentials" /\ Next /\ Cardinality(disk') <= MaxImages /\ UNCHANGED trustVars
     \/ part = "certificates" /\ TrustNext /\ UNCHANGED vars

MCSpec == MCInit /\ [][MCNext]_<<part, vars, trustVars>>

UserSymmetry == Permutations(Users)
=============================================================================
