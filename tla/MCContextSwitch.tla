---------------------------- MODULE MCContextSwitch ----------------------------
(* ContextSwitch for TLC: every switch raises an epoch, every login and logout *)
(* a revision; MaxImages bounds how many changes in a row are not durable.     *)
EXTENDS ContextSwitch, FiniteSets

CONSTANTS MaxEpoch, MaxRevision, MaxImages

WithinBounds ==
  /\ \A p \in Profiles : view.epoch[p] <= MaxEpoch /\ view.rev[p] <= MaxRevision
  /\ view.journal \in {Absent, Torn} \/ view.journal.next <= MaxEpoch
  /\ Cardinality(disk) <= MaxImages

MCNext == Next /\ WithinBounds'

MCSpec == Init /\ [][MCNext]_vars

MCFairSpec == MCSpec /\ Fairness
=============================================================================
