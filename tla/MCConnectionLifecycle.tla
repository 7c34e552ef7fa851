----------------------- MODULE MCConnectionLifecycle ------------------------
(* ConnectionLifecycle for TLC: at most MaxIntent lifecycle intents and       *)
(* MaxGeneration supervisor generations (every launch, stop and outage takes *)
(* one), which bounds the retries and the commands of a behaviour.           *)
EXTENDS ConnectionLifecycle, TLC

CONSTANTS MaxIntent, MaxGeneration

WithinBounds == conn.intent <= MaxIntent /\ supGen <= MaxGeneration

MCNext == Next /\ WithinBounds'

MCSpec == Init /\ [][MCNext]_vars

MCFairSpec == MCSpec /\ Fairness

TaskSymmetry == Permutations(Tasks)
=============================================================================
