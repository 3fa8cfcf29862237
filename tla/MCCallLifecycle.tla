-------------------------- MODULE MCCallLifecycle --------------------------
(* Small instances of the call's life for TLC.                              *)
EXTENDS CallLifecycleProperties, TLC

Symmetric == Permutations(Workers) \cup Permutations(LeadLegs)
=============================================================================
