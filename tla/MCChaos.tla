------------------------------- MODULE MCChaos -------------------------------
(* Plans of actions for TLC, in the order prepare() gives them.             *)
EXTENDS Chaos, TLC

CONSTANTS x1, x2, none

NetworkPlan == <<"policy", "pod", "scale">>
JobPlan == <<"policy", "account", "job">>

\* Experiments differ in nothing but their names.
Symmetry == Permutations(Experiments)
=============================================================================
