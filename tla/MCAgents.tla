------------------------------ MODULE MCAgents ------------------------------
(***************************************************************************)
(* Small runtimes for TLC.                                                 *)
(***************************************************************************)
EXTENDS AgentProperties, TLC

CONSTANTS first, second, beat

\* Two firings of the timer are the same but for their names.
AnyRun == Permutations(Runs)
=============================================================================
