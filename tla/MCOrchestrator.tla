--------------------------- MODULE MCOrchestrator ---------------------------
(***************************************************************************)
(* Constants for the runs of Orchestrator.                                 *)
(***************************************************************************)
EXTENDS OrchestratorProps, TLC

CONSTANTS r1, r2, s1, s2, h1, h2

\* Every slot is on the side of every home.
OneSide == [h \in Homes |-> Slots]

MCSymmetry == Permutations(Robots) \cup Permutations(Slots)
=============================================================================
