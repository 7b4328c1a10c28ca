----------------------------- MODULE MCRecovery -----------------------------
(***************************************************************************)
(* Constants for the runs of Recovery.                                     *)
(***************************************************************************)
EXTENDS Recovery, TLC

CONSTANTS r1, r2, s1, s2, h1, h2

\* Every slot is on the side of every home.
OneSide == [h \in Homes |-> Slots]
=============================================================================
