------------------------------ MODULE MCFloor ------------------------------
(***************************************************************************)
(* Constants for the runs of Floor: one rack with one robot, as in the     *)
(* configuration the server ships with.                                    *)
(***************************************************************************)
EXTENDS Floor, TLC

CONSTANTS r1, r2, s1, s2, h1, h2, x1

\* Every slot is on the side of every home.
OneSide == [h \in Homes |-> Slots]

OneRack == [l \in Slots \cup Homes |-> r1]
=============================================================================
