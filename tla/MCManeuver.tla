----------------------------- MODULE MCManeuver -----------------------------
(* A small rack for the run of Maneuver, with modules on both sides.       *)
EXTENDS Maneuver

At(m, l, p) == [module |-> m, level |-> l, position |-> p]

\* Both sides; on the right side a far module with a level of its own.
SlotsOfRack == {At(2, 5, 1), At(20, 4, 1), At(1, 5, 3)}
=============================================================================
