--------------------------- MODULE OrderLifecycle ---------------------------
(***************************************************************************)
(* What a client may rely on when it follows an order: how its status goes *)
(* on, and how that relates to the movements of the robots.                *)
(*                                                                         *)
(* A robot begins to move only for an order that is not settled, an order  *)
(* is DONE only when no robot moves for it, and it becomes ERROR only with *)
(* the end of a movement.  Retrying and cancelling are possible always,    *)
(* and do not stop a movement.                                             *)
(***************************************************************************)
CONSTANT Orders

VARIABLES
    status,   \* as GET /api/orders/:id shows it, ABSENT before the order
    moving    \* the orders a robot moves for

vars == <<status, moving>>

Open == {"PENDING", "IN_PROGRESS"}
Known(o) == status[o] # "ABSENT"
Becomes(o, s) == status' = [status EXCEPT ![o] = s]

Init ==
    /\ status = [o \in Orders |-> "ABSENT"]
    /\ moving = {}

Submit(o) ==
    /\ ~Known(o)
    /\ Becomes(o, "PENDING") /\ UNCHANGED moving

\* A step begins, or its command cannot even be built.
Begin(o) ==
    /\ status[o] \in Open
    /\ Becomes(o, "IN_PROGRESS")
    /\ moving' \in {moving, moving \cup {o}}

\* A step ends: done, or failed.
Stop(o) ==
    /\ o \in moving /\ moving' = moving \ {o}
    /\ UNCHANGED status \/ Becomes(o, "ERROR")

Finish(o) ==
    /\ status[o] \in Open /\ o \notin moving
    /\ Becomes(o, "DONE") /\ UNCHANGED moving

\* A retry, or a PICK that has to wait for a slot.
Reopen(o) ==
    /\ Known(o)
    /\ Becomes(o, "PENDING") /\ UNCHANGED moving

Cancel(o) ==
    /\ Known(o)
    /\ Becomes(o, "CANCELED") /\ UNCHANGED moving

Next ==
    \E o \in Orders :
        \/ Submit(o) \/ Begin(o) \/ Stop(o)
        \/ Finish(o) \/ Reopen(o) \/ Cancel(o)

Spec == Init /\ [][Next]_vars
=============================================================================
