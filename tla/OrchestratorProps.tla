-------------------------- MODULE OrchestratorProps --------------------------
(***************************************************************************)
(* What the orchestrator's books must keep, whatever operators and PLCs    *)
(* do: the properties the runs check and the proofs establish.             *)
(***************************************************************************)
EXTENDS Orchestrator

Queue == [active : OrderIds \cup {NoOrder}, items : Seq(OrderIds),
          paused : BOOLEAN]

TypeOK ==
    /\ orders \in [OrderIds -> Order]
    /\ slots \in [Slots -> Slot]
    /\ robots \in [Robots -> Robot]
    /\ queues \in [Robots -> Queue]
    /\ pc \in [Robots -> Points]
    /\ hand \in [Robots -> OrderIds \cup {NoOrder}]
    /\ at \in [Robots -> 0 .. NumSteps]
    /\ retrying \in [OrderIds -> Nat]
    /\ ops \in Nat

-----------------------------------------------------------------------------
\* Somebody will still work on the order: its robot's queue holds it, or its
\* robot's loop does between two queue calls.
InSomeonesCare(o) ==
    LET r == orders[o].robot IN
    \/ o \in Members(queues[r].items)
    \/ queues[r].active = o
    \/ pc[r] \in {"dequeued", "requeue"} /\ hand[r] = o

(***************************************************************************)
(* No order is lost: an order that is not settled is in the care of its    *)
(* robot.  Retry, cancel and the deferral of a PICK all move ids between   *)
(* the queue, the active place and the loop's own variable.                *)
(***************************************************************************)
NoLostOrder ==
    \A o \in OrderIds :
        orders[o].status \in {"PENDING", "IN_PROGRESS"} => InSomeonesCare(o)

Held == {"RESERVADO", "BUSCANDO", "DEVOLVIENDO", "ERROR"}

(***************************************************************************)
(* No slot is stranded: a slot that a maneuver holds, or an error blocks,  *)
(* names an order that uses it and can still be finished, retried or       *)
(* cancelled, so the slot can come back without a manual release.          *)
(***************************************************************************)
NoStrandedSlot ==
    \A s \in Slots :
        slots[s].status \in Held =>
            /\ slots[s].by # NoOrder
            /\ orders[slots[s].by].status \in {"PENDING", "IN_PROGRESS", "ERROR"}
            /\ orders[slots[s].by].slot = s

(***************************************************************************)
(* A slot is reserved for a PUT only while its box serves one order: the   *)
(* boxes that several orders share stay until those orders returned them.  *)
(***************************************************************************)
ReservedBoxServesOneOrder ==
    \A s \in Slots : slots[s].status = "RESERVADO" => Depth(slots[s]) = 1

(***************************************************************************)
(* A robot moves only for physical orders of its own that have a slot, and *)
(* while it moves its queue names no other order as the active one: retry  *)
(* and cancel in the middle of a step never let a second order in.         *)
(***************************************************************************)
MovesForItsActiveOrder ==
    \A r \in Robots :
        pc[r] = "step" =>
            /\ hand[r] # NoOrder
            /\ queues[r].active \in {hand[r], NoOrder}
            /\ orders[hand[r]].robot = r
            /\ orders[hand[r]].slot # NoSlot
            /\ ~orders[hand[r]].logical

(***************************************************************************)
(* A DONE order stays DONE unless an operator retries or cancels it: no    *)
(* late step, stale queue entry or second dispatch reopens it.             *)
(***************************************************************************)
DoneStaysDone ==
    [][\A o \in OrderIds :
         orders[o].status = "DONE" /\ orders'[o].status # "DONE" =>
            \/ retrying'[o] < retrying[o] /\ orders'[o].status = "PENDING"
            \/ ops' > ops /\ orders'[o].status = "CANCELED"]_vars

-----------------------------------------------------------------------------
Shown == [o \in OrderIds |-> orders[o].status]
Moving == {hand[r] : r \in {q \in Robots : pc[q] = "step"}}

Lifecycle == INSTANCE OrderLifecycle
    WITH Orders <- OrderIds, status <- Shown, moving <- Moving

(***************************************************************************)
(* The orchestrator implements the life of an order that OrderLifecycle    *)
(* promises its clients: whatever is retried, cancelled or fails, and      *)
(* whenever, no robot begins to move for a settled order and no order is   *)
(* DONE while a robot still moves for it.                                  *)
(***************************************************************************)
KeepsLifecycle == Lifecycle!Spec

-----------------------------------------------------------------------------
(***************************************************************************)
(* The requests of the web front (src/packages/web), from one screen:      *)
(* orders name no slot, a box is returned from an occupied slot, a retry   *)
(* is offered for orders in ERROR, and not while the screen's last retry   *)
(* is still on its way.  Cancelling is offered always; here only orders    *)
(* that still wait are cancelled, and no slot is released by hand.         *)
(***************************************************************************)
OrderlyRequests ==
    /\ \A o \in OrderIds :
         /\ ~Exists(o) /\ Exists(o)' =>
              IF orders'[o].type = "PICK"
              THEN orders'[o].logical \/ orders'[o].slot = NoSlot
              ELSE slots[orders'[o].slot].status = "OCUPADO"
         /\ retrying'[o] > retrying[o] =>
              orders[o].status = "ERROR" /\ retrying[o] = 0
         /\ orders[o].status # "CANCELED" /\ orders'[o].status = "CANCELED" =>
              orders[o].status = "PENDING"
    /\ \A s \in Slots : ~(ops' > ops /\ orders' = orders /\ slots' # slots)

Orderly == Init /\ [][Next /\ OrderlyRequests]_vars

\* The orders a robot moves for, or will go on moving for, at slot s.
ManeuversAt(s) ==
    {o \in OrderIds :
        /\ orders[o].slot = s /\ ~orders[o].logical
        /\ \/ orders[o].status = "IN_PROGRESS"
           \/ \E r \in Robots : pc[r] = "step" /\ hand[r] = o}

(***************************************************************************)
(* Two orders never maneuver for the same slot at the same time.  The      *)
(* server does not enforce it against every client; it holds for the       *)
(* requests the web front makes (see Orderly).                             *)
(***************************************************************************)
OneManeuverPerSlot == \A s \in Slots : Cardinality(ManeuversAt(s)) <= 1

(***************************************************************************)
(* No box is put on top of another: a slot whose books show a box does not *)
(* become the slot of a different box without being freed in between.      *)
(***************************************************************************)
NoBoxOverwritten ==
    [][\A s \in Slots :
         slots[s].box # NoHome /\ slots'[s].box # NoHome =>
            slots'[s].box = slots[s].box]_vars

(***************************************************************************)
(* A robot brings a box only once: two occupied slots that PICKs of one    *)
(* robot filled never show the same home.  A PICK looks for its box when   *)
(* it is submitted and again when it starts; in between, another PICK may  *)
(* have brought it.  A retry skips the second look, so this is said of     *)
(* histories without interventions.                                        *)
(***************************************************************************)
OneSlotPerBox ==
    ops = 0 =>
        \A home \in Homes : \A s, t \in OccupiedFrom(slots, home) :
            orders[slots[s].by].robot = orders[slots[t].by].robot => s = t

(***************************************************************************)
(* docs/business-logic.md 7: a request that a client repeats with its own  *)
(* id, in whatever state the first order is by then, makes no new order.   *)
(***************************************************************************)
OneOrderPerExternalId ==
    \A o, p \in OrderIds :
        /\ Exists(o) /\ Exists(p)
        /\ orders[o].ext = orders[p].ext /\ orders[o].ext # NoExternalId
        => o = p

-----------------------------------------------------------------------------
(***************************************************************************)
(* An order in progress settles or goes back to PENDING: the step ends,    *)
(* the loop goes on, or a retry restarts it.                               *)
(***************************************************************************)
StartedOrdersSettle ==
    \A o \in OrderIds :
        orders[o].status = "IN_PROGRESS" ~> orders[o].status # "IN_PROGRESS"

(***************************************************************************)
(* PICKs that wait for a slot do not starve a PUT behind them: a deferred  *)
(* PICK goes to the tail, so the PUT is started unless the queue is        *)
(* paused or an operator settles the order.                                *)
(***************************************************************************)
PutsAreNotStarved ==
    \A o \in OrderIds :
        orders[o].type = "PUT" /\ orders[o].status = "PENDING" ~>
            \/ orders[o].status # "PENDING"
            \/ queues[orders[o].robot].paused

\* A PICK in the queue waits although a slot on its side is free.
WaitsForFreeSlot(o) ==
    /\ orders[o].status = "PENDING" /\ orders[o].type = "PICK"
    /\ orders[o].waiting
    /\ FreeBeside(orders[o].home) # {}

(***************************************************************************)
(* No lost wake-up: although nothing kicks the robots when a slot becomes  *)
(* free, a waiting PICK starts, or finds its box in the zone, or every     *)
(* slot on its side is taken again.                                        *)
(***************************************************************************)
FreeSlotsFindWaitingPicks ==
    \A o \in OrderIds :
        WaitsForFreeSlot(o) ~>
            ~WaitsForFreeSlot(o) \/ queues[orders[o].robot].paused

-----------------------------------------------------------------------------
Starts(o) == orders[o].status # "IN_PROGRESS" /\ orders'[o].status = "IN_PROGRESS"

(***************************************************************************)
(* docs/business-logic.md 4.2: while other PICKs share the box on a slot,  *)
(* a PUT is a logical return and no maneuver takes the box away.           *)
(***************************************************************************)
SharedBoxIsNotTaken ==
    [][\A o \in OrderIds :
         Starts(o) /\ orders[o].type = "PUT" /\ ~orders[o].logical =>
            Depth(slots[orders[o].slot]) = 1]_vars
=============================================================================
