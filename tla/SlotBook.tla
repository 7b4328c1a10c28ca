------------------------------ MODULE SlotBook ------------------------------
(***************************************************************************)
(* The slot records of StateManager (src/src/core/state/StateManager.js)   *)
(* and the operations that rewrite one of them.  A slot is a place of the  *)
(* picking zone where a robot leaves a box.  Its record keeps the status,  *)
(* the order that last claimed it (reservedByOrderId), the home location   *)
(* of the box on it (currentBox.sourceLocationCode) and how many orders    *)
(* share that box (logicalPickStackDepth, 0 standing for "undefined").     *)
(***************************************************************************)
EXTENDS Integers

CONSTANTS
    Slots,      \* the configured pick slots
    NoSlot,     \* an order without slotLocationCode
    Homes,      \* the home locations of the boxes
    NoHome,     \* a slot without currentBox, a PUT without targetLocation
    MaxOrders   \* bound: the orders are numbered 1..MaxOrders

ASSUME SlotsAssumption == NoSlot \notin Slots
ASSUME HomesAssumption == NoHome \notin Homes
ASSUME MaxOrdersAssumption == MaxOrders \in Nat

OrderIds == 1 .. MaxOrders
NoOrder == 0

SlotStatus ==
    {"LIBRE", "RESERVADO", "BUSCANDO", "OCUPADO", "DEVOLVIENDO", "ERROR"}

Slot == [status : SlotStatus,
         by     : OrderIds \cup {NoOrder},
         box    : Homes \cup {NoHome},
         depth  : Nat]

\* buildInitialSlot, and what releaseSlot leaves.
ClearSlot ==
    [status |-> "LIBRE", by |-> NoOrder, box |-> NoHome, depth |-> 0]

\* reserveSlot and reserveSlotForPut, once their status test passed.
Reserved(slot, o) == [slot EXCEPT !.status = "RESERVADO", !.by = o]

\* updateSlotStatus: without an order the last claimant stays.
WithStatus(slot, status, o) ==
    [slot EXCEPT !.status = status, !.by = IF o = NoOrder THEN @ ELSE o]

\* blockSlot.
Blocked(slot, o) == WithStatus(slot, "ERROR", o)

\* markSlotOccupied: the box of this order, with a stack of one.
Occupied(o, home) ==
    [status |-> "OCUPADO", by |-> o, box |-> home, depth |-> 1]

\* getLogicalPickStackDepth: an undefined depth counts as one.
Depth(slot) == IF slot.depth > 0 THEN slot.depth ELSE 1

Stacked(slot) == [slot EXCEPT !.depth = Depth(slot) + 1]
Unstacked(slot) == [slot EXCEPT !.depth = Depth(slot) - 1]

\* Faulty variant: any slot whose box comes from there.
OccupiedFromAnyStatus(slots, home) == {s \in Slots : slots[s].box = home}

\* findOccupiedPickSlotBySource: the code returns the first match in the
\* order of the location codes, the model any of them.
OccupiedFrom(slots, home) ==
    {s \in Slots : slots[s].status = "OCUPADO" /\ slots[s].box = home}

\* reserveSlotForPut refuses every other status.
ReservableForPut(slot) == slot.status \in {"LIBRE", "OCUPADO"}
=============================================================================
