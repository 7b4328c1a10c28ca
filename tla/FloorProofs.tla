----------------------------- MODULE FloorProofs -----------------------------
(***************************************************************************)
(* Proofs that the books and the floor agree, and that the script asks for *)
(* one thing at a time, for every number of slots, boxes, orders, screens  *)
(* and retries.                                                            *)
(*                                                                         *)
(* Next to IInv stands what holds of the orders whatever happens           *)
(* (OrdersKeepTheirRack), and what holds until somebody meddles: an order  *)
(* whose robot moves has its slot for itself (MovesHoldTheirSlots), and    *)
(* the slot of a PICK that has failed stays in the hands of orders that    *)
(* find nothing there (PicksKeepTheirSlots), so that no other PICK can     *)
(* take it although a PUT from an old screen may claim it in between.      *)
(***************************************************************************)
EXTENDS Floor, OrchestratorProofs

\* A box is ordered from its own rack, and returned from there.
OrderInRack(o) ==
    Exists(o) =>
        /\ orders[o].home \in Homes
        /\ orders[o].slot # NoSlot => orders[o].robot = RobotOf[orders[o].slot]
        /\ orders[o].type = "PICK" => orders[o].robot = RobotOf[orders[o].home]
        /\ orders[o].type = "PUT" \/ orders[o].logical
             \/ orders[o].status = "DONE" => orders[o].slot # NoSlot
        /\ orders[o].slot = NoSlot => orders[o].idx = 0

OrdersKeepTheirRack == \A o \in OrderIds : OrderInRack(o)

\* Whom a slot names, that order's place it is or was.
ClaimInRack(s) ==
    /\ slots[s].by # NoOrder =>
          /\ Exists(slots[s].by)
          /\ orders[slots[s].by].slot = s
          /\ ~orders[slots[s].by].logical
    /\ slots[s].box # NoHome => RobotOf[slots[s].box] = RobotOf[s]
    /\ slots[s].status = "LIBRE" =>
          slots[s].by = NoOrder /\ slots[s].box = NoHome

ClaimsKeepTheirRack == \A s \in Slots : ClaimInRack(s)

NoRetryWithoutAct == \A o \in OrderIds : retrying[o] > 0 => ops # 0

\* What holds whatever anybody does.
RackInv ==
    /\ IInv
    /\ OrdersKeepTheirRack
    /\ ClaimsKeepTheirRack
    /\ NoRetryWithoutAct

-----------------------------------------------------------------------------
(***************************************************************************)
(* What holds until somebody meddles.                                      *)
(***************************************************************************)
BoxesAreInTheZoneOrHome ==
    /\ where \in [Homes -> Slots \cup Homes]
    /\ \A b \in Homes : where[b] \in Slots \cup {b}

\* A robot that moves, moves for an order at the index it captured.
MoveIsCurrent(r) ==
    /\ orders[hand[r]].status = "IN_PROGRESS"
    /\ orders[hand[r]].idx = at[r]

MovesAreCurrent == \A r \in Robots : pc[r] = "step" => MoveIsCurrent(r)

Steered(type) == IF type = "PICK" THEN "BUSCANDO" ELSE "DEVOLVIENDO"

\* An order in progress is its robot's active one and its slot's claimant.
MoveHoldsItsSlot(o) ==
    orders[o].status = "IN_PROGRESS" =>
        /\ ~orders[o].logical /\ orders[o].slot # NoSlot
        /\ queues[orders[o].robot].active = o
        /\ slots[orders[o].slot].by = o
        /\ slots[orders[o].slot].status = Steered(orders[o].type)

MovesHoldTheirSlots == \A o \in OrderIds : MoveHoldsItsSlot(o)

\* A waiting order starts from the beginning; a failed one did not get to
\* the end.
HasStepsLeft(o) ==
    /\ orders[o].status = "PENDING" => orders[o].idx = 0
    /\ orders[o].status = "ERROR" => StepRemains(orders[o].idx)

WaitingOrdersHaveSteps == \A o \in OrderIds : HasStepsLeft(o)

SteeredSlotIsInProgress(s) ==
    slots[s].status \in {"BUSCANDO", "DEVOLVIENDO"} =>
        orders[slots[s].by].status = "IN_PROGRESS"

SteeredSlotsAreInProgress == \A s \in Slots : SteeredSlotIsInProgress(s)

\* The order is a PICK to slot s that has begun and is not over.
Fetches(o, s) ==
    /\ orders[o].type = "PICK" /\ ~orders[o].logical /\ orders[o].slot = s
    /\ orders[o].status \in {"PENDING", "IN_PROGRESS", "ERROR"}

NotFree == {"BUSCANDO", "DEVOLVIENDO", "ERROR"}

\* Such a slot can be had by no other PICK, and there is no box on it until
\* the last step.
PickKeepsSlot(o, s) ==
    Fetches(o, s) =>
        /\ slots[s].status \in NotFree
        /\ BoxesOn(s) = IF StepRemains(orders[o].idx) THEN {}
                        ELSE {orders[o].home}
        /\ \A p \in OrderIds : Fetches(p, s) => p = o

PicksKeepTheirSlots ==
    \A o \in OrderIds : \A s \in Slots : PickKeepsSlot(o, s)

\* The last step of a PUT leaves an empty slot that nobody waits for.
PutLeavesNothing(o) ==
    /\ orders[o].type = "PUT" /\ orders[o].status = "IN_PROGRESS"
    /\ ~StepRemains(orders[o].idx)
    => /\ BoxesOn(orders[o].slot) = {}
       /\ \A p \in OrderIds : ~Fetches(p, orders[o].slot)

PutsLeaveNothing == \A o \in OrderIds : PutLeavesNothing(o)

SlotShowsFloor(s) ==
    /\ slots[s].status = "LIBRE" => BoxesOn(s) = {}
    /\ slots[s].status \in {"RESERVADO", "OCUPADO"} /\ slots[s].box # NoHome =>
          BoxesOn(s) = {slots[s].box}

SlotsShowFloor == \A s \in Slots : SlotShowsFloor(s)

FloorInOrder ==
    /\ BoxesAreInTheZoneOrHome
    /\ MovesAreCurrent
    /\ MovesHoldTheirSlots
    /\ WaitingOrdersHaveSteps
    /\ SteeredSlotsAreInProgress
    /\ PicksKeepTheirSlots
    /\ PutsLeaveNothing
    /\ SlotsShowFloor

-----------------------------------------------------------------------------
(***************************************************************************)
(* What holds of the script.                                               *)
(***************************************************************************)
ScriptTypeOK ==
    /\ asked \in SUBSET OrderIds
    /\ pool \subseteq Pool
    /\ board \in [Slots -> Homes \cup {NoHome, Untouchable}]
    /\ script \in {"pick", "put"} => job \in asked
    /\ script = "pick" => orders[job].type = "PICK"
    /\ script \in {"pick", "clear", "toPut"} => source \in Homes
    /\ script \in {"clear", "toPut"} =>
          slot \in Slots /\ RobotOf[slot] = ScriptRobot

AskedAreItsOwn == \A o \in asked : Exists(o) /\ orders[o].robot = ScriptRobot

GlancesAreInWaits == glance # NothingSeen => script \in {"dwell", "clear"}

\* Once the queue was seen idle, nothing of the script's is left in it.
IdleMeansSettled ==
    ops = 0 /\ (glance = "queueIdle" \/ script \in {"toPick", "toPut"}) =>
        \A o \in asked : orders[o].status \in Settled

ScriptInv ==
    /\ ScriptTypeOK
    /\ AskedAreItsOwn
    /\ GlancesAreInWaits
    /\ IdleMeansSettled
    /\ ScriptAsksOneByOne

FloorInv ==
    /\ RackInv
    /\ meddled \in BOOLEAN
    /\ meddled \/ FloorInOrder
    /\ ScriptInv

-----------------------------------------------------------------------------
(***************************************************************************)
(* A step concerns one order and one slot.  These say what it leaves to    *)
(* show of the two, and how it keeps out of the way of the others.         *)
(***************************************************************************)
OrderGoesOn(o) ==
    /\ Exists(o) =>
        /\ Exists(o)' /\ orders'[o].type = orders[o].type
        /\ orders'[o].robot = orders[o].robot
    /\ orders[o].status \in Settled /\ ops' = 0 => orders'[o].status \in Settled

RackEffect(o, s) ==
    /\ \A p \in OrderIds \ {o} : orders'[p] = orders[p]
    /\ \A t \in Slots \ {s} :
          slots'[t] = slots[t] /\ (o \in OrderIds => slots[t].by # o)
    /\ o \in OrderIds => OrderInRack(o)' /\ OrderGoesOn(o)
    /\ s \in Slots => ClaimInRack(s)'

MovesAlone(o, s) ==
    \A p \in OrderIds \ {o} : orders[p].status = "IN_PROGRESS" => orders[p].slot # s

FetchesAlone(o, s) == \A p \in OrderIds \ {o} : ~Fetches(p, s)

OthersMoveOn(o) ==
    \A r \in Robots :
        /\ \/ queues'[r].active = queues[r].active
           \/ queues[r].active \in {o, NoOrder}
           \/ orders[queues[r].active].status # "IN_PROGRESS"
        /\ pc'[r] = "step" =>
              IF o \in OrderIds /\ hand'[r] = o THEN MoveIsCurrent(r)'
              ELSE pc[r] = "step" /\ hand'[r] = hand[r] /\ at'[r] = at[r]

OrderInOrder(o) ==
    /\ MoveHoldsItsSlot(o)
    /\ HasStepsLeft(o)
    /\ \A t \in Slots : PickKeepsSlot(o, t)
    /\ PutLeavesNothing(o)

FloorEffect(o, s) ==
    /\ BoxesAreInTheZoneOrHome'
    /\ \A t \in Slots \ {s} : BoxesOn(t)' = BoxesOn(t)
    /\ OthersMoveOn(o)
    /\ o \in OrderIds =>
          /\ OrderInOrder(o)'
          /\ \A t \in Slots :
                Fetches(o, t)' =>
                    Fetches(o, t) \/ (t = s /\ MovesAlone(o, s))
    /\ s \in Slots =>
          /\ SlotShowsFloor(s)'
          /\ SteeredSlotIsInProgress(s)'
          /\ \/ MovesAlone(o, s)
             \/ /\ slots'[s].status = slots[s].status
                /\ slots'[s].by = slots[s].by
                /\ BoxesOn(s)' = BoxesOn(s)
          /\ \/ FetchesAlone(o, s)
             \/ slots'[s].status \in NotFree /\ BoxesOn(s)' = BoxesOn(s)

(***************************************************************************)
(* Such a step leaves all orders and claims in their rack.                 *)
(***************************************************************************)
LEMMA RackEffectKeepsRack ==
    ASSUME RackInv, NEW o, NEW s, RackEffect(o, s)
    PROVE  OrdersKeepTheirRack' /\ ClaimsKeepTheirRack'
<1>1. TypeOK
  BY DEF RackInv, IInv, Books
<1>2. OrdersKeepTheirRack'
  BY DEF RackInv, OrdersKeepTheirRack, OrderInRack, RackEffect, Exists
<1>3. ASSUME NEW t \in Slots, t # s PROVE ClaimInRack(t)'
  <2>1. slots'[t] = slots[t] /\ slots[t].by \in OrderIds \cup {NoOrder}
    BY <1>1, <1>3 DEF RackEffect, TypeOK, Slot
  <2>2. slots[t].by # NoOrder => orders'[slots[t].by] = orders[slots[t].by]
    BY <1>3, <2>1 DEF RackEffect
  <2>3. ClaimInRack(t)
    BY DEF RackInv, ClaimsKeepTheirRack
  <2> QED
    BY <2>1, <2>2, <2>3 DEF ClaimInRack, Exists
<1>4. ClaimsKeepTheirRack'
  BY <1>3 DEF RackEffect, ClaimsKeepTheirRack
<1> QED
  BY <1>2, <1>4

(***************************************************************************)
(* Such a step keeps the floor in order.                                   *)
(***************************************************************************)
LEMMA FloorEffectKeepsOrder ==
    ASSUME RackInv, FloorInOrder, NEW o, NEW s,
           RackEffect(o, s), FloorEffect(o, s)
    PROVE  FloorInOrder'
<1>1. /\ TypeOK /\ LoopsOwnTheirOrders
      /\ \A p \in OrderIds : orders[p] \in Order
      /\ \A p \in OrderIds \ {o} : orders'[p] = orders[p]
      /\ \A t \in Slots \ {s} :
            slots'[t] = slots[t] /\ BoxesOn(t)' = BoxesOn(t)
  BY DEF RackInv, IInv, Books, TypeOK, RackEffect, FloorEffect
<1>2. MovesAreCurrent'
  <2> SUFFICES ASSUME NEW r \in Robots, pc'[r] = "step",
                      pc[r] = "step", hand'[r] = hand[r], at'[r] = at[r],
                      ~(o \in OrderIds /\ hand'[r] = o)
               PROVE  MoveIsCurrent(r)'
    BY DEF FloorEffect, OthersMoveOn, MovesAreCurrent
  <2>1. hand[r] \in OrderIds \ {o}
    BY <1>1 DEF LoopsOwnTheirOrders
  <2>2. MoveIsCurrent(r)
    BY DEF FloorInOrder, MovesAreCurrent
  <2> QED
    BY <1>1, <2>1, <2>2 DEF MoveIsCurrent
<1>3. ASSUME NEW p \in OrderIds, p # o, orders[p].status = "IN_PROGRESS",
             NEW t, t = orders[p].slot
      PROVE  /\ t \in Slots
             /\ slots'[t].status = slots[t].status /\ slots'[t].by = slots[t].by
             /\ BoxesOn(t)' = BoxesOn(t)
  <2>1. t \in Slots
    BY <1>1, <1>3 DEF FloorInOrder, MovesHoldTheirSlots, MoveHoldsItsSlot, Order
  <2>2. t = s => ~MovesAlone(o, s)
    BY <1>3 DEF MovesAlone
  <2> QED
    BY <1>1, <2>1, <2>2 DEF FloorEffect
<1>4. MovesHoldTheirSlots'
  <2> SUFFICES ASSUME NEW p \in OrderIds, p # o,
                      orders[p].status = "IN_PROGRESS"
               PROVE  MoveHoldsItsSlot(p)'
    BY <1>1 DEF FloorEffect, OrderInOrder, MovesHoldTheirSlots, MoveHoldsItsSlot
  <2>1. MoveHoldsItsSlot(p)
    BY DEF FloorInOrder, MovesHoldTheirSlots
  <2>2. orders[p].robot \in Robots /\ queues[orders[p].robot].active = p
    BY <1>1, <2>1 DEF MoveHoldsItsSlot, Order
  <2>3. queues'[orders[p].robot].active = p
    BY <2>2, NoOrderIsNone DEF FloorEffect, OthersMoveOn
  <2> QED
    BY <1>1, <1>3, <2>1, <2>3 DEF MoveHoldsItsSlot
<1>5. WaitingOrdersHaveSteps'
  BY <1>1 DEF FloorInOrder, FloorEffect, OrderInOrder, WaitingOrdersHaveSteps,
              HasStepsLeft
<1>6. SteeredSlotsAreInProgress'
  <2> SUFFICES ASSUME NEW t \in Slots \ {s} PROVE SteeredSlotIsInProgress(t)'
    BY DEF FloorEffect, SteeredSlotsAreInProgress
  <2>1. SteeredSlotIsInProgress(t) /\ slots'[t] = slots[t]
    BY <1>1 DEF FloorInOrder, SteeredSlotsAreInProgress
  <2>2. slots[t].status \in {"BUSCANDO", "DEVOLVIENDO"} =>
            slots[t].by \in OrderIds \ {o}
    BY DEF RackInv, IInv, Books, HeldSlotsAreClaimed, Held, Claims, RackEffect,
           TypeOK, Slot
  <2> QED
    BY <1>1, <2>1, <2>2 DEF SteeredSlotIsInProgress
<1>7. PicksKeepTheirSlots'
  <2> SUFFICES ASSUME NEW p \in OrderIds, p # o, NEW t \in Slots, Fetches(p, t)'
               PROVE  PickKeepsSlot(p, t)'
    BY DEF FloorEffect, OrderInOrder, PicksKeepTheirSlots, PickKeepsSlot
  <2>1. Fetches(p, t) /\ orders'[p] = orders[p]
    BY <1>1 DEF Fetches
  <2>2. PickKeepsSlot(p, t)
    BY DEF FloorInOrder, PicksKeepTheirSlots
  <2>3. slots'[t].status \in NotFree /\ BoxesOn(t)' = BoxesOn(t)
    <3>1. CASE t = s
      BY <2>1, <3>1 DEF FloorEffect, FetchesAlone
    <3> QED
      BY <1>1, <2>1, <2>2, <3>1 DEF PickKeepsSlot
  <2>4. ASSUME NEW q \in OrderIds, Fetches(q, t)' PROVE q = p
    <3>1. CASE q = o
      BY <2>4, <3>1 DEF FloorEffect, OrderInOrder, PickKeepsSlot
    <3>2. CASE q # o
      <4>1. Fetches(q, t)
        BY <1>1, <2>4, <3>2 DEF Fetches
      <4> QED
        BY <2>1, <2>2, <4>1 DEF PickKeepsSlot
    <3> QED
      BY <3>1, <3>2
  <2> QED
    BY <2>1, <2>2, <2>3, <2>4 DEF PickKeepsSlot
<1>8. PutsLeaveNothing'
  <2> SUFFICES ASSUME NEW p \in OrderIds, p # o, orders[p].type = "PUT",
                      orders[p].status = "IN_PROGRESS",
                      ~StepRemains(orders[p].idx), NEW t, t = orders[p].slot
               PROVE  PutLeavesNothing(p)'
    BY <1>1 DEF FloorEffect, OrderInOrder, PutsLeaveNothing, PutLeavesNothing
  <2>1. BoxesOn(t) = {} /\ \A q \in OrderIds : ~Fetches(q, t)
    BY DEF FloorInOrder, PutsLeaveNothing, PutLeavesNothing
  <2>2. t \in Slots /\ BoxesOn(t)' = BoxesOn(t)
    BY <1>3
  <2>3. ASSUME NEW q \in OrderIds PROVE ~Fetches(q, t)'
    <3>1. CASE q = o
      BY <2>1, <2>2, <3>1 DEF FloorEffect, MovesAlone
    <3>2. CASE q # o
      BY <1>1, <2>1, <3>2 DEF Fetches
    <3> QED
      BY <3>1, <3>2
  <2>4. orders'[p] = orders[p]
    BY <1>1
  <2>5. BoxesOn(t)' = {} /\ \A q \in OrderIds : ~Fetches(q, t)'
    BY <2>1, <2>2, <2>3
  <2> QED
    BY <2>4, <2>5 DEF PutLeavesNothing
<1>9. SlotsShowFloor'
  BY <1>1 DEF FloorInOrder, FloorEffect, SlotsShowFloor, SlotShowsFloor
<1> QED
  BY <1>2, <1>4, <1>5, <1>6, <1>7, <1>8, <1>9 DEF FloorInOrder, FloorEffect

-----------------------------------------------------------------------------
(***************************************************************************)
(* The kinds of steps, by what they do to the order and the slot.          *)
(***************************************************************************)
GoodStep(o, s) ==
    /\ RackEffect(o, s)
    /\ FloorInOrder /\ ~meddled' => FloorEffect(o, s)

(***************************************************************************)
(* Boxes stand where they stood.                                           *)
(***************************************************************************)
LEMMA BoxesRest ==
    ASSUME UNCHANGED where
    PROVE  /\ \A t : BoxesOn(t)' = BoxesOn(t)
           /\ FloorInOrder => BoxesAreInTheZoneOrHome'
BY DEF BoxesOn, FloorInOrder, BoxesAreInTheZoneOrHome

(***************************************************************************)
(* Neither an order nor a slot changes.                                    *)
(***************************************************************************)
LEMMA QuietStep ==
    ASSUME UNCHANGED <<orders, slots, where>>, OthersMoveOn(NoOrder)
    PROVE  GoodStep(NoOrder, NoSlot)
<1>1. NoOrder \notin OrderIds /\ NoSlot \notin Slots
  BY NoOrderIsNone, SlotsAssumption
<1>2. RackEffect(NoOrder, NoSlot)
  BY <1>1 DEF RackEffect
<1>3. ASSUME FloorInOrder PROVE FloorEffect(NoOrder, NoSlot)
  BY <1>1, <1>3, BoxesRest DEF FloorEffect
<1> QED
  BY <1>2, <1>3 DEF GoodStep

(***************************************************************************)
(* An order that claims no slot changes, and will not move or fetch for    *)
(* now; a slot changes in its depth at most.                               *)
(***************************************************************************)
LEMMA UnclaimedOrderStep ==
    ASSUME RackInv, UNCHANGED where, NEW o \in OrderIds, NEW s,
           \A p \in OrderIds \ {o} : orders'[p] = orders[p],
           \A t \in Slots \ {s} : slots'[t] = slots[t],
           s \in Slots => /\ slots'[s].status = slots[s].status
                          /\ slots'[s].by = slots[s].by
                          /\ slots'[s].box = slots[s].box,
           \A t \in Slots : slots[t].by # o,
           orders'[o].status # "IN_PROGRESS", \A t \in Slots : ~Fetches(o, t)',
           FloorInOrder => HasStepsLeft(o)',
           OrderInRack(o)', OrderGoesOn(o),
           FloorInOrder /\ ~meddled' => OthersMoveOn(o)
    PROVE  GoodStep(o, s)
<1>1. TypeOK
  BY DEF RackInv, IInv, Books
<1>2. ASSUME s \in Slots PROVE ClaimInRack(s)'
  <2>1. slots[s].by \in OrderIds \cup {NoOrder} /\ ClaimInRack(s)
    BY <1>1, <1>2 DEF RackInv, ClaimsKeepTheirRack, TypeOK, Slot
  <2>2. slots[s].by # NoOrder => orders'[slots[s].by] = orders[slots[s].by]
    BY <1>2, <2>1
  <2> QED
    BY <1>2, <2>1, <2>2 DEF ClaimInRack, Exists
<1>3. RackEffect(o, s)
  BY <1>2 DEF RackEffect
<1>4. ASSUME FloorInOrder, ~meddled' PROVE FloorEffect(o, s)
  <2>1. OrderInOrder(o)'
    BY <1>4 DEF OrderInOrder, MoveHoldsItsSlot, PickKeepsSlot, PutLeavesNothing
  <2>2. ASSUME s \in Slots PROVE SlotShowsFloor(s)'
    BY <1>4, <2>2, BoxesRest DEF FloorInOrder, SlotsShowFloor, SlotShowsFloor
  <2>3. ASSUME s \in Slots PROVE SteeredSlotIsInProgress(s)'
    <3>1. slots[s].status \in {"BUSCANDO", "DEVOLVIENDO"} =>
            slots[s].by \in OrderIds \ {o}
      BY <1>1, <2>3 DEF RackInv, IInv, Books, HeldSlotsAreClaimed, Held, Claims,
                        TypeOK, Slot
    <3> QED
      BY <1>4, <2>3, <3>1
         DEF FloorInOrder, SteeredSlotsAreInProgress, SteeredSlotIsInProgress
  <2>4. s \in Slots => FetchesAlone(o, s) \/ slots'[s].status \in NotFree
    BY <1>4 DEF FloorInOrder, PicksKeepTheirSlots, PickKeepsSlot, FetchesAlone
  <2> QED
    BY <1>4, <2>1, <2>2, <2>3, <2>4, BoxesRest DEF FloorEffect
<1> QED
  BY <1>3, <1>4 DEF GoodStep

(***************************************************************************)
(* Nobody else can be under way at a slot that is free, reserved or        *)
(* occupied.                                                               *)
(***************************************************************************)
LEMMA AloneInRestingSlot ==
    ASSUME RackInv, FloorInOrder, NEW o, NEW s \in Slots,
           slots[s].status \in {"LIBRE", "RESERVADO", "OCUPADO"}
    PROVE  MovesAlone(o, s) /\ FetchesAlone(o, s)
<1>1. MovesAlone(o, s)
  BY DEF FloorInOrder, MovesHoldTheirSlots, MoveHoldsItsSlot, Steered, MovesAlone
<1>2. FetchesAlone(o, s)
  BY DEF FloorInOrder, PicksKeepTheirSlots, PickKeepsSlot, NotFree, FetchesAlone
<1> QED
  BY <1>1, <1>2

(***************************************************************************)
(* A robot has one active order, and the slots of its rack are its own:    *)
(* no other order is being carried out at the slot of the active one.      *)
(***************************************************************************)
LEMMA AloneWhenActive ==
    ASSUME RackInv, FloorInOrder, NEW o \in OrderIds, NEW s \in Slots,
           Exists(o), orders[o].slot = s, queues[orders[o].robot].active = o
    PROVE  MovesAlone(o, s)
<1> SUFFICES ASSUME NEW p \in OrderIds \ {o}, orders[p].status = "IN_PROGRESS",
                    orders[p].slot = s
             PROVE  FALSE
  BY DEF MovesAlone
<1>1. orders[p].robot = RobotOf[s] /\ orders[o].robot = RobotOf[s]
  BY SlotsAssumption
     DEF RackInv, OrdersKeepTheirRack, OrderInRack, Exists
<1>2. queues[orders[p].robot].active = p
  BY DEF FloorInOrder, MovesHoldTheirSlots, MoveHoldsItsSlot
<1> QED
  BY <1>1, <1>2

(***************************************************************************)
(* What the work on an order leaves of the order and its slot.             *)
(***************************************************************************)
Working(r, o, s) ==
    /\ Processing(r, o) /\ orders[o].status \notin Settled
    /\ ~orders[o].logical /\ s \in Slots
    /\ \/ orders[o].slot = s
       \/ /\ orders[o].slot = NoSlot /\ orders[o].type = "PICK"
          /\ RobotOf[s] = r /\ slots[s].status = "LIBRE"

(***************************************************************************)
(* A robot is at one place: only one loop has the order.                   *)
(***************************************************************************)
LEMMA OthersMoveOnBeside ==
    ASSUME RackInv, NEW r \in Robots, NEW o \in OrderIds, Owned(o, r),
           \A q \in Robots \ {r} :
              pc'[q] = pc[q] /\ hand'[q] = hand[q] /\ at'[q] = at[q]
              /\ queues'[q].active = queues[q].active,
           \/ queues'[r].active = queues[r].active
           \/ queues[r].active \in {o, NoOrder},
           pc'[r] = "step" => hand'[r] = o /\ MoveIsCurrent(r)'
    PROVE  OthersMoveOn(o)
<1>1. ASSUME NEW q \in Robots \ {r}, pc'[q] = "step" PROVE hand'[q] # o
  BY <1>1 DEF RackInv, IInv, Books, LoopsOwnTheirOrders, Owned
<1> QED
  BY <1>1 DEF OthersMoveOn

(***************************************************************************)
(* A step goes out, or cannot: the order is in progress and has its slot.  *)
(***************************************************************************)
LEMMA BegunStep ==
    ASSUME RackInv, UNCHANGED where, NEW r, NEW o, NEW s, Working(r, o, s),
           NEW new \in Order, new = Started(o, s), StepRemains(new.idx),
           \A p \in OrderIds \ {o} : orders'[p] = orders[p], orders'[o] = new,
           \A t \in Slots \ {s} : slots'[t] = slots[t],
           \/ /\ slots'[s].by = o /\ slots'[s].box = slots[s].box
              /\ slots'[s].status = Steered(new.type)
           \/ new.idx # 0 /\ slots'[s] = slots[s],
           UNCHANGED queues,
           \A q \in Robots \ {r} : pc'[q] = pc[q] /\ at'[q] = at[q],
           pc'[r] = "step" => at'[r] = new.idx
    PROVE  GoodStep(o, s)
<1>1. /\ TypeOK /\ r \in Robots /\ o \in OrderIds /\ s \in Slots
      /\ Owned(o, r) /\ Exists(o) /\ queues[r].active = o
      /\ ~orders[o].logical /\ orders[o].robot = r
      /\ hand'[r] = o /\ \A q \in Robots \ {r} : hand'[q] = hand[q]
      /\ orders[o] \in Order /\ OrderInRack(o) /\ ClaimInRack(s)
      /\ UNCHANGED ops
  BY DEF Working, Processing, Owned, Exists, RackInv, IInv, Books, TypeOK,
         OrdersKeepTheirRack, ClaimsKeepTheirRack
<1>2. /\ new.status = "IN_PROGRESS" /\ new.slot = s /\ ~new.logical
      /\ new.type = orders[o].type /\ new.home = orders[o].home
      /\ new.robot = r /\ new.idx = orders[o].idx
  BY <1>1 DEF Started, Order
<1>3. orders[o].slot # s => orders[o].slot = NoSlot /\ new.idx = 0
  BY <1>1, <1>2 DEF Working, OrderInRack
<1>4. RackEffect(o, s)
  <2>1. \A t \in Slots \ {s} : slots[t].by # o
    BY <1>1, <1>3, SlotsAssumption, NoOrderIsNone
       DEF RackInv, ClaimsKeepTheirRack, ClaimInRack
  <2>2. orders'[o].robot = RobotOf[s]
    BY <1>1, <1>2, SlotsAssumption DEF Working, OrderInRack
  <2>3. OrderInRack(o)' /\ OrderGoesOn(o)
    BY <1>1, <1>2, <2>2, SlotsAssumption
       DEF OrderInRack, OrderGoesOn, Exists, Working
  <2>4. ClaimInRack(s)'
    <3>1. CASE /\ slots'[s].by = o /\ slots'[s].box = slots[s].box
               /\ slots'[s].status = Steered(new.type)
      BY <1>1, <1>2, <3>1 DEF ClaimInRack, Exists, Steered
    <3>2. CASE new.idx # 0 /\ slots'[s] = slots[s]
      <4>1. slots[s].by \in OrderIds \cup {NoOrder}
        BY <1>1 DEF TypeOK, Slot
      <4> QED
        BY <1>1, <1>2, <3>2, <4>1 DEF ClaimInRack, Exists
    <3> QED
      BY <3>1, <3>2
  <2> QED
    BY <2>1, <2>3, <2>4 DEF RackEffect
<1>5. ASSUME FloorInOrder PROVE FloorEffect(o, s)
  <2>1. orders[o].status \in {"PENDING", "IN_PROGRESS"}
    BY <1>1 DEF Working, Exists, Order, Status, Settled
  <2>2. /\ slots'[s].by = o /\ slots'[s].status = Steered(new.type)
    <3>1. CASE new.idx # 0
      <4>1. orders[o].status = "IN_PROGRESS" /\ orders[o].slot = s
        BY <1>2, <1>3, <1>5, <2>1, <3>1, <1>1
           DEF FloorInOrder, WaitingOrdersHaveSteps, HasStepsLeft
      <4> QED
        BY <1>1, <1>2, <1>5, <3>1, <4>1
           DEF FloorInOrder, MovesHoldTheirSlots, MoveHoldsItsSlot
    <3> QED
      BY <3>1
  <2>3. MovesAlone(o, s)
    <3>1. CASE orders[o].slot = s
      BY <1>1, <1>5, <3>1, AloneWhenActive
    <3>2. CASE orders[o].slot # s
      BY <1>1, <1>5, <3>2, AloneInRestingSlot DEF Working
    <3> QED
      BY <3>1, <3>2
  <2>4. ASSUME Fetches(o, s)' PROVE BoxesOn(s) = {} /\ FetchesAlone(o, s)
    <3>1. CASE orders[o].slot = s
      <4>1. Fetches(o, s)
        BY <1>1, <1>2, <2>1, <2>4, <3>1 DEF Fetches
      <4> QED
        BY <1>1, <1>2, <1>5, <4>1
           DEF FloorInOrder, PicksKeepTheirSlots, PickKeepsSlot, FetchesAlone
    <3>2. CASE orders[o].slot # s
      BY <1>1, <1>5, <3>2, AloneInRestingSlot
         DEF Working, FloorInOrder, SlotsShowFloor, SlotShowsFloor
    <3> QED
      BY <3>1, <3>2
  <2>5. slots'[s].status \in {"BUSCANDO", "DEVOLVIENDO"}
    BY <2>2 DEF Steered
  <2>6. MoveHoldsItsSlot(o)'
    BY <1>1, <1>2, <2>2, SlotsAssumption DEF MoveHoldsItsSlot
  <2>7. HasStepsLeft(o)' /\ PutLeavesNothing(o)'
    BY <1>2 DEF HasStepsLeft, PutLeavesNothing
  <2>8. ASSUME NEW t \in Slots, Fetches(o, t)' PROVE t = s
    BY <1>2, <2>8 DEF Fetches
  <2>9. PickKeepsSlot(o, s)'
    <3> SUFFICES ASSUME Fetches(o, s)' PROVE PickKeepsSlot(o, s)'
      BY DEF PickKeepsSlot
    <3>1. BoxesOn(s)' = {} /\ FetchesAlone(o, s)
      BY <2>4, BoxesRest
    <3>2. \A p \in OrderIds : Fetches(p, s)' => p = o
      BY <3>1 DEF FetchesAlone, Fetches
    <3> QED
      BY <1>2, <2>5, <3>1, <3>2 DEF PickKeepsSlot, NotFree
  <2>10. OrderInOrder(o)'
    <3>1. \A t \in Slots : PickKeepsSlot(o, t)'
      BY <2>8, <2>9 DEF PickKeepsSlot
    <3> QED
      BY <2>6, <2>7, <3>1 DEF OrderInOrder
  <2>11. SlotShowsFloor(s)' /\ SteeredSlotIsInProgress(s)'
    BY <1>2, <2>2, <2>5 DEF SlotShowsFloor, SteeredSlotIsInProgress
  <2>12. OthersMoveOn(o)
    <3>1. pc'[r] = "step" => MoveIsCurrent(r)'
      BY <1>1, <1>2 DEF MoveIsCurrent
    <3> QED
      BY <1>1, <3>1, OthersMoveOnBeside
  <2> QED
    BY <1>1, <1>5, <2>3, <2>5, <2>8, <2>10, <2>11, <2>12, BoxesRest
       DEF FloorEffect, NotFree
<1> QED
  BY <1>4, <1>5 DEF GoodStep

\* The order once its last step is done.
Finished(o, s) == [Started(o, s) EXCEPT !.status = "DONE"]

(***************************************************************************)
(* Every step is done: the box is where the books now say it is.           *)
(***************************************************************************)
LEMMA FinishedStep ==
    ASSUME RackInv, UNCHANGED where, NEW r, NEW o, NEW s, Working(r, o, s),
           NEW new \in Order, new = Finished(o, s),
           new.idx = NumSteps,
           \A p \in OrderIds \ {o} : orders'[p] = orders[p], orders'[o] = new,
           \A t \in Slots \ {s} : slots'[t] = slots[t],
           slots'[s] = IF new.type = "PICK" THEN Occupied(o, new.home)
                       ELSE ClearSlot,
           \A q \in Robots \ {r} :
              pc'[q] = pc[q] /\ at'[q] = at[q]
              /\ queues'[q].active = queues[q].active,
           pc'[r] = "cleared"
    PROVE  GoodStep(o, s)
<1>1. /\ TypeOK /\ r \in Robots /\ o \in OrderIds /\ s \in Slots
      /\ Owned(o, r) /\ Exists(o) /\ queues[r].active = o
      /\ ~orders[o].logical /\ orders[o].robot = r
      /\ \A q \in Robots \ {r} : hand'[q] = hand[q]
      /\ orders[o] \in Order /\ OrderInRack(o)
      /\ UNCHANGED ops
  BY DEF Working, Processing, Owned, Exists, RackInv, IInv, Books, TypeOK,
         OrdersKeepTheirRack
<1>2. /\ new.status = "DONE" /\ new.slot = s /\ ~new.logical
      /\ new.type = orders[o].type /\ new.home = orders[o].home
      /\ new.robot = r /\ new.idx = orders[o].idx
  BY <1>1 DEF Finished, Started, Order
<1>3. orders[o].idx # 0 /\ ~StepRemains(orders[o].idx)
  BY <1>2, NumStepsAssumption DEF StepRemains
<1>4. orders[o].slot = s
  BY <1>1, <1>3 DEF Working, OrderInRack
<1>5. RackEffect(o, s)
  <2>1. \A t \in Slots \ {s} : slots[t].by # o
    BY <1>1, <1>4, NoOrderIsNone DEF RackInv, ClaimsKeepTheirRack, ClaimInRack
  <2>2. OrderInRack(o)' /\ OrderGoesOn(o)
    BY <1>1, <1>2, <1>4, SlotsAssumption
       DEF OrderInRack, OrderGoesOn, Exists, Working
  <2>3. ClaimInRack(s)'
    <3>1. CASE new.type = "PICK"
      <4>1. RobotOf[new.home] = RobotOf[s]
        BY <1>1, <1>2, <1>4, <3>1, SlotsAssumption DEF OrderInRack
      <4>2. /\ slots'[s].by = o /\ slots'[s].box = new.home
            /\ slots'[s].status = "OCUPADO"
        BY <3>1 DEF Occupied
      <4>3. orders'[o].slot = s /\ ~orders'[o].logical /\ Exists(o)'
        BY <1>1, <1>2 DEF Exists
      <4> QED
        BY <4>1, <4>2, <4>3 DEF ClaimInRack
    <3>2. CASE new.type # "PICK"
      BY <3>2 DEF ClaimInRack, ClearSlot
    <3> QED
      BY <3>1, <3>2
  <2> QED
    BY <2>1, <2>2, <2>3 DEF RackEffect
<1>6. ASSUME FloorInOrder PROVE FloorEffect(o, s)
  <2>1. orders[o].status = "IN_PROGRESS"
    BY <1>1, <1>3, <1>6
       DEF Working, Exists, Order, Status, Settled, FloorInOrder,
           WaitingOrdersHaveSteps, HasStepsLeft
  <2>2. MovesAlone(o, s)
    BY <1>1, <1>4, <1>6, AloneWhenActive
  <2>3. FetchesAlone(o, s) /\ SlotShowsFloor(s)'
    <3>1. CASE new.type = "PICK"
      <4>1. Fetches(o, s)
        BY <1>1, <1>2, <1>4, <2>1, <3>1 DEF Fetches
      <4>2. BoxesOn(s) = {new.home} /\ FetchesAlone(o, s)
        BY <1>1, <1>2, <1>3, <1>6, <4>1
           DEF FloorInOrder, PicksKeepTheirSlots, PickKeepsSlot, FetchesAlone
      <4>3. slots'[s].status = "OCUPADO" /\ slots'[s].box = new.home
        BY <3>1 DEF Occupied
      <4> QED
        BY <4>2, <4>3, BoxesRest DEF SlotShowsFloor
    <3>2. CASE new.type # "PICK"
      <4>1. BoxesOn(s) = {} /\ FetchesAlone(o, s)
        BY <1>1, <1>2, <1>3, <1>4, <1>6, <2>1, <3>2
           DEF FloorInOrder, PutsLeaveNothing, PutLeavesNothing, FetchesAlone,
               Order
      <4>2. slots'[s].status = "LIBRE" /\ slots'[s].box = NoHome
        BY <3>2 DEF ClearSlot
      <4> QED
        BY <4>1, <4>2, BoxesRest DEF SlotShowsFloor
    <3> QED
      BY <3>1, <3>2
  <2>4. /\ OrderInOrder(o)' /\ \A t \in Slots : ~Fetches(o, t)'
    BY <1>2 DEF OrderInOrder, MoveHoldsItsSlot, HasStepsLeft, PickKeepsSlot,
                PutLeavesNothing, Fetches
  <2>5. SteeredSlotIsInProgress(s)'
    BY DEF SteeredSlotIsInProgress, Occupied, ClearSlot
  <2>6. OthersMoveOn(o)
    BY <1>1, OthersMoveOnBeside
  <2> QED
    BY <1>1, <1>6, <2>2, <2>3, <2>4, <2>5, <2>6, BoxesRest DEF FloorEffect
<1> QED
  BY <1>5, <1>6 DEF GoodStep

(***************************************************************************)
(* The work on an order in its slot, or in the free slot it was given.     *)
(***************************************************************************)
LEMMA WorkIsGood ==
    ASSUME RackInv, UNCHANGED where, NEW r, NEW o, NEW s, Working(r, o, s),
           NEW book \in [Slots -> Slot],
           \A t \in Slots \ {s} : book[t] = slots[t],
           book[s].box = slots[s].box,
           book[s] = slots[s] \/ orders[o].slot = NoSlot,
           Work(r, o, Started(o, s), book)
    PROVE  GoodStep(o, s)
<1> DEFINE new == Started(o, s)
<1>1. /\ TypeOK /\ r \in Robots /\ o \in OrderIds /\ s \in Slots
      /\ orders[o] \in Order /\ OrderInRack(o) /\ o # NoOrder
  BY NoOrderIsNone
     DEF Working, Processing, RackInv, IInv, Books, TypeOK, OrdersKeepTheirRack
<1>2. /\ new \in Order /\ new.slot = s /\ new.type = orders[o].type
      /\ new.home = orders[o].home /\ new.idx = orders[o].idx
  BY <1>1 DEF Started, Order, Status
<1>3. orders[o].slot = NoSlot => new.idx = 0
  BY <1>1, <1>2, SlotsAssumption DEF OrderInRack, Exists, Working, Processing, Owned
<1> HIDE DEF new
<1>4. CASE FinishPhysical(r, o, new, book)
  <2> DEFINE fin == [new EXCEPT !.status = "DONE"]
             left == IF new.type = "PICK" THEN Occupied(o, new.home)
                     ELSE ClearSlot
  <2>1. /\ fin \in Order /\ fin.idx = NumSteps
        /\ fin.type = new.type /\ fin.home = new.home
    BY <1>2, <1>4 DEF FinishPhysical, Order, Status
  <2>2. /\ slots' = [book EXCEPT ![s] = left]
        /\ orders' = [orders EXCEPT ![o] = fin]
        /\ ClearActive(r) /\ pc' = [pc EXCEPT ![r] = "cleared"] /\ UNCHANGED at
    BY <1>2, <1>4 DEF FinishPhysical
  <2> HIDE DEF fin, left
  <2>3. /\ \A p \in OrderIds \ {o} : orders'[p] = orders[p]
        /\ orders'[o] = fin
        /\ \A t \in Slots \ {s} : slots'[t] = slots[t]
        /\ slots'[s] = left
    BY <1>1, <2>2 DEF TypeOK
  <2>4. /\ \A q \in Robots \ {r} :
              pc'[q] = pc[q] /\ at'[q] = at[q]
              /\ queues'[q].active = queues[q].active
        /\ pc'[r] = "cleared"
    BY <1>1, <2>2 DEF TypeOK, ClearActive
  <2>5. slots'[s] = IF fin.type = "PICK" THEN Occupied(o, fin.home)
                    ELSE ClearSlot
    BY <2>1, <2>3 DEF left
  <2>6. fin = Finished(o, s)
    BY DEF fin, new, Finished
  <2> QED
    BY <2>1, <2>3, <2>4, <2>5, <2>6, FinishedStep
<1>5. CASE StartStep(r, o, new, book) \/ LoopDies(r, o, new, book)
  <2>1. /\ StepRemains(new.idx)
        /\ slots' = [book EXCEPT ![s] = InProgress(book[s], new, o)]
        /\ orders' = [orders EXCEPT ![o] = new]
        /\ UNCHANGED queues
    BY <1>2, <1>5 DEF StartStep, LoopDies, StepRemains
  <2>2. /\ \A q \in Robots \ {r} : pc'[q] = pc[q] /\ at'[q] = at[q]
        /\ pc'[r] = "step" => at'[r] = new.idx
    BY <1>1, <1>5 DEF StartStep, LoopDies, TypeOK
  <2>3. /\ \A p \in OrderIds \ {o} : orders'[p] = orders[p]
        /\ orders'[o] = new
        /\ \A t \in Slots \ {s} : slots'[t] = slots[t]
        /\ slots'[s] = InProgress(book[s], new, o)
    BY <1>1, <2>1 DEF TypeOK
  <2>4. \/ /\ slots'[s].by = o /\ slots'[s].box = slots[s].box
           /\ slots'[s].status = Steered(new.type)
        \/ new.idx # 0 /\ slots'[s] = slots[s]
    <3>1. CASE new.idx = 0
      BY <1>1, <2>3, <3>1 DEF InProgress, WithStatus, Steered, Slot
    <3>2. CASE new.idx # 0
      BY <1>3, <2>3, <3>2 DEF InProgress
    <3> QED
      BY <3>1, <3>2
  <2> QED
    BY <1>2, <2>1, <2>2, <2>3, <2>4, BegunStep DEF new
<1> QED
  BY <1>4, <1>5 DEF Work, new

(***************************************************************************)
(* processOrder, whatever it finds.                                        *)
(***************************************************************************)
LEMMA ProcessOrderIsGood ==
    ASSUME RackInv, UNCHANGED where, NEW r, NEW o, Processing(r, o),
           ProcessOrder(r, o)
    PROVE  \E p, s : GoodStep(p, s)
<1>1. /\ TypeOK /\ r \in Robots /\ o \in OrderIds /\ o # NoOrder
      /\ Owned(o, r) /\ Exists(o) /\ queues[r].active = o
      /\ orders[o].robot = r /\ UNCHANGED ops
      /\ hand'[r] = o /\ \A q \in Robots \ {r} : hand'[q] = hand[q]
      /\ orders[o] \in Order /\ OrderInRack(o)
      /\ slots \in [Slots -> Slot]
  BY NoOrderIsNone
     DEF Processing, Owned, Exists, RackInv, IInv, Books, TypeOK,
         OrdersKeepTheirRack
<1>2. ASSUME orders[o].slot = NoSlot \/ orders[o].logical
      PROVE  \A t \in Slots : slots[t].by # o
  BY <1>1, <1>2, SlotsAssumption DEF RackInv, ClaimsKeepTheirRack, ClaimInRack
<1>3. ASSUME ClearActive(r), pc'[r] \in {"cleared", "requeue"},
             \A q \in Robots \ {r} : pc'[q] = pc[q], UNCHANGED at
      PROVE  OthersMoveOn(o)
  <2>1. \A q \in Robots \ {r} :
           pc'[q] = pc[q] /\ hand'[q] = hand[q] /\ at'[q] = at[q]
           /\ queues'[q].active = queues[q].active
    BY <1>1, <1>3 DEF ClearActive, TypeOK
  <2> QED
    BY <1>1, <1>3, <2>1, OthersMoveOnBeside
<1>4. CASE JoinStack(r, o)
  <2>1. PICK s \in OccupiedFrom(slots, orders[o].home) :
          \/ SkipSettled(r, o, [orders[o] EXCEPT !.slot = s, !.logical = TRUE],
                         [slots EXCEPT ![s] = Stacked(slots[s])])
          \/ FinishLogical(r, o, [orders[o] EXCEPT !.slot = s, !.logical = TRUE],
                           [slots EXCEPT ![s] = Stacked(slots[s])])
    BY <1>4, ZenonT(60) DEF JoinStack
  <2> DEFINE ord == [orders[o] EXCEPT !.slot = s, !.logical = TRUE]
             new == IF orders[o].status \in Settled THEN ord
                    ELSE [ord EXCEPT !.status = "DONE"]
             left == Stacked(slots[s])
  <2>2. /\ s \in Slots /\ slots[s].status = "OCUPADO"
        /\ slots[s].box = orders[o].home /\ orders[o].slot = NoSlot
        /\ orders[o].type = "PICK" /\ ~orders[o].logical
    BY <1>4 DEF OccupiedFrom, JoinStack, LooksForBox
  <2>3. left.status = slots[s].status /\ left.by = slots[s].by
        /\ left.box = slots[s].box
    BY <1>1, <2>2 DEF Stacked, Slot
  <2>4. /\ new.status \in Settled /\ new.slot = s /\ new.logical
        /\ new.robot = r /\ new.type = "PICK" /\ new.home = orders[o].home
        /\ new.status = orders[o].status \/ new.status = "DONE"
    BY <1>1, <2>2 DEF Order, Settled
  <2>5. /\ orders' = [orders EXCEPT ![o] = new]
        /\ slots' = [slots EXCEPT ![s] = left]
        /\ ClearActive(r) /\ pc' = [pc EXCEPT ![r] = "cleared"] /\ UNCHANGED at
    BY <1>1, <2>1 DEF SkipSettled, FinishLogical, Order
  <2>9. new.idx = orders[o].idx
    BY <1>1, <2>2 DEF Order
  <2> HIDE DEF new, left
  <2>6. /\ \A p \in OrderIds \ {o} : orders'[p] = orders[p]
        /\ orders'[o] = new
        /\ \A t \in Slots \ {s} : slots'[t] = slots[t]
        /\ slots'[s] = left
        /\ pc'[r] = "cleared" /\ \A q \in Robots \ {r} : pc'[q] = pc[q]
    BY <1>1, <2>2, <2>5 DEF TypeOK
  <2>7. OrderInRack(o)' /\ OrderGoesOn(o)
    <3>1. RobotOf[orders[o].home] = RobotOf[s]
      BY <1>1, <2>2, HomesAssumption
         DEF OrderInRack, RackInv, ClaimsKeepTheirRack, ClaimInRack
    <3> QED
      BY <1>1, <2>2, <2>4, <2>6, <3>1, SlotsAssumption, HomesAssumption
         DEF OrderInRack, OrderGoesOn, Exists, Settled
  <2>8. /\ FloorInOrder => HasStepsLeft(o)'
        /\ \A t \in Slots : ~Fetches(o, t)'
        /\ orders'[o].status # "IN_PROGRESS"
    <3>1. FloorInOrder => HasStepsLeft(o)
      BY <1>1 DEF FloorInOrder, WaitingOrdersHaveSteps
    <3>2. new.status \notin {"PENDING", "IN_PROGRESS"}
      BY <2>4 DEF Settled
    <3> QED
      BY <2>4, <2>6, <2>9, <3>1, <3>2 DEF HasStepsLeft, Fetches
  <2> QED
    BY <1>1, <1>2, <1>3, <2>2, <2>3, <2>5, <2>6, <2>7, <2>8, UnclaimedOrderStep
<1>5. CASE SkipSettled(r, o, orders[o], slots)
  <2>1. /\ orders' = orders /\ slots' = slots /\ orders[o].status \in Settled
        /\ ClearActive(r) /\ pc' = [pc EXCEPT ![r] = "cleared"] /\ UNCHANGED at
    BY <1>1, <1>5 DEF SkipSettled, TypeOK
  <2>2. \A q \in Robots \ {r} : queues'[q] = queues[q] /\ pc'[q] = pc[q]
    BY <1>1, <2>1 DEF ClearActive, TypeOK
  <2>3. OthersMoveOn(NoOrder)
    BY <1>1, <2>1, <2>2, NoOrderIsNone DEF OthersMoveOn, Settled, TypeOK
  <2> QED
    BY <2>1, <2>3, QuietStep
<1>6. CASE FinishLogical(r, o, orders[o], slots) \/ Defer(r, o)
  <2> DEFINE new == IF orders[o].logical THEN [orders[o] EXCEPT !.status = "DONE"]
                    ELSE [orders[o] EXCEPT !.status = "PENDING", !.waiting = TRUE]
  <2>1. /\ orders' = [orders EXCEPT ![o] = new] /\ slots' = slots
        /\ ClearActive(r) /\ UNCHANGED at
        /\ pc' = [pc EXCEPT ![r] = "cleared"] \/ pc' = [pc EXCEPT ![r] = "requeue"]
        /\ orders[o].status \notin Settled
        /\ \/ orders[o].logical
           \/ orders[o].slot = NoSlot /\ orders[o].type = "PICK"
    BY <1>1, <1>6 DEF FinishLogical, Defer, TypeOK
  <2>2. /\ new.status = IF orders[o].logical THEN "DONE" ELSE "PENDING"
        /\ new.slot = orders[o].slot /\ new.logical = orders[o].logical
        /\ new.type = orders[o].type /\ new.home = orders[o].home
        /\ new.robot = r /\ new.idx = orders[o].idx
    BY <1>1 DEF Order
  <2> HIDE DEF new
  <2>3. /\ \A p \in OrderIds \ {o} : orders'[p] = orders[p]
        /\ orders'[o] = new
        /\ \A t \in Slots \ {NoSlot} : slots'[t] = slots[t]
        /\ pc'[r] \in {"cleared", "requeue"}
        /\ \A q \in Robots \ {r} : pc'[q] = pc[q]
    BY <1>1, <2>1 DEF TypeOK
  <2>4. OrderInRack(o)' /\ OrderGoesOn(o)
    BY <1>1, <2>1, <2>2, <2>3, SlotsAssumption
       DEF OrderInRack, OrderGoesOn, Exists
  <2>5. /\ FloorInOrder => HasStepsLeft(o)'
        /\ \A t \in Slots : ~Fetches(o, t)'
        /\ orders'[o].status # "IN_PROGRESS"
    BY <1>1, <2>1, <2>2, <2>3, SlotsAssumption
       DEF OrderInRack, HasStepsLeft, Fetches
  <2> QED
    BY <1>1, <1>2, <1>3, <2>1, <2>3, <2>4, <2>5, SlotsAssumption,
       UnclaimedOrderStep
<1>7. CASE WorkInAssignedSlot(r, o)
  <2>1. PICK s \in FreeBeside(orders[o].home) :
          Work(r, o, Started(o, s), [slots EXCEPT ![s] = Reserved(slots[s], o)])
    BY <1>7 DEF WorkInAssignedSlot
  <2> DEFINE book == [slots EXCEPT ![s] = Reserved(slots[s], o)]
  <2>2. /\ s \in Slots /\ slots[s] \in Slot /\ slots[s].status = "LIBRE"
        /\ s \in SlotsBeside[orders[o].home]
        /\ ~orders[o].logical /\ orders[o].slot = NoSlot
        /\ orders[o].type = "PICK" /\ orders[o].status \notin Settled
    BY <1>1, <1>7 DEF FreeBeside, WorkInAssignedSlot
  <2>3. RobotOf[s] = r
    BY <1>1, <2>2, RackAssumption DEF OrderInRack
  <2>4. Working(r, o, s)
    BY <2>2, <2>3 DEF Working
  <2>5. Reserved(slots[s], o) \in Slot /\ Reserved(slots[s], o).box = slots[s].box
    BY <1>1, <2>2 DEF Reserved, Slot, SlotStatus
  <2>6. /\ book \in [Slots -> Slot] /\ book[s].box = slots[s].box
        /\ \A t \in Slots \ {s} : book[t] = slots[t]
    BY <1>1, <2>2, <2>5
  <2> HIDE DEF book
  <2> QED
    BY <2>1, <2>2, <2>4, <2>6, WorkIsGood DEF book
<1>8. CASE WorkInOwnSlot(r, o)
  <2>1. orders[o].slot \in Slots /\ Working(r, o, orders[o].slot)
    BY <1>1, <1>8 DEF WorkInOwnSlot, Order, Working
  <2> QED
    BY <1>1, <1>8, <2>1, WorkIsGood DEF WorkInOwnSlot
<1> QED
  BY <1>4, <1>5, <1>6, <1>7, <1>8 DEF ProcessOrder

-----------------------------------------------------------------------------
(***************************************************************************)
(* The actions of the server and of the robots, one by one.                *)
(***************************************************************************)

(***************************************************************************)
(* A robot loop between two awaits.                                        *)
(***************************************************************************)
LEMMA ResumeIsGood ==
    ASSUME RackInv, NEW r \in Robots, FloorResume(r)
    PROVE  \E o, s : GoodStep(o, s)
<1>1. TypeOK /\ UNCHANGED where /\ queues[r] \in Queue
  BY DEF RackInv, IInv, Books, TypeOK, FloorResume, zoneVars
<1>2. ASSUME UNCHANGED <<orders, slots, at>>,
             \A q \in Robots : \/ queues'[q].active = queues[q].active
                               \/ queues[q].active = NoOrder,
             pc'[r] # "step",
             \A q \in Robots \ {r} : pc'[q] = pc[q] /\ hand'[q] = hand[q]
      PROVE  \E o, s : GoodStep(o, s)
  <2>1. OthersMoveOn(NoOrder)
    BY <1>2, NoOrderIsNone DEF OthersMoveOn
  <2> QED
    BY <1>1, <1>2, <2>1, QuietStep
<1>3. CASE Dequeue(r)
  <2>1. Dequeued(queues[r]).active = queues[r].active
    BY <1>1, <1>3, DequeuedOp DEF Dequeue
  <2> QED
    BY <1>1, <1>2, <1>3, <2>1 DEF Dequeue, TypeOK
<1>4. CASE Activate(r)
  <2>1. queues[r].active = NoOrder
    BY <1>4 DEF Activate, RackInv, IInv, Books, LoopsOwnTheirOrders
  <2> QED
    BY <1>1, <1>2, <1>4, <2>1 DEF Activate, TypeOK
<1>5. CASE ResumeActive(r)
  <2> DEFINE o == queues[r].active
  <2>1. o \in OrderIds /\ Owned(o, r)
    BY <1>5 DEF RackInv, IInv, Books, TypeOK, Queue, QueuesOwnTheirOrders,
                ResumeActive
  <2>2. Processing(r, o)
    BY <1>1, <1>5, <2>1 DEF Processing, ResumeActive, TypeOK
  <2> QED
    BY <1>1, <1>5, <2>2, ProcessOrderIsGood DEF ResumeActive
<1>6. CASE ProcessActivated(r)
  <2>1. /\ hand[r] \in OrderIds /\ Owned(hand[r], r)
        /\ queues[r].active = hand[r]
    BY <1>6 DEF RackInv, IInv, Books, LoopsOwnTheirOrders, ProcessActivated
  <2>2. hand' = [hand EXCEPT ![r] = hand[r]]
    BY <1>1, <1>6 DEF TypeOK, ProcessActivated
  <2>3. robots' \in [Robots -> Robot]
    BY <1>1, <1>6, <2>1 DEF TypeOK, Robot, RobotStatus, ProcessActivated
  <2>4. Processing(r, hand[r])
    BY <1>6, <2>1, <2>2, <2>3 DEF Processing, ProcessActivated
  <2> QED
    BY <1>1, <1>6, <2>4, ProcessOrderIsGood DEF ProcessActivated
<1>7. CASE Requeue(r)
  <2>1. hand[r] \in OrderIds
    BY <1>7 DEF Requeue, RackInv, IInv, Books, LoopsOwnTheirOrders
  <2>2. Enqueue(queues[r], hand[r]).active = queues[r].active
    BY <1>1, <2>1, EnqueueOp
  <2> QED
    BY <1>1, <1>2, <1>7, <2>2 DEF Requeue, TypeOK
<1>8. CASE NothingToDo(r) \/ FreeRobot(r) \/ RobotFails(r)
  <2>1. /\ pc'[r] # "step" /\ \A q \in Robots \ {r} : pc'[q] = pc[q]
        /\ UNCHANGED <<orders, slots, queues, hand, at>>
    BY <1>1, <1>8 DEF NothingToDo, FreeRobot, RobotFails, Continue, TypeOK,
                        bookVars
  <2> QED
    BY <1>2, <2>1
<1> QED
  BY <1>3, <1>4, <1>5, <1>6, <1>7, <1>8 DEF FloorResume, Resume

(***************************************************************************)
(* The interval timer starts loops; a retry begins or fails: no order and  *)
(* no slot changes.                                                        *)
(***************************************************************************)
LEMMA StartingLoopsIsGood ==
    ASSUME RackInv, UNCHANGED <<orders, slots, queues, hand, at, where>>,
           \A r \in Robots : pc'[r] = pc[r] \/ pc'[r] = "top"
    PROVE  GoodStep(NoOrder, NoSlot)
<1>1. OthersMoveOn(NoOrder)
  BY NoOrderIsNone DEF OthersMoveOn
<1> QED
  BY <1>1, QuietStep

(***************************************************************************)
(* kickRobot starts a loop where there is none.                            *)
(***************************************************************************)
LEMMA KickingStartsLoops ==
    ASSUME TypeOK, NEW r \in Robots, pc' = Kicked(r)
    PROVE  \A q \in Robots : pc'[q] = pc[q] \/ pc'[q] = "top"
BY DEF TypeOK, Kicked

(***************************************************************************)
(* Nothing knows of an order before it is placed, and its acceptance moves *)
(* no robot.                                                               *)
(***************************************************************************)
LEMMA AcceptMovesOn ==
    ASSUME RackInv, NEW o \in NextId, NEW ord, ord.robot \in Robots,
           Accept(o, ord)
    PROVE  /\ o \in OrderIds /\ o # NoOrder
           /\ orders[o].status = "ABSENT" /\ \A t \in Slots : slots[t].by # o
           /\ \A p \in OrderIds \ {o} : orders'[p] = orders[p]
           /\ orders'[o] = ord
           /\ OthersMoveOn(o)
<1>1. TypeOK /\ o \in OrderIds /\ o # NoOrder /\ orders[o].status = "ABSENT"
  BY NoOrderIsNone DEF NextId, RackInv, IInv, Books
<1>2. \A t \in Slots : slots[t].by # o
  BY <1>1 DEF RackInv, ClaimsKeepTheirRack, ClaimInRack, Exists
<1>3. (\A p \in OrderIds \ {o} : orders'[p] = orders[p]) /\ orders'[o] = ord
  BY <1>1 DEF Accept, TypeOK
<1>4. OthersMoveOn(o)
  <2>1. /\ queues[ord.robot] \in Queue
        /\ queues' = [queues EXCEPT ![ord.robot] = Enqueue(queues[ord.robot], o)]
        /\ pc' = Kicked(ord.robot) /\ UNCHANGED <<hand, at>>
    BY <1>1 DEF Accept, TypeOK
  <2>2. \A q \in Robots : queues'[q].active = queues[q].active
    BY <1>1, <2>1, EnqueueOp DEF TypeOK
  <2>3. \A q \in Robots : pc'[q] = pc[q] \/ pc'[q] = "top"
    BY <1>1, <2>1, KickingStartsLoops
  <2>4. \A q \in Robots : pc[q] = "step" => hand[q] # o
    BY <1>1 DEF RackInv, IInv, Books, LoopsOwnTheirOrders, Owned
  <2> QED
    BY <2>1, <2>2, <2>3, <2>4 DEF OthersMoveOn
<1> QED
  BY <1>1, <1>2, <1>3, <1>4

(***************************************************************************)
(* An order that is accepted without claiming a slot.                      *)
(***************************************************************************)
LEMMA AcceptUnclaimed ==
    ASSUME RackInv, UNCHANGED where, NEW o \in NextId, NEW ord, NEW s,
           Accept(o, ord),
           ord.status = "PENDING", ord.idx = 0, ord.robot \in Robots,
           ord.home \in Homes,
           ord.slot \in Slots => ord.robot = RobotOf[ord.slot],
           \/ ord.slot \in Slots
           \/ ord.slot = NoSlot /\ ~ord.logical,
           \/ /\ ord.type = "PICK" /\ ord.robot = RobotOf[ord.home]
              /\ ord.slot = NoSlot \/ ord.logical
           \/ ord.type = "PUT" /\ ord.slot \in Slots,
           \A t \in Slots \ {s} : slots'[t] = slots[t],
           s \in Slots => slots'[s].status = slots[s].status
                          /\ slots'[s].by = slots[s].by
                          /\ slots'[s].box = slots[s].box
    PROVE  GoodStep(o, s)
<1>1. /\ o \in OrderIds /\ o # NoOrder
      /\ orders[o].status = "ABSENT" /\ \A t \in Slots : slots[t].by # o
      /\ \A p \in OrderIds \ {o} : orders'[p] = orders[p]
      /\ orders'[o] = ord
      /\ OthersMoveOn(o)
  BY AcceptMovesOn
<1>2. OrderInRack(o)' /\ OrderGoesOn(o)
  BY <1>1, SlotsAssumption DEF OrderInRack, OrderGoesOn, Exists, Settled
<1>3. HasStepsLeft(o)' /\ \A t \in Slots : ~Fetches(o, t)'
  BY <1>1, SlotsAssumption DEF HasStepsLeft, Fetches
<1>4. orders'[o].status # "IN_PROGRESS"
  BY <1>1
<1> QED
  BY <1>1, <1>2, <1>3, <1>4, UnclaimedOrderStep

(***************************************************************************)
(* A box is ordered from its own rack.                                     *)
(***************************************************************************)
LEMMA PickIsGood ==
    ASSUME RackInv, UNCHANGED where, NEW home \in Homes,
           NEW ext \in ExternalIds \cup {NoExternalId},
           SubmitPick(RobotOf[home], home, NoSlot, ext)
    PROVE  \E o, s : GoodStep(o, s)
<1> DEFINE ord == NewOrder("PICK", RobotOf[home], home, NoSlot, ext)
<1>1. slots \in [Slots -> Slot] /\ RobotOf[home] \in Robots
  BY RobotsAssumption DEF RackInv, IInv, Books, TypeOK
<1>2. PICK o \in NextId :
        \/ Accept(o, ord) /\ UNCHANGED slots
        \/ \E s \in OccupiedFrom(slots, home) :
              /\ slots' = [slots EXCEPT ![s] = Stacked(@)]
              /\ Accept(o, [NewOrder("PICK", RobotOf[home], home, s, ext)
                              EXCEPT !.logical = TRUE])
  BY DEF SubmitPick
<1>3. CASE Accept(o, ord) /\ UNCHANGED slots
  <2>1. /\ ord.status = "PENDING" /\ ord.idx = 0 /\ ord.robot = RobotOf[home]
        /\ ord.home = home /\ ord.slot = NoSlot /\ ord.type = "PICK"
        /\ ~ord.logical
    BY DEF NewOrder
  <2> HIDE DEF ord
  <2> QED
    BY <1>1, <1>3, <2>1, SlotsAssumption, AcceptUnclaimed
<1>4. ASSUME NEW s \in OccupiedFrom(slots, home),
             slots' = [slots EXCEPT ![s] = Stacked(slots[s])],
             Accept(o, [NewOrder("PICK", RobotOf[home], home, s, ext)
                          EXCEPT !.logical = TRUE])
      PROVE  GoodStep(o, s)
  <2> DEFINE join == [NewOrder("PICK", RobotOf[home], home, s, ext)
                        EXCEPT !.logical = TRUE]
  <2>1. /\ join.status = "PENDING" /\ join.idx = 0
        /\ join.robot = RobotOf[home] /\ join.home = home /\ join.slot = s
        /\ join.type = "PICK" /\ join.logical
    BY DEF NewOrder
  <2>2. s \in Slots /\ slots[s].box = home
    BY DEF OccupiedFrom
  <2>3. RobotOf[home] = RobotOf[s]
    BY <2>2, HomesAssumption DEF RackInv, ClaimsKeepTheirRack, ClaimInRack
  <2>4. /\ \A t \in Slots \ {s} : slots'[t] = slots[t]
        /\ slots'[s].status = slots[s].status /\ slots'[s].by = slots[s].by
        /\ slots'[s].box = slots[s].box
    BY <1>1, <1>4, <2>2 DEF Stacked, Slot
  <2>5. Accept(o, join)
    BY <1>4
  <2> HIDE DEF join
  <2> QED
    BY <1>1, <2>1, <2>2, <2>3, <2>4, <2>5, AcceptUnclaimed
<1> QED
  BY <1>2, <1>3, <1>4

(***************************************************************************)
(* A box is returned from where it stands, by what a screen or the script  *)
(* last knew of it.                                                        *)
(***************************************************************************)
LEMMA PutIsGood ==
    ASSUME RackInv, UNCHANGED where, NEW target \in Homes, NEW s \in Slots,
           NEW ext \in ExternalIds \cup {NoExternalId},
           SubmitPut(RobotOf[s], target, s, ext)
    PROVE  \E o, t : GoodStep(o, t)
<1> DEFINE ord == NewOrder("PUT", RobotOf[s], target, s, ext)
<1>1. /\ slots \in [Slots -> Slot] /\ slots[s] \in Slot
      /\ RobotOf[s] \in Robots
  BY RobotsAssumption DEF RackInv, IInv, Books, TypeOK
<1>2. PICK o \in NextId :
        \/ /\ slots' = [slots EXCEPT ![s] = Unstacked(slots[s])]
           /\ Accept(o, [ord EXCEPT !.logical = TRUE])
        \/ /\ ReservableForPut(slots[s])
           /\ slots' = [slots EXCEPT ![s] = Reserved(slots[s], o)]
           /\ Accept(o, ord)
        \/ /\ Accept(o, [ord EXCEPT !.waiting = TRUE])
           /\ UNCHANGED slots
  BY DEF SubmitPut
<1>3. CASE /\ slots' = [slots EXCEPT ![s] = Unstacked(slots[s])]
           /\ Accept(o, [ord EXCEPT !.logical = TRUE])
  <2> DEFINE leave == [ord EXCEPT !.logical = TRUE]
  <2>1. /\ leave.status = "PENDING" /\ leave.idx = 0
        /\ leave.robot = RobotOf[s] /\ leave.home = target /\ leave.slot = s
        /\ leave.type = "PUT"
    BY DEF NewOrder
  <2>2. /\ \A t \in Slots \ {s} : slots'[t] = slots[t]
        /\ slots'[s].status = slots[s].status /\ slots'[s].by = slots[s].by
        /\ slots'[s].box = slots[s].box
    BY <1>1, <1>3 DEF Unstacked, Slot
  <2>3. Accept(o, leave)
    BY <1>3
  <2> HIDE DEF leave, ord
  <2> QED
    BY <1>1, <2>1, <2>2, <2>3, AcceptUnclaimed
<1>4. CASE Accept(o, [ord EXCEPT !.waiting = TRUE]) /\ UNCHANGED slots
  <2> DEFINE wait == [ord EXCEPT !.waiting = TRUE]
  <2>1. /\ wait.status = "PENDING" /\ wait.idx = 0
        /\ wait.robot = RobotOf[s] /\ wait.home = target /\ wait.slot = s
        /\ wait.type = "PUT"
    BY DEF NewOrder
  <2>2. Accept(o, wait)
    BY <1>4
  <2> HIDE DEF wait, ord
  <2> QED
    BY <1>1, <1>4, <2>1, <2>2, AcceptUnclaimed
<1>5. CASE /\ ReservableForPut(slots[s])
           /\ slots' = [slots EXCEPT ![s] = Reserved(slots[s], o)]
           /\ Accept(o, ord)
  <2>1. /\ ord.status = "PENDING" /\ ord.idx = 0 /\ ord.robot = RobotOf[s]
        /\ ord.home = target /\ ord.slot = s /\ ord.type = "PUT"
        /\ ~ord.logical
    BY DEF NewOrder
  <2> HIDE DEF ord
  <2>2. /\ o \in OrderIds /\ o # NoOrder
        /\ orders[o].status = "ABSENT" /\ \A t \in Slots : slots[t].by # o
        /\ \A p \in OrderIds \ {o} : orders'[p] = orders[p]
        /\ orders'[o] = ord
        /\ OthersMoveOn(o)
    BY <1>1, <1>5, <2>1, AcceptMovesOn
  <2>3. /\ slots'[s].by = o /\ slots'[s].status = "RESERVADO"
        /\ slots'[s].box = slots[s].box
        /\ \A t \in Slots \ {s} : slots'[t] = slots[t]
        /\ slots[s].status \in {"LIBRE", "OCUPADO"}
    BY <1>1, <1>5 DEF Reserved, Slot, ReservableForPut
  <2>4. ClaimInRack(s)
    BY DEF RackInv, ClaimsKeepTheirRack
  <2>5. RackEffect(o, s)
    <3>1. OrderInRack(o)' /\ OrderGoesOn(o)
      BY <2>1, <2>2, SlotsAssumption
         DEF OrderInRack, OrderGoesOn, Exists, Settled
    <3>2. ClaimInRack(s)'
      BY <2>1, <2>2, <2>3, <2>4 DEF ClaimInRack, Exists
    <3> QED
      BY <2>2, <2>3, <3>1, <3>2 DEF RackEffect
  <2>6. ASSUME FloorInOrder PROVE FloorEffect(o, s)
    <3>1. MovesAlone(o, s) /\ FetchesAlone(o, s)
      BY <2>3, <2>6, AloneInRestingSlot
    <3>2. OrderInOrder(o)' /\ \A t \in Slots : ~Fetches(o, t)'
      BY <2>1, <2>2
         DEF OrderInOrder, MoveHoldsItsSlot, HasStepsLeft, PickKeepsSlot,
             PutLeavesNothing, Fetches
    <3>3. SlotShowsFloor(s)' /\ SteeredSlotIsInProgress(s)'
      <4>1. SlotShowsFloor(s)
        BY <2>6 DEF FloorInOrder, SlotsShowFloor
      <4> QED
        BY <2>3, <2>4, <4>1, BoxesRest
           DEF SlotShowsFloor, SteeredSlotIsInProgress, ClaimInRack
    <3> QED
      BY <2>2, <2>6, <3>1, <3>2, <3>3, BoxesRest DEF FloorEffect
  <2> QED
    BY <2>5, <2>6 DEF GoodStep
<1> QED
  BY <1>2, <1>3, <1>4, <1>5

(***************************************************************************)
(* A robot at the PLC moves for an order of its own that has a slot; until *)
(* somebody meddles, the order is in progress and the slot is its alone.   *)
(***************************************************************************)
LEMMA MovingOrder ==
    ASSUME RackInv, NEW r \in Robots, pc[r] = "step",
           NEW o, o = hand[r], NEW s, s = orders[o].slot
    PROVE  /\ TypeOK /\ o \in OrderIds /\ o # NoOrder /\ s \in Slots
           /\ Owned(o, r) /\ Exists(o) /\ queues[r].active \in {o, NoOrder}
           /\ orders[o] \in Order /\ ~orders[o].logical
           /\ OrderInRack(o) /\ ClaimInRack(s)
           /\ \A t \in Slots \ {s} : slots[t].by # o
           /\ StepRemains(at[r])
           /\ FloorInOrder =>
                /\ orders[o].status = "IN_PROGRESS" /\ orders[o].idx = at[r]
                /\ slots[s].by = o
                /\ slots[s].status = Steered(orders[o].type)
                /\ MovesAlone(o, s)
<1>1. /\ TypeOK /\ o \in OrderIds /\ o # NoOrder /\ orders[o] \in Order
      /\ Owned(o, r) /\ Exists(o) /\ queues[r].active \in {o, NoOrder}
      /\ StepRemains(at[r]) /\ s # NoSlot /\ ~orders[o].logical
  BY NoOrderIsNone
     DEF RackInv, IInv, Books, TypeOK, LoopsOwnTheirOrders, StepsArePhysical,
         Owned, Exists
<1>2. s \in Slots
  BY <1>1 DEF Order
<1>3. /\ OrderInRack(o) /\ ClaimInRack(s)
      /\ \A t \in Slots \ {s} : slots[t].by # o
  BY <1>1, <1>2
     DEF RackInv, OrdersKeepTheirRack, ClaimsKeepTheirRack, ClaimInRack
<1>4. ASSUME FloorInOrder
      PROVE  /\ orders[o].status = "IN_PROGRESS" /\ orders[o].idx = at[r]
             /\ slots[s].by = o /\ slots[s].status = Steered(orders[o].type)
             /\ MovesAlone(o, s)
  <2>1. orders[o].status = "IN_PROGRESS" /\ orders[o].idx = at[r]
    BY <1>4 DEF FloorInOrder, MovesAreCurrent, MoveIsCurrent
  <2>2. MoveHoldsItsSlot(o) /\ \A p \in OrderIds : MoveHoldsItsSlot(p)
    BY <1>1, <1>4 DEF FloorInOrder, MovesHoldTheirSlots
  <2>3. slots[s].by = o /\ slots[s].status = Steered(orders[o].type)
    BY <2>1, <2>2 DEF MoveHoldsItsSlot
  <2>4. MovesAlone(o, s)
    BY <2>2, <2>3 DEF MovesAlone, MoveHoldsItsSlot
  <2> QED
    BY <2>1, <2>3, <2>4
<1> QED
  BY <1>1, <1>2, <1>3, <1>4

(***************************************************************************)
(* A step is done; the last one has brought or taken away the box.         *)
(***************************************************************************)
LEMMA AdvancedStep ==
    ASSUME RackInv, NEW r \in Robots, StepDone(r),
           NEW o, o = hand[r], NEW s, s = orders[o].slot,
           FloorInOrder /\ ~meddled' =>
             /\ BoxesAreInTheZoneOrHome'
             /\ \A t \in Slots \ {s} : BoxesOn(t)' = BoxesOn(t)
             /\ IF StepRemains(at[r] + 1) THEN BoxesOn(s)' = BoxesOn(s)
                ELSE /\ FetchesAlone(o, s)
                     /\ BoxesOn(s)' = IF orders[o].type = "PICK"
                                      THEN {orders[o].home} ELSE {}
    PROVE  GoodStep(o, s)
<1>1. /\ TypeOK /\ o \in OrderIds /\ o # NoOrder /\ s \in Slots
      /\ Owned(o, r) /\ Exists(o) /\ queues[r].active \in {o, NoOrder}
      /\ orders[o] \in Order /\ ~orders[o].logical
      /\ OrderInRack(o) /\ ClaimInRack(s)
      /\ \A t \in Slots \ {s} : slots[t].by # o
      /\ FloorInOrder =>
           /\ orders[o].status = "IN_PROGRESS"
           /\ slots[s].by = o
           /\ slots[s].status = Steered(orders[o].type)
           /\ MovesAlone(o, s)
  BY MovingOrder DEF StepDone
<1>2. PICK i : i = at[r] + 1
  OBVIOUS
<1>3. /\ orders' = [orders EXCEPT ![o].idx = i]
      /\ pc'[r] # "step" /\ \A q \in Robots \ {r} : pc'[q] = pc[q]
      /\ UNCHANGED <<slots, queues, hand, at, ops>>
  BY <1>1, <1>2 DEF StepDone, Continue, TypeOK
<1>4. /\ \A p \in OrderIds \ {o} : orders'[p] = orders[p]
      /\ orders'[o].idx = i
      /\ \A p \in OrderIds :
           /\ orders'[p].status = orders[p].status
           /\ orders'[p].type = orders[p].type
           /\ orders'[p].home = orders[p].home
           /\ orders'[p].robot = orders[p].robot
           /\ orders'[p].slot = orders[p].slot
           /\ orders'[p].logical = orders[p].logical
  BY <1>1, <1>3 DEF TypeOK, Order
<1>5. RackEffect(o, s)
  <2>1. OrderInRack(o)' /\ OrderGoesOn(o)
    BY <1>1, <1>3, <1>4, SlotsAssumption DEF OrderInRack, OrderGoesOn, Exists
  <2>2. ClaimInRack(s)'
    BY <1>1, <1>3, <1>4 DEF ClaimInRack, Exists
  <2> QED
    BY <1>1, <1>3, <1>4, <2>1, <2>2 DEF RackEffect
<1>6. ASSUME FloorInOrder, ~meddled' PROVE FloorEffect(o, s)
  <2>1. MoveHoldsItsSlot(o)' /\ HasStepsLeft(o)'
    <3>1. MoveHoldsItsSlot(o)
      BY <1>1, <1>6 DEF FloorInOrder, MovesHoldTheirSlots
    <3> QED
      BY <1>1, <1>3, <1>4, <1>6, <3>1 DEF MoveHoldsItsSlot, HasStepsLeft
  <2>2. \A p \in OrderIds : \A t \in Slots : Fetches(p, t)' = Fetches(p, t)
    BY <1>4 DEF Fetches
  <2>3. ASSUME NEW t \in Slots, Fetches(o, t)' PROVE PickKeepsSlot(o, t)'
    <3>1. t = s /\ Fetches(o, s) /\ orders[o].type = "PICK"
      BY <1>1, <2>2, <2>3 DEF Fetches
    <3>2. PickKeepsSlot(o, s) /\ orders[o].idx = at[r] /\ StepRemains(at[r])
      BY <1>1, <1>6, MovingOrder DEF FloorInOrder, PicksKeepTheirSlots, StepDone
    <3>3. BoxesOn(s)' = IF StepRemains(i) THEN {} ELSE {orders[o].home}
      BY <1>2, <1>6, <3>1, <3>2 DEF PickKeepsSlot
    <3> QED
      BY <1>3, <1>4, <2>2, <3>1, <3>2, <3>3 DEF PickKeepsSlot
  <2>4. PutLeavesNothing(o)'
    <3> SUFFICES ASSUME orders[o].type = "PUT", ~StepRemains(i)
                 PROVE  BoxesOn(s)' = {} /\ \A p \in OrderIds : ~Fetches(p, s)'
      BY <1>1, <1>4 DEF PutLeavesNothing
    <3>1. BoxesOn(s)' = {} /\ FetchesAlone(o, s)
      BY <1>2, <1>6
    <3> QED
      BY <1>1, <2>2, <3>1 DEF FetchesAlone, Fetches
  <2>5. SlotShowsFloor(s)' /\ SteeredSlotIsInProgress(s)'
    BY <1>1, <1>3, <1>4, <1>6
       DEF SlotShowsFloor, SteeredSlotIsInProgress, Steered
  <2>6. OthersMoveOn(o)
    BY <1>1, <1>3, OthersMoveOnBeside
  <2>7. \/ FetchesAlone(o, s)
        \/ slots'[s].status \in NotFree /\ BoxesOn(s)' = BoxesOn(s)
    BY <1>1, <1>3, <1>6 DEF Steered, NotFree
  <2>8. OrderInOrder(o)'
    BY <2>1, <2>3, <2>4 DEF OrderInOrder, PickKeepsSlot
  <2> QED
    BY <1>1, <1>6, <2>2, <2>5, <2>6, <2>7, <2>8 DEF FloorEffect
<1> QED
  BY <1>5, <1>6 DEF GoodStep

(***************************************************************************)
(* A maneuver takes a box from the one end to the other.                   *)
(***************************************************************************)
LEMMA RobotStepDoneIsGood ==
    ASSUME RackInv, NEW r \in Robots, RobotStepDone(r)
    PROVE  \E o, s : GoodStep(o, s)
<1> PICK o : o = hand[r]
  OBVIOUS
<1> PICK s : s = orders[o].slot
  OBVIOUS
<1>1. /\ StepDone(r) /\ o \in OrderIds /\ s \in Slots /\ orders[o] \in Order
      /\ OrderInRack(o) /\ Exists(o) /\ StepRemains(at[r])
      /\ FloorInOrder =>
           /\ orders[o].status = "IN_PROGRESS" /\ orders[o].idx = at[r]
           /\ slots[s].by = o
           /\ MovesAlone(o, s)
      /\ ~orders[o].logical /\ at[r] \in 0 .. NumSteps /\ o # NoOrder
  BY MovingOrder DEF RobotStepDone, StepDone, TypeOK
<1>2. CASE StepRemains(at[r] + 1)
  <2>1. UNCHANGED where
    BY <1>2 DEF RobotStepDone, StepRemains, zoneVars
  <2>2. FloorInOrder =>
          /\ BoxesAreInTheZoneOrHome'
          /\ \A t : BoxesOn(t)' = BoxesOn(t)
    BY <2>1, BoxesRest
  <2>3. GoodStep(o, s)
    BY <1>1, <1>2, <2>2, AdvancedStep
  <2> QED
    BY <2>3
<1>3. CASE ~StepRemains(at[r] + 1)
  <2>1. PICK b \in Homes : Carries(o, b)
    BY <1>3 DEF RobotStepDone, StepRemains
  <2>2. ASSUME FloorInOrder, ~meddled'
        PROVE  /\ BoxesAreInTheZoneOrHome'
               /\ \A t \in Slots \ {s} : BoxesOn(t)' = BoxesOn(t)
               /\ FetchesAlone(o, s)
               /\ BoxesOn(s)' = IF orders[o].type = "PICK"
                                THEN {orders[o].home} ELSE {}
    <3> DEFINE home == orders[o].home
    <3>1. home \in Homes /\ Slots \cap Homes = {}
      BY <1>1, RackAssumption DEF OrderInRack
    <3>2. /\ where \in [Homes -> Slots \cup Homes]
          /\ \A c \in Homes : where[c] \in Slots \cup {c}
      BY <2>2 DEF FloorInOrder, BoxesAreInTheZoneOrHome
    <3>3. /\ BoxesOn(From(o)) = {b} /\ BoxesOn(To(o)) = {}
          /\ where' = [where EXCEPT ![b] = To(o)]
          /\ To(o) \in Slots \cup {b}
      BY <2>1, <2>2 DEF Carries
    <3> HIDE DEF home
    <3>4. b = home /\ where[b] = From(o) /\ where'[b] = To(o)
          /\ \A c \in Homes \ {b} : where'[c] = where[c]
      <4>1. where[b] = From(o)
        BY <3>3 DEF BoxesOn
      <4>2. From(o) = home \/ To(o) = home
        BY DEF From, To, home
      <4>3. b = home
        BY <3>1, <3>2, <3>3, <4>1, <4>2
      <4> QED
        BY <3>2, <3>3, <4>1, <4>3
    <3>5. BoxesAreInTheZoneOrHome'
      BY <3>1, <3>2, <3>3, <3>4 DEF BoxesAreInTheZoneOrHome
    <3>6. CASE orders[o].type = "PICK"
      <4>1. From(o) = home /\ To(o) = s
        BY <3>6 DEF From, To, home
      <4>2. \A t \in Slots \ {s} : BoxesOn(t)' = BoxesOn(t)
        BY <3>1, <3>4, <4>1 DEF BoxesOn
      <4>3. BoxesOn(s)' = {home}
        <5>1. \A c \in Homes : where[c] # s
          BY <3>3, <4>1 DEF BoxesOn
        <5>2. \A c \in Homes : where'[c] = s <=> c = home
          BY <3>4, <4>1, <5>1
        <5> QED
          BY <3>1, <5>2 DEF BoxesOn, home
      <4>4. FetchesAlone(o, s)
        <5>1. PickKeepsSlot(o, s)
          BY <1>1, <2>2 DEF FloorInOrder, PicksKeepTheirSlots
        <5>2. Fetches(o, s)
          BY <1>1, <2>2, <3>6 DEF Fetches
        <5> QED
          BY <5>1, <5>2 DEF PickKeepsSlot, FetchesAlone
      <4> QED
        BY <3>5, <3>6, <4>2, <4>3, <4>4 DEF home
    <3>7. CASE orders[o].type # "PICK"
      <4>1. From(o) = s /\ To(o) = home
        BY <3>7 DEF From, To, home
      <4>2. \A t \in Slots \ {s} : BoxesOn(t)' = BoxesOn(t)
        BY <1>1, <3>1, <3>4, <4>1 DEF BoxesOn
      <4>3. BoxesOn(s)' = {}
        <5>1. \A c \in Homes : where[c] = s => c = b
          BY <3>3, <4>1 DEF BoxesOn
        <5>2. where'[b] # s
          BY <1>1, <3>1, <3>4, <4>1
        <5>3. \A c \in Homes : where'[c] # s
          BY <3>4, <5>1, <5>2
        <5> QED
          BY <5>3 DEF BoxesOn
      <4>4. ASSUME NEW p \in OrderIds \ {o}, Fetches(p, s) PROVE FALSE
        <5>1. PickKeepsSlot(p, s) /\ HasStepsLeft(p) /\ MoveHoldsItsSlot(p)
          BY <1>1, <2>2
             DEF FloorInOrder, PicksKeepTheirSlots, WaitingOrdersHaveSteps,
                 MovesHoldTheirSlots
        <5>2. BoxesOn(s) # {}
          BY <3>3, <4>1
        <5>3. ~StepRemains(orders[p].idx)
          BY <4>4, <5>1, <5>2 DEF PickKeepsSlot
        <5>4. StepRemains(0)
          BY NumStepsAssumption DEF StepRemains
        <5>5. orders[p].status = "IN_PROGRESS" /\ orders[p].slot = s
          BY <4>4, <5>1, <5>3, <5>4 DEF HasStepsLeft, Fetches
        <5> QED
          BY <1>1, <2>2, <5>5 DEF MovesAlone
      <4> QED
        BY <3>5, <3>7, <4>2, <4>3, <4>4 DEF FetchesAlone
    <3> QED
      BY <3>6, <3>7
  <2>3. GoodStep(o, s)
    BY <1>1, <1>3, <2>2, AdvancedStep
  <2> QED
    BY <2>3
<1> QED
  BY <1>2, <1>3

(***************************************************************************)
(* A failed step blocks the slot; the box, if any, stays where it was.     *)
(***************************************************************************)
LEMMA StepFailsIsGood ==
    ASSUME RackInv, UNCHANGED where, NEW r \in Robots, StepFails(r)
    PROVE  \E o, s : GoodStep(o, s)
<1> PICK o : o = hand[r]
  OBVIOUS
<1> PICK s : s = orders[o].slot
  OBVIOUS
<1>1. /\ TypeOK /\ o \in OrderIds /\ o # NoOrder /\ s \in Slots
      /\ Owned(o, r) /\ Exists(o) /\ queues[r].active \in {o, NoOrder}
      /\ orders[o] \in Order /\ ~orders[o].logical
      /\ OrderInRack(o) /\ ClaimInRack(s)
      /\ \A t \in Slots \ {s} : slots[t].by # o
      /\ StepRemains(at[r])
      /\ FloorInOrder =>
           /\ orders[o].status = "IN_PROGRESS" /\ orders[o].idx = at[r]
           /\ slots[s].by = o
           /\ slots[s].status = Steered(orders[o].type)
           /\ MovesAlone(o, s)
  BY MovingOrder DEF StepFails
<1>2. /\ orders' = [orders EXCEPT ![o].status = "ERROR"]
      /\ slots' = [slots EXCEPT ![s] = Blocked(slots[s], o)]
      /\ \A q \in Robots \ {r} : queues'[q] = queues[q] /\ pc'[q] = pc[q]
      /\ pc'[r] = "failed"
      /\ UNCHANGED <<hand, at, ops>>
  BY <1>1 DEF StepFails, ClearActive, TypeOK
<1>3. /\ \A p \in OrderIds \ {o} : orders'[p] = orders[p]
      /\ \A t \in Slots \ {s} : slots'[t] = slots[t]
      /\ orders'[o].status = "ERROR"
      /\ orders'[o].type = orders[o].type /\ orders'[o].home = orders[o].home
      /\ orders'[o].robot = orders[o].robot /\ orders'[o].slot = s
      /\ orders'[o].idx = orders[o].idx /\ ~orders'[o].logical
      /\ slots'[s].status = "ERROR" /\ slots'[s].by = o
      /\ slots'[s].box = slots[s].box
  BY <1>1, <1>2 DEF TypeOK, Order, Slot, Blocked, WithStatus
<1>4. RackEffect(o, s)
  <2>1. OrderInRack(o)' /\ OrderGoesOn(o)
    BY <1>1, <1>3, SlotsAssumption DEF OrderInRack, OrderGoesOn, Exists, Settled
  <2>2. ClaimInRack(s)'
    BY <1>1, <1>3 DEF ClaimInRack, Exists
  <2> QED
    BY <1>1, <1>3, <2>1, <2>2 DEF RackEffect
<1>5. ASSUME FloorInOrder PROVE FloorEffect(o, s)
  <2>1. MoveHoldsItsSlot(o)' /\ HasStepsLeft(o)' /\ PutLeavesNothing(o)'
    BY <1>1, <1>3, <1>5 DEF MoveHoldsItsSlot, HasStepsLeft, PutLeavesNothing
  <2>2. ASSUME NEW t \in Slots, Fetches(o, t)'
        PROVE  t = s /\ Fetches(o, s) /\ PickKeepsSlot(o, s)
    BY <1>1, <1>3, <1>5, <2>2
       DEF Fetches, FloorInOrder, PicksKeepTheirSlots
  <2>3. ASSUME NEW t \in Slots, Fetches(o, t)' PROVE PickKeepsSlot(o, t)'
    <3>1. \A p \in OrderIds : Fetches(p, s)' => p = o
      BY <1>3, <2>2, <2>3 DEF PickKeepsSlot, Fetches
    <3> QED
      BY <1>3, <2>2, <2>3, <3>1, BoxesRest DEF PickKeepsSlot, NotFree
  <2>4. SlotShowsFloor(s)' /\ SteeredSlotIsInProgress(s)'
    BY <1>3 DEF SlotShowsFloor, SteeredSlotIsInProgress
  <2>5. OthersMoveOn(o)
    BY <1>1, <1>2, OthersMoveOnBeside
  <2>6. OrderInOrder(o)'
    BY <2>1, <2>3 DEF OrderInOrder, PickKeepsSlot
  <2>7. \A t \in Slots : Fetches(o, t)' => Fetches(o, t)
    BY <2>2
  <2> QED
    BY <1>1, <1>3, <1>5, <2>4, <2>5, <2>6, <2>7, BoxesRest
       DEF FloorEffect, NotFree
<1> QED
  BY <1>4, <1>5 DEF GoodStep

(***************************************************************************)
(* A retry starts the order afresh, in the slot it has blocked.            *)
(***************************************************************************)
LEMMA RetryEndsIsGood ==
    ASSUME RackInv, UNCHANGED where, NEW o \in OrderIds, RetryEnds(o),
           ~meddled' => orders[o].status = "ERROR"
    PROVE  \E p, s : GoodStep(p, s)
<1> PICK s : s = orders[o].slot
  OBVIOUS
<1>1. /\ TypeOK /\ orders[o] \in Order /\ Exists(o) /\ o # NoOrder
      /\ OrderInRack(o) /\ orders[o].robot \in Robots
      /\ queues[orders[o].robot] \in Queue
      /\ ops # 0 /\ UNCHANGED ops
      /\ StepRemains(0)
  BY NoOrderIsNone, NumStepsAssumption
     DEF RackInv, IInv, Books, TypeOK, RetriesNameOrders, Exists, Order,
         OrdersKeepTheirRack, NoRetryWithoutAct, RetryEnds, StepRemains
<1>2. \A t \in Slots : slots[t].by = o => t = s /\ ~orders[o].logical
  BY <1>1 DEF RackInv, ClaimsKeepTheirRack, ClaimInRack
<1>3. /\ orders' = [orders EXCEPT ![o].status = "PENDING", ![o].idx = 0,
                                  ![o].waiting = FALSE]
      /\ \A q \in Robots : queues'[q].active = queues[q].active
      /\ \A q \in Robots : pc'[q] = pc[q] \/ pc'[q] = "top"
      /\ UNCHANGED <<slots, hand, at>>
  BY <1>1, EnqueueOp, KickingStartsLoops DEF RetryEnds, TypeOK
<1>4. /\ \A p \in OrderIds \ {o} : orders'[p] = orders[p]
      /\ orders'[o].status = "PENDING" /\ orders'[o].idx = 0
      /\ orders'[o].type = orders[o].type /\ orders'[o].home = orders[o].home
      /\ orders'[o].robot = orders[o].robot /\ orders'[o].slot = s
      /\ orders'[o].logical = orders[o].logical
  BY <1>1, <1>3 DEF TypeOK, Order
<1>5. OrderInRack(o)' /\ OrderGoesOn(o)
  BY <1>1, <1>4 DEF OrderInRack, OrderGoesOn, Exists
<1>6. HasStepsLeft(o)' /\ MoveHoldsItsSlot(o)' /\ PutLeavesNothing(o)'
  BY <1>4 DEF HasStepsLeft, MoveHoldsItsSlot, PutLeavesNothing
<1>7. ASSUME \A q \in Robots : pc[q] = "step" => hand[q] # o
      PROVE  OthersMoveOn(o)
  BY <1>3, <1>7 DEF OthersMoveOn
<1>8. CASE s = NoSlot \/ orders[o].logical
  <2>1. \A q \in Robots : pc[q] = "step" => hand[q] # o
    BY <1>8 DEF RackInv, IInv, Books, StepsArePhysical
  <2>2. /\ \A t \in Slots : ~Fetches(o, t)' /\ slots[t].by # o
        /\ orders'[o].status # "IN_PROGRESS"
    BY <1>1, <1>2, <1>4, <1>8, SlotsAssumption DEF Fetches
  <2> QED
    BY <1>3, <1>4, <1>5, <1>6, <1>7, <2>1, <2>2, SlotsAssumption,
       UnclaimedOrderStep
<1>9. CASE s # NoSlot /\ ~orders[o].logical
  <2>1. s \in Slots /\ ClaimInRack(s)
    BY <1>1, <1>9 DEF Order, RackInv, ClaimsKeepTheirRack
  <2>2. ClaimInRack(s)'
    <3>1. slots[s].by \in OrderIds \cup {NoOrder}
      BY <1>1, <2>1 DEF TypeOK, Slot
    <3>2. \A p \in OrderIds : Exists(p) =>
             /\ Exists(p)' /\ orders'[p].slot = orders[p].slot
             /\ orders'[p].logical = orders[p].logical
      BY <1>4 DEF Exists
    <3> QED
      BY <1>3, <2>1, <3>1, <3>2 DEF ClaimInRack
  <2>3. RackEffect(o, s)
    BY <1>2, <1>3, <1>4, <1>5, <2>1, <2>2 DEF RackEffect
  <2>4. ASSUME FloorInOrder, ~meddled' PROVE FloorEffect(o, s)
    <3>1. orders[o].status = "ERROR"
      BY <2>4
    <3>2. OthersMoveOn(o)
      BY <1>7, <2>4, <3>1 DEF FloorInOrder, MovesAreCurrent, MoveIsCurrent
    <3>3. ASSUME NEW t \in Slots, Fetches(o, t)'
          PROVE  t = s /\ Fetches(o, s) /\ PickKeepsSlot(o, s)
      BY <1>1, <1>4, <2>4, <3>1, <3>3
         DEF Fetches, FloorInOrder, PicksKeepTheirSlots
    <3>4. ASSUME NEW t \in Slots, Fetches(o, t)' PROVE PickKeepsSlot(o, t)'
      <4>1. \A p \in OrderIds : Fetches(p, s)' => p = o
        BY <1>4, <3>3, <3>4 DEF PickKeepsSlot, Fetches
      <4>2. StepRemains(orders[o].idx)
        BY <2>4, <3>1 DEF FloorInOrder, WaitingOrdersHaveSteps, HasStepsLeft
      <4> QED
        BY <1>1, <1>3, <1>4, <3>3, <3>4, <4>1, <4>2, BoxesRest
           DEF PickKeepsSlot
    <3>5. OrderInOrder(o)'
      BY <1>6, <3>4 DEF OrderInOrder, PickKeepsSlot
    <3>6. SlotShowsFloor(s)'
      BY <1>3, <2>1, <2>4, BoxesRest
         DEF SlotShowsFloor, FloorInOrder, SlotsShowFloor
    <3>7. SteeredSlotIsInProgress(s)'
      <4>1. SteeredSlotIsInProgress(s)
        BY <2>1, <2>4 DEF FloorInOrder, SteeredSlotsAreInProgress
      <4>2. slots[s].status \in {"BUSCANDO", "DEVOLVIENDO"} =>
               slots[s].by \in OrderIds
        BY <1>1, <2>1 DEF RackInv, IInv, Books, HeldSlotsAreClaimed, Held,
                          Claims, TypeOK, Slot
      <4> QED
        BY <1>3, <1>4, <3>1, <4>1, <4>2 DEF SteeredSlotIsInProgress
    <3>8. FetchesAlone(o, s) \/ slots[s].status \in NotFree
      BY <2>1, <2>4
         DEF FloorInOrder, PicksKeepTheirSlots, PickKeepsSlot, FetchesAlone
    <3>9. \A t \in Slots : Fetches(o, t)' => Fetches(o, t)
      BY <3>3
    <3> QED
      BY <1>3, <2>4, <3>2, <3>5, <3>6, <3>7, <3>8, <3>9, BoxesRest
         DEF FloorEffect
  <2> QED
    BY <2>3, <2>4 DEF GoodStep
<1> QED
  BY <1>1, <1>8, <1>9

(***************************************************************************)
(* A cancelled order gives back what it claims.                            *)
(***************************************************************************)
LEMMA CancelOrderIsGood ==
    ASSUME RackInv, UNCHANGED where, NEW o \in OrderIds, CancelOrder(o),
           ~meddled' => ~UnderWay(o)
    PROVE  \E p, s : GoodStep(p, s)
<1> PICK s : s = orders[o].slot
  OBVIOUS
<1>1. /\ TypeOK /\ orders[o] \in Order /\ Exists(o) /\ o # NoOrder
      /\ OrderInRack(o) /\ orders[o].robot \in Robots
      /\ queues[orders[o].robot] \in Queue
  BY NoOrderIsNone
     DEF RackInv, IInv, Books, TypeOK, Order, OrdersKeepTheirRack, CancelOrder
<1>2. \A t \in Slots : slots[t].by = o => t = s /\ ~orders[o].logical
  BY <1>1 DEF RackInv, ClaimsKeepTheirRack, ClaimInRack
<1>3. /\ orders' = [orders EXCEPT ![o].status = "CANCELED"]
      /\ UNCHANGED <<pc, hand, at>>
      /\ slots' = IF s = NoSlot THEN slots
                  ELSE [slots EXCEPT ![s] = GiveBack(slots[s], o)]
      /\ \A q \in Robots : \/ queues'[q].active = queues[q].active
                           \/ queues[q].active = o
  BY <1>1, RemoveOrderOp DEF CancelOrder, TypeOK, loopVars
<1>4. /\ \A p \in OrderIds \ {o} : orders'[p] = orders[p]
      /\ orders'[o].status = "CANCELED" /\ orders'[o].idx = orders[o].idx
      /\ orders'[o].type = orders[o].type /\ orders'[o].home = orders[o].home
      /\ orders'[o].robot = orders[o].robot /\ orders'[o].slot = s
      /\ orders'[o].logical = orders[o].logical
  BY <1>1, <1>3 DEF TypeOK, Order
<1>5. OrderInRack(o)' /\ OrderGoesOn(o)
  BY <1>1, <1>4 DEF OrderInRack, OrderGoesOn, Exists, Settled
<1>6. /\ HasStepsLeft(o)' /\ MoveHoldsItsSlot(o)' /\ PutLeavesNothing(o)'
      /\ \A t \in Slots : ~Fetches(o, t)'
  BY <1>4 DEF HasStepsLeft, MoveHoldsItsSlot, PutLeavesNothing, Fetches
<1>7. FloorInOrder /\ ~meddled' => OthersMoveOn(o)
  BY <1>3 DEF OthersMoveOn, UnderWay, FloorInOrder, MovesAreCurrent,
              MoveIsCurrent
<1>8. CASE s = NoSlot \/ slots[s].by # o
  <2>1. \A t \in Slots : slots'[t] = slots[t]
    BY <1>1, <1>3, <1>8 DEF GiveBack, TypeOK, Order
  <2>2. (\A t \in Slots : slots[t].by # o) /\ orders'[o].status # "IN_PROGRESS"
    BY <1>2, <1>4, <1>8, SlotsAssumption
  <2> QED
    BY <1>4, <1>5, <1>6, <1>7, <2>1, <2>2, SlotsAssumption, UnclaimedOrderStep
<1>9. CASE s # NoSlot /\ slots[s].by = o
  <2>1. s \in Slots /\ ClaimInRack(s) /\ slots[s] \in Slot /\ ~orders[o].logical
    BY <1>1, <1>2, <1>9
       DEF Order, RackInv, ClaimsKeepTheirRack, TypeOK
  <2>2. /\ \A t \in Slots \ {s} : slots'[t] = slots[t]
        /\ slots'[s] = IF orders[o].type = "PICK" THEN ClearSlot
                       ELSE WithStatus(slots[s], "OCUPADO", NoOrder)
    BY <1>1, <1>3, <1>9, <2>1 DEF TypeOK, GiveBack
  <2>3. orders[o].type # "PICK" =>
          /\ slots'[s].status = "OCUPADO" /\ slots'[s].by = o
          /\ slots'[s].box = slots[s].box
    BY <1>9, <2>1, <2>2 DEF WithStatus, Slot
  <2>4. ClaimInRack(s)'
    <3>1. CASE orders[o].type = "PICK"
      BY <2>2, <3>1 DEF ClaimInRack, ClearSlot
    <3>2. CASE orders[o].type # "PICK"
      BY <1>1, <1>4, <2>1, <2>3, <3>2 DEF ClaimInRack, Exists
    <3> QED
      BY <3>1, <3>2
  <2>5. RackEffect(o, s)
    BY <1>2, <1>4, <1>5, <2>2, <2>4 DEF RackEffect
  <2>6. ASSUME FloorInOrder, ~meddled' PROVE FloorEffect(o, s)
    <3>1. orders[o].status = "PENDING" /\ slots[s].status # "ERROR"
      BY <1>9, <2>6 DEF UnderWay, Blocks
    <3>2. slots[s].status \in {"RESERVADO", "OCUPADO"}
      <4>1. slots[s].status # "LIBRE"
        BY <1>1, <1>9, <2>1 DEF ClaimInRack
      <4>2. slots[s].status \notin {"BUSCANDO", "DEVOLVIENDO"}
        BY <1>9, <2>1, <2>6, <3>1
           DEF FloorInOrder, SteeredSlotsAreInProgress, SteeredSlotIsInProgress
      <4> QED
        BY <2>1, <3>1, <4>1, <4>2 DEF Slot, SlotStatus
    <3>3. MovesAlone(o, s) /\ FetchesAlone(o, s)
      BY <2>1, <2>6, <3>2, AloneInRestingSlot
    <3>4. orders[o].type # "PICK"
      <4>1. ~Fetches(o, s)
        BY <2>1, <2>6, <3>2
           DEF FloorInOrder, PicksKeepTheirSlots, PickKeepsSlot, NotFree
      <4> QED
        BY <2>1, <3>1, <4>1 DEF Fetches
    <3>5. SlotShowsFloor(s)' /\ SteeredSlotIsInProgress(s)'
      <4>1. SlotShowsFloor(s)
        BY <2>1, <2>6 DEF FloorInOrder, SlotsShowFloor
      <4> QED
        BY <2>3, <3>2, <3>4, <4>1, BoxesRest
           DEF SlotShowsFloor, SteeredSlotIsInProgress
    <3>6. OrderInOrder(o)'
      BY <1>6 DEF OrderInOrder, PickKeepsSlot
    <3> QED
      BY <1>6, <1>7, <2>6, <3>3, <3>5, <3>6, BoxesRest DEF FloorEffect
  <2> QED
    BY <2>5, <2>6 DEF GoodStep
<1> QED
  BY <1>8, <1>9

(***************************************************************************)
(* The operator declares a slot free.                                      *)
(***************************************************************************)
LEMMA ReleaseSlotIsGood ==
    ASSUME RackInv, UNCHANGED where, NEW s \in Slots, ReleaseSlot(s),
           ~meddled' => slots[s].status = "OCUPADO" /\ BoxesOn(s) = {}
    PROVE  GoodStep(NoOrder, s)
<1>1. /\ NoOrder \notin OrderIds
      /\ UNCHANGED <<orders, queues, pc, hand, at>>
      /\ \A t \in Slots \ {s} : slots'[t] = slots[t]
      /\ slots'[s] = ClearSlot
  BY NoOrderIsNone
     DEF ReleaseSlot, loopVars, RackInv, IInv, Books, TypeOK
<1>2. RackEffect(NoOrder, s)
  BY <1>1 DEF RackEffect, ClaimInRack, ClearSlot
<1>3. ASSUME FloorInOrder, ~meddled' PROVE FloorEffect(NoOrder, s)
  <2>1. MovesAlone(NoOrder, s) /\ FetchesAlone(NoOrder, s)
    BY <1>3, AloneInRestingSlot
  <2>2. SlotShowsFloor(s)' /\ SteeredSlotIsInProgress(s)'
    BY <1>1, <1>3, BoxesRest
       DEF SlotShowsFloor, SteeredSlotIsInProgress, ClearSlot
  <2>3. OthersMoveOn(NoOrder)
    BY <1>1 DEF OthersMoveOn
  <2> QED
    BY <1>1, <1>3, <2>1, <2>2, <2>3, BoxesRest DEF FloorEffect
<1> QED
  BY <1>2, <1>3 DEF GoodStep

(***************************************************************************)
(* What every step of the zone keeps.                                      *)
(***************************************************************************)
GoodMove ==
    /\ \E o, s : GoodStep(o, s)
    /\ IInv'
    /\ NoRetryWithoutAct'
    /\ meddled' \in BOOLEAN /\ (meddled => meddled')
    /\ ops' = 0 => ops = 0

(***************************************************************************)
(* A move of the server, of a robot, or of a retry that comes back.        *)
(***************************************************************************)
LEMMA ServerMovesAreGood ==
    ASSUME RackInv, meddled \in BOOLEAN, ServerMoves
    PROVE  GoodMove
<1>1. IInv /\ NoRetryWithoutAct /\ TypeOK
  BY DEF RackInv, IInv, Books
<1>2. CASE FloorTick
  <2>1. /\ UNCHANGED <<orders, slots, queues, hand, at, retrying, ops>>
        /\ UNCHANGED <<where, meddled>>
        /\ \A r \in Robots : pc'[r] = pc[r] \/ pc'[r] = "top"
    BY <1>1, <1>2 DEF FloorTick, Tick, bookVars, zoneVars, TypeOK
  <2>2. GoodStep(NoOrder, NoSlot)
    BY <2>1, StartingLoopsIsGood
  <2>3. IInv'
    BY <1>1, <1>2, TickKeepsIInv DEF FloorTick
  <2> QED
    BY <1>1, <2>1, <2>2, <2>3 DEF GoodMove, NoRetryWithoutAct
<1>3. ASSUME NEW r \in Robots, FloorResume(r) PROVE GoodMove
  <2>1. UNCHANGED <<retrying, ops, meddled>>
    BY <1>3
       DEF FloorResume, zoneVars, Resume, NothingToDo, Dequeue, Activate,
           ResumeActive, ProcessActivated, Requeue, FreeRobot, RobotFails
  <2>2. IInvBut({})
    BY <1>1 DEF IInv, IInvBut, NoLostOrder, NoneLostBut
  <2>3. IInvBut({})'
    BY <1>3, <2>2, ResumeKeepsIInvBut DEF FloorResume
  <2>4. IInv'
    BY <2>3 DEF IInv, IInvBut, NoLostOrder, NoneLostBut
  <2> QED
    BY <1>1, <1>3, <2>1, <2>4, ResumeIsGood DEF GoodMove, NoRetryWithoutAct
<1>4. ASSUME NEW r \in Robots, RobotStepDone(r) PROVE GoodMove
  <2>1. StepDone(r) /\ UNCHANGED <<retrying, ops>>
    BY <1>4 DEF RobotStepDone, StepDone
  <2>2. meddled' \in BOOLEAN /\ (meddled => meddled')
    BY <1>4 DEF RobotStepDone, Carries, zoneVars
  <2>3. IInv'
    BY <1>1, <2>1, StepDoneKeepsIInv
  <2> QED
    BY <1>1, <1>4, <2>1, <2>2, <2>3, RobotStepDoneIsGood
       DEF GoodMove, NoRetryWithoutAct
<1>5. ASSUME NEW r \in Robots, StepFails(r), UNCHANGED zoneVars PROVE GoodMove
  <2>1. UNCHANGED <<retrying, ops, where, meddled>>
    BY <1>5 DEF StepFails, zoneVars
  <2>2. IInv'
    BY <1>1, <1>5, StepFailsKeepsIInv
  <2> QED
    BY <1>1, <1>5, <2>1, <2>2, StepFailsIsGood DEF GoodMove, NoRetryWithoutAct
<1>6. ASSUME NEW o \in OrderIds, OrderRetried(o) PROVE GoodMove
  <2>1. /\ retrying[o] > 0 /\ retrying' = [retrying EXCEPT ![o] = @ - 1]
        /\ UNCHANGED <<where, ops>>
        /\ meddled' \in BOOLEAN /\ (meddled => meddled')
    BY <1>6 DEF OrderRetried, RetryEnds, RetryFails
  <2>2. NoRetryWithoutAct'
    BY <1>1, <2>1 DEF NoRetryWithoutAct, TypeOK
  <2>3. CASE RetryEnds(o) /\ meddled' = (meddled \/ orders[o].status # "ERROR")
    <3>1. IInv'
      BY <1>1, <2>3, RetryEndsKeepsIInv
    <3>2. \E p, s : GoodStep(p, s)
      BY <2>1, <2>3, RetryEndsIsGood
    <3> QED
      BY <2>1, <2>2, <3>1, <3>2 DEF GoodMove
  <2>4. CASE RetryFails(o) /\ UNCHANGED meddled
    <3>1. UNCHANGED <<orders, slots, queues, pc, hand, at>>
      BY <2>4 DEF RetryFails, bookVars, loopVars
    <3>2. GoodStep(NoOrder, NoSlot)
      BY <2>1, <3>1, StartingLoopsIsGood
    <3>3. IInv'
      BY <1>1, <2>4, RetryFailsKeepsIInv
    <3> QED
      BY <2>1, <2>2, <3>2, <3>3 DEF GoodMove
  <2> QED
    BY <1>6, <2>3, <2>4 DEF OrderRetried
<1> QED
  BY <1>2, <1>3, <1>4, <1>5, <1>6 DEF ServerMoves, FloorPlc

(***************************************************************************)
(* A box is ordered, or returned.                                          *)
(***************************************************************************)
LEMMA PickIsGoodMove ==
    ASSUME RackInv, meddled \in BOOLEAN, UNCHANGED zoneVars,
           NEW home \in Homes, NEW ext \in ExternalIds \cup {NoExternalId},
           SubmitPick(RobotOf[home], home, NoSlot, ext)
    PROVE  GoodMove
<1>1. IInv /\ NoRetryWithoutAct /\ RobotOf[home] \in Robots
  BY RobotsAssumption DEF RackInv
<1>2. UNCHANGED <<retrying, ops, where, meddled>>
  BY DEF SubmitPick, Accept, zoneVars
<1>3. IInv'
  BY <1>1, SubmitPickKeepsIInv
<1>4. \E o, s : GoodStep(o, s)
  BY <1>2, PickIsGood
<1> QED
  BY <1>1, <1>2, <1>3, <1>4 DEF GoodMove, NoRetryWithoutAct

(***************************************************************************)
(* A return, from whatever its client last knew of the slot.               *)
(***************************************************************************)
LEMMA PutIsGoodMove ==
    ASSUME RackInv, meddled \in BOOLEAN, UNCHANGED zoneVars,
           NEW target \in Homes, NEW s \in Slots,
           NEW ext \in ExternalIds \cup {NoExternalId},
           SubmitPut(RobotOf[s], target, s, ext)
    PROVE  GoodMove
<1>1. IInv /\ NoRetryWithoutAct /\ RobotOf[s] \in Robots
  BY RobotsAssumption DEF RackInv
<1>2. UNCHANGED <<retrying, ops, where, meddled>>
  BY DEF SubmitPut, Accept, zoneVars
<1>3. IInv'
  BY <1>1, SubmitPutKeepsIInv
<1>4. \E o, t : GoodStep(o, t)
  BY <1>2, PutIsGood
<1> QED
  BY <1>1, <1>2, <1>3, <1>4 DEF GoodMove, NoRetryWithoutAct

(***************************************************************************)
(* What the operator does at the screen, as old as it may be.              *)
(***************************************************************************)
LEMMA OperatorActsAreGood ==
    ASSUME RackInv, ScriptTypeOK, meddled \in BOOLEAN, OperatorActs
    PROVE  GoodMove
<1>1. IInv /\ NoRetryWithoutAct /\ TypeOK
  BY DEF RackInv, IInv, Books
<1>2. ASSUME NEW s \in Slots, TouchBox(s) PROVE GoodMove
  <2>1. PICK target \in Targets(s) :
          SubmitPut(RobotOf[s], target, s, NoExternalId)
    BY <1>2 DEF TouchBox
  <2>2. target \in Homes
    BY <1>2, <2>1 DEF Targets, AskedTargets, BoxesOn, TouchBox, ScriptTypeOK
  <2> QED
    BY <1>2, <2>1, <2>2, PutIsGoodMove DEF TouchBox
<1>3. ASSUME NEW s \in Slots, ConfirmRelease(s) PROVE GoodMove
  <2>1. /\ ReleaseSlot(s) /\ ops' = ops + 1 /\ ops \in Nat /\ UNCHANGED where
        /\ meddled' \in BOOLEAN /\ (meddled => meddled')
        /\ ~meddled' => slots[s].status = "OCUPADO" /\ BoxesOn(s) = {}
    BY <1>1, <1>3 DEF ConfirmRelease, ReleaseSlot, Intervene, TypeOK
  <2>2. IInv'
    BY <1>1, <2>1, ReleaseSlotKeepsIInv
  <2>3. \E o, t : GoodStep(o, t)
    BY <2>1, ReleaseSlotIsGood
  <2>4. ops' # 0
    BY <2>1
  <2> QED
    BY <2>1, <2>2, <2>3, <2>4 DEF GoodMove, NoRetryWithoutAct
<1>4. ASSUME NEW o \in OrderIds, PressCancel(o) PROVE GoodMove
  <2>1. /\ CancelOrder(o) /\ ops' = ops + 1 /\ ops \in Nat /\ UNCHANGED where
        /\ meddled' \in BOOLEAN /\ (meddled => meddled')
        /\ ~meddled' => ~UnderWay(o)
    BY <1>1, <1>4 DEF PressCancel, CancelOrder, Intervene, TypeOK
  <2>2. IInv'
    BY <1>1, <2>1, CancelOrderKeepsIInv
  <2>3. \E p, t : GoodStep(p, t)
    BY <2>1, CancelOrderIsGood
  <2>4. ops' # 0
    BY <2>1
  <2> QED
    BY <2>1, <2>2, <2>3, <2>4 DEF GoodMove, NoRetryWithoutAct
<1>5. ASSUME NEW o \in OrderIds, PressRetry(o) PROVE GoodMove
  <2>1. /\ RetryBegins(o) /\ ops' = ops + 1 /\ ops \in Nat
        /\ UNCHANGED <<orders, slots, queues, pc, hand, at, where, meddled>>
    BY <1>1, <1>5
       DEF PressRetry, RetryBegins, Intervene, TypeOK, bookVars, loopVars,
           zoneVars
  <2>2. IInv'
    BY <1>1, <2>1, RetryBeginsKeepsIInv
  <2>3. GoodStep(NoOrder, NoSlot)
    BY <2>1, StartingLoopsIsGood
  <2>4. ops' # 0
    BY <2>1
  <2> QED
    BY <2>1, <2>2, <2>3, <2>4 DEF GoodMove, NoRetryWithoutAct
<1> QED
  BY <1>2, <1>3, <1>4, <1>5 DEF OperatorActs

(***************************************************************************)
(* Every step of the zone and its clients.                                 *)
(***************************************************************************)
LEMMA FloorNextIsGood ==
    ASSUME RackInv, ScriptTypeOK, meddled \in BOOLEAN, [FloorNext]_floorVars
    PROVE  GoodMove
<1>1. CASE UNCHANGED <<vars, zoneVars>>
  <2>1. /\ UNCHANGED vars
        /\ UNCHANGED <<orders, slots, queues, pc, hand, at, retrying, ops,
                       where, meddled>>
    BY <1>1 DEF vars, zoneVars
  <2>2. IInv'
    BY <2>1, NextIInv DEF RackInv
  <2>3. GoodStep(NoOrder, NoSlot)
    BY <2>1, StartingLoopsIsGood
  <2> QED
    BY <2>1, <2>2, <2>3 DEF GoodMove, NoRetryWithoutAct, RackInv
<1>2. CASE ServerMoves
  BY <1>2, ServerMovesAreGood
<1>3. CASE BoxIsOrdered
  BY <1>3, PickIsGoodMove DEF BoxIsOrdered
<1>4. CASE OperatorActs
  BY <1>4, OperatorActsAreGood
<1>5. CASE PlacePick
  BY <1>5, PickIsGoodMove, PoolAssumption
     DEF PlacePick, ScriptTypeOK, zoneVars
<1>6. CASE PlacePut
  BY <1>6, PutIsGoodMove DEF PlacePut, ScriptTypeOK, zoneVars
<1> QED
  BY <1>1, <1>2, <1>3, <1>4, <1>5, <1>6
     DEF FloorNext, ScriptActs, ScriptReads, floorVars

(***************************************************************************)
(* A good move keeps all orders and claims in their rack, and the floor in *)
(* order unless somebody has meddled.                                      *)
(***************************************************************************)
LEMMA GoodMoveKeepsOrder ==
    ASSUME RackInv, meddled \/ FloorInOrder, GoodMove
    PROVE  RackInv' /\ (meddled \/ FloorInOrder)'
<1>1. PICK o, s : GoodStep(o, s)
  BY DEF GoodMove
<1>2. RackInv'
  BY <1>1, RackEffectKeepsRack DEF GoodStep, GoodMove, RackInv
<1>3. (meddled \/ FloorInOrder)'
  BY <1>1, FloorEffectKeepsOrder DEF GoodStep, GoodMove
<1> QED
  BY <1>2, <1>3

-----------------------------------------------------------------------------
(***************************************************************************)
(* The script.                                                             *)
(***************************************************************************)

(***************************************************************************)
(* No order forgets whose it is, and none that is settled is taken up      *)
(* again without the operator.                                             *)
(***************************************************************************)
LEMMA OrdersGoOn ==
    ASSUME RackInv, GoodMove PROVE \A p \in OrderIds : OrderGoesOn(p)
<1>1. PICK o, s : RackEffect(o, s)
  BY DEF GoodMove, GoodStep
<1> SUFFICES ASSUME NEW p \in OrderIds, p # o PROVE OrderGoesOn(p)
  BY <1>1 DEF RackEffect
<1>2. orders'[p] = orders[p]
  BY <1>1 DEF RackEffect
<1> QED
  BY <1>2 DEF OrderGoesOn, Exists

(***************************************************************************)
(* What others do leaves the script its orders.                            *)
(***************************************************************************)
LEMMA OthersLeaveTheScript ==
    ASSUME RackInv, ScriptInv, GoodMove, UNCHANGED scriptVars,
           board' \in [Slots -> Homes \cup {NoHome, Untouchable}]
    PROVE  ScriptInv'
<1>1. /\ \A p \in OrderIds : OrderGoesOn(p)
      /\ asked \subseteq OrderIds
      /\ UNCHANGED <<script, job, source, slot, dwelt, glance, pool, asked>>
      /\ ops' = 0 => ops = 0
  BY OrdersGoOn DEF GoodMove, ScriptInv, ScriptTypeOK, scriptVars
<1>2. ScriptTypeOK'
  BY <1>1 DEF ScriptInv, ScriptTypeOK, AskedAreItsOwn, OrderGoesOn
<1>3. AskedAreItsOwn' /\ GlancesAreInWaits'
  BY <1>1 DEF ScriptInv, AskedAreItsOwn, GlancesAreInWaits, OrderGoesOn
<1>4. ops' = 0 => \A o \in asked : orders[o].status \in Settled
                                     => orders'[o].status \in Settled
  BY <1>1 DEF OrderGoesOn
<1>5. IdleMeansSettled'
  BY <1>1, <1>4 DEF ScriptInv, IdleMeansSettled
<1>6. ScriptAsksOneByOne'
  <2> SUFFICES ASSUME ops' = 0, NEW o \in asked, NEW p \in asked,
                      orders'[o].status \notin Settled,
                      orders'[p].status \notin Settled
               PROVE  o = p
    BY <1>1 DEF ScriptAsksOneByOne
  <2>1. orders[o].status \notin Settled /\ orders[p].status \notin Settled
    BY <1>4
  <2> QED
    BY <1>1, <2>1 DEF ScriptInv, ScriptAsksOneByOne
<1> QED
  BY <1>2, <1>3, <1>5, <1>6 DEF ScriptInv

(***************************************************************************)
(* An idle queue has nothing left of the script's orders.                  *)
(***************************************************************************)
LEMMA IdleQueueSettled ==
    ASSUME RackInv, ScriptInv, Calm, QueueGlance = "queueIdle"
    PROVE  \A o \in asked : orders[o].status \in Settled
<1> SUFFICES ASSUME NEW o \in asked PROVE orders[o].status \in Settled
  OBVIOUS
<1>1. /\ TypeOK /\ NoLostOrder /\ o \in OrderIds /\ o # NoOrder
      /\ orders[o].status # "ABSENT" /\ orders[o].robot = ScriptRobot
      /\ ScriptRobot \in Robots /\ orders[o] \in Order
  BY NoOrderIsNone, PoolAssumption
     DEF RackInv, IInv, Books, ScriptInv, ScriptTypeOK, AskedAreItsOwn, Exists,
         TypeOK
<1>2. queues[ScriptRobot].active = NoOrder /\ queues[ScriptRobot].items = << >>
  BY DEF QueueGlance
<1>3. Members(<< >>) = {}
  BY EmptySeq DEF Members
<1>4. ~InSomeonesCare(o)
  BY <1>1, <1>2, <1>3 DEF InSomeonesCare, Calm
<1>5. orders[o].status \notin {"PENDING", "IN_PROGRESS"}
  BY <1>1, <1>4 DEF NoLostOrder
<1> QED
  BY <1>1, <1>5 DEF Order, Status, Settled

(***************************************************************************)
(* Of the two answers, the one about the queue says so.                    *)
(***************************************************************************)
LEMMA SeenIdleSettled ==
    ASSUME RackInv, ScriptInv, Calm, SeesIdle, ops = 0
    PROVE  \A o \in asked : orders[o].status \in Settled
<1>1. RobotGlance # "queueIdle"
  BY DEF RobotGlance
<1>2. glance = "queueIdle" \/ QueueGlance = "queueIdle"
  BY <1>1 DEF SeesIdle, SecondGlance
<1> QED
  BY <1>2, IdleQueueSettled DEF ScriptInv, IdleMeansSettled

(***************************************************************************)
(* The script reads, gives up or stops: nothing happens to any order.      *)
(***************************************************************************)
LEMMA ScriptStepsAlone ==
    ASSUME UNCHANGED <<orders, ops, asked, board>>,
           RackInv, ScriptInv,
           \/ FirstGlance \/ Dwell \/ Clear \/ PickSettles \/ PutSettles
           \/ RequestFails \/ Stop
    PROVE  ScriptInv'
<1>1. AskedAreItsOwn' /\ ScriptAsksOneByOne'
  BY DEF ScriptInv, AskedAreItsOwn, ScriptAsksOneByOne, Exists
<1>2. ASSUME CycleOver, pool' \subseteq Pool PROVE ScriptInv'
  <2>1. script' = "dwell" /\ glance' = NothingSeen
    BY <1>2 DEF CycleOver
  <2>2. ScriptTypeOK' /\ GlancesAreInWaits' /\ IdleMeansSettled'
    BY <1>2, <2>1
       DEF ScriptInv, ScriptTypeOK, GlancesAreInWaits, IdleMeansSettled,
           NothingSeen
  <2> QED
    BY <1>1, <2>2 DEF ScriptInv
<1>3. CASE FirstGlance
  <2>1. ScriptTypeOK' /\ GlancesAreInWaits'
    BY <1>3 DEF FirstGlance, ScriptInv, ScriptTypeOK, GlancesAreInWaits
  <2>2. glance' = "queueIdle" => QueueGlance = "queueIdle"
    BY <1>3 DEF FirstGlance, RobotGlance
  <2>3. IdleMeansSettled'
    BY <1>3, <2>2, IdleQueueSettled DEF FirstGlance, IdleMeansSettled
  <2> QED
    BY <1>1, <2>1, <2>3 DEF ScriptInv
<1>4. CASE Dwell
  <2>1. /\ Calm /\ glance' = NothingSeen /\ script' \in {"dwell", "toPick"}
        /\ script' = "toPick" => SeesIdle
        /\ UNCHANGED <<job, source, slot, pool>>
    BY <1>4 DEF Dwell, Waits
  <2>2. ScriptTypeOK' /\ GlancesAreInWaits'
    BY <2>1 DEF ScriptInv, ScriptTypeOK, GlancesAreInWaits
  <2>3. IdleMeansSettled'
    BY <2>1, SeenIdleSettled DEF IdleMeansSettled, NothingSeen
  <2> QED
    BY <1>1, <2>2, <2>3 DEF ScriptInv
<1>5. CASE Clear
  <2>1. CASE CycleOver
    BY <1>2, <1>5, <2>1 DEF Clear, ScriptInv, ScriptTypeOK
  <2>2. CASE /\ glance' = NothingSeen
             /\ script' = IF SeesIdle THEN "toPut" ELSE "clear"
             /\ UNCHANGED <<job, source, slot, dwelt>>
    <3>1. Calm /\ script = "clear" /\ UNCHANGED pool
      BY <1>5 DEF Clear, Waits
    <3>2. ScriptTypeOK' /\ GlancesAreInWaits'
      BY <2>2, <3>1 DEF ScriptInv, ScriptTypeOK, GlancesAreInWaits
    <3>3. IdleMeansSettled'
      BY <2>2, <3>1, SeenIdleSettled DEF IdleMeansSettled, NothingSeen
    <3> QED
      BY <1>1, <3>2, <3>3 DEF ScriptInv
  <2> QED
    BY <1>5, <2>1, <2>2 DEF Clear
<1>6. CASE PickSettles
  <2>1. CASE orders[job].status = "DONE"
    <3>1. /\ script = "pick" /\ script' = "clear" /\ slot' = orders[job].slot
          /\ UNCHANGED <<source, glance, pool>>
      BY <1>6, <2>1 DEF PickSettles, Waits
    <3>2. /\ job \in OrderIds /\ Exists(job) /\ orders[job].robot = ScriptRobot
          /\ orders[job].type = "PICK" /\ orders[job] \in Order
      BY <3>1 DEF ScriptInv, ScriptTypeOK, AskedAreItsOwn, RackInv, IInv, Books,
                  TypeOK
    <3>3. slot' \in Slots /\ RobotOf[slot'] = ScriptRobot
      BY <2>1, <3>1, <3>2 DEF RackInv, OrdersKeepTheirRack, OrderInRack, Order
    <3>4. ScriptTypeOK' /\ GlancesAreInWaits'
      BY <3>1, <3>3 DEF ScriptInv, ScriptTypeOK, GlancesAreInWaits
    <3>5. IdleMeansSettled'
      BY <3>1 DEF ScriptInv, GlancesAreInWaits, IdleMeansSettled, NothingSeen
    <3> QED
      BY <1>1, <3>4, <3>5 DEF ScriptInv
  <2>2. CASE orders[job].status # "DONE"
    BY <1>2, <1>6, <2>2 DEF PickSettles, ScriptInv, ScriptTypeOK
  <2> QED
    BY <2>1, <2>2
<1>7. CASE PutSettles \/ RequestFails
  BY <1>2, <1>7 DEF PutSettles, RequestFails, ScriptInv, ScriptTypeOK
<1>8. CASE Stop
  <2>1. script' = "over" /\ glance' = NothingSeen /\ UNCHANGED pool
    BY <1>8 DEF Stop
  <2>2. ScriptTypeOK' /\ GlancesAreInWaits' /\ IdleMeansSettled'
    BY <2>1 DEF ScriptInv, ScriptTypeOK, GlancesAreInWaits, IdleMeansSettled,
                NothingSeen
  <2> QED
    BY <1>1, <2>2 DEF ScriptInv
<1> QED
  BY <1>3, <1>4, <1>5, <1>6, <1>7, <1>8

(***************************************************************************)
(* An order has but one number, and belongs to its robot.                  *)
(***************************************************************************)
LEMMA PlacedOrder ==
    ASSUME TypeOK, NEW o \in NextId, NEW ord, \E p \in NextId : Accept(p, ord),
           ord.status = "PENDING"
    PROVE  Exists(o)' /\ orders'[o] = ord
<1> PICK p \in NextId : Accept(p, ord)
  OBVIOUS
<1>1. o \in OrderIds /\ p \in OrderIds /\ o \in Int /\ p \in Int
  BY DEF NextId, OrderIds
<1>2. ~(o < p) /\ ~(p < o)
  BY DEF NextId, Exists
<1>3. o = p
  BY <1>1, <1>2
<1> QED
  BY <1>1, <1>3 DEF Accept, TypeOK, Exists

(***************************************************************************)
(* The script places an order once nothing is left of the others.          *)
(***************************************************************************)
LEMMA PlacingKeepsScriptInv ==
    ASSUME RackInv, ScriptInv, GoodMove, UNCHANGED <<board, pool>>,
           script \in {"toPick", "toPut"},
           NEW o \in NextId, Exists(o)', orders'[o].robot = ScriptRobot,
           asked' = asked \cup {o},
           \/ CycleOver
           \/ /\ script' \in {"pick", "put"} /\ job' = o
              /\ script' = "pick" => /\ orders'[o].type = "PICK"
                                     /\ source' \in Homes
              /\ UNCHANGED glance
    PROVE  ScriptInv'
<1>1. /\ \A p \in OrderIds : OrderGoesOn(p)
      /\ asked \subseteq OrderIds /\ o \in OrderIds
      /\ ops' = 0 => ops = 0
  BY OrdersGoOn DEF GoodMove, ScriptInv, ScriptTypeOK, NextId
<1>2. glance' = NothingSeen /\ script' \in {"dwell", "pick", "put"}
  BY DEF CycleOver, ScriptInv, GlancesAreInWaits
<1>3. ScriptTypeOK'
  BY <1>1, <1>2 DEF ScriptInv, ScriptTypeOK, CycleOver
<1>4. AskedAreItsOwn'
  BY <1>1 DEF ScriptInv, AskedAreItsOwn, OrderGoesOn
<1>5. GlancesAreInWaits' /\ IdleMeansSettled'
  BY <1>2 DEF GlancesAreInWaits, IdleMeansSettled, NothingSeen
<1>6. ops' = 0 => \A p \in asked : orders'[p].status \in Settled
  BY <1>1 DEF ScriptInv, IdleMeansSettled, OrderGoesOn
<1>7. ScriptAsksOneByOne'
  BY <1>6 DEF ScriptAsksOneByOne
<1> QED
  BY <1>3, <1>4, <1>5, <1>7 DEF ScriptInv

(***************************************************************************)
(* The script orders a box of its pool, and may miss the answer.           *)
(***************************************************************************)
LEMMA PlacePickKeepsScriptInv ==
    ASSUME RackInv, ScriptInv, GoodMove, UNCHANGED board, PlacePick
    PROVE  ScriptInv'
<1>1. PICK home \in pool :
        /\ SubmitPick(RobotOf[home], home, NoSlot, NoExternalId)
        /\ Placed("pick", home)
  BY DEF PlacePick
<1>2. home \in Homes /\ RobotOf[home] = ScriptRobot /\ TypeOK
  BY PoolAssumption DEF ScriptInv, ScriptTypeOK, RackInv, IInv, Books
<1>3. PICK o \in NextId :
        /\ asked' = asked \cup {o}
        /\ \/ /\ script' = "pick" /\ job' = o /\ source' = home
              /\ UNCHANGED <<slot, dwelt, glance>>
           \/ CycleOver
  BY <1>1 DEF Placed
<1>4. PICK ord :
        /\ \E p \in NextId : Accept(p, ord)
        /\ ord.status = "PENDING"
        /\ ord.robot = ScriptRobot /\ ord.type = "PICK"
  <2>1. PICK p \in NextId :
          \/ Accept(p, NewOrder("PICK", RobotOf[home], home, NoSlot, NoExternalId))
          \/ \E s \in OccupiedFrom(slots, home) :
               Accept(p, [NewOrder("PICK", RobotOf[home], home, s, NoExternalId)
                            EXCEPT !.logical = TRUE])
    BY <1>1 DEF SubmitPick
  <2>2. CASE Accept(p, NewOrder("PICK", RobotOf[home], home, NoSlot, NoExternalId))
    BY <1>2, <2>2 DEF NewOrder
  <2>3. ASSUME NEW s \in Slots,
               Accept(p, [NewOrder("PICK", RobotOf[home], home, s, NoExternalId)
                            EXCEPT !.logical = TRUE])
        PROVE  \E ord : /\ Accept(p, ord) /\ ord.status = "PENDING"
                        /\ ord.robot = ScriptRobot /\ ord.type = "PICK"
    BY <1>2, <2>3 DEF NewOrder
  <2> QED
    BY <2>1, <2>2, <2>3 DEF OccupiedFrom
<1>5. Exists(o)' /\ orders'[o] = ord
  BY <1>2, <1>4, PlacedOrder
<1> QED
  BY <1>2, <1>3, <1>4, <1>5, PlacingKeepsScriptInv DEF PlacePick

(***************************************************************************)
(* The script sends the box back, and may miss the answer.                 *)
(***************************************************************************)
LEMMA PlacePutKeepsScriptInv ==
    ASSUME RackInv, ScriptInv, GoodMove, UNCHANGED board, PlacePut
    PROVE  ScriptInv'
<1>1. /\ SubmitPut(RobotOf[slot], source, slot, NoExternalId)
      /\ RobotOf[slot] = ScriptRobot /\ TypeOK
  BY DEF PlacePut, ScriptInv, ScriptTypeOK, RackInv, IInv, Books
<1>2. PICK o \in NextId :
        /\ asked' = asked \cup {o}
        /\ \/ /\ script' = "put" /\ job' = o /\ UNCHANGED glance
           \/ CycleOver
  BY DEF PlacePut, Placed
<1>3. PICK ord :
        /\ \E p \in NextId : Accept(p, ord)
        /\ ord.status = "PENDING"
        /\ ord.robot = ScriptRobot
  <2> DEFINE put == NewOrder("PUT", RobotOf[slot], source, slot, NoExternalId)
  <2>1. PICK p \in NextId :
          \/ Accept(p, put)
          \/ Accept(p, [put EXCEPT !.logical = TRUE])
          \/ Accept(p, [put EXCEPT !.waiting = TRUE])
    BY <1>1 DEF SubmitPut
  <2> QED
    BY <1>1, <2>1 DEF NewOrder
<1>4. Exists(o)' /\ orders'[o] = ord
  BY <1>1, <1>3, PlacedOrder
<1> QED
  BY <1>2, <1>3, <1>4, PlacingKeepsScriptInv DEF PlacePut

(***************************************************************************)
(* The script keeps its own, whoever takes the next step.                  *)
(***************************************************************************)
LEMMA NextScriptInv ==
    ASSUME RackInv, ScriptInv, GoodMove, [FloorNext]_floorVars
    PROVE  ScriptInv'
<1>1. board \in [Slots -> Homes \cup {NoHome, Untouchable}]
  BY DEF ScriptInv, ScriptTypeOK
<1>2. CASE UNCHANGED <<board, scriptVars>>
  BY <1>1, <1>2, OthersLeaveTheScript
<1>3. CASE RefreshBoard /\ UNCHANGED scriptVars
  <2>1. board' \in [Slots -> Homes \cup {NoHome, Untouchable}]
    BY <1>3 DEF RefreshBoard, Touchable, RackInv, IInv, Books, TypeOK, Slot
  <2> QED
    BY <1>3, <2>1, OthersLeaveTheScript
<1>4. CASE ScriptReads /\ UNCHANGED board
  <2>1. UNCHANGED <<orders, ops, asked, board>>
    BY <1>4
       DEF ScriptReads, vars, FirstGlance, Dwell, Clear, PickSettles, PutSettles
  <2> QED
    BY <1>4, <2>1, ScriptStepsAlone DEF ScriptReads
<1>5. CASE PlacePick /\ UNCHANGED board
  BY <1>5, PlacePickKeepsScriptInv
<1>6. CASE PlacePut /\ UNCHANGED board
  BY <1>6, PlacePutKeepsScriptInv
<1>7. CASE (RequestFails \/ Stop) /\ UNCHANGED <<vars, zoneVars>> /\ UNCHANGED board
  <2>1. UNCHANGED <<orders, ops, asked, board>>
    BY <1>7 DEF RequestFails, Stop, vars
  <2> QED
    BY <1>7, <2>1, ScriptStepsAlone
<1> QED
  BY <1>2, <1>3, <1>4, <1>5, <1>6, <1>7 DEF FloorNext, ScriptActs, floorVars

-----------------------------------------------------------------------------
(***************************************************************************)
(* The zone at the beginning: every box at home, no order.                 *)
(***************************************************************************)
LEMMA InitFloorInv == FloorInit => FloorInv
<1> SUFFICES ASSUME FloorInit PROVE FloorInv
  OBVIOUS
<1>1. PICK r \in Robots :
        orders = [o \in OrderIds |->
           [status |-> "ABSENT", type |-> "PICK", home |-> NoHome, robot |-> r,
            slot |-> NoSlot, idx |-> 0, logical |-> FALSE, waiting |-> FALSE,
            ext |-> NoExternalId]]
  BY DEF FloorInit, NothingOrdered
<1>2. \A o \in OrderIds : orders[o].status = "ABSENT"
  BY <1>1
<1>3. /\ \A s \in Slots : /\ slots[s].status = "LIBRE"
                          /\ slots[s].by = NoOrder /\ slots[s].box = NoHome
      /\ \A q \in Robots : pc[q] = "off"
      /\ \A o \in OrderIds : retrying[o] = 0
  BY DEF FloorInit, NothingOrdered, ClearSlot
<1>4. RackInv
  <2>1. IInv
    BY EmptyBooksIInv DEF FloorInit, Robot, RobotStatus
  <2>2. OrdersKeepTheirRack
    BY <1>2 DEF OrdersKeepTheirRack, OrderInRack, Exists
  <2>3. ClaimsKeepTheirRack
    BY <1>3 DEF ClaimsKeepTheirRack, ClaimInRack
  <2>4. NoRetryWithoutAct
    BY <1>3 DEF NoRetryWithoutAct
  <2> QED
    BY <2>1, <2>2, <2>3, <2>4 DEF RackInv
<1>5. FloorInOrder
  <2>1. \A s \in Slots : slots[s].status = "LIBRE" /\ BoxesOn(s) = {}
    <3>1. \A s \in Slots : \A b \in Homes : where[b] # s
      BY RackAssumption DEF FloorInit
    <3> QED
      BY <1>3, <3>1 DEF BoxesOn
  <2>2. BoxesAreInTheZoneOrHome
    BY DEF BoxesAreInTheZoneOrHome, FloorInit
  <2>3. MovesAreCurrent /\ MovesHoldTheirSlots /\ WaitingOrdersHaveSteps
    BY <1>2, <1>3
       DEF MovesAreCurrent, MovesHoldTheirSlots, MoveHoldsItsSlot,
           WaitingOrdersHaveSteps, HasStepsLeft
  <2>4. SteeredSlotsAreInProgress /\ SlotsShowFloor
    BY <2>1 DEF SteeredSlotsAreInProgress, SteeredSlotIsInProgress,
                SlotsShowFloor, SlotShowsFloor
  <2>5. PicksKeepTheirSlots /\ PutsLeaveNothing
    BY <1>2 DEF PicksKeepTheirSlots, PickKeepsSlot, Fetches, PutsLeaveNothing,
                PutLeavesNothing
  <2> QED
    BY <2>2, <2>3, <2>4, <2>5 DEF FloorInOrder
<1>6. ScriptInv
  <2>1. /\ asked = {} /\ pool = Pool /\ script = "dwell" /\ glance = NothingSeen
        /\ board = [s \in Slots |-> Untouchable]
    BY DEF FloorInit
  <2> QED
    BY <2>1
       DEF ScriptInv, ScriptTypeOK, AskedAreItsOwn, GlancesAreInWaits,
           IdleMeansSettled, ScriptAsksOneByOne
<1> QED
  BY <1>4, <1>5, <1>6 DEF FloorInv, FloorInit

(***************************************************************************)
(* Every step keeps the whole.                                             *)
(***************************************************************************)
LEMMA NextFloorInv == FloorInv /\ [FloorNext]_floorVars => FloorInv'
<1> SUFFICES ASSUME FloorInv, [FloorNext]_floorVars PROVE FloorInv'
  OBVIOUS
<1>1. GoodMove
  BY FloorNextIsGood DEF FloorInv, ScriptInv
<1>2. RackInv' /\ (meddled \/ FloorInOrder)'
  BY <1>1, GoodMoveKeepsOrder DEF FloorInv
<1>3. ScriptInv'
  BY <1>1, NextScriptInv DEF FloorInv
<1> QED
  BY <1>1, <1>2, <1>3 DEF FloorInv, GoodMove

(***************************************************************************)
(* The picking zone keeps its invariant, whatever the operator, the        *)
(* picking app and the script do: the orders and claims of the books       *)
(* (OrchestratorService.js) whatever happens, the agreement of books and   *)
(* floor until somebody meddles, and the script's knowledge of its orders  *)
(* (soakRobot.js).                                                         *)
(***************************************************************************)
THEOREM FloorInvariance == FloorSpec => []FloorInv
<1> QED
  BY InitFloorInv, NextFloorInv, PTL DEF FloorSpec

(***************************************************************************)
(* A slot the books show as LIBRE has no box on it, so that                *)
(* assignSlotForPickOrder sends no robot to a slot that is taken, until an *)
(* operator undoes what is under way.                                      *)
(***************************************************************************)
THEOREM FreeSlotsStayEmpty == FloorSpec => []FreeSlotsAreEmpty
<1>1. FloorInv => FreeSlotsAreEmpty
  BY DEF FloorInv, FloorInOrder, SlotsShowFloor, SlotShowsFloor,
         FreeSlotsAreEmpty
<1> QED
  BY <1>1, FloorInvariance, PTL

(***************************************************************************)
(* What SlotBoard shows as OCUPADO with a box is where that box stands,    *)
(* alone: the PUT of that slot (returnBox, submitOrder) moves the box it   *)
(* names.                                                                  *)
(***************************************************************************)
THEOREM BooksAgreeWithFloor == FloorSpec => []BooksMatchFloor
<1>1. FloorInv => BooksMatchFloor
  BY DEF FloorInv, FloorInOrder, SlotsShowFloor, SlotShowsFloor,
         BooksMatchFloor, BoxesAreWhereShown
<1> QED
  BY <1>1, FloorInvariance, PTL

(***************************************************************************)
(* The script never has two orders under way, although it may have missed  *)
(* the answer to one or waited for it too long: waitUntilIdle of           *)
(* soakRobot.js lets it go on only when its queue is empty.                *)
(***************************************************************************)
THEOREM ScriptAsksForOneAtATime == FloorSpec => []ScriptAsksOneByOne
<1>1. FloorInv => ScriptAsksOneByOne
  BY DEF FloorInv, ScriptInv
<1> QED
  BY <1>1, FloorInvariance, PTL
=============================================================================
