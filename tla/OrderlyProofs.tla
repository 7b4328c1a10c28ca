---------------------------- MODULE OrderlyProofs ----------------------------
(***************************************************************************)
(* Proofs that the requests of the web front keep the maneuvers and the    *)
(* boxes of the picking zone apart, for every number of interventions.     *)
(*                                                                         *)
(* The books say of a slot in use which order claims it (IInv).  Under     *)
(* Orderly the converse holds too: an unfinished physical order that has a *)
(* slot is the one the slot names.  Two orders then cannot use one slot.   *)
(* The converse needs that nobody retries an order that is not in ERROR,   *)
(* also not by a retry that comes back late.                               *)
(***************************************************************************)
EXTENDS OrchestratorProofs

Unfinished == {"PENDING", "IN_PROGRESS", "ERROR"}

RetriesFollowFailures ==
    \A o \in OrderIds :
        retrying[o] > 0 => orders[o].status = "ERROR" /\ retrying[o] = 1

MovesAreInProgress ==
    \A r \in Robots : pc[r] = "step" => orders[hand[r]].status = "IN_PROGRESS"

UsesSlot(o) ==
    /\ orders[o].status \in Unfinished
    /\ ~orders[o].logical /\ orders[o].slot # NoSlot

\* The slot names the order; a PICK finds no box on it.
HoldsItsSlot(o) ==
    UsesSlot(o) =>
        LET slot == slots[orders[o].slot] IN
        /\ slot.status \in Held /\ slot.by = o
        /\ orders[o].type = "PICK" => slot.box = NoHome

OrdersHoldTheirSlots == \A o \in OrderIds : HoldsItsSlot(o)

FreeSlotsAreBare ==
    \A s \in Slots : slots[s].status = "LIBRE" => slots[s].box = NoHome

OccupantsAreKnown ==
    \A s \in Slots : slots[s].status = "OCUPADO" => Exists(slots[s].by)

OrderlyInv ==
    /\ IInv
    /\ RetriesFollowFailures
    /\ MovesAreInProgress
    /\ OrdersHoldTheirSlots
    /\ FreeSlotsAreBare
    /\ OccupantsAreKnown

-----------------------------------------------------------------------------
(***************************************************************************)
(* What a step that is about order o does to the zone: it leaves the slots *)
(* of the others alone, and a box where it is, or takes it away.           *)
(***************************************************************************)
SameOccupant(t) ==
    /\ slots[t].status = "OCUPADO"
    /\ slots'[t].by = slots[t].by /\ slots'[t].box = slots[t].box

SlotFollows(o, t) ==
    /\ slots[t].status \in Held /\ slots[t].by # o => slots'[t] = slots[t]
    /\ slots'[t].status = "LIBRE" => slots'[t].box = NoHome
    /\ slots'[t].status = "OCUPADO" => SameOccupant(t) \/ slots'[t].by = o
    /\ slots[t].box # NoHome => slots'[t].box \in {slots[t].box, NoHome}

ZoneEffect(o) ==
    /\ o \in OrderIds /\ orders'[o].status # "ABSENT"
    /\ \A p \in OrderIds : p # o => orders'[p] = orders[p]
    /\ HoldsItsSlot(o)'
    /\ \A t \in Slots : SlotFollows(o, t)

(***************************************************************************)
(* A slot that is not touched is as it should be.                          *)
(***************************************************************************)
LEMMA UntouchedSlotFollows ==
    ASSUME FreeSlotsAreBare, NEW o, NEW t \in Slots, slots'[t] = slots[t]
    PROVE  SlotFollows(o, t)
BY DEF FreeSlotsAreBare, SlotFollows, SameOccupant

(***************************************************************************)
(* Such a step keeps the zone in order.                                    *)
(***************************************************************************)
LEMMA ZoneEffectKeepsZone ==
    ASSUME OrderlyInv, NEW o, ZoneEffect(o)
    PROVE  OrdersHoldTheirSlots' /\ FreeSlotsAreBare' /\ OccupantsAreKnown'
<1>1. TypeOK /\ o \in OrderIds
  BY DEF OrderlyInv, IInv, Books, ZoneEffect
<1>2. FreeSlotsAreBare'
  BY DEF ZoneEffect, SlotFollows, FreeSlotsAreBare
<1>3. OccupantsAreKnown'
  BY <1>1 DEF OrderlyInv, OccupantsAreKnown, ZoneEffect, SlotFollows,
              SameOccupant, Exists
<1>4. ASSUME NEW p \in OrderIds, p # o, UsesSlot(p)' PROVE HoldsItsSlot(p)'
  <2>1. orders'[p] = orders[p] /\ UsesSlot(p)
    BY <1>4 DEF ZoneEffect, UsesSlot
  <2>2. orders[p].slot \in Slots
    BY <1>1, <2>1 DEF UsesSlot, TypeOK, Order
  <2>3. slots[orders[p].slot].status \in Held /\ slots[orders[p].slot].by = p
    BY <2>1 DEF OrderlyInv, OrdersHoldTheirSlots, HoldsItsSlot
  <2>4. slots'[orders[p].slot] = slots[orders[p].slot]
    BY <1>4, <2>2, <2>3 DEF ZoneEffect, SlotFollows
  <2> QED
    BY <2>1, <2>4 DEF OrderlyInv, OrdersHoldTheirSlots, HoldsItsSlot
<1>5. OrdersHoldTheirSlots'
  <2> SUFFICES ASSUME NEW p \in OrderIds PROVE HoldsItsSlot(p)'
    BY DEF OrdersHoldTheirSlots
  <2>1. ~UsesSlot(p)' => HoldsItsSlot(p)'
    BY DEF HoldsItsSlot
  <2> QED
    BY <1>4, <2>1 DEF ZoneEffect
<1> QED
  BY <1>2, <1>3, <1>5

(***************************************************************************)
(* A step of the work on an order, in slot s whose record is `book[s]' by  *)
(* then.                                                                   *)
(***************************************************************************)
LEMMA WorkHasZoneEffect ==
    ASSUME OrderlyInv, NEW r \in Robots, NEW o \in OrderIds,
           ~orders[o].logical,
           NEW s \in Slots, NEW book \in [Slots -> Slot],
           \A t \in Slots : t # s => book[t] = slots[t],
           book[s].status \in Held, book[s].by = o, book[s].box = slots[s].box,
           orders[o].type = "PICK" => slots[s].box = NoHome,
           slots[s].status \in Held => slots[s].by = o,
           Work(r, o, Started(o, s), book)
    PROVE  /\ ZoneEffect(o)
           /\ pc'[r] = "step" => orders'[o].status = "IN_PROGRESS"
<1> DEFINE ord == Started(o, s)
<1>1. /\ orders[o] \in Order /\ TypeOK /\ pc \in [Robots -> Points]
      /\ \A t \in Slots : slots[t] \in Slot
      /\ FreeSlotsAreBare
  BY DEF OrderlyInv, IInv, Books, TypeOK
<1>2. /\ ord.status = "IN_PROGRESS" /\ ord.slot = s /\ ~ord.logical
      /\ ord.type = orders[o].type /\ ord.home = orders[o].home
      /\ ord \in Order
  BY <1>1 DEF Started, Order, Status
<1> HIDE DEF ord
<1>3. CASE FinishPhysical(r, o, ord, book)
  <2> DEFINE left == IF ord.type = "PICK" THEN Occupied(o, ord.home)
                     ELSE ClearSlot
  <2>1. /\ orders'[o].status = "DONE" /\ pc'[r] = "cleared"
        /\ \A p \in OrderIds : p # o => orders'[p] = orders[p]
    BY <1>1, <1>2, <1>3 DEF FinishPhysical, TypeOK, Order
  <2>2. slots'[s] = left /\ \A t \in Slots : t # s => slots'[t] = slots[t]
    BY <1>2, <1>3 DEF FinishPhysical
  <2>3. SlotFollows(o, s)
    BY <1>2, <2>2 DEF SlotFollows, SameOccupant, Occupied, ClearSlot
  <2> HIDE DEF left
  <2>4. \A t \in Slots : SlotFollows(o, t)
    BY <1>1, <2>2, <2>3, UntouchedSlotFollows
  <2>5. HoldsItsSlot(o)'
    BY <2>1 DEF HoldsItsSlot, UsesSlot, Unfinished
  <2> QED
    BY <2>1, <2>4, <2>5 DEF ZoneEffect
<1>4. CASE StartStep(r, o, ord, book) \/ LoopDies(r, o, ord, book)
  <2> DEFINE left == InProgress(book[s], ord, o)
  <2>1. orders'[o] = ord /\ \A p \in OrderIds : p # o => orders'[p] = orders[p]
    BY <1>1, <1>4 DEF StartStep, LoopDies, TypeOK
  <2>2. slots'[s] = left /\ \A t \in Slots : t # s => slots'[t] = slots[t]
    BY <1>2, <1>4 DEF StartStep, LoopDies
  <2>3. left.status \in Held /\ left.by = o /\ left.box = slots[s].box
    BY NoOrderIsNone DEF InProgress, WithStatus, Slot, Held
  <2> HIDE DEF left
  <2>4. SlotFollows(o, s)
    BY <2>2, <2>3 DEF SlotFollows, Held
  <2>5. \A t \in Slots : SlotFollows(o, t)
    BY <1>1, <2>2, <2>4, UntouchedSlotFollows
  <2>6. HoldsItsSlot(o)'
    BY <1>2, <2>1, <2>2, <2>3 DEF HoldsItsSlot
  <2> QED
    BY <1>2, <2>1, <2>5, <2>6 DEF ZoneEffect
<1> QED
  BY <1>3, <1>4 DEF Work, ord

(***************************************************************************)
(* An occupied slot whose stack changes keeps its box and its claim.       *)
(***************************************************************************)
LEMMA RestackedSlotFollows ==
    ASSUME OrderlyInv, NEW o, NEW s \in Slots, slots[s].status = "OCUPADO",
           NEW d, slots' = [slots EXCEPT ![s] = [slots[s] EXCEPT !.depth = d]]
    PROVE  \A t \in Slots : SlotFollows(o, t)
<1>1. slots \in [Slots -> Slot] /\ FreeSlotsAreBare
  BY DEF OrderlyInv, IInv, Books, TypeOK
<1>2. /\ slots'[s].status = slots[s].status /\ slots'[s].by = slots[s].by
      /\ slots'[s].box = slots[s].box
      /\ \A t \in Slots : t # s => slots'[t] = slots[t]
  BY <1>1 DEF Slot
<1>3. SlotFollows(o, s)
  BY <1>2 DEF SlotFollows, SameOccupant, Held
<1> QED
  BY <1>1, <1>2, <1>3, UntouchedSlotFollows

(***************************************************************************)
(* processOrder works on one order, and a robot that moves after it moves  *)
(* for an order in progress.                                               *)
(***************************************************************************)
LEMMA ProcessOrderHasZoneEffect ==
    ASSUME OrderlyInv, NEW r \in Robots, NEW o \in OrderIds, Owned(o, r),
           ProcessOrder(r, o)
    PROVE  /\ ZoneEffect(o)
           /\ pc'[r] = "step" => orders'[o].status = "IN_PROGRESS"
<1>1. /\ orders[o] \in Order /\ orders[o].status # "ABSENT" /\ TypeOK
      /\ pc \in [Robots -> Points] /\ slots \in [Slots -> Slot]
      /\ FreeSlotsAreBare /\ HoldsItsSlot(o)
  BY DEF OrderlyInv, IInv, Books, TypeOK, Owned, OrdersHoldTheirSlots
<1>2. CASE JoinStack(r, o)
  <2>1. PICK s \in Slots :
          LET ord == [orders[o] EXCEPT !.slot = s, !.logical = TRUE]
              book == [slots EXCEPT ![s] = Stacked(slots[s])]
          IN  /\ slots[s].status = "OCUPADO"
              /\ SkipSettled(r, o, ord, book) \/ FinishLogical(r, o, ord, book)
    BY <1>2 DEF JoinStack, OccupiedFrom
  <2>2. /\ orders'[o].status \in Settled /\ orders'[o].logical
        /\ \A p \in OrderIds : p # o => orders'[p] = orders[p]
        /\ slots' = [slots EXCEPT ![s] = Stacked(slots[s])]
        /\ pc'[r] = "cleared"
    <3> DEFINE ord == [orders[o] EXCEPT !.slot = s, !.logical = TRUE]
               new == IF orders[o].status \in Settled THEN ord
                      ELSE [ord EXCEPT !.status = "DONE"]
    <3>1. new.status \in Settled /\ new.logical
      BY <1>1 DEF Order, Settled
    <3>2. /\ orders' = [orders EXCEPT ![o] = new]
          /\ slots' = [slots EXCEPT ![s] = Stacked(slots[s])]
          /\ pc' = [pc EXCEPT ![r] = "cleared"]
      BY <1>1, <2>1 DEF SkipSettled, FinishLogical, Order
    <3> HIDE DEF new
    <3> QED
      BY <1>1, <3>1, <3>2 DEF TypeOK
  <2>5. \A t \in Slots : SlotFollows(o, t)
    BY <2>1, <2>2, RestackedSlotFollows DEF Stacked
  <2>6. HoldsItsSlot(o)'
    BY <2>2 DEF HoldsItsSlot, UsesSlot
  <2> QED
    BY <2>2, <2>5, <2>6 DEF ZoneEffect, Settled
<1>3. CASE SkipSettled(r, o, orders[o], slots)
  <2>1. orders' = orders /\ slots' = slots /\ pc'[r] = "cleared"
    BY <1>1, <1>3 DEF SkipSettled, TypeOK
  <2>2. \A t \in Slots : SlotFollows(o, t)
    BY <1>1, <2>1, UntouchedSlotFollows
  <2>3. HoldsItsSlot(o)'
    BY <1>1, <2>1 DEF HoldsItsSlot, UsesSlot
  <2> QED
    BY <1>1, <2>1, <2>2, <2>3 DEF ZoneEffect
<1>4. CASE FinishLogical(r, o, orders[o], slots)
  <2>1. /\ orders'[o].status = "DONE" /\ pc'[r] = "cleared" /\ slots' = slots
        /\ \A p \in OrderIds : p # o => orders'[p] = orders[p]
    BY <1>1, <1>4 DEF FinishLogical, TypeOK, Order
  <2>2. \A t \in Slots : SlotFollows(o, t)
    BY <1>1, <2>1, UntouchedSlotFollows
  <2>3. HoldsItsSlot(o)'
    BY <2>1 DEF HoldsItsSlot, UsesSlot, Unfinished
  <2> QED
    BY <2>1, <2>2, <2>3 DEF ZoneEffect
<1>5. CASE Defer(r, o)
  <2>1. /\ orders'[o].status = "PENDING" /\ orders'[o].slot = NoSlot
        /\ \A p \in OrderIds : p # o => orders'[p] = orders[p]
        /\ slots' = slots /\ pc'[r] = "requeue"
    BY <1>1, <1>5 DEF Defer, TypeOK, Order
  <2>2. \A t \in Slots : SlotFollows(o, t)
    BY <1>1, <2>1, UntouchedSlotFollows
  <2>3. HoldsItsSlot(o)'
    BY <2>1 DEF HoldsItsSlot, UsesSlot
  <2> QED
    BY <2>1, <2>2, <2>3 DEF ZoneEffect
<1>6. CASE WorkInAssignedSlot(r, o)
  <2>1. PICK s \in FreeBeside(orders[o].home) :
          Work(r, o, Started(o, s), [slots EXCEPT ![s] = Reserved(slots[s], o)])
    BY <1>6 DEF WorkInAssignedSlot
  <2> DEFINE book == [slots EXCEPT ![s] = Reserved(slots[s], o)]
  <2>2. /\ s \in Slots /\ slots[s] \in Slot
        /\ slots[s].status = "LIBRE" /\ slots[s].box = NoHome
    BY <1>1 DEF FreeBeside, FreeSlotsAreBare
  <2>3. /\ Reserved(slots[s], o) \in Slot
        /\ Reserved(slots[s], o).status = "RESERVADO"
        /\ Reserved(slots[s], o).by = o /\ Reserved(slots[s], o).box = NoHome
    BY <2>2 DEF Reserved, Slot, SlotStatus
  <2>4. /\ book \in [Slots -> Slot]
        /\ book[s].status \in Held /\ book[s].by = o
        /\ book[s].box = slots[s].box
        /\ \A t \in Slots : t # s => book[t] = slots[t]
    BY <1>1, <2>2, <2>3 DEF Held
  <2>5. ~orders[o].logical
    BY <1>6 DEF WorkInAssignedSlot
  <2>6. Work(r, o, Started(o, s), book)
    BY <2>1
  <2> HIDE DEF book
  <2> QED
    BY <2>2, <2>4, <2>5, <2>6, WorkHasZoneEffect DEF Held
<1>7. CASE WorkInOwnSlot(r, o)
  <2>1. orders[o].slot \in Slots /\ ~orders[o].logical
        /\ Work(r, o, Started(o, orders[o].slot), slots)
    BY <1>1, <1>7 DEF WorkInOwnSlot, Order
  <2>2. UsesSlot(o)
    BY <1>1, <1>7 DEF WorkInOwnSlot, UsesSlot, Order, Status, Settled, Unfinished
  <2>3. /\ slots[orders[o].slot].status \in Held
        /\ slots[orders[o].slot].by = o
        /\ orders[o].type = "PICK" => slots[orders[o].slot].box = NoHome
    BY <1>1, <2>2 DEF HoldsItsSlot
  <2> QED
    BY <1>1, <2>1, <2>3, WorkHasZoneEffect
<1> QED
  BY <1>2, <1>3, <1>4, <1>5, <1>6, <1>7 DEF ProcessOrder

(***************************************************************************)
(* A new order comes without a slot or reserves the one of its box.        *)
(***************************************************************************)
LEMMA SubmitHasZoneEffect ==
    ASSUME OrderlyInv, OrderlyRequests, NEW r \in Robots, Submit(r)
    PROVE  \E o : ZoneEffect(o)
<1>1. TypeOK /\ slots \in [Slots -> Slot] /\ FreeSlotsAreBare
  BY DEF OrderlyInv, IInv, Books, TypeOK
<1>2. PICK ext \in ExternalIds \cup {NoExternalId} :
        \/ \E home \in Homes, want \in Slots \cup {NoSlot} :
             SubmitPick(r, home, want, ext)
        \/ \E home \in Unreachable \cup {NoHome}, s \in Slots :
             SubmitPut(r, home, s, ext)
  BY DEF Submit
<1>3. ASSUME NEW o \in NextId, NEW new, Accept(o, new), new.status = "PENDING",
             UsesSlot(o)' => HoldsItsSlot(o)',
             \A t \in Slots : SlotFollows(o, t)
      PROVE  ZoneEffect(o)
  <2>1. o \in OrderIds /\ orders' = [orders EXCEPT ![o] = new]
    BY <1>3 DEF NextId, Accept
  <2>2. HoldsItsSlot(o)'
    BY <1>3 DEF HoldsItsSlot
  <2> QED
    BY <1>1, <1>3, <2>1, <2>2 DEF ZoneEffect, TypeOK
<1>4. ASSUME NEW o \in NextId, NEW new, Accept(o, new), new.status = "PENDING"
      PROVE  /\ orders'[o] = new
             /\ IF new.type = "PICK" THEN new.logical \/ new.slot = NoSlot
                ELSE slots[new.slot].status = "OCUPADO"
  <2>1. o \in OrderIds /\ ~Exists(o) /\ orders'[o] = new
    BY <1>1, <1>4 DEF NextId, Accept, Exists, TypeOK
  <2> QED
    BY <1>4, <2>1 DEF OrderlyRequests, Exists
<1>5. ASSUME NEW home \in Homes, NEW want \in Slots \cup {NoSlot},
             SubmitPick(r, home, want, ext)
      PROVE  \E o : ZoneEffect(o)
  <2>1. PICK o \in NextId :
          \/ /\ Accept(o, NewOrder("PICK", r, home, want, ext))
             /\ UNCHANGED slots
          \/ \E s \in OccupiedFrom(slots, home) :
               /\ slots' = [slots EXCEPT ![s] = Stacked(slots[s])]
               /\ Accept(o, [NewOrder("PICK", r, home, s, ext)
                               EXCEPT !.logical = TRUE])
    BY <1>5 DEF SubmitPick
  <2>2. CASE Accept(o, NewOrder("PICK", r, home, want, ext)) /\ UNCHANGED slots
    <3> DEFINE new == NewOrder("PICK", r, home, want, ext)
    <3>1. new.status = "PENDING" /\ new.type = "PICK"
      BY DEF NewOrder
    <3>2. \A t \in Slots : SlotFollows(o, t)
      BY <1>1, <2>2, UntouchedSlotFollows
    <3> HIDE DEF new
    <3>3. ~UsesSlot(o)'
      BY <1>4, <2>2, <3>1 DEF UsesSlot, new
    <3> QED
      BY <1>3, <2>2, <3>1, <3>2, <3>3 DEF new
  <2>3. ASSUME NEW s \in OccupiedFrom(slots, home),
               slots' = [slots EXCEPT ![s] = Stacked(slots[s])],
               Accept(o, [NewOrder("PICK", r, home, s, ext)
                            EXCEPT !.logical = TRUE])
        PROVE  \E x : ZoneEffect(x)
    <3> DEFINE new ==
          [NewOrder("PICK", r, home, s, ext) EXCEPT !.logical = TRUE]
    <3>1. new.status = "PENDING" /\ new.logical
      BY DEF NewOrder
    <3>2. \A t \in Slots : SlotFollows(o, t)
      BY <2>3, RestackedSlotFollows DEF OccupiedFrom, Stacked
    <3> HIDE DEF new
    <3>3. ~UsesSlot(o)'
      BY <1>4, <2>3, <3>1 DEF UsesSlot, new
    <3> QED
      BY <1>3, <2>3, <3>1, <3>2, <3>3 DEF new
  <2> QED
    BY <2>1, <2>2, <2>3
<1>6. ASSUME NEW home \in Unreachable \cup {NoHome}, NEW s \in Slots,
             SubmitPut(r, home, s, ext)
      PROVE  \E o : ZoneEffect(o)
  <2> DEFINE ord == NewOrder("PUT", r, home, s, ext)
  <2>1. PICK o \in NextId :
          \/ /\ slots' = [slots EXCEPT ![s] = Unstacked(slots[s])]
             /\ Accept(o, [ord EXCEPT !.logical = TRUE])
          \/ /\ ReservableForPut(slots[s])
             /\ slots' = [slots EXCEPT ![s] = Reserved(slots[s], o)]
             /\ Accept(o, ord)
          \/ /\ ~ReservableForPut(slots[s])
             /\ Accept(o, [ord EXCEPT !.waiting = TRUE])
    BY <1>6 DEF SubmitPut
  <2>2. /\ ord.status = "PENDING" /\ ord.type = "PUT" /\ ord.slot = s
        /\ [ord EXCEPT !.logical = TRUE].status = "PENDING"
        /\ [ord EXCEPT !.logical = TRUE].type = "PUT"
        /\ [ord EXCEPT !.logical = TRUE].slot = s
        /\ [ord EXCEPT !.logical = TRUE].logical
        /\ [ord EXCEPT !.waiting = TRUE].status = "PENDING"
        /\ [ord EXCEPT !.waiting = TRUE].type = "PUT"
        /\ [ord EXCEPT !.waiting = TRUE].slot = s
    BY DEF NewOrder
  <2> HIDE DEF ord
  <2>3. slots[s].status = "OCUPADO" /\ ReservableForPut(slots[s])
    <3>1. \E new : /\ Accept(o, new) /\ new.status = "PENDING"
                   /\ new.type = "PUT" /\ new.slot = s
      BY <2>1, <2>2
    <3>2. slots[s].status = "OCUPADO"
      BY <1>4, <3>1
    <3> QED
      BY <3>2 DEF ReservableForPut
  <2>4. CASE /\ slots' = [slots EXCEPT ![s] = Unstacked(slots[s])]
             /\ Accept(o, [ord EXCEPT !.logical = TRUE])
    <3>1. \A t \in Slots : SlotFollows(o, t)
      BY <2>3, <2>4, RestackedSlotFollows DEF Unstacked
    <3>2. ~UsesSlot(o)'
      BY <1>4, <2>2, <2>4 DEF UsesSlot
    <3> QED
      BY <1>3, <2>2, <2>4, <3>1, <3>2
  <2>5. CASE /\ slots' = [slots EXCEPT ![s] = Reserved(slots[s], o)]
             /\ Accept(o, ord)
    <3>1. /\ slots'[s].status = "RESERVADO" /\ slots'[s].by = o
          /\ slots'[s].box = slots[s].box
          /\ \A t \in Slots : t # s => slots'[t] = slots[t]
      BY <1>1, <2>5 DEF Reserved, Slot
    <3>2. SlotFollows(o, s)
      BY <2>3, <3>1 DEF SlotFollows, Held
    <3>3. \A t \in Slots : SlotFollows(o, t)
      BY <1>1, <3>1, <3>2, UntouchedSlotFollows
    <3>4. UsesSlot(o)' => HoldsItsSlot(o)'
      BY <1>4, <2>2, <2>5, <3>1 DEF HoldsItsSlot, Held
    <3> QED
      BY <1>3, <2>2, <2>5, <3>3, <3>4
  <2> QED
    BY <2>1, <2>3, <2>4, <2>5
<1> QED
  BY <1>2, <1>5, <1>6

(***************************************************************************)
(* What a step does to the zone, to the retries on their way and to the    *)
(* orders of the robots that move.                                         *)
(***************************************************************************)
OrderlyEffect ==
    /\ \/ UNCHANGED <<orders, slots>>
       \/ \E o : ZoneEffect(o)
    /\ RetriesFollowFailures' /\ MovesAreInProgress'

(***************************************************************************)
(* A loop's step.                                                          *)
(***************************************************************************)
LEMMA ResumeIsOrderly ==
    ASSUME OrderlyInv, NEW r \in Robots, Resume(r) PROVE OrderlyEffect
<1>1. /\ TypeOK /\ Books /\ LoopEffect(r)
      /\ \A q \in Robots \ {r} : pc'[q] = pc[q] /\ hand'[q] = hand[q]
  BY ResumeHasLoopEffect, ResumeMovesOneLoop DEF OrderlyInv, IInv, Books
<1>2. retrying' = retrying
  BY DEF Resume, NothingToDo, Dequeue, Activate, ResumeActive,
         ProcessActivated, Requeue, FreeRobot, RobotFails
<1>3. RetriesFollowFailures'
  BY <1>1, <1>2 DEF OrderlyInv, RetriesFollowFailures, LoopEffect, Settled
<1>4. \A q \in Robots : pc[q] = "step" => Owned(hand[q], q)
  BY <1>1 DEF Books, LoopsOwnTheirOrders
<1>5. ASSUME NEW o \in OrderIds, Owned(o, r), hand'[r] = o, ProcessOrder(r, o)
      PROVE  OrderlyEffect
  <2>1. ZoneEffect(o) /\ (pc'[r] = "step" => orders'[o].status = "IN_PROGRESS")
    BY <1>5, ProcessOrderHasZoneEffect
  <2>2. ASSUME NEW q \in Robots, pc'[q] = "step", q # r
        PROVE  orders'[hand'[q]].status = "IN_PROGRESS"
    <3>1. /\ pc[q] = "step" /\ hand'[q] = hand[q]
          /\ hand[q] # o /\ hand[q] \in OrderIds
      BY <1>1, <1>4, <1>5, <2>2 DEF Owned, Books, LoopsOwnTheirOrders
    <3> QED
      BY <2>1, <3>1 DEF ZoneEffect, OrderlyInv, MovesAreInProgress
  <2> QED
    BY <1>3, <1>5, <2>1, <2>2 DEF OrderlyEffect, MovesAreInProgress
<1>6. CASE ResumeActive(r)
  <2>1. /\ queues[r].active \in OrderIds /\ Owned(queues[r].active, r)
        /\ hand'[r] = queues[r].active
    BY <1>1, <1>6 DEF Books, TypeOK, Queue, QueuesOwnTheirOrders, ResumeActive
  <2> QED
    BY <1>5, <1>6, <2>1 DEF ResumeActive
<1>7. CASE ProcessActivated(r)
  <2>1. hand[r] \in OrderIds /\ Owned(hand[r], r) /\ hand'[r] = hand[r]
    BY <1>1, <1>7 DEF Books, LoopsOwnTheirOrders, ProcessActivated
  <2> QED
    BY <1>5, <1>7, <2>1 DEF ProcessActivated
<1>8. CASE NothingToDo(r) \/ Dequeue(r) \/ Activate(r) \/ Requeue(r)
           \/ FreeRobot(r) \/ RobotFails(r)
  <2>1. UNCHANGED <<orders, slots>> /\ pc'[r] # "step"
    BY <1>1, <1>8 DEF NothingToDo, Dequeue, Activate, Requeue, FreeRobot,
                      RobotFails, bookVars, Continue, TypeOK
  <2> QED
    BY <1>1, <1>3, <2>1 DEF OrderlyEffect, OrderlyInv, MovesAreInProgress
<1> QED
  BY <1>6, <1>7, <1>8 DEF Resume

(***************************************************************************)
(* The end of a step.                                                      *)
(***************************************************************************)
LEMMA PlcAnswersIsOrderly ==
    ASSUME OrderlyInv, NEW r \in Robots, PlcAnswers(r) PROVE OrderlyEffect
<1>0. PICK o \in OrderIds : o = hand[r] /\ pc[r] = "step"
  BY DEF OrderlyInv, IInv, Books, LoopsOwnTheirOrders, PlcAnswers, StepDone,
         StepFails
<1> DEFINE s == orders[o].slot
<1>1. /\ TypeOK /\ FreeSlotsAreBare /\ slots \in [Slots -> Slot]
      /\ orders[o] \in Order
      /\ orders[o].status = "IN_PROGRESS"
      /\ s \in Slots /\ ~orders[o].logical
      /\ \A q \in Robots : pc[q] = "step" =>
            hand[q] \in OrderIds /\ orders[hand[q]].robot = q
      /\ UNCHANGED <<hand, retrying>>
      /\ \E p : pc' = [pc EXCEPT ![r] = p] /\ p # "step"
  BY <1>0
     DEF OrderlyInv, IInv, Books, TypeOK, LoopsOwnTheirOrders, Owned, Order,
         StepsArePhysical, MovesAreInProgress, PlcAnswers, StepDone, StepFails,
         Continue
<1>2. /\ slots[s].status \in Held /\ slots[s].by = o
      /\ orders[o].type = "PICK" => slots[s].box = NoHome
      /\ UsesSlot(o)
  BY <1>1, SlotsAssumption DEF OrderlyInv, OrdersHoldTheirSlots, HoldsItsSlot,
         UsesSlot, Unfinished
<1>3. ASSUME NEW new, orders' = [orders EXCEPT ![o] = new],
             new.status \in {"IN_PROGRESS", "ERROR"}
      PROVE  RetriesFollowFailures' /\ MovesAreInProgress'
  BY <1>0, <1>1, <1>3 DEF TypeOK, OrderlyInv, RetriesFollowFailures, MovesAreInProgress
<1>4. CASE StepDone(r)
  <2> DEFINE new == [orders[o] EXCEPT !.idx = at[r] + 1]
  <2>1. /\ orders' = [orders EXCEPT ![o] = new] /\ slots' = slots
        /\ new.status = "IN_PROGRESS" /\ new.slot = s
        /\ new.type = orders[o].type
    BY <1>0, <1>1, <1>4 DEF StepDone, Order
  <2> HIDE DEF new
  <2>2. /\ orders'[o] = new
        /\ \A p \in OrderIds : p # o => orders'[p] = orders[p]
    BY <1>1, <2>1 DEF TypeOK
  <2>3. HoldsItsSlot(o)'
    BY <1>2, <2>1, <2>2 DEF HoldsItsSlot
  <2>4. \A t \in Slots : SlotFollows(o, t)
    BY <1>1, <2>1, UntouchedSlotFollows
  <2>5. ZoneEffect(o)
    BY <1>1, <2>1, <2>2, <2>3, <2>4 DEF ZoneEffect
  <2> QED
    BY <1>3, <2>1, <2>5 DEF OrderlyEffect
<1>5. CASE StepFails(r)
  <2> DEFINE new == [orders[o] EXCEPT !.status = "ERROR"]
             left == Blocked(slots[s], o)
  <2>1. /\ orders' = [orders EXCEPT ![o] = new]
        /\ slots' = [slots EXCEPT ![s] = left]
        /\ new.status = "ERROR" /\ new.slot = s /\ new.type = orders[o].type
    BY <1>0, <1>1, <1>5 DEF StepFails, Order
  <2>2. left.status = "ERROR" /\ left.by = o /\ left.box = slots[s].box
    BY <1>1, NoOrderIsNone DEF Blocked, WithStatus, Slot
  <2> HIDE DEF new, left
  <2>3. /\ orders'[o] = new
        /\ \A p \in OrderIds : p # o => orders'[p] = orders[p]
        /\ slots'[s] = left /\ \A t \in Slots : t # s => slots'[t] = slots[t]
    BY <1>1, <2>1 DEF TypeOK
  <2>4. HoldsItsSlot(o)'
    BY <1>2, <2>1, <2>2, <2>3 DEF HoldsItsSlot, Held
  <2>5. SlotFollows(o, s)
    BY <1>2, <2>2, <2>3 DEF SlotFollows
  <2>6. \A t \in Slots : SlotFollows(o, t)
    BY <1>1, <2>3, <2>5, UntouchedSlotFollows
  <2>7. ZoneEffect(o)
    BY <1>1, <2>1, <2>3, <2>4, <2>6 DEF ZoneEffect
  <2> QED
    BY <1>3, <2>1, <2>7 DEF OrderlyEffect
<1> QED
  BY <1>4, <1>5 DEF PlcAnswers

(***************************************************************************)
(* A new order.                                                            *)
(***************************************************************************)
LEMMA SubmitIsOrderly ==
    ASSUME OrderlyInv, OrderlyRequests, NEW r \in Robots, Submit(r)
    PROVE  OrderlyEffect
<1>1. TypeOK /\ Books
  BY DEF OrderlyInv, IInv, Books
<1>2. PICK o \in OrderIds :
        /\ orders[o].status = "ABSENT"
        /\ \A p \in OrderIds : p # o => orders'[p] = orders[p]
        /\ \A q \in Robots : pc'[q] = "step" => pc[q] = "step"
        /\ UNCHANGED <<hand, retrying>>
  BY <1>1, SubmitAddsOne DEF AddsOne
<1>3. RetriesFollowFailures'
  BY <1>1, <1>2 DEF OrderlyInv, RetriesFollowFailures
<1>4. MovesAreInProgress'
  BY <1>1, <1>2 DEF OrderlyInv, MovesAreInProgress, Books, LoopsOwnTheirOrders
<1> QED
  BY <1>3, <1>4, SubmitHasZoneEffect DEF OrderlyEffect

(***************************************************************************)
(* A retry comes back: the order was in ERROR ever since it was asked for. *)
(***************************************************************************)
LEMMA RetryEndsIsOrderly ==
    ASSUME OrderlyInv, NEW o \in OrderIds, RetryEnds(o) PROVE OrderlyEffect
<1> DEFINE new == [orders[o] EXCEPT !.status = "PENDING", !.idx = 0,
                                    !.waiting = FALSE]
<1>1. /\ TypeOK /\ Books /\ FreeSlotsAreBare
      /\ orders[o] \in Order /\ orders[o].status = "ERROR" /\ retrying[o] = 1
      /\ HoldsItsSlot(o)
  BY DEF OrderlyInv, IInv, Books, TypeOK, RetriesFollowFailures, RetryEnds,
         OrdersHoldTheirSlots
<1>2. /\ orders' = [orders EXCEPT ![o] = new] /\ slots' = slots
      /\ retrying' = [retrying EXCEPT ![o] = 0] /\ hand' = hand
      /\ \A q \in Robots : pc'[q] = "step" => pc[q] = "step"
  <2>1. orders[o].robot \in Robots /\ retrying[o] - 1 = 0
    BY <1>1 DEF Order
  <2>2. \A q \in Robots : Kicked(orders[o].robot)[q] = "step" => pc[q] = "step"
    BY <1>1, <2>1, KickedOp DEF TypeOK
  <2> QED
    BY <1>1, <2>1, <2>2 DEF RetryEnds
<1>3. /\ new.status = "PENDING" /\ new.slot = orders[o].slot
      /\ new.type = orders[o].type /\ new.logical = orders[o].logical
  BY <1>1 DEF Order
<1> HIDE DEF new
<1>4. /\ orders'[o] = new
      /\ \A p \in OrderIds : p # o => orders'[p] = orders[p]
  BY <1>1, <1>2 DEF TypeOK
<1>5. HoldsItsSlot(o)'
  BY <1>1, <1>2, <1>3, <1>4 DEF HoldsItsSlot, UsesSlot, Unfinished
<1>6. \A t \in Slots : SlotFollows(o, t)
  BY <1>1, <1>2, UntouchedSlotFollows
<1>7. RetriesFollowFailures'
  BY <1>1, <1>2, <1>4 DEF OrderlyInv, RetriesFollowFailures, TypeOK
<1>8. MovesAreInProgress'
  BY <1>1, <1>2, <1>4 DEF OrderlyInv, MovesAreInProgress, Books,
                          LoopsOwnTheirOrders
<1> QED
  BY <1>3, <1>4, <1>5, <1>6, <1>7, <1>8 DEF OrderlyEffect, ZoneEffect

(***************************************************************************)
(* A retry that goes out, or comes back with nothing done.                 *)
(***************************************************************************)
LEMMA RetryOnItsWayIsOrderly ==
    ASSUME OrderlyInv, OrderlyRequests, NEW o \in OrderIds,
           RetryBegins(o) \/ RetryFails(o)
    PROVE  OrderlyEffect
<1>1. TypeOK /\ UNCHANGED <<orders, slots, pc, hand>>
  BY DEF OrderlyInv, IInv, Books, RetryBegins, RetryFails, bookVars, loopVars
<1>2. MovesAreInProgress'
  BY <1>1 DEF OrderlyInv, MovesAreInProgress
<1>3. CASE RetryBegins(o)
  <2>1. retrying' = [retrying EXCEPT ![o] = retrying[o] + 1]
        /\ retrying[o] \in Nat /\ retrying'[o] = retrying[o] + 1
    BY <1>1, <1>3 DEF RetryBegins, TypeOK
  <2>2. orders[o].status = "ERROR" /\ retrying[o] = 0
    BY <2>1 DEF OrderlyRequests
  <2>3. RetriesFollowFailures'
    BY <1>1, <2>1, <2>2 DEF OrderlyInv, RetriesFollowFailures, TypeOK
  <2> QED
    BY <1>1, <1>2, <2>3 DEF OrderlyEffect
<1>4. CASE RetryFails(o)
  <2>1. /\ retrying' = [retrying EXCEPT ![o] = retrying[o] - 1]
        /\ retrying[o] > 0
    BY <1>4 DEF RetryFails
  <2>2. orders[o].status = "ERROR" /\ retrying[o] = 1
    BY <2>1 DEF OrderlyInv, RetriesFollowFailures
  <2>3. RetriesFollowFailures'
    BY <1>1, <2>1, <2>2 DEF OrderlyInv, RetriesFollowFailures, TypeOK
  <2> QED
    BY <1>1, <1>2, <2>3 DEF OrderlyEffect
<1> QED
  BY <1>3, <1>4

(***************************************************************************)
(* An order that still waits is cancelled, or a cancelled one again.       *)
(***************************************************************************)
LEMMA CancelIsOrderly ==
    ASSUME OrderlyInv, OrderlyRequests, NEW o \in OrderIds, CancelOrder(o)
    PROVE  OrderlyEffect
<1> DEFINE new == [orders[o] EXCEPT !.status = "CANCELED"]
<1>1. /\ TypeOK /\ Books /\ FreeSlotsAreBare /\ slots \in [Slots -> Slot]
      /\ orders[o] \in Order
  BY DEF OrderlyInv, IInv, Books, TypeOK
<1>2. /\ orders' = [orders EXCEPT ![o] = new]
      /\ UNCHANGED <<pc, hand, retrying>>
      /\ new.status = "CANCELED"
  BY <1>1 DEF CancelOrder, loopVars, Order
<1> HIDE DEF new
<1>3. /\ orders'[o] = new
      /\ \A p \in OrderIds : p # o => orders'[p] = orders[p]
  BY <1>1, <1>2 DEF TypeOK
<1>4. orders[o].status \in {"PENDING", "CANCELED"}
  BY <1>2, <1>3 DEF OrderlyRequests
<1>5. HoldsItsSlot(o)'
  BY <1>2, <1>3 DEF HoldsItsSlot, UsesSlot, Unfinished
<1>6. \A t \in Slots : SlotFollows(o, t)
  <2>1. CASE orders[o].slot = NoSlot
    BY <1>1, <2>1, UntouchedSlotFollows DEF CancelOrder
  <2>2. CASE orders[o].slot # NoSlot
    <3> DEFINE s == orders[o].slot
               left == GiveBack(slots[s], o)
    <3>1. s \in Slots
      BY <1>1, <2>2 DEF Order
    <3>2. /\ slots'[s] = left
          /\ \A t \in Slots : t # s => slots'[t] = slots[t]
      BY <1>1, <2>2, <3>1 DEF CancelOrder
    <3>3. \/ slots[s].by # o /\ left = slots[s]
          \/ slots[s].by = o /\ left.status = "LIBRE" /\ left.box = NoHome
          \/ /\ slots[s].by = o /\ left.status = "OCUPADO"
             /\ left.by = o /\ left.box = slots[s].box
      BY <1>1, <3>1 DEF GiveBack, ClearSlot, WithStatus, Slot
    <3> HIDE DEF s, left
    <3>4. CASE slots[s].by # o
      BY <1>1, <3>1, <3>2, <3>3, <3>4, UntouchedSlotFollows
    <3>5. CASE slots[s].by = o
      <4>1. SlotFollows(o, s)
        BY <3>2, <3>3, <3>5 DEF SlotFollows
      <4> QED
        BY <1>1, <3>2, <4>1, UntouchedSlotFollows
    <3> QED
      BY <3>4, <3>5
  <2> QED
    BY <2>1, <2>2
<1>7. RetriesFollowFailures'
  BY <1>1, <1>2, <1>3, <1>4 DEF OrderlyInv, RetriesFollowFailures, TypeOK
<1>8. MovesAreInProgress'
  BY <1>1, <1>2, <1>3, <1>4 DEF OrderlyInv, MovesAreInProgress, Books,
                                LoopsOwnTheirOrders
<1> QED
  BY <1>2, <1>3, <1>5, <1>6, <1>7, <1>8 DEF OrderlyEffect, ZoneEffect

-----------------------------------------------------------------------------
(***************************************************************************)
(* The whole invariant, step by step.                                      *)
(***************************************************************************)
LEMMA OrderlyStep ==
    ASSUME OrderlyInv, Next, OrderlyRequests PROVE OrderlyEffect
<1>1. TypeOK
  BY DEF OrderlyInv, IInv, Books
<1>2. CASE Tick \/ (\E s \in Slots : ReleaseSlot(s))
           \/ \E r \in Robots :
                 PauseQueue(r) \/ ResumeQueue(r) \/ RegisterDevice(r)
  <2>1. UNCHANGED <<orders, hand, retrying>>
    BY <1>2 DEF Tick, ReleaseSlot, PauseQueue, ResumeQueue, RegisterDevice,
                bookVars, loopVars
  <2>2. slots' = slots
    <3>1. CASE \E s \in Slots : ReleaseSlot(s)
      BY <1>1, <2>1, <3>1
         DEF ReleaseSlot, Intervene, OrderlyRequests, TypeOK
    <3> QED
      BY <1>2, <3>1 DEF Tick, PauseQueue, ResumeQueue, RegisterDevice, bookVars
  <2>3. \A r \in Robots : pc'[r] = "step" => pc[r] = "step"
    BY <1>1, <1>2 DEF Tick, ReleaseSlot, PauseQueue, ResumeQueue,
                      RegisterDevice, loopVars, TypeOK
  <2>4. RetriesFollowFailures' /\ MovesAreInProgress'
    BY <2>1, <2>3 DEF OrderlyInv, RetriesFollowFailures, MovesAreInProgress
  <2> QED
    BY <2>1, <2>2, <2>4 DEF OrderlyEffect
<1>3. ASSUME NEW r \in Robots, Resume(r) \/ PlcAnswers(r) \/ Submit(r)
      PROVE  OrderlyEffect
  BY <1>3, ResumeIsOrderly, PlcAnswersIsOrderly, SubmitIsOrderly
<1>4. ASSUME NEW o \in OrderIds,
             RetryReturns(o) \/ RetryBegins(o) \/ CancelOrder(o)
      PROVE  OrderlyEffect
  BY <1>4, RetryEndsIsOrderly, RetryOnItsWayIsOrderly, CancelIsOrderly
     DEF RetryReturns
<1> QED
  BY <1>2, <1>3, <1>4 DEF Next, Operate

(***************************************************************************)
(* The invariant holds of the empty books.                                 *)
(***************************************************************************)
LEMMA InitIsOrderly == Init => OrderlyInv
<1> SUFFICES ASSUME Init PROVE OrderlyInv
  OBVIOUS
<1>1. IInv
  BY InitIInv
<1>2. RetriesFollowFailures /\ MovesAreInProgress
  BY DEF Init, NothingOrdered, RetriesFollowFailures, MovesAreInProgress
<1>3. FreeSlotsAreBare /\ OccupantsAreKnown
  BY DEF Init, NothingOrdered, FreeSlotsAreBare, OccupantsAreKnown, ClearSlot
<1>4. \A o \in OrderIds : orders[o].status = "ABSENT"
  BY DEF Init, NothingOrdered
<1>5. OrdersHoldTheirSlots
  BY <1>4 DEF OrdersHoldTheirSlots, HoldsItsSlot, UsesSlot, Unfinished
<1> QED
  BY <1>1, <1>2, <1>3, <1>5 DEF OrderlyInv

(***************************************************************************)
(* Every orderly step keeps it.                                            *)
(***************************************************************************)
LEMMA NextIsOrderly ==
    OrderlyInv /\ [Next /\ OrderlyRequests]_vars => OrderlyInv'
<1> SUFFICES ASSUME OrderlyInv, [Next /\ OrderlyRequests]_vars
             PROVE  OrderlyInv'
  OBVIOUS
<1>1. IInv'
  BY NextIInv DEF OrderlyInv
<1>2. CASE UNCHANGED <<orders, slots, pc, hand, retrying>>
  BY <1>1, <1>2
     DEF OrderlyInv, RetriesFollowFailures, MovesAreInProgress,
         OrdersHoldTheirSlots, HoldsItsSlot, UsesSlot, FreeSlotsAreBare,
         OccupantsAreKnown, Exists
<1>3. CASE Next /\ OrderlyRequests
  <2>1. OrderlyEffect
    BY <1>3, OrderlyStep
  <2>2. CASE UNCHANGED <<orders, slots>>
    BY <1>1, <2>1, <2>2
       DEF OrderlyEffect, OrderlyInv, OrdersHoldTheirSlots, HoldsItsSlot,
           UsesSlot, FreeSlotsAreBare, OccupantsAreKnown, Exists
  <2>3. CASE \E o : ZoneEffect(o)
    BY <1>1, <2>1, <2>3, ZoneEffectKeepsZone DEF OrderlyEffect, OrderlyInv
  <2> QED
    BY <2>1, <2>2, <2>3 DEF OrderlyEffect
<1> QED
  BY <1>2, <1>3 DEF vars

(***************************************************************************)
(* The invariant holds as long as the requests are orderly.                *)
(***************************************************************************)
THEOREM OrderlyInvariance == Orderly => []OrderlyInv
BY InitIsOrderly, NextIsOrderly, PTL DEF Orderly

(***************************************************************************)
(* Two orders never maneuver for the same slot at the same time, however   *)
(* often orders fail, are retried or are cancelled.                        *)
(***************************************************************************)
THEOREM SlotsServeOneManeuver == Orderly => []OneManeuverPerSlot
<1>1. OrderlyInv => OneManeuverPerSlot
  <2> SUFFICES ASSUME OrderlyInv, NEW s \in Slots
               PROVE  Cardinality(ManeuversAt(s)) <= 1
    BY DEF OneManeuverPerSlot
  <2>1. \A o \in ManeuversAt(s) : UsesSlot(o) /\ orders[o].slot = s
    BY SlotsAssumption DEF OrderlyInv, MovesAreInProgress, ManeuversAt,
       UsesSlot, Unfinished
  <2>2. ManeuversAt(s) \subseteq {slots[s].by}
    BY <2>1 DEF OrderlyInv, OrdersHoldTheirSlots, HoldsItsSlot, ManeuversAt
  <2>3. /\ IsFiniteSet({slots[s].by})
        /\ Cardinality({slots[s].by}) = 1
    BY FS_Singleton
  <2>4. /\ Cardinality(ManeuversAt(s)) <= Cardinality({slots[s].by})
    BY <2>2, <2>3, FS_Subset
  <2> QED
    BY <2>3, <2>4
<1> QED
  BY <1>1, OrderlyInvariance, PTL

(***************************************************************************)
(* No box is put on another: a robot brings a box only to a slot without   *)
(* one.                                                                    *)
(***************************************************************************)
THEOREM BoxesAreNotOverwritten == Orderly => NoBoxOverwritten
<1>1. OrderlyInv /\ [Next /\ OrderlyRequests]_vars =>
        [\A s \in Slots :
           slots[s].box # NoHome /\ slots'[s].box # NoHome =>
              slots'[s].box = slots[s].box]_vars
  <2> SUFFICES ASSUME OrderlyInv, Next, OrderlyRequests, NEW s \in Slots,
                      slots[s].box # NoHome, slots'[s].box # NoHome
               PROVE  slots'[s].box = slots[s].box
    OBVIOUS
  <2>1. OrderlyEffect
    BY OrderlyStep
  <2> QED
    BY <2>1 DEF OrderlyEffect, ZoneEffect, SlotFollows
<1> QED
  BY <1>1, OrderlyInvariance, PTL DEF Orderly, NoBoxOverwritten

-----------------------------------------------------------------------------
(***************************************************************************)
(* Without interventions: an order in progress is its robot's active one,  *)
(* a PICK gets its slot when its work begins, and then no occupied slot    *)
(* shows a box that the robot brought from the same home.                  *)
(***************************************************************************)
NothingIsRetried == \A o \in OrderIds : retrying[o] = 0

WorkIsActive ==
    \A o \in OrderIds :
        orders[o].status = "IN_PROGRESS" => queues[orders[o].robot].active = o

PendingPicksHaveNoSlot ==
    \A o \in OrderIds :
        /\ orders[o].status = "PENDING"
        /\ orders[o].type = "PICK" /\ ~orders[o].logical
        => orders[o].slot = NoSlot

\* No occupied slot shows the box of the order, brought by the same robot.
NoTwin(o) ==
    \A t \in Slots :
        slots[t].status = "OCUPADO" /\ slots[t].box = orders[o].home =>
            orders[slots[t].by].robot # orders[o].robot

Travels(o) ==
    /\ orders[o].status = "IN_PROGRESS"
    /\ orders[o].type = "PICK" /\ ~orders[o].logical

TravellersAreNew == \A o \in OrderIds : Travels(o) => NoTwin(o)

Occupants(home) == OccupiedFrom(slots, home)

BoxesAreBroughtOnce ==
    \A home \in Homes : \A s, t \in Occupants(home) :
        orders[slots[s].by].robot = orders[slots[t].by].robot => s = t

QuietInv ==
    /\ NothingIsRetried
    /\ WorkIsActive
    /\ PendingPicksHaveNoSlot
    /\ TravellersAreNew
    /\ BoxesAreBroughtOnce

(***************************************************************************)
(* What a step about order o does: it brings the order's box to the        *)
(* order's slot, or brings none.                                           *)
(***************************************************************************)
Brings(o, t) ==
    /\ t = orders'[o].slot
    /\ slots'[t].by = o /\ slots'[t].box = orders[o].home
    /\ Exists(o) /\ queues[orders[o].robot].active = o
    /\ NoTwin(o)

BringsNothing ==
    \A t \in Slots : slots'[t].status = "OCUPADO" => SameOccupant(t)

QuietEffect(o) ==
    /\ o \in OrderIds
    /\ \A p \in OrderIds : p # o => orders'[p] = orders[p]
    /\ Exists(o) => orders'[o].robot = orders[o].robot
    /\ \A t \in Slots :
          slots'[t].status = "OCUPADO" => SameOccupant(t) \/ Brings(o, t)
    /\ Travels(o)' =>
          /\ Exists(o) /\ orders'[o].home = orders[o].home
          /\ NoTwin(o) /\ BringsNothing

(***************************************************************************)
(* Such a step brings no box a second time.                                *)
(***************************************************************************)
LEMMA QuietEffectKeepsBoxes ==
    ASSUME OrderlyInv, QuietInv, NEW o, QuietEffect(o)
    PROVE  TravellersAreNew' /\ BoxesAreBroughtOnce'
<1>1. /\ TypeOK /\ OccupantsAreKnown /\ WorkIsActive /\ TravellersAreNew
      /\ BoxesAreBroughtOnce /\ o \in OrderIds
  BY DEF OrderlyInv, IInv, Books, QuietInv, QuietEffect
<1>2. \A p \in OrderIds : Exists(p) => orders'[p].robot = orders[p].robot
  BY DEF QuietEffect
<1>3. \A t \in Slots :
        SameOccupant(t) =>
           orders'[slots'[t].by].robot = orders[slots[t].by].robot
  BY <1>1, <1>2 DEF SameOccupant, OccupantsAreKnown, Exists
<1>4. \A t \in Slots :
        Brings(o, t) => orders'[slots'[t].by].robot = orders[o].robot
  BY <1>1, <1>2 DEF Brings
<1>5. TravellersAreNew'
  <2> SUFFICES ASSUME NEW p \in OrderIds, Travels(p)', NEW t \in Slots,
                      slots'[t].status = "OCUPADO",
                      slots'[t].box = orders'[p].home
               PROVE  orders'[slots'[t].by].robot # orders'[p].robot
    BY DEF TravellersAreNew, NoTwin
  <2>1. NoTwin(p) /\ Exists(p) /\ orders'[p].home = orders[p].home
    <3>1. CASE p = o
      BY <3>1 DEF QuietEffect
    <3>2. CASE p # o
      BY <1>1, <3>2 DEF QuietEffect, TravellersAreNew, Travels, Exists
    <3> QED
      BY <3>1, <3>2
  <2>2. CASE SameOccupant(t)
    BY <1>2, <1>3, <2>1, <2>2 DEF NoTwin, SameOccupant
  <2>3. CASE Brings(o, t) /\ p # o
    BY <1>1, <1>2, <1>4, <2>1, <2>3
       DEF WorkIsActive, Brings, QuietEffect, Travels
  <2> QED
    BY <2>2, <2>3 DEF QuietEffect, BringsNothing
<1>6. BoxesAreBroughtOnce'
  <2> SUFFICES ASSUME NEW home \in Homes, NEW s \in Slots, NEW t \in Slots,
                      slots'[s].status = "OCUPADO", slots'[s].box = home,
                      slots'[t].status = "OCUPADO", slots'[t].box = home,
                      orders'[slots'[s].by].robot = orders'[slots'[t].by].robot
               PROVE  s = t
    BY DEF BoxesAreBroughtOnce, Occupants, OccupiedFrom
  <2>1. CASE SameOccupant(s) /\ SameOccupant(t)
    BY <1>1, <1>3, <2>1
       DEF SameOccupant, BoxesAreBroughtOnce, Occupants, OccupiedFrom
  <2>2. ASSUME NEW u \in Slots, NEW v \in Slots, Brings(o, u),
               SameOccupant(v), slots'[u].box = slots'[v].box
        PROVE  orders'[slots'[u].by].robot # orders'[slots'[v].by].robot
    BY <1>3, <1>4, <2>2 DEF Brings, NoTwin, SameOccupant
  <2>3. CASE Brings(o, s) /\ Brings(o, t)
    BY <2>3 DEF Brings
  <2> QED
    BY <2>1, <2>2, <2>3 DEF QuietEffect
<1> QED
  BY <1>5, <1>6

(***************************************************************************)
(* The active order settles, goes back without a slot, or stays in the     *)
(* active place while it is in progress.                                   *)
(***************************************************************************)
LEMMA ActiveOrderFollows ==
    ASSUME TypeOK, QuietInv, NEW r \in Robots, NEW o \in OrderIds,
           queues[r].active = o, orders'[o].robot = r,
           \A p \in OrderIds : p # o => orders'[p] = orders[p],
           \/ orders'[o].status \in Settled
           \/ orders'[o].status = "PENDING" /\ orders'[o].slot = NoSlot
           \/ orders'[o].status = "IN_PROGRESS" /\ queues' = queues,
           queues' = queues \/ ClearActive(r)
    PROVE  WorkIsActive' /\ PendingPicksHaveNoSlot'
<1>1. WorkIsActive'
  <2> SUFFICES ASSUME NEW p \in OrderIds, orders'[p].status = "IN_PROGRESS"
               PROVE  queues'[orders'[p].robot].active = p
    BY DEF WorkIsActive
  <2>1. CASE p = o
    BY <2>1 DEF Settled
  <2>2. CASE p # o
    <3>1. /\ orders'[p] = orders[p] /\ orders[p].robot \in Robots
          /\ queues[orders[p].robot].active = p
      BY <2>2 DEF QuietInv, WorkIsActive, TypeOK, Order
    <3>2. queues'[orders[p].robot] = queues[orders[p].robot]
      BY <2>2, <3>1 DEF ClearActive, TypeOK
    <3> QED
      BY <3>1, <3>2
  <2> QED
    BY <2>1, <2>2
<1>2. PendingPicksHaveNoSlot'
  BY DEF QuietInv, PendingPicksHaveNoSlot, Settled
<1> QED
  BY <1>1, <1>2

(***************************************************************************)
(* The work on the active order, a PICK that has no twin or a PUT.         *)
(***************************************************************************)
LEMMA WorkIsQuiet ==
    ASSUME OrderlyInv, QuietInv, NEW r \in Robots, NEW o \in OrderIds,
           Owned(o, r), queues[r].active = o,
           orders[o].type = "PICK" => NoTwin(o),
           NEW s \in Slots, NEW book \in [Slots -> Slot],
           \A t \in Slots : t # s => book[t] = slots[t],
           book[s].status \in Held,
           Work(r, o, Started(o, s), book)
    PROVE  QuietEffect(o) /\ WorkIsActive' /\ PendingPicksHaveNoSlot'
<1> DEFINE ord == Started(o, s)
<1>1. /\ orders[o] \in Order /\ TypeOK /\ Exists(o) /\ orders[o].robot = r
  BY DEF OrderlyInv, IInv, Books, TypeOK, Owned, Exists
<1>2. /\ ord.status = "IN_PROGRESS" /\ ord.slot = s /\ ord.robot = r
      /\ ord.type = orders[o].type /\ ord.home = orders[o].home
      /\ ord \in Order
  BY <1>1 DEF Started, Order, Status
<1> HIDE DEF ord
<1>3. CASE FinishPhysical(r, o, ord, book)
  <2> DEFINE left == IF ord.type = "PICK" THEN Occupied(o, ord.home)
                     ELSE ClearSlot
  <2>1. /\ orders'[o].status = "DONE" /\ orders'[o].slot = s
        /\ orders'[o].robot = r
        /\ \A p \in OrderIds : p # o => orders'[p] = orders[p]
        /\ ClearActive(r)
    BY <1>1, <1>2, <1>3 DEF FinishPhysical, TypeOK, Order
  <2>2. slots'[s] = left /\ \A t \in Slots : t # s => slots'[t] = slots[t]
    BY <1>2, <1>3 DEF FinishPhysical
  <2>3. slots'[s].status = "OCUPADO" => Brings(o, s)
    BY <1>1, <1>2, <2>1, <2>2 DEF Brings, Occupied, ClearSlot
  <2> HIDE DEF left
  <2>4. QuietEffect(o)
    BY <1>1, <2>1, <2>2, <2>3 DEF QuietEffect, SameOccupant, Travels
  <2> QED
    BY <1>1, <2>1, <2>4, ActiveOrderFollows DEF Settled
<1>4. CASE StartStep(r, o, ord, book) \/ LoopDies(r, o, ord, book)
  <2> DEFINE left == InProgress(book[s], ord, o)
  <2>1. /\ orders'[o] = ord /\ \A p \in OrderIds : p # o => orders'[p] = orders[p]
        /\ queues' = queues
    BY <1>1, <1>4 DEF StartStep, LoopDies, TypeOK
  <2>2. slots'[s] = left /\ \A t \in Slots : t # s => slots'[t] = slots[t]
    BY <1>2, <1>4 DEF StartStep, LoopDies
  <2>3. left.status # "OCUPADO"
    BY DEF InProgress, WithStatus, Slot, Held
  <2> HIDE DEF left
  <2>4. BringsNothing
    BY <2>2, <2>3 DEF BringsNothing, SameOccupant
  <2>5. QuietEffect(o)
    BY <1>1, <1>2, <2>1, <2>4 DEF QuietEffect, BringsNothing, Travels
  <2> QED
    BY <1>1, <1>2, <2>1, <2>5, ActiveOrderFollows
<1> QED
  BY <1>3, <1>4 DEF Work, ord

(***************************************************************************)
(* A step that leaves the slots alone, and the order's place if it is in   *)
(* progress.                                                               *)
(***************************************************************************)
LEMMA UntouchedIsQuiet ==
    ASSUME QuietInv, NEW o \in OrderIds, BringsNothing,
           \A p \in OrderIds : p # o => orders'[p] = orders[p],
           Exists(o) => orders'[o].robot = orders[o].robot,
           Travels(o)' => Travels(o) /\ orders'[o].home = orders[o].home
    PROVE  QuietEffect(o)
BY DEF QuietInv, TravellersAreNew, QuietEffect, BringsNothing, Travels, Exists

(***************************************************************************)
(* A stack that changes brings no box.                                     *)
(***************************************************************************)
LEMMA RestackingBringsNothing ==
    ASSUME OrderlyInv, NEW s \in Slots, slots[s].status = "OCUPADO",
           NEW d, slots' = [slots EXCEPT ![s] = [slots[s] EXCEPT !.depth = d]]
    PROVE  BringsNothing
BY DEF OrderlyInv, IInv, Books, TypeOK, Slot, BringsNothing, SameOccupant

(***************************************************************************)
(* processOrder, for the active order.                                     *)
(***************************************************************************)
LEMMA ProcessOrderIsQuiet ==
    ASSUME OrderlyInv, QuietInv, NEW r \in Robots, NEW o \in OrderIds,
           Owned(o, r), queues[r].active = o, ProcessOrder(r, o)
    PROVE  QuietEffect(o) /\ WorkIsActive' /\ PendingPicksHaveNoSlot'
<1>1. /\ orders[o] \in Order /\ TypeOK /\ Exists(o) /\ orders[o].robot = r
      /\ slots \in [Slots -> Slot] /\ FreeSlotsAreBare /\ HoldsItsSlot(o)
      /\ TravellersAreNew /\ PendingPicksHaveNoSlot
  BY DEF OrderlyInv, IInv, Books, TypeOK, Owned, Exists, QuietInv,
         OrdersHoldTheirSlots
<1>2. ASSUME NEW new, orders' = [orders EXCEPT ![o] = new], new.robot = r,
             \/ new.status \in Settled
             \/ new.status = "PENDING" /\ new.slot = NoSlot,
             ClearActive(r), BringsNothing
      PROVE  QuietEffect(o) /\ WorkIsActive' /\ PendingPicksHaveNoSlot'
  <2>1. orders'[o] = new /\ \A p \in OrderIds : p # o => orders'[p] = orders[p]
    BY <1>1, <1>2 DEF TypeOK
  <2>2. QuietEffect(o)
    BY <1>1, <1>2, <2>1, UntouchedIsQuiet DEF Travels, Settled
  <2> QED
    BY <1>1, <1>2, <2>1, <2>2, ActiveOrderFollows
<1>3. CASE JoinStack(r, o)
  <2>1. PICK s \in Slots :
          LET ord == [orders[o] EXCEPT !.slot = s, !.logical = TRUE]
              book == [slots EXCEPT ![s] = Stacked(slots[s])]
          IN  /\ slots[s].status = "OCUPADO"
              /\ SkipSettled(r, o, ord, book) \/ FinishLogical(r, o, ord, book)
    BY <1>3 DEF JoinStack, OccupiedFrom
  <2> DEFINE ord == [orders[o] EXCEPT !.slot = s, !.logical = TRUE]
             new == IF orders[o].status \in Settled THEN ord
                    ELSE [ord EXCEPT !.status = "DONE"]
  <2>2. new.status \in Settled /\ new.robot = r
    BY <1>1 DEF Order, Settled
  <2>3. /\ orders' = [orders EXCEPT ![o] = new]
        /\ slots' = [slots EXCEPT ![s] = Stacked(slots[s])]
        /\ ClearActive(r)
    BY <1>1, <2>1 DEF SkipSettled, FinishLogical, Order
  <2>4. BringsNothing
    BY <2>1, <2>3, RestackingBringsNothing DEF Stacked
  <2> HIDE DEF new
  <2> QED
    BY <1>2, <2>2, <2>3, <2>4
<1>4. CASE SkipSettled(r, o, orders[o], slots)
  <2>1. BringsNothing
    BY <1>4 DEF SkipSettled, BringsNothing, SameOccupant
  <2> QED
    BY <1>1, <1>2, <1>4, <2>1 DEF SkipSettled
<1>5. CASE FinishLogical(r, o, orders[o], slots)
  <2> DEFINE new == [orders[o] EXCEPT !.status = "DONE"]
  <2>1. new.status \in Settled /\ new.robot = r
    BY <1>1 DEF Order, Settled
  <2>2. orders' = [orders EXCEPT ![o] = new] /\ ClearActive(r) /\ slots' = slots
    BY <1>5 DEF FinishLogical
  <2>3. BringsNothing
    BY <2>2 DEF BringsNothing, SameOccupant
  <2> HIDE DEF new
  <2> QED
    BY <1>2, <2>1, <2>2, <2>3
<1>6. CASE Defer(r, o)
  <2> DEFINE new == [orders[o] EXCEPT !.status = "PENDING", !.waiting = TRUE]
  <2>1. new.status = "PENDING" /\ new.slot = NoSlot /\ new.robot = r
    BY <1>1, <1>6 DEF Order, Defer
  <2>2. orders' = [orders EXCEPT ![o] = new] /\ ClearActive(r) /\ slots' = slots
    BY <1>1, <1>6 DEF Defer, TypeOK
  <2>3. BringsNothing
    BY <2>2 DEF BringsNothing, SameOccupant
  <2> HIDE DEF new
  <2> QED
    BY <1>2, <2>1, <2>2, <2>3
<1>7. CASE WorkInAssignedSlot(r, o) /\ NoBoxToJoin(o)
  <2>1. PICK s \in FreeBeside(orders[o].home) :
          Work(r, o, Started(o, s), [slots EXCEPT ![s] = Reserved(slots[s], o)])
    BY <1>7 DEF WorkInAssignedSlot
  <2> DEFINE book == [slots EXCEPT ![s] = Reserved(slots[s], o)]
  <2>2. s \in Slots /\ slots[s] \in Slot
    BY <1>1 DEF FreeBeside
  <2>3. /\ Reserved(slots[s], o) \in Slot
        /\ Reserved(slots[s], o).status = "RESERVADO"
    BY <2>2 DEF Reserved, Slot, SlotStatus
  <2>4. /\ book \in [Slots -> Slot] /\ book[s].status \in Held
        /\ \A t \in Slots : t # s => book[t] = slots[t]
    BY <1>1, <2>2, <2>3 DEF Held
  <2>5. NoTwin(o)
    BY <1>7 DEF WorkInAssignedSlot, NoBoxToJoin, LooksForBox, OccupiedFrom,
                NoTwin
  <2>6. Work(r, o, Started(o, s), book)
    BY <2>1
  <2> HIDE DEF book
  <2> QED
    BY <2>2, <2>4, <2>5, <2>6, WorkIsQuiet
<1>8. CASE WorkInOwnSlot(r, o)
  <2>1. orders[o].slot \in Slots /\ ~orders[o].logical
        /\ Work(r, o, Started(o, orders[o].slot), slots)
        /\ orders[o].status \in {"PENDING", "IN_PROGRESS"}
        /\ orders[o].slot # NoSlot
    BY <1>1, <1>8 DEF WorkInOwnSlot, Order, Exists, Status, Settled
  <2>2. slots[orders[o].slot].status \in Held
    BY <1>1, <2>1 DEF HoldsItsSlot, UsesSlot, Unfinished
  <2>3. orders[o].type = "PICK" => NoTwin(o)
    BY <1>1, <2>1 DEF PendingPicksHaveNoSlot, TravellersAreNew, Travels
  <2> QED
    BY <1>1, <2>1, <2>2, <2>3, WorkIsQuiet
<1> QED
  BY <1>3, <1>4, <1>5, <1>6, <1>7, <1>8 DEF ProcessOrder

(***************************************************************************)
(* A step about one order, or about none, and the active places.           *)
(***************************************************************************)
LEMMA QuietEffectKeepsQuiet ==
    ASSUME OrderlyInv, QuietInv, NEW o, QuietEffect(o),
           WorkIsActive', PendingPicksHaveNoSlot', retrying' = retrying
    PROVE  QuietInv'
BY QuietEffectKeepsBoxes DEF QuietInv, NothingIsRetried

(***************************************************************************)
(* A step that takes no order from its active place.                       *)
(***************************************************************************)
LEMMA UntouchedBooksAreQuiet ==
    ASSUME OrderlyInv, QuietInv, UNCHANGED <<orders, slots, retrying>>,
           \A r \in Robots : queues[r].active \in OrderIds =>
                                queues'[r].active = queues[r].active
    PROVE  QuietInv'
<1>1. \A o \in OrderIds : orders[o].robot \in Robots
  BY DEF OrderlyInv, IInv, Books, TypeOK, Order
<1>2. WorkIsActive'
  BY <1>1 DEF QuietInv, WorkIsActive
<1> QED
  BY <1>2 DEF QuietInv, NothingIsRetried, PendingPicksHaveNoSlot,
              TravellersAreNew, Travels, NoTwin, BoxesAreBroughtOnce,
              Occupants, OccupiedFrom

(***************************************************************************)
(* A loop's step.                                                          *)
(***************************************************************************)
LEMMA ResumeIsQuiet ==
    ASSUME OrderlyInv, QuietInv, NEW r \in Robots, Resume(r) PROVE QuietInv'
<1>1. TypeOK /\ Books
  BY DEF OrderlyInv, IInv, Books
<1>2. retrying' = retrying
  BY DEF Resume, NothingToDo, Dequeue, Activate, ResumeActive,
         ProcessActivated, Requeue, FreeRobot, RobotFails
<1>3. CASE ResumeActive(r)
  <2>1. queues[r].active \in OrderIds /\ Owned(queues[r].active, r)
    BY <1>1, <1>3 DEF Books, TypeOK, Queue, QueuesOwnTheirOrders, ResumeActive
  <2>2. PICK o \in OrderIds : o = queues[r].active
    BY <2>1
  <2> QED
    BY <1>2, <1>3, <2>1, <2>2, ProcessOrderIsQuiet, QuietEffectKeepsQuiet
       DEF ResumeActive
<1>4. CASE ProcessActivated(r)
  <2>1. PICK o \in OrderIds :
          o = hand[r] /\ Owned(o, r) /\ queues[r].active = o
    BY <1>1, <1>4 DEF Books, LoopsOwnTheirOrders, ProcessActivated
  <2> QED
    BY <1>2, <1>4, <2>1, ProcessOrderIsQuiet, QuietEffectKeepsQuiet
       DEF ProcessActivated
<1>5. CASE Dequeue(r) \/ Activate(r) \/ Requeue(r)
  <2>1. UNCHANGED <<orders, slots>>
    BY <1>5 DEF Dequeue, Activate, Requeue
  <2>2. queues[r] \in Queue /\ queues[r].active = NoOrder
    BY <1>1, <1>5 DEF TypeOK, Books, LoopsOwnTheirOrders, Dequeue, Activate,
                      Requeue
  <2>3. \A q \in Robots : q # r => queues'[q] = queues[q]
    BY <1>1, <1>5 DEF Dequeue, Activate, Requeue, TypeOK
  <2> QED
    BY <1>2, <2>1, <2>2, <2>3, NoOrderIsNone, UntouchedBooksAreQuiet
<1>6. CASE NothingToDo(r) \/ FreeRobot(r) \/ RobotFails(r)
  BY <1>2, <1>6, UntouchedBooksAreQuiet
     DEF NothingToDo, FreeRobot, RobotFails, bookVars
<1> QED
  BY <1>3, <1>4, <1>5, <1>6 DEF Resume

(***************************************************************************)
(* The end of a step.                                                      *)
(***************************************************************************)
LEMMA PlcAnswersIsQuiet ==
    ASSUME OrderlyInv, QuietInv, NEW r \in Robots, PlcAnswers(r)
    PROVE  QuietInv'
<1>1. PICK o \in OrderIds :
        o = hand[r] /\ pc[r] = "step" /\ Owned(o, r)
        /\ orders[o].status = "IN_PROGRESS"
  BY DEF OrderlyInv, IInv, Books, LoopsOwnTheirOrders, MovesAreInProgress,
         PlcAnswers, StepDone, StepFails
<1>2. /\ TypeOK /\ orders[o] \in Order /\ slots \in [Slots -> Slot]
      /\ orders[o].robot = r /\ queues[r].active = o /\ retrying' = retrying
  BY <1>1 DEF OrderlyInv, IInv, Books, TypeOK, QuietInv, WorkIsActive, Owned,
              PlcAnswers, StepDone, StepFails
<1>3. CASE StepDone(r)
  <2> DEFINE new == [orders[o] EXCEPT !.idx = at[r] + 1]
  <2>1. /\ orders' = [orders EXCEPT ![o] = new]
        /\ slots' = slots /\ queues' = queues
        /\ new.status = "IN_PROGRESS" /\ new.robot = r
        /\ new.home = orders[o].home
        /\ new.type = orders[o].type /\ new.logical = orders[o].logical
    BY <1>1, <1>2, <1>3 DEF StepDone, Order
  <2> HIDE DEF new
  <2>2. orders'[o] = new /\ \A p \in OrderIds : p # o => orders'[p] = orders[p]
    BY <1>2, <2>1 DEF TypeOK
  <2>3. BringsNothing
    BY <2>1 DEF BringsNothing, SameOccupant
  <2>4. QuietEffect(o)
    BY <1>1, <1>2, <2>1, <2>2, <2>3, UntouchedIsQuiet DEF Travels
  <2> QED
    BY <1>2, <2>1, <2>2, <2>4, ActiveOrderFollows, QuietEffectKeepsQuiet
<1>4. CASE StepFails(r)
  <2> DEFINE new == [orders[o] EXCEPT !.status = "ERROR"]
             s == orders[o].slot
             left == Blocked(slots[s], o)
  <2>1. /\ orders' = [orders EXCEPT ![o] = new]
        /\ slots' = [slots EXCEPT ![s] = left] /\ ClearActive(r)
        /\ new.status = "ERROR" /\ new.robot = r
    BY <1>1, <1>2, <1>4 DEF StepFails, Order
  <2> HIDE DEF new
  <2>2. orders'[o] = new /\ \A p \in OrderIds : p # o => orders'[p] = orders[p]
    BY <1>2, <2>1 DEF TypeOK
  <2>3. BringsNothing
    BY <1>2, <2>1 DEF BringsNothing, SameOccupant, Blocked, WithStatus, Slot
  <2>4. QuietEffect(o)
    BY <1>1, <1>2, <2>1, <2>2, <2>3, UntouchedIsQuiet DEF Travels
  <2> QED
    BY <1>2, <2>1, <2>2, <2>4, ActiveOrderFollows, QuietEffectKeepsQuiet
       DEF Settled
<1> QED
  BY <1>3, <1>4 DEF PlcAnswers

(***************************************************************************)
(* A new order waits without a slot, or for its box to be returned.        *)
(***************************************************************************)
LEMMA SubmitIsQuiet ==
    ASSUME OrderlyInv, QuietInv, OrderlyRequests, NEW r \in Robots, Submit(r)
    PROVE  QuietInv'
<1>1. TypeOK /\ slots \in [Slots -> Slot]
  BY DEF OrderlyInv, IInv, Books, TypeOK
<1>2. PICK o \in OrderIds :
        /\ ~Exists(o) /\ Exists(o)' /\ orders'[o].status = "PENDING"
        /\ \A p \in OrderIds : p # o => orders'[p] = orders[p]
        /\ \A q \in Robots :
              queues'[q] \in {queues[q], Enqueue(queues[q], o)}
        /\ retrying' = retrying
  BY <1>1, SubmitAddsOne DEF AddsOne, Exists
<1>3. BringsNothing
  <2>1. \/ slots' = slots
        \/ \E s \in Slots : \E d :
              slots' = [slots EXCEPT ![s] = [slots[s] EXCEPT !.depth = d]]
        \/ \E s \in Slots : \E x :
              slots' = [slots EXCEPT ![s] = Reserved(slots[s], x)]
    BY DEF Submit, SubmitPick, SubmitPut, OccupiedFrom, Stacked, Unstacked
  <2> QED
    <3>1. CASE slots' = slots
      BY <3>1 DEF BringsNothing, SameOccupant
    <3>2. ASSUME NEW s \in Slots, NEW d,
                 slots' = [slots EXCEPT ![s] = [slots[s] EXCEPT !.depth = d]]
          PROVE  BringsNothing
      BY <1>1, <3>2 DEF BringsNothing, SameOccupant, Slot
    <3>3. ASSUME NEW s \in Slots, NEW x,
                 slots' = [slots EXCEPT ![s] = Reserved(slots[s], x)]
          PROVE  BringsNothing
      BY <1>1, <3>3 DEF BringsNothing, SameOccupant, Reserved, Slot
    <3> QED
      BY <2>1, <3>1, <3>2, <3>3
<1>4. QuietEffect(o)
  BY <1>2, <1>3, UntouchedIsQuiet DEF Travels
<1>5. WorkIsActive'
  <2>1. \A q \in Robots : queues'[q].active = queues[q].active
    BY <1>1, <1>2, EnqueueOp DEF TypeOK
  <2> QED
    BY <1>1, <1>2, <2>1 DEF QuietInv, WorkIsActive, TypeOK, Order
<1>6. PendingPicksHaveNoSlot'
  BY <1>2 DEF QuietInv, PendingPicksHaveNoSlot, OrderlyRequests
<1> QED
  BY <1>2, <1>4, <1>5, <1>6, QuietEffectKeepsQuiet

(***************************************************************************)
(* As long as nobody intervenes, every step keeps the books quiet.         *)
(***************************************************************************)
LEMMA NextIsQuiet ==
    /\ OrderlyInv /\ (ops = 0 => QuietInv)
    /\ [Next /\ OrderlyRequests]_vars
    => (ops = 0 => QuietInv)'
<1> SUFFICES ASSUME OrderlyInv, ops = 0 => QuietInv,
                    [Next /\ OrderlyRequests]_vars, ops' = 0
             PROVE  QuietInv'
  OBVIOUS
<1>1. TypeOK
  BY DEF OrderlyInv, IInv, Books
<1>2. ops = 0 /\ ~Intervene
  <2>1. ops \in Nat
    BY <1>1 DEF TypeOK
  <2>2. CASE Intervene
    BY <2>1, <2>2 DEF Intervene
  <2>3. CASE ~Intervene /\ ops' = ops
    BY <2>3
  <2>4. Intervene \/ ops' = ops
    BY <1>1, SubmitAddsOne
       DEF Next, vars, Tick, Resume, NothingToDo, Dequeue, Activate,
           ResumeActive, ProcessActivated, Requeue, FreeRobot, RobotFails,
           PlcAnswers, StepDone, StepFails, AddsOne, RetryReturns, RetryEnds,
           RetryFails, Operate, RetryBegins, CancelOrder, ReleaseSlot,
           PauseQueue, ResumeQueue, RegisterDevice
  <2> QED
    BY <2>2, <2>3, <2>4
<1>3. QuietInv
  BY <1>2
<1>4. CASE UNCHANGED vars
  BY <1>3, <1>4, UntouchedBooksAreQuiet DEF vars
<1>5. CASE Next /\ OrderlyRequests
  <2>1. ASSUME NEW r \in Robots, Resume(r) \/ PlcAnswers(r) \/ Submit(r)
        PROVE  QuietInv'
    BY <1>3, <1>5, <2>1, ResumeIsQuiet, PlcAnswersIsQuiet, SubmitIsQuiet
  <2>2. CASE Tick
    BY <1>3, <2>2, UntouchedBooksAreQuiet DEF Tick, bookVars
  <2>3. ASSUME NEW o \in OrderIds, RetryReturns(o) PROVE FALSE
    BY <1>3, <2>3 DEF RetryReturns, RetryEnds, RetryFails, QuietInv,
                      NothingIsRetried
  <2>4. ASSUME NEW r \in Robots, ResumeQueue(r) PROVE QuietInv'
    <3>1. /\ UNCHANGED <<orders, slots, retrying>>
          /\ queues' = [queues EXCEPT ![r] = WithPause(queues[r], FALSE)]
      BY <2>4 DEF ResumeQueue
    <3>2. \A q \in Robots : queues'[q].active = queues[q].active
      BY <1>1, <3>1, WithPauseOp DEF TypeOK
    <3> QED
      BY <1>3, <3>1, <3>2, UntouchedBooksAreQuiet
  <2> QED
    BY <1>2, <1>5, <2>1, <2>2, <2>3, <2>4
       DEF Next, Operate, RetryBegins, CancelOrder, ReleaseSlot, PauseQueue,
           RegisterDevice
<1> QED
  BY <1>4, <1>5

(***************************************************************************)
(* No box is brought twice by one robot, in a history without              *)
(* interventions.                                                          *)
(***************************************************************************)
THEOREM BoxesAreBroughtByOne == Orderly => []OneSlotPerBox
<1>1. Init => (ops = 0 => QuietInv)
  <2> SUFFICES ASSUME Init PROVE QuietInv
    OBVIOUS
  <2>1. /\ \A o \in OrderIds : orders[o].status = "ABSENT"
        /\ \A o \in OrderIds : retrying[o] = 0
        /\ \A s \in Slots : slots[s].status = "LIBRE"
    BY DEF Init, NothingOrdered, ClearSlot
  <2> QED
    BY <2>1 DEF QuietInv, NothingIsRetried, WorkIsActive,
                PendingPicksHaveNoSlot, TravellersAreNew, Travels,
                BoxesAreBroughtOnce, Occupants, OccupiedFrom
<1>2. (ops = 0 => QuietInv) => OneSlotPerBox
  BY DEF QuietInv, BoxesAreBroughtOnce, Occupants, OneSlotPerBox
<1> QED
  BY <1>1, <1>2, OrderlyInvariance, NextIsQuiet, PTL DEF Orderly
=============================================================================
