---------------------------- MODULE Orchestrator ----------------------------
(***************************************************************************)
(* The orchestrator of the warehouse server (OrchestratorService.js) with  *)
(* the books it keeps in StateManager and the in-memory QueueManager.      *)
(*                                                                         *)
(* The server is one Node process: code runs undisturbed up to an await,   *)
(* so an action is the code between two awaits of one robot loop, or one   *)
(* whole API handler when nothing but a queue call is awaited in it.  A    *)
(* queue call of the in-memory driver has its effect when it is made and   *)
(* its await only yields to promise jobs already queued; timers, requests  *)
(* and PLC answers come in when no such job is left.  `Calm' says so.      *)
(*                                                                         *)
(* A step of an order takes seconds at the PLC; it is the only state a     *)
(* loop stays in across other events ("step").                             *)
(***************************************************************************)
EXTENDS SlotBook, RobotQueue

CONSTANTS
    Robots,        \* the robots, each with a queue and at most one loop
    SlotsBeside,   \* SlotsBeside[h]: the slots on the same side as home h
    Unreachable,   \* homes with a well-formed code no PLC command exists for
    ExternalIds,   \* ids the client gives its orders
    NoExternalId,
    NumSteps,      \* length of buildSteps (5 in the code)
    MaxOps         \* bound: operator interventions in a behaviour

ASSUME SidesAssumption == SlotsBeside \in [Homes -> SUBSET Slots]
ASSUME UnreachableAssumption == Unreachable \subseteq Homes
ASSUME ExternalIdsAssumption == NoExternalId \notin ExternalIds
ASSUME NumStepsAssumption == NumSteps \in Nat \ {0}
ASSUME MaxOpsAssumption == MaxOps \in Nat

VARIABLES
    orders,    \* StateManager.orders
    slots,     \* StateManager.slots
    robots,    \* StateManager.robots: what the API shows of each robot
    queues,    \* QueueManager.byRobot
    pc,        \* where the loop of each robot waits, "off" without a loop
    hand,      \* activeOrderId of each loop
    at,        \* the step index each loop captured before its PLC call
    retrying,  \* how many retryOrder calls wait for the PLC, per order
    ops        \* operator interventions so far

vars == <<orders, slots, robots, queues, pc, hand, at, retrying, ops>>
loopVars == <<pc, hand, at>>
bookVars == <<orders, slots, queues>>

Status == {"ABSENT", "PENDING", "IN_PROGRESS", "DONE", "ERROR", "CANCELED"}
Settled == {"DONE", "ERROR", "CANCELED"}

Order == [status  : Status,
          type    : {"PICK", "PUT"},
          home    : Homes \cup {NoHome},  \* PICK: locationCode; PUT: targetLocation
          robot   : Robots,
          slot    : Slots \cup {NoSlot},  \* slotLocationCode
          idx     : 0 .. NumSteps,        \* currentStepIndex
          logical : BOOLEAN,              \* logicalPickOnly or logicalReturnOnly
          waiting : BOOLEAN,              \* waitingForSlot
          ext     : ExternalIds \cup {NoExternalId}]

RobotStatus == {"ABSENT", "IDLE", "BUSY", "ERROR"}
Robot == [status : RobotStatus, cur : OrderIds \cup {NoOrder}]

Points == {"off", "top", "dequeued", "activated", "step", "cleared",
           "requeue", "failed"}

Exists(o) == o \in OrderIds /\ orders[o].status # "ABSENT"
NextId == {o \in OrderIds : /\ orders[o].status = "ABSENT"
                            /\ \A p \in OrderIds : p < o => Exists(p)}

\* No promise job is queued: each loop is off or at the PLC.
Calm == \A r \in Robots : pc[r] \in {"off", "step"}

NothingOrdered ==
    /\ \E r \in Robots :
         orders = [o \in OrderIds |->
           [status |-> "ABSENT", type |-> "PICK", home |-> NoHome, robot |-> r,
            slot |-> NoSlot, idx |-> 0, logical |-> FALSE, waiting |-> FALSE,
            ext |-> NoExternalId]]
    /\ slots = [s \in Slots |-> ClearSlot]
    /\ queues = [r \in Robots |-> EmptyQueue(NoOrder)]
    /\ pc = [r \in Robots |-> "off"]
    /\ hand = [r \in Robots |-> NoOrder]
    /\ at = [r \in Robots |-> 0]
    /\ retrying = [o \in OrderIds |-> 0]
    /\ ops = 0

Init ==
    /\ NothingOrdered
    /\ robots = [r \in Robots |-> [status |-> "ABSENT", cur |-> NoOrder]]

-----------------------------------------------------------------------------
(***************************************************************************)
(* The robot loop: runRobotLoop and processOrder.                          *)
(***************************************************************************)

\* tryDispatchRobot starts a loop, which first awaits ensureRobot.
Kicked(r) == [pc EXCEPT ![r] = IF @ = "off" THEN "top" ELSE @]

\* Faulty variant: a robot without an active order is left alone.
TickActive ==
    /\ Calm
    /\ \E r \in Robots : pc[r] = "off" /\ queues[r].active # NoOrder
    /\ pc' = [r \in Robots |->
                IF pc[r] = "off" /\ queues[r].active # NoOrder
                THEN "top" ELSE pc[r]]
    /\ UNCHANGED <<bookVars, robots, hand, at, retrying, ops>>

\* tick: a loop for every known robot that has none, whatever its status.
Tick ==
    /\ Calm
    /\ \E r \in Robots : pc[r] = "off" /\ robots[r].status # "ABSENT"
    /\ pc' = [r \in Robots |->
                IF pc[r] = "off" /\ robots[r].status # "ABSENT"
                THEN "top" ELSE pc[r]]
    /\ UNCHANGED <<bookVars, robots, hand, at, retrying, ops>>

\* The end of an iteration: the order's status says whether the loop goes on.
Continue(r, status) ==
    pc' = [pc EXCEPT ![r] = IF status \in {"ERROR", "PENDING"}
                            THEN "off" ELSE "top"]

ClearActive(r) == queues' = [queues EXCEPT ![r] = SetActive(@, NoOrder)]

\* The queue gave no order: the loop ends.
NothingToDo(r) ==
    /\ pc[r] = "top"
    /\ queues[r].active = NoOrder /\ ~CanDequeue(queues[r])
    /\ pc' = [pc EXCEPT ![r] = "off"]
    /\ UNCHANGED <<bookVars, robots, hand, at, retrying, ops>>

Dequeue(r) ==
    /\ pc[r] = "top"
    /\ queues[r].active = NoOrder /\ CanDequeue(queues[r])
    /\ hand' = [hand EXCEPT ![r] = Head(queues[r].items)]
    /\ queues' = [queues EXCEPT ![r] = Dequeued(@)]
    /\ pc' = [pc EXCEPT ![r] = "dequeued"]
    /\ UNCHANGED <<orders, slots, robots, at, retrying, ops>>

\* Faulty variant: the order is marked before processOrder looks at it.
ActivateStarted(r) ==
    /\ pc[r] = "dequeued"
    /\ queues' = [queues EXCEPT ![r] = SetActive(@, hand[r])]
    /\ orders' = [orders EXCEPT ![hand[r]].status = "IN_PROGRESS"]
    /\ pc' = [pc EXCEPT ![r] = "activated"]
    /\ UNCHANGED <<slots, robots, hand, at, retrying, ops>>

Activate(r) ==
    /\ pc[r] = "dequeued"
    /\ queues' = [queues EXCEPT ![r] = SetActive(@, hand[r])]
    /\ pc' = [pc EXCEPT ![r] = "activated"]
    /\ UNCHANGED <<orders, slots, robots, hand, at, retrying, ops>>

(***************************************************************************)
(* processOrder up to its first await.  `ord' and `book' are the order and *)
(* the slots after the check for a box that is already in the zone.        *)
(***************************************************************************)
SkipSettled(r, o, ord, book) ==
    /\ ord.status \in Settled
    /\ orders' = [orders EXCEPT ![o] = ord]
    /\ slots' = book
    /\ ClearActive(r)
    /\ pc' = [pc EXCEPT ![r] = "cleared"]
    /\ UNCHANGED at

FinishLogical(r, o, ord, book) ==
    /\ ord.status \notin Settled
    /\ ord.logical
    /\ orders' = [orders EXCEPT ![o] = [ord EXCEPT !.status = "DONE"]]
    /\ slots' = book
    /\ ClearActive(r)
    /\ pc' = [pc EXCEPT ![r] = "cleared"]
    /\ UNCHANGED at

\* Faulty variants: every slot without a box, every slot without a maneuver.
FreeBesideUnoccupied(home) ==
    {s \in Slots : s \in SlotsBeside[home] /\ slots[s].status # "OCUPADO"}
FreeBesideOccupied(home) ==
    {s \in Slots : /\ s \in SlotsBeside[home]
                   /\ slots[s].status \in {"LIBRE", "OCUPADO"}}

\* assignSlotForPickOrder takes the nearest free slot on the home's side;
\* the model takes any of them.
FreeBeside(home) ==
    {s \in Slots : s \in SlotsBeside[home] /\ slots[s].status = "LIBRE"}

\* deferOrderWaitingForSlot, up to its await of clearActive.
Defer(r, o) ==
    LET ord == orders[o] IN
    /\ ord.status \notin Settled /\ ~ord.logical
    /\ ord.type = "PICK" /\ ord.slot = NoSlot
    /\ FreeBeside(ord.home) = {}
    /\ orders' = [orders EXCEPT ![o].status = "PENDING", ![o].waiting = TRUE]
    /\ ClearActive(r)
    /\ pc' = [pc EXCEPT ![r] = "requeue"]
    /\ UNCHANGED <<slots, at>>

\* The slot is marked at the first step, whatever its status was.
InProgress(slot, ord, o) ==
    IF ord.idx # 0 THEN slot
    ELSE WithStatus(slot, IF ord.type = "PICK" THEN "BUSCANDO"
                          ELSE "DEVOLVIENDO", o)

\* Every step done: the slot gets or loses its box and the order is DONE.
FinishPhysical(r, o, ord, book) ==
    /\ ord.idx = NumSteps
    /\ slots' = [book EXCEPT ![ord.slot] =
                    IF ord.type = "PICK" THEN Occupied(o, ord.home)
                    ELSE ClearSlot]
    /\ orders' = [orders EXCEPT ![o] = [ord EXCEPT !.status = "DONE"]]
    /\ ClearActive(r)
    /\ pc' = [pc EXCEPT ![r] = "cleared"]
    /\ UNCHANGED at

\* Faulty variant: one step too many.
StartStepPastEnd(r, o, ord, book) ==
    /\ ord.idx <= NumSteps
    /\ ord.home \notin Unreachable
    /\ slots' = [book EXCEPT ![ord.slot] = InProgress(@, ord, o)]
    /\ orders' = [orders EXCEPT ![o] = ord]
    /\ pc' = [pc EXCEPT ![r] = "step"]
    /\ at' = [at EXCEPT ![r] = ord.idx]
    /\ UNCHANGED queues

\* The step's command goes out and the loop waits for executeStepWithRetry.
StartStep(r, o, ord, book) ==
    /\ ord.idx < NumSteps
    /\ ord.home \notin Unreachable
    /\ slots' = [book EXCEPT ![ord.slot] = InProgress(@, ord, o)]
    /\ orders' = [orders EXCEPT ![o] = ord]
    /\ pc' = [pc EXCEPT ![r] = "step"]
    /\ at' = [at EXCEPT ![r] = ord.idx]
    /\ UNCHANGED queues

\* resolveStepCommand throws outside the try: the loop dies, the order stays.
LoopDies(r, o, ord, book) ==
    /\ ord.idx < NumSteps
    /\ ord.home \in Unreachable
    /\ slots' = [book EXCEPT ![ord.slot] = InProgress(@, ord, o)]
    /\ orders' = [orders EXCEPT ![o] = ord]
    /\ pc' = [pc EXCEPT ![r] = "off"]
    /\ UNCHANGED <<queues, at>>

Work(r, o, ord, book) ==
    \/ FinishPhysical(r, o, ord, book)
    \/ StartStep(r, o, ord, book)
    \/ LoopDies(r, o, ord, book)

\* The order as it is when its work starts or goes on in slot s.
Started(o, s) ==
    [orders[o] EXCEPT !.status = "IN_PROGRESS", !.waiting = FALSE, !.slot = s]

WorkInAssignedSlot(r, o) ==
    LET ord == orders[o] IN
    /\ ord.status \notin Settled /\ ~ord.logical
    /\ ord.type = "PICK" /\ ord.slot = NoSlot
    /\ \E s \in FreeBeside(ord.home) :
         Work(r, o, Started(o, s), [slots EXCEPT ![s] = Reserved(@, o)])

\* Faulty variant: a logical order is carried out.
WorkLogicalToo(r, o) ==
    /\ orders[o].status \notin Settled
    /\ orders[o].slot # NoSlot
    /\ Work(r, o, Started(o, orders[o].slot), slots)

WorkInOwnSlot(r, o) ==
    /\ orders[o].status \notin Settled /\ ~orders[o].logical
    /\ orders[o].slot # NoSlot
    /\ Work(r, o, Started(o, orders[o].slot), slots)

\* Faulty variant: no second look for the box.
LooksForNoBox(ord) == FALSE

\* A PICK without a slot looks for its box in the zone before anything else.
LooksForBox(ord) == ord.type = "PICK" /\ ~ord.logical /\ ord.slot = NoSlot

JoinStack(r, o) ==
    /\ LooksForBox(orders[o])
    /\ \E s \in OccupiedFrom(slots, orders[o].home) :
         LET ord == [orders[o] EXCEPT !.slot = s, !.logical = TRUE]
             book == [slots EXCEPT ![s] = Stacked(@)]
         IN  SkipSettled(r, o, ord, book) \/ FinishLogical(r, o, ord, book)

NoBoxToJoin(o) ==
    LooksForBox(orders[o]) => OccupiedFrom(slots, orders[o].home) = {}

ProcessOrder(r, o) ==
    \/ JoinStack(r, o)
    \/ /\ NoBoxToJoin(o)
       /\ \/ SkipSettled(r, o, orders[o], slots)
          \/ FinishLogical(r, o, orders[o], slots)
          \/ Defer(r, o)
          \/ WorkInAssignedSlot(r, o)
          \/ WorkInOwnSlot(r, o)

\* The queue still had an active order: the loop goes on with it.
ResumeActive(r) ==
    /\ pc[r] = "top"
    /\ queues[r].active # NoOrder
    /\ hand' = [hand EXCEPT ![r] = queues[r].active]
    /\ ProcessOrder(r, queues[r].active)
    /\ UNCHANGED <<robots, retrying, ops>>

ProcessActivated(r) ==
    /\ pc[r] = "activated"
    /\ robots' = [robots EXCEPT ![r] = [status |-> "BUSY", cur |-> hand[r]]]
    /\ ProcessOrder(r, hand[r])
    /\ UNCHANGED <<hand, retrying, ops>>

\* Faulty variants: the order is dropped, or goes back to the head.
RequeueNowhere(r) ==
    /\ pc[r] = "requeue"
    /\ pc' = [pc EXCEPT ![r] = "cleared"]
    /\ UNCHANGED <<orders, slots, queues, robots, hand, at, retrying, ops>>
RequeueAtHead(r) ==
    /\ pc[r] = "requeue"
    /\ queues' = [queues EXCEPT ![r].items = <<hand[r]>> \o @]
    /\ pc' = [pc EXCEPT ![r] = "cleared"]
    /\ UNCHANGED <<orders, slots, robots, hand, at, retrying, ops>>

\* deferOrderWaitingForSlot, from clearActive to its await of enqueue.
Requeue(r) ==
    /\ pc[r] = "requeue"
    /\ queues' = [queues EXCEPT ![r] = Enqueue(@, hand[r])]
    /\ pc' = [pc EXCEPT ![r] = "cleared"]
    /\ UNCHANGED <<orders, slots, robots, hand, at, retrying, ops>>

\* The last segment of processOrder for an order that left the robot.
FreeRobot(r) ==
    /\ pc[r] = "cleared"
    /\ robots' = [robots EXCEPT ![r] = [status |-> "IDLE", cur |-> NoOrder]]
    /\ Continue(r, orders[hand[r]].status)
    /\ UNCHANGED <<bookVars, hand, at, retrying, ops>>

\* Faulty variant: the index stays where it was.
StepDoneInPlace(r) ==
    /\ Calm /\ pc[r] = "step"
    /\ orders' = [orders EXCEPT ![hand[r]].idx = at[r]]
    /\ Continue(r, orders[hand[r]].status)
    /\ UNCHANGED <<slots, queues, robots, hand, at, retrying, ops>>

\* The PLC acknowledged the step; the index captured before it is advanced,
\* whatever happened to the order meanwhile.
StepDone(r) ==
    /\ Calm /\ pc[r] = "step"
    /\ orders' = [orders EXCEPT ![hand[r]].idx = at[r] + 1]
    /\ Continue(r, orders[hand[r]].status)
    /\ UNCHANGED <<slots, queues, robots, hand, at, retrying, ops>>

\* Faulty variant: the loop goes on as if the step were done.
StepFailsUnnoticed(r) ==
    /\ Calm /\ pc[r] = "step"
    /\ orders' = [orders EXCEPT ![hand[r]].idx = at[r] + 1]
    /\ Continue(r, orders[hand[r]].status)
    /\ UNCHANGED <<slots, queues, robots, hand, at, retrying, ops>>

\* Every attempt failed, or one failed for good: the slot is blocked.
StepFails(r) ==
    LET o == hand[r] IN
    /\ Calm /\ pc[r] = "step"
    /\ slots' = [slots EXCEPT ![orders[o].slot] = Blocked(@, o)]
    /\ orders' = [orders EXCEPT ![o].status = "ERROR"]
    /\ ClearActive(r)
    /\ pc' = [pc EXCEPT ![r] = "failed"]
    /\ UNCHANGED <<robots, hand, at, retrying, ops>>

RobotFails(r) ==
    /\ pc[r] = "failed"
    /\ robots' = [robots EXCEPT ![r] = [status |-> "ERROR", cur |-> NoOrder]]
    /\ Continue(r, orders[hand[r]].status)
    /\ UNCHANGED <<bookVars, hand, at, retrying, ops>>

-----------------------------------------------------------------------------
(***************************************************************************)
(* The API handlers.                                                       *)
(***************************************************************************)

\* An operator's intervention counts against the bound.
Intervene == Calm /\ ops < MaxOps /\ ops' = ops + 1

\* Faulty variant: a settled order does not count.
KnownWhileActive(ext) ==
    ext # NoExternalId /\ \E o \in OrderIds : /\ Exists(o)
                                             /\ orders[o].status \notin Settled
                                             /\ orders[o].ext = ext

\* submitOrder answers with the order that already has the id.
Known(ext) == ext # NoExternalId /\ \E o \in OrderIds : /\ Exists(o)
                                                        /\ orders[o].ext = ext

\* Faulty variant: the order may go to another robot's queue.
AcceptAnywhere(o, ord) ==
    /\ orders' = [orders EXCEPT ![o] = ord]
    /\ robots' = [robots EXCEPT ![ord.robot].status = "IDLE"]
    /\ \E r \in Robots : queues' = [queues EXCEPT ![r] = Enqueue(@, o)]
    /\ pc' = Kicked(ord.robot)
    /\ UNCHANGED <<hand, at, retrying, ops>>

\* The tail of submitOrder: createOrder, upsertRobot, enqueue, kickRobot.
Accept(o, ord) ==
    /\ orders' = [orders EXCEPT ![o] = ord]
    /\ robots' = [robots EXCEPT ![ord.robot].status = "IDLE"]
    /\ queues' = [queues EXCEPT ![ord.robot] = Enqueue(@, o)]
    /\ pc' = Kicked(ord.robot)
    /\ UNCHANGED <<hand, at, retrying, ops>>

NewOrder(type, r, home, slot, ext) ==
    [status |-> "PENDING", type |-> type, home |-> home, robot |-> r,
     slot |-> slot, idx |-> 0, logical |-> FALSE, waiting |-> FALSE,
     ext |-> ext]

\* A PICK whose box already stands in the zone joins its stack; `want' is
\* the slot the client may name.
SubmitPick(r, home, want, ext) ==
    /\ Calm /\ ~Known(ext)
    /\ \E o \in NextId :
         \/ /\ OccupiedFrom(slots, home) = {}
            /\ Accept(o, NewOrder("PICK", r, home, want, ext))
            /\ UNCHANGED slots
         \/ \E s \in OccupiedFrom(slots, home) :
              /\ slots' = [slots EXCEPT ![s] = Stacked(@)]
              /\ Accept(o, [NewOrder("PICK", r, home, s, ext)
                              EXCEPT !.logical = TRUE])

SubmitPut(r, home, s, ext) ==
    /\ Calm /\ ~Known(ext)
    /\ \E o \in NextId :
         LET ord == NewOrder("PUT", r, home, s, ext) IN
         \/ /\ Depth(slots[s]) > 1
            /\ slots' = [slots EXCEPT ![s] = Unstacked(@)]
            /\ Accept(o, [ord EXCEPT !.logical = TRUE])
         \/ /\ Depth(slots[s]) <= 1 /\ ReservableForPut(slots[s])
            /\ slots' = [slots EXCEPT ![s] = Reserved(@, o)]
            /\ Accept(o, ord)
         \/ /\ Depth(slots[s]) <= 1 /\ ~ReservableForPut(slots[s])
            /\ Accept(o, [ord EXCEPT !.waiting = TRUE])
            /\ UNCHANGED slots

\* retryOrder has no test on the status; it first resets the PLC registers.
RetryBegins(o) ==
    /\ Exists(o) /\ Intervene
    /\ retrying' = [retrying EXCEPT ![o] = @ + 1]
    /\ UNCHANGED <<bookVars, robots, loopVars>>

RetryEnds(o) ==
    LET r == orders[o].robot IN
    /\ Calm /\ retrying[o] > 0
    /\ retrying' = [retrying EXCEPT ![o] = @ - 1]
    /\ orders' = [orders EXCEPT ![o].status = "PENDING", ![o].idx = 0,
                                ![o].waiting = FALSE]
    /\ queues' = [queues EXCEPT ![r] = Enqueue(@, o)]
    /\ robots' = [robots EXCEPT ![r] = [status |-> "IDLE", cur |-> NoOrder]]
    /\ pc' = Kicked(r)
    /\ UNCHANGED <<slots, hand, at, ops>>

\* resetRobotMessageIn throws: the request fails and nothing changed.
RetryFails(o) ==
    /\ Calm /\ retrying[o] > 0
    /\ retrying' = [retrying EXCEPT ![o] = @ - 1]
    /\ UNCHANGED <<bookVars, robots, loopVars, ops>>

\* Faulty variant: only a PICK gives its slot back.
GiveBackPicks(slot, o) ==
    IF slot.by = o /\ orders[o].type = "PICK" THEN ClearSlot ELSE slot

\* Faulty variant: the slot of a PUT is freed too.
GiveBackFree(slot, o) == IF slot.by = o THEN ClearSlot ELSE slot

\* A claim that the order still holds goes back: a PICK frees the slot, a
\* PUT declares it occupied again.
GiveBack(slot, o) ==
    IF slot.by # o THEN slot
    ELSE IF orders[o].type = "PICK" THEN ClearSlot
         ELSE WithStatus(slot, "OCUPADO", NoOrder)

CancelOrder(o) ==
    LET r == orders[o].robot
        s == orders[o].slot
    IN
    /\ Exists(o) /\ Intervene
    /\ queues' = [queues EXCEPT ![r] = RemoveOrder(@, o, NoOrder)]
    /\ slots' = IF s = NoSlot THEN slots
                ELSE [slots EXCEPT ![s] = GiveBack(@, o)]
    /\ orders' = [orders EXCEPT ![o].status = "CANCELED"]
    /\ robots' = [robots EXCEPT ![r] = [status |-> "IDLE", cur |-> NoOrder]]
    /\ UNCHANGED <<loopVars, retrying>>

\* POST /api/slots/:locationCode/release, whatever the slot's status.
ReleaseSlot(s) ==
    /\ Intervene
    /\ slots' = [slots EXCEPT ![s] = ClearSlot]
    /\ UNCHANGED <<orders, queues, robots, loopVars, retrying>>

PauseQueue(r) ==
    /\ ~queues[r].paused /\ Intervene
    /\ queues' = [queues EXCEPT ![r] = WithPause(@, TRUE)]
    /\ UNCHANGED <<orders, slots, robots, loopVars, retrying>>

ResumeQueue(r) ==
    /\ Calm /\ queues[r].paused
    /\ queues' = [queues EXCEPT ![r] = WithPause(@, FALSE)]
    /\ UNCHANGED <<orders, slots, robots, loopVars, retrying, ops>>

\* POST /api/devices/register shows the robot as IDLE, whatever it does.
RegisterDevice(r) ==
    /\ robots[r].status # "IDLE" /\ Intervene
    /\ robots' = [robots EXCEPT ![r].status = "IDLE"]
    /\ UNCHANGED <<bookVars, loopVars, retrying>>

-----------------------------------------------------------------------------
Resume(r) ==
    \/ NothingToDo(r) \/ Dequeue(r) \/ Activate(r) \/ ResumeActive(r)
    \/ ProcessActivated(r) \/ Requeue(r) \/ FreeRobot(r) \/ RobotFails(r)

PlcAnswers(r) == StepDone(r) \/ StepFails(r)
RetryReturns(o) == RetryEnds(o) \/ RetryFails(o)

\* The client names no slot, or one of the zone; a PUT's target is told
\* apart only by whether a command can be built for it.
Submit(r) ==
    \E ext \in ExternalIds \cup {NoExternalId} :
        \/ \E home \in Homes, want \in Slots \cup {NoSlot} :
             SubmitPick(r, home, want, ext)
        \/ \E home \in Unreachable \cup {NoHome}, s \in Slots :
             SubmitPut(r, home, s, ext)

Operate ==
    \/ \E o \in OrderIds : RetryBegins(o) \/ CancelOrder(o)
    \/ \E s \in Slots : ReleaseSlot(s)
    \/ \E r \in Robots : PauseQueue(r) \/ ResumeQueue(r) \/ RegisterDevice(r)

Next ==
    \/ Tick
    \/ \E r \in Robots : Resume(r) \/ PlcAnswers(r) \/ Submit(r)
    \/ \E o \in OrderIds : RetryReturns(o)
    \/ Operate

Spec == Init /\ [][Next]_vars

\* The interval timer fires, promise jobs run, and a PLC call ends because
\* its attempts and their timeouts are bounded.
Fairness ==
    /\ WF_vars(Tick)
    /\ \A r \in Robots : WF_vars(Resume(r)) /\ WF_vars(PlcAnswers(r))
    /\ \A o \in OrderIds : WF_vars(RetryReturns(o))

FairSpec == Spec /\ Fairness
=============================================================================
