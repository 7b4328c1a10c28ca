------------------------------- MODULE Floor -------------------------------
(***************************************************************************)
(* The picking zone with its clients: the operator at a screen of the web  *)
(* front (packages/web), the picking app that orders boxes, and the script *)
(* that keeps an idle robot moving (scripts/soakRobot.js).  Each acts on   *)
(* what it last read from the server, which may have changed since.        *)
(*                                                                         *)
(* Next to the books stands where each box really is.  A box is called     *)
(* after its home.  A maneuver carries it in one piece, when its last step *)
(* is done; the step fails when no box is there to fetch (code 6 of the    *)
(* PLC, "No hay cajon") or another stands in the way (18, "Obstaculo").    *)
(***************************************************************************)
EXTENDS OrchestratorProps

CONSTANTS
    RobotOf,       \* the robot that the code of a slot or of a home names
    ScriptRobot,   \* SOAK_ROBOT_ID, the robot whose state the script reads
    Pool,          \* the homes the script may order, buildLocationPool
    Untouchable,   \* a slot of the screen that returns nothing when touched
    MaxAsked       \* bound: orders placed by the script in a behaviour

ASSUME RobotsAssumption == RobotOf \in [Slots \cup Homes -> Robots]
\* As configured: there is one rack, and its robot serves all of it.
ASSUME RackAssumption ==
    /\ Slots \cap Homes = {}
    /\ \A h \in Homes : \A s \in SlotsBeside[h] : RobotOf[s] = RobotOf[h]
ASSUME PoolAssumption ==
    /\ Pool \subseteq Homes /\ ScriptRobot \in Robots
    /\ \A h \in Pool : RobotOf[h] = ScriptRobot
ASSUME UntouchableAssumption == Untouchable \notin Homes \cup {NoHome}
ASSUME MaxAskedAssumption == MaxAsked \in Nat

VARIABLES
    where,     \* the slot or home each box stands on
    meddled,   \* an operator undid what was under way, or a box went astray
    board,     \* on the screen: the box that touching each slot returns
    script,    \* where the script is
    job,       \* the order it waits for
    source,    \* sourceLocation, the home of its cycle
    slot,      \* the slot its PICK was done with
    dwelt,     \* idleSince is set
    glance,    \* the first of the two answers of readIdleState
    pool,      \* the locations left in its pool
    asked      \* the orders it placed

zoneVars == <<where, meddled>>
scriptVars == <<script, job, source, slot, dwelt, glance, pool, asked>>
floorVars == <<vars, zoneVars, board, scriptVars>>

NothingSeen == "nothing"

\* The robots have been registered.
FloorInit ==
    /\ NothingOrdered
    /\ robots = [r \in Robots |-> [status |-> "IDLE", cur |-> NoOrder]]
    /\ where = [b \in Homes |-> b]
    /\ meddled = FALSE
    /\ board = [s \in Slots |-> Untouchable]
    /\ script = "dwell"
    /\ job = NoOrder /\ source = NoHome /\ slot = NoSlot
    /\ dwelt = FALSE
    /\ glance = NothingSeen
    /\ pool = Pool
    /\ asked = {}

-----------------------------------------------------------------------------
(***************************************************************************)
(* The server and the robots.                                              *)
(***************************************************************************)
From(o) == IF orders[o].type = "PICK" THEN orders[o].home ELSE orders[o].slot
To(o) == IF orders[o].type = "PICK" THEN orders[o].slot ELSE orders[o].home

BoxesOn(place) == {b \in Homes : where[b] = place}

\* Box b arrives; it should only ever go to a slot or to its own home.
Carries(o, b) ==
    /\ BoxesOn(From(o)) = {b} /\ BoxesOn(To(o)) = {}
    /\ where' = [where EXCEPT ![b] = To(o)]
    /\ meddled' = (meddled \/ To(o) \notin Slots \cup {b})

RobotStepDone(r) ==
    /\ StepDone(r)
    /\ IF at[r] + 1 < NumSteps THEN UNCHANGED zoneVars
       ELSE \E b \in Homes : Carries(hand[r], b)

\* A failed maneuver may be retried: somebody has put the box back.
OrderRetried(o) ==
    /\ \/ RetryEnds(o) /\ meddled' = (meddled \/ orders[o].status # "ERROR")
       \/ RetryFails(o) /\ UNCHANGED meddled
    /\ UNCHANGED where

FloorTick == Tick /\ UNCHANGED zoneVars
FloorResume(r) == Resume(r) /\ UNCHANGED zoneVars
FloorPlc(r) == RobotStepDone(r) \/ (StepFails(r) /\ UNCHANGED zoneVars)

ServerMoves ==
    \/ FloorTick
    \/ \E r \in Robots : FloorResume(r) \/ FloorPlc(r)
    \/ \E o \in OrderIds : OrderRetried(o)

\* A box is ordered: POST /api/orders/pick by the picking app, or PickForm.
BoxIsOrdered ==
    /\ \E home \in Homes, ext \in ExternalIds \cup {NoExternalId} :
         SubmitPick(RobotOf[home], home, NoSlot, ext)
    /\ UNCHANGED zoneVars

-----------------------------------------------------------------------------
(***************************************************************************)
(* The screen.  It shows what a query read last: a poll every 5 seconds, a *)
(* refresh after every request of its own, the old data while a query      *)
(* fails.                                                                  *)
(***************************************************************************)

\* SlotBoard and ManualPutForm: what is OCUPADO can be returned.
Touchable(s) == IF slots[s].status = "OCUPADO" THEN slots[s].box ELSE Untouchable

RefreshBoard ==
    /\ Calm
    /\ board' = [s \in Slots |-> Touchable(s)]
    /\ board' # board

\* ReturnBoxDialog: the operator reads the location off the box.
AskedTargets(s) == BoxesOn(s)

\* handleReturn: where the box goes is asked when the books do not say.
Targets(s) == IF board[s] = NoHome THEN AskedTargets(s) ELSE {board[s]}

TouchBox(s) ==
    /\ board[s] # Untouchable
    /\ \E target \in Targets(s) : SubmitPut(RobotOf[s], target, s, NoExternalId)
    /\ UNCHANGED zoneVars

\* Its maneuver failed and nobody claimed the slot since.
Blocks(o) ==
    /\ orders[o].slot # NoSlot
    /\ slots[orders[o].slot].by = o /\ slots[orders[o].slot].status = "ERROR"

\* The robot has begun with the order, be it before a retry.
UnderWay(o) ==
    orders[o].status # "PENDING" \/ orders[o].idx > 0 \/ Blocks(o)

\* Every order was on the list once, and the list may be an old one.
PressCancel(o) ==
    /\ CancelOrder(o)
    /\ meddled' = (meddled \/ UnderWay(o))
    /\ UNCHANGED where

\* Offered for failed orders; the list is taken to be fresh here, a retry of
\* any other order is what Core checks.
PressRetry(o) ==
    /\ orders[o].status = "ERROR"
    /\ RetryBegins(o)
    /\ UNCHANGED zoneVars

\* ReleaseSlotForm, for a box that is no longer there.  The confirmation
\* does not look again, so the slot may have been filled meanwhile.
ConfirmRelease(s) ==
    /\ board[s] # Untouchable
    /\ ReleaseSlot(s)
    /\ meddled' = (meddled \/ slots[s].status # "OCUPADO" \/ BoxesOn(s) # {})
    /\ UNCHANGED where

OperatorActs ==
    \/ \E s \in Slots : TouchBox(s) \/ ConfirmRelease(s)
    \/ \E o \in OrderIds : PressCancel(o) \/ PressRetry(o)

-----------------------------------------------------------------------------
(***************************************************************************)
(* The script.  A cycle is a PICK of a box of the pool and, once the robot *)
(* is idle again, the PUT that takes it back.                              *)
(***************************************************************************)
Waits(place) == script = place /\ Calm

\* Back in the main loop; an exception and a failed order end there too.
CycleOver ==
    /\ script' = "dwell"
    /\ job' = NoOrder /\ source' = NoHome /\ slot' = NoSlot
    /\ dwelt' = FALSE /\ glance' = NothingSeen

QueueGlance ==
    IF queues[ScriptRobot].active = NoOrder /\ queues[ScriptRobot].items = << >>
       /\ ~queues[ScriptRobot].paused
    THEN "queueIdle" ELSE "queueBusy"

RobotGlance ==
    CASE robots[ScriptRobot].status = "IDLE" -> "robotIdle"
      [] robots[ScriptRobot].status = "ERROR" -> "robotError"
      [] OTHER -> "robotBusy"

\* readIdleState sends two requests at once, answered in any order.
FirstGlance ==
    /\ script \in {"dwell", "clear"} /\ Calm
    /\ glance = NothingSeen
    /\ glance' \in {QueueGlance, RobotGlance}
    /\ UNCHANGED <<script, job, source, slot, dwelt, pool, asked>>

SecondGlance ==
    IF glance \in {"queueIdle", "queueBusy"} THEN {glance, RobotGlance}
                                               ELSE {glance, QueueGlance}

\* Faulty variant: the answer about the queue is not looked at.
SeesRobotIdle == "robotIdle" \in SecondGlance

SeesIdle == SecondGlance = {"queueIdle", "robotIdle"}

\* waitUntilIdle in the main loop: the robot has to be seen idle twice, at
\* least IDLE_MS apart.
Dwell ==
    /\ Waits("dwell") /\ glance # NothingSeen
    /\ glance' = NothingSeen
    /\ dwelt' = SeesIdle
    /\ script' \in IF SeesIdle /\ dwelt THEN {"dwell", "toPick"} ELSE {"dwell"}
    /\ UNCHANGED <<job, source, slot, pool, asked>>

\* waitUntilIdle before the PUT: a robot in ERROR makes the script forget
\* the box.
Clear ==
    /\ Waits("clear") /\ glance # NothingSeen
    /\ IF "robotError" \in SecondGlance THEN CycleOver
       ELSE /\ glance' = NothingSeen
            /\ script' = IF SeesIdle THEN "toPut" ELSE "clear"
            /\ UNCHANGED <<job, source, slot, dwelt>>
    /\ UNCHANGED <<pool, asked>>

\* The order is placed; its answer may get lost, which ends the cycle.
Placed(place, home) ==
    \E o \in NextId :
        /\ asked' = asked \cup {o}
        /\ \/ /\ script' = place /\ job' = o /\ source' = home
              /\ UNCHANGED <<slot, dwelt, glance>>
           \/ CycleOver

MayAsk == Cardinality(asked) < MaxAsked

PlacePick ==
    /\ script = "toPick" /\ MayAsk
    /\ \E home \in pool :
         /\ SubmitPick(RobotOf[home], home, NoSlot, NoExternalId)
         /\ Placed("pick", home)
    /\ UNCHANGED <<zoneVars, pool>>

PlacePut ==
    /\ script = "toPut" /\ MayAsk
    /\ SubmitPut(RobotOf[slot], source, slot, NoExternalId)
    /\ Placed("put", source)
    /\ UNCHANGED <<zoneVars, pool>>

\* waitForOrder: the PICK settled.  A location without a box leaves the pool.
PickSettles ==
    /\ Waits("pick")
    /\ orders[job].status \in Settled
    /\ IF orders[job].status = "DONE"
       THEN /\ script' = "clear" /\ slot' = orders[job].slot /\ job' = NoOrder
            /\ dwelt' = FALSE
            /\ UNCHANGED <<source, glance, pool>>
       ELSE /\ CycleOver
            /\ pool' \in IF orders[job].status = "ERROR"
                         THEN {pool, pool \ {source}} ELSE {pool}
    /\ UNCHANGED asked

PutSettles ==
    /\ Waits("put")
    /\ orders[job].status \in Settled
    /\ CycleOver
    /\ UNCHANGED <<pool, asked>>

\* A request fails, or waitForOrder reaches its timeout: the cycle ends with
\* an exception.  In the main loop a failed read ends the script.
RequestFails ==
    /\ script \in {"toPick", "pick", "clear", "toPut", "put"}
    /\ CycleOver
    /\ UNCHANGED <<pool, asked>>

\* SIGINT, the end of --once, or a failed read in the main loop.
Stop ==
    /\ script \notin {"toPick", "toPut", "over"}
    /\ script' = "over"
    /\ job' = NoOrder /\ source' = NoHome /\ slot' = NoSlot
    /\ dwelt' = FALSE /\ glance' = NothingSeen
    /\ UNCHANGED <<pool, asked>>

ScriptReads ==
    /\ FirstGlance \/ Dwell \/ Clear \/ PickSettles \/ PutSettles
    /\ UNCHANGED <<vars, zoneVars>>

ScriptActs ==
    \/ ScriptReads
    \/ PlacePick \/ PlacePut
    \/ (RequestFails \/ Stop) /\ UNCHANGED <<vars, zoneVars>>

-----------------------------------------------------------------------------
FloorNext ==
    \/ /\ ServerMoves \/ BoxIsOrdered \/ OperatorActs
       /\ UNCHANGED <<board, scriptVars>>
    \/ RefreshBoard /\ UNCHANGED <<vars, zoneVars, scriptVars>>
    \/ ScriptActs /\ UNCHANGED board

FloorSpec == FloorInit /\ [][FloorNext]_floorVars

\* As Fairness of Orchestrator; the script's timers fire, and its requests
\* are served although the interval timer keeps waking the loops.
FloorFairness ==
    /\ WF_floorVars(FloorTick /\ UNCHANGED <<board, scriptVars>>)
    /\ \A r \in Robots :
         /\ WF_floorVars(FloorResume(r) /\ UNCHANGED <<board, scriptVars>>)
         /\ WF_floorVars(FloorPlc(r) /\ UNCHANGED <<board, scriptVars>>)
    /\ \A o \in OrderIds :
         WF_floorVars(OrderRetried(o) /\ UNCHANGED <<board, scriptVars>>)
    /\ SF_floorVars(ScriptReads /\ UNCHANGED board)

FloorFairSpec == FloorSpec /\ FloorFairness

-----------------------------------------------------------------------------
(***************************************************************************)
(* A slot the books show as free has no box on it: the next PICK will put  *)
(* one there.  It holds for everything the clients do, on stale screens    *)
(* and by scripts that lose their answers, until meddled is set: until     *)
(* somebody cancels an order under way, retries one that has not failed,   *)
(* releases a slot that is not shown as occupied or has a box on it, or a  *)
(* touch on an old screen takes a box to a home that is not its own.       *)
(***************************************************************************)
FreeSlotsAreEmpty ==
    meddled \/ \A s \in Slots : slots[s].status = "LIBRE" => BoxesOn(s) = {}

(***************************************************************************)
(* A slot the books show as occupied has the box they name, and it alone.  *)
(***************************************************************************)
BoxesAreWhereShown ==
    \A s \in Slots :
        slots[s].status = "OCUPADO" /\ slots[s].box # NoHome =>
            BoxesOn(s) = {slots[s].box}

(***************************************************************************)
(* The same, until one of the events FreeSlotsAreEmpty names.              *)
(***************************************************************************)
BooksMatchFloor == meddled \/ BoxesAreWhereShown

(***************************************************************************)
(* At most one order of the script is not settled.  It forgets an order    *)
(* whose answer it missed or waited for too long, and may only go on when  *)
(* the queue shows that nothing is left of it.  Retries are the operator's.*)
(***************************************************************************)
ScriptAsksOneByOne ==
    ops = 0 =>
        \A o, p \in asked :
            {orders[o].status, orders[p].status} \cap Settled = {} => o = p

(***************************************************************************)
(* scripts/soakRobot.js 11-13: each cycle returns the box it brought, so   *)
(* that the script does not fill the slots and block real orders.          *)
(***************************************************************************)
ReturnsComeAbout ==
    script = "clear" ~> script # "clear" \/ queues[ScriptRobot].paused
=============================================================================
