# Verification of the warehouse server

This directory holds TLA+ specifications of the server in `src/` (a Node.js process that
orchestrates PICK and PUT orders over robots driven by PLCs), the TLC configurations that
check them on small instances, and TLAPS proofs that some of the properties hold for every
number of robots, slots, orders and operator interventions.

Paths such as `core/orchestrator/OrchestratorService.js` are relative to the server's `src/`
directory.

## 1. The system

A client (web front, WMS, soak script) submits **orders**. A PICK brings the box of a home
location to a **slot** of the picking zone; a PUT takes the box on a slot back. Each **robot**
has a queue and one asynchronous loop, which carries out one order at a time, step by step
(HOMING, lift, car, lift, car). Each step is a command written into a register of a PLC over
Modbus TCP, acknowledged by another register.

Node runs one thing at a time. What interleaves are the segments of code between two
`await`s: robot loops, the interval tick, request handlers, the connection monitor and the
answers of PLCs. That is where the bugs hide, and what the models are built around.

### Components

| Component | State | Operations | Talks to |
|---|---|---|---|
| Orchestrator (`core/orchestrator/OrchestratorService.js`) | which robots have a running loop; each loop's local variables | submit, tick, kick, robot loop, processOrder, retry, cancel, rehydrate | books, queues, connection service, stores |
| Books (`core/state/StateManager.js`) | orders, slots, robots, devices, commands, errors | synchronous reads and updates of a record | called by all |
| Queues (`core/queue/QueueManager.js`) | per robot: active order, waiting orders, pause flag | enqueue, dequeue, set/clear active, pause, remove | called by orchestrator and API |
| External queue driver (`core/queue/ExternalQueueManager.js`) | the same, in another process | the same, as HTTP calls with a timeout | replaces the queues |
| Slot ranking (`core/orchestrator/slotDistance.js`) | none | filters and sorts the free slots on the side of a home | called by processOrder |
| Location codes (`core/orchestrator/locationTranslator.js`, `config/plcProtocol.js`) | none | parse a code, build a PLC command, decode an answer | called by orchestrator, connection |
| Connection service (`core/connection/ConnectionService.js`) | one Modbus client and recovery record per device, streaks of recreations | step handshake, register reads and writes, monitor with backoff, recreation, hard reset | mutex, Modbus client, PLC |
| Device mutex (`infra/transport/modbus/DeviceMutex.js`) | per device: tail promise, count in flight | run, tryRun, clear | serialises the connection service |
| Modbus client (`infra/transport/modbus/ModbusClient.js`) | socket, connected flag, own promise queue | connect, read, write | PLC |
| Error handler (`core/errors/ErrorHandler.js`) | none | is an error retryable; backoff | called by executeStepWithRetry |
| Persistence (`infra/persistence/*`, `server.js`) | snapshot, events, metrics on disk | save, load, rehydrate | written by orchestrator |
| API (`interfaces/api/*`) | none | request handlers | orchestrator, queues, books |
| Clients (web front, `scripts/soakRobot.js`) | what they last read | requests | API |

### Behaviours that are hard

* **Ids in motion.** An order id moves between the queue, its active place and the loop's own
  variable across awaits, while retry and cancel touch the same queue.
* **State captured before the PLC call.** A step takes seconds. The loop then advances the
  step index it captured before, or writes ERROR, whatever a retry or a cancel did meanwhile.
* **Claims on slots.** A slot names the order that claimed it last. PUTs claim at submission,
  PICKs when they start, logical orders never; cancel gives the claim back.
* **Shared boxes.** A PICK of a box that is in the zone joins its stack, and PUTs take shares
  off it; submission and start look at different moments.
* **Nobody is woken.** No event starts a waiting PICK when a slot becomes free, only the tick.
* **Level-triggered registers.** The PLC handshake has no sequence number: a late answer
  looks like the answer to the next command, and a repeated write looks like the first.
* **Promise chains.** The mutex is a chain of promises with a count; both are dropped by a
  handler that runs after the next operation has chained itself.
* **Restart.** Books and queues are rebuilt from the last snapshot that happened to be saved,
  and the loops start before that is done.
* **A flag for a connection.** Whether a device is connected is a boolean that only a failed
  access takes back; clients are replaced and closed while others still hold them.
* **Clients that look once.** The screen and the endurance script act on what they read some
  seconds ago, and a request whose answer is lost was carried out all the same.

### What makes each component correct

* Orchestrator and books: no order lost, none run twice by accident, no slot held by nobody,
  a robot moves only for the order its queue shows, settled orders stay settled, boxes are
  neither stacked on each other nor fetched twice, waiting orders are not starved.
* Queues: removal and enqueueing keep the other orders and their order.
* Handshake: an answer belongs to the command, a command runs once, every step ends.
* Mutex: one operation at a time, the monitor keeps out, everybody gets a turn.
* Connection: every operation ends, the monitor breaks no connection in use, an outage ends in
  a state from which a device that answers again is found.
* Persistence: after a crash every answered order is back, no slot is stranded, a maneuver goes
  on where it was, every settled order is counted.
* Clients: what the books show is what stands on the slots; the script has one order at a time
  and returns what it brought.

## 2. Modules

| Module | Role |
|---|---|
| `SlotBook` | a slot record and the StateManager operations on it |
| `RobotQueue` | one robot's queue record and the QueueManager operations on it |
| `Orchestrator` | extends both: the orchestrator, its loops and the API handlers |
| `OrchestratorProps` | the properties, and the client assumption `Orderly` |
| `MCOrchestrator` | constants and symmetry |
| `OrderLifecycle` | the abstract specification: what a client may rely on when it follows an order |
| `LifecycleProofs` | that the orchestrator implements it, step by step |
| `Recovery`, `MCRecovery` | the orchestrator with its snapshots and metrics, crashes and rehydration |
| `Floor`, `MCFloor` | the orchestrator with the boxes, the screen of the picking zone and the endurance script |
| `FloorProofs` | that books and floor agree, and that the script asks for one thing at a time |
| `OrchestratorProofs` | lemmas about the queue operations; the inductive invariant and the theorems |
| `OrderlyProofs` | the theorems that hold for the requests of the web front |
| `RecoveryProofs` | the theorems about crashes and rehydration |
| `StepHandshake` | executeStepWithRetry and executeStepCommand against a PLC |
| `StepHandshakeProofs` | that answers and runs match commands |
| `DeviceMutex` | the mutex of one device with its properties |
| `Connection` | extends it: one device's clients, operations with reconnection, monitor, registration, hard reset |
| `ConnectionProofs` | the theorems about the mutex, carried over to the connection; the connection's own theorems |
| `Maneuver`, `MCManeuver` | what the commands of an order make a robot do: slot ranking, codes, commands, registers; a small rack |
| `ManeuverProofs` | decoding of commands; the invariant of the five steps and the theorems |

How they compose: `Recovery` and `Floor` conjoin the actions of `Orchestrator` with what they
add (what is saved; where a box goes), and leave none out. `Connection` conjoins the actions of
`DeviceMutex` with the state of the connection, so that what holds of the mutex holds of it by
construction. `StepHandshake` and
`Maneuver` are the inside of the step that `Orchestrator` takes as one answer: the one about
registers and time, the other about numbers and places.

An operator named "Faulty variant" is a plausible bug in place of the definition below it. It
is used by no specification; `PROJECT.json` pairs it with the property that catches it.

### Orchestrator: state and actions

| Variable | Code |
|---|---|
| `orders`, `slots`, `robots` | the maps of StateManager, with the fields that decide something; ids are 1, 2, … in order of creation, status `ABSENT` stands for "no such order/robot" |
| `queues` | `QueueManager.byRobot` |
| `pc`, `hand`, `at` | the await the loop of a robot waits in, its `activeOrderId`, and the step index it captured |
| `retrying` | requests in `retryOrder` that wait for the registers to be reset |
| `ops` | interventions so far, for the bound only |

Points of `pc`: `off` (no entry in `runningRobots`), `top` (before `getRobotQueue`/`dequeueNext`),
`dequeued` (before `setActive`), `activated`, `step` (at the PLC), `cleared` (after
`clearActive` of a settled or re-queued order), `requeue` (between `clearActive` and `enqueue` of
a deferred PICK), `failed`.

Atomicity. With the in-memory queue an awaited queue call takes effect at once and continues in
a promise job. Promise jobs run before any timer, request or socket event, but those of two
loops interleave. Hence actions of loops interleave freely and actions that begin with an event
(tick, request, answer of a PLC) are guarded by `Calm`: every loop is off or at the PLC.
Requests whose queue call is their only await are one action; retry, which waits for the
PLC, is two.

| Action | Code |
|---|---|
| `Tick`, `Kicked` | `tick`, `kickRobot`, `tryDispatchRobot` |
| `NothingToDo`, `Dequeue`, `Activate`, `ResumeActive`, `ProcessActivated` | `runRobotLoop` |
| `JoinStack`, `SkipSettled`, `FinishLogical`, `Defer`, `WorkInAssignedSlot`, `WorkInOwnSlot`, `FinishPhysical`, `StartStep`, `LoopDies` | the branches of `processOrder` up to its first await |
| `Requeue`, `FreeRobot` | the rest of `deferOrderWaitingForSlot` and of `processOrder` |
| `StepDone`, `StepFails`, `RobotFails` | `processOrder` after `executeStepWithRetry` |
| `SubmitPick`, `SubmitPut` | `submitOrder` |
| `RetryBegins`, `RetryEnds`, `RetryFails`, `CancelOrder` | `retryOrder`, `cancelOrder` |
| `ReleaseSlot`, `PauseQueue`, `ResumeQueue`, `RegisterDevice` | the route handlers |

Abstractions: the nearest free slot is any free slot of the side; the box found for a home is
any occupied slot with it; steps are counted; `Unreachable` homes stand for codes that parse but
have no command; a PLC call is one answer (its inside is `StepHandshake`); histories and events are left out,
snapshots and metrics are in `Recovery`.

### OrderLifecycle: state and actions

`status` of every order as `GET /api/orders/:id` shows it, and `moving`, the orders a robot moves
for. In the orchestrator these are `orders[o].status` and the orders in the hands of loops at
`step`. `Begin` and `Stop` are the two ends of a PLC call, `Reopen` a retry or a PICK that has to
wait. What it promises is what the guards rule out: a robot begins to move only for an order
that is not settled, DONE is said only when nothing moves, ERROR comes only from a movement.

### Recovery: state and actions

| Variable | Code |
|---|---|
| `saved` | the row of `snapshots`: orders, slots and robots, not the queues |
| `metric` | the rows of `order_metrics`; a second row of an order is refused |
| `boot` | the next order of the loop in `rehydrateFromSnapshot`, 0 when that is over |
| `quiet` | loops that leave an order they found settled: they clear the active place and save nothing |
| `crashes` | for the bound |

Each action of `Orchestrator` is conjoined with what it saves and counts. The order inside an
action is kept where it matters: a failed step inserts its row before the await of
`clearActive` (`RecStepFails`) and saves after it (`RecRobotFails`). `Crash` is the end of the
process at any point and `hydrateFromSnapshot`; requests in `retryOrder`, queues, pauses and loops
are gone. `RehydrateNext` is one await of rehydration, during which loops run and take orders;
`RehydrateEnds` shows every robot that is not in ERROR as idle, also one at work. Timers, PLC
answers and requests wait until the promise jobs of the boot are done.

### Floor: state and actions

`where` is the slot or home each box stands on, `board` what the screen shows as touchable,
`script` and the six variables after it the endurance script, `glance` the first of the two answers
it puts together. A box is named after its home and moves when the last step of its maneuver is
done; the step cannot be done when the box is not there or its place is taken (codes 6 and 18 of
`plcProtocol.js`). `TouchBox` is `handleReturn` and `ManualPutForm`, `ConfirmRelease` is
`ReleaseSlotForm`, `PressCancel` and `PressRetry` are the buttons of an order's card. `board` is
refreshed at any time or never. `meddled` records that somebody cancelled or retried an order
under way (one that has begun, or has failed and still blocks its slot), released a slot with a box on it, or that a box went to a home that is not its own;
from then on the books and the floor may differ.

### StepHandshake: state and actions

`messageIn`, `messageOut` are the registers; `moving`, `runs`, `answered` what the PLC does and
which command its answer belongs to; `disturbed` that the PLC was late, an operation was given up
or a retry reset the registers; `place`, `step`, `attempt`, `tries` where
executeStepWithRetry and executeStepCommand are. One action is one Modbus operation under the
mutex. `LoseWrite` is a connection that breaks before or after the PLC had the value, and the
repetition by `_runModbusOpInner`; `ResetByRetry` is `resetRobotMessageIn` from a retry of any
order of the robot. A step whose attempts are used up is over, and the next one may begin: the
orchestrator dispatches the robot's next order.

The PLC program is not in the repository. The model's PLC is the one the polls expect: it
takes a command while `messageOut` is zero, finishes it whatever becomes of `messageIn`, and
withdraws its answer when `messageIn` is zero. It reads the two registers of a carro command
as one; whether a real one may read half a command cannot be told from this code.

### DeviceMutex: state and actions

`tail` and `inflight` are the two maps for one key; `op` says where each call is, `behind` whose
promise it is chained to. `Start`, `End`, `Settle` are the steps of a chained operation, `Settle`
being the finally-handler; `Clear` is a hard reset. The module has no run of its own: `Connection` extends it. A call's name is reused once no promise
refers to it, so a behaviour may hold any number of calls.

### Connection: state and actions

| Variable | Code |
|---|---|
| `client` | the device's entry in `clients`; names of `ModbusClient` objects are reused when nobody holds them |
| `connected` | the clients whose `connected` flag is set |
| `held`, `doing` | the client each caller works with, and the await it is in |
| `tries`, `round`, `streak` | the loops of `_runModbusOpInner`, `modbusRecreateStreakByDevice` |
| `failures`, `backoff`, `shown` | `connectionRecovery` (failures modulo the recreation threshold; whether `nextRetryAt` is ahead) and the status in the registry |

`Begin`, `Wakes` and `NextRound` are `getClient` and `ensureConnected`, `Succeeds` an operation that
went through, `TriesAgainLater`, `NextRound`, `GivesUp` and `ResetsTransport` the four ends of a
failed attempt. `Check…` is `checkRobotConnections`; `DropsClient` comes one promise job after the
client was closed, outside the mutex. `Register…` is `connectDevice`, beside the mutex.
`ResetByOther` is the hard reset another device's operation causes. A device that refuses, drops
or comes back is the choice between these actions. Simulation mode, the branch that shows
OFFLINE (it compares a time with one written just before) and the growth of the backoff are left
out.

### Maneuver: state and actions

`order` holds the places an order names, `idx` and `sent` the step and whether its command was
written, `carro` and `elevador` the command registers, `robot` what the PLCs did: the level of
the lift and the places where the carro took and left a box. `StartPick` is
`assignSlotForPickOrder` with the ranking of `slotDistance.js`, `SendStep` is
`resolveStepCommand` and the register writes, `StepDone` the PLC that obeys. A place is module,
level and position; its code is these three in a string. Orders follow one another on one
robot, so a register or a lift left over from the last order is there for the next.

How a PLC reads a carro command is not in the repository. `Target` undoes the composition
that the tests of `locationTranslator.js` show. Positions are assumed to be 1 to 3, as in the
configured slots and in the docs and tests of orders: position 4 of module 20 with action D has
the number 41000, which is HOMING, and position 5 gives 51000, `PUENTE_IZQ` of `plcProtocol.js`.
Nothing in the code refuses such a code.

## 3. Runs

| Run | Question | Instance |
|---|---|---|
| `Core` | are the books consistent whatever operators and PLCs do, and do orders live as clients are told? | 1 robot, 1 slot, 1 home, 3 orders, 2 steps per order, 2 interventions |
| `Recovery` | is anything lost, stranded, forgotten or uncounted when the process dies? | 2 robots, 1 slot, 2 homes (one unreachable), 2 orders, 2 steps, 1 intervention, 1 crash |
| `Orderly` | do robots collide on a slot, are boxes put on boxes, does a robot bring a box twice, does a repeated request make two orders, with the requests of the web front? | 2 robots, 2 slots, 2 homes, 3 orders, 1 client id, 2 interventions |
| `Progress` | do started orders settle, PUTs pass waiting PICKs, waiting PICKs find free slots, interrupted maneuvers go on? | 1 robot, 1 slot, 2 orders, 2 steps, 1 intervention, 1 crash, fairness |
| `Handshake` | do answers match commands, do late answers, lost connections and resets repeat a command, does every step end? | 3 steps, 3 attempts, 2 tries, 2 resets, fairness |
| `Connection` | does a busy device look locked and a free one not, does the monitor keep out and break nothing, does every operation end, is a device that answers again found, and stays found? | 1 user, 1 monitor, 1 registration, 4 client names, 2 attempts, 2 rounds, recreation after 2 failures, fairness |
| `Maneuver` | do the commands make the robot take and leave the box where the order says, does a PICK get the slot with the least way of the lift? | modules 1, 2 and 20, 3 levels, positions 1 and 3, 3 slots on two sides; any sequence of orders |
| `Floor` | do the books show what stands on the slots, does the script have one order at a time? | 1 robot, 1 slot, 2 boxes, 4 orders, 1 step, 1 intervention, 2 orders by the script, which picks one of the boxes |

Bounds. One slot makes every order compete for it; three orders are a PICK, a PUT and another
PICK or PUT on the same slot; two interventions are enough for a retry inside the reach of a
cancel, of a manual release or of another retry. Two steps tell the first step, which marks
the slot, from a later one; all later steps are treated alike. In `Recovery` a second robot and the unreachable home, whose loop dies, make orders compete for the
slot across the crash; one crash is enough for any single loss, and what a second one meets is a
snapshot the first one may have met. Deadlock checking is on everywhere but in `StepHandshake`,
which stops after the last step. In `Connection` one operation is enough to meet the monitor, the
registration and the resets; attempts and rounds of two tell the first, a middle and the last;
the callers hold at most three clients and the map a fourth. With one
operation and a monitor that chains behind nobody, two operations are in flight at a time only after
a hard reset: there `LocksAreLetGo` is put to the test, while `CountIsExact` and `BusyLooksLocked`,
which end at the first reset, see two callers in flight only in the proofs, which hold for any number
of them. In `Floor` four orders
are the two of a cycle of the script and two others, and each of the boxes can be ordered by the
picking app as well. The rack of `Maneuver` has a module of two digits, whose parante is 10, and a
slot that is far by module and near by level.

`Orderly` restricts the clients to what `packages/web` offers: no slot is named in a PICK, a
PUT names an occupied slot, only orders in ERROR are retried and not again before the answer (the
button is disabled until then, OrderQueue.tsx:132); moreover only waiting orders
are cancelled and no slot is released by hand. Without it `OneManeuverPerSlot` and
`NoBoxOverwritten` do not hold (see below). The assumption is about one screen: from two
screens a failed order can be retried twice at a time (section 4).

### Fairness

`Tick` is weakly fair: `setInterval` keeps firing. A loop's promise jobs run (`Resume`). A PLC
call ends (`PlcAnswers`, `RetryReturns`) because attempts, polls and connection rounds are all
bounded; `StepsEnd` and `ChainedOpsFinish` check just that, from the fairness of single Modbus
operations and of single attempts. Nothing is assumed of clients, operators, or the PLC: a queue
may stay paused for ever, which is why several of the liveness properties make an exception for it.

`RecFairness` says the same of `Recovery`, and that a started process gets to the end of its
rehydration: it awaits nothing but promise jobs. Crashes are not fair.

`ConnFairness` is strong for the steps of operations and checks: sockets and timers are served
between the promise jobs of others, so an action that is disabled for a moment (`Calm`) again and
again is not put off for ever; every attempt has a timeout. Checks begin by an interval (`Check`
is weakly fair), the backoff passes. Whether an attempt succeeds is never fair: `Reconnects`
assumes that from some point on only checks happen and they find the device, and concludes that from
some point on it is shown as CONNECTED (`<>[]`), however often it was found and lost before.

`FloorFairness` is that of the orchestrator; the reads of the script are strongly fair, because its
requests are served between the ticks that keep waking the loops. The operator, the picking app
and the orders of the script are not fair.

## 4. Disagreements between the code and what is said of it

Each of these runs checks one statement and TLC finds a behaviour that breaks it.

| Run | Statement | What happens |
|---|---|---|
| `V_SharedBox` | business-logic.md 4.2: a PUT for a shared box is only logical | the depth is read at submission; a PICK that joins later loses its box |
| `V_LostLinks` | business-logic.md 1.2 and 2: connectivity is checked periodically, devices are shown as CONNECTED or DISCONNECTED | the check looks at the `connected` flag, which only a failed access takes back: a device that went away while nobody used it stays CONNECTED |
| `V_TapUndone` | PickeoRoute.tsx: a tap too many is undone by cancelling, at no cost | cancelling a PUT whose robot has begun sets the slot to OCUPADO, and the box goes home |
| `V_SoakBlocks` | soakRobot.js: each cycle returns its box, so that real orders are not blocked | before the PUT the script waits for an empty queue; a PICK that waits for the slot its box is on keeps the queue from being empty, for ever |

More follow from the models and have no run of their own:

* business-logic.md 4.2 says that a PUT waits while its slot is held. `processOrder` never looks at
  the slot's status (`WorkInOwnSlot`): the PUT starts and takes the claim over.
* A comment in `runRobotLoop` (OrchestratorService.js:370) says that a robot in ERROR works again only
  after a retry. `tick` and any submit dispatch it (`Tick`, `Kicked`).
* business-logic.md 6 says that a step that fails for good makes the order ERROR. For a location
  without a PLC command, building the command throws outside the `try` (`LoopDies`): the order
  stays IN_PROGRESS and blocks its robot, and every tick repeats it. `StartedOrdersSettle` is
  therefore checked without such homes.
* The header of `DeviceMutex.js` promises one operation at a time. The finally-handler drops the
  tail of an operation that still waits, and the next call does not queue behind it. The promise
  queue of `ModbusClient` orders the single accesses of the two, not their sequences of accesses.
* An order cancelled in the middle of a step becomes ERROR when the step fails (`StepFails`
  writes the status whatever it is), although a comment in `runRobotLoop` (line 384) says that a
  CANCELED order has ended. `OrderLifecycle` allows it: `Stop` asks nothing of the status.
* `executeStepCommand` never checks that `messageOut` is zero before it sends a command. After a
  timeout or an incomplete reset, an old answer confirms a new step, although business-logic.md 3
  says that a step advances when the answer validates it. `AcksAreForTheCommand` is therefore
  stated until the first such disturbance.
* A retried PICK keeps its slot and skips the second look for its box, so with a retry
  `OneSlotPerBox` does not hold: the box may be in the zone already.
* A cancel saves no snapshot. After a restart the order is PENDING again and its robot goes;
  `ProgressIsSaved` names DONE and ERROR only. Pauses and the order of the queues are not saved
  either, and rehydration queues by age: an older order may overtake the one whose box is on the
  fork (the exception in `ManeuversAreNotMixed`).
* Two screens may retry a failed PICK at the same time. When the second reset is slow, the PICK is
  DONE and a PUT for its slot has begun by the time `retryOrder` goes on. It makes the PICK PENDING
  again, with its old slot, and two robots maneuver for that slot. With two interventions TLC finds this
  when `Orderly` leaves out its conjunct about `retrying`.
* A cancelled PUT declares its slot occupied (`GiveBack`). A PUT started from an old screen takes the claim of
  a slot over from a PICK that failed there; when the PUT fails too, is retried, and is cancelled
  before the robot gets to it, the slot is shown as OCUPADO with nothing on it, while the PICK will still
  use it. After a release a second PICK fills the slot and the books and the floor part. It takes
  two slots, three boxes and six interventions, more than the run of `Floor` has; `UnderWay`
  therefore counts an order that blocks its slot as begun.
* The row in the metrics of an order that failed and was retried to its end keeps ERROR: the
  second row is refused.
* A confirmation in `ReleaseSlotForm` does not look at the slot again, and a touch on an old
  screen returns whatever box is on the slot by then to the home that was shown. The first frees a
  slot under a box, the second may take a box to a foreign home; `meddled` is set in both cases.
* A DONE PICK can be cancelled: its slot becomes LIBRE although the box stands on it. So does the slot
  of a PICK that is cancelled under way, whose box may come all the same. `meddled` is set in both cases.

## 5. Proofs

TLAPS proves the following for all values of the constants that satisfy the named assumptions:
null values differ from real ones, sides are sets of slots, there is at least one step, and so on;
`ClientsAssumption` says that there are as many names for clients as callers. Two describe the
one rack the server is configured with: `RackAssumption` (no slot is a home, and a home's side has
slots of its own robot only) and `PoolAssumption` (the script orders locations of the robot it
watches). Only `FloorProofs` needs them; the theorems about `Orchestrator` hold without.

| Module | Theorems |
|---|---|
| `OrchestratorProofs` | `TypeCorrectness` (a step index never passes the last step, although it is written after the PLC call from a captured value), `OrdersAreNotLost`, `SlotsAreNotStranded`, `ReservedBoxesAreNotShared`, `RobotsMoveForActiveOrders`, `DoneOrdersStayDone`, `RepeatedRequestsMakeOneOrder` |
| `LifecycleProofs` | `LifecycleIsKept`: `Spec => Lifecycle!Spec`, the refinement of `OrderLifecycle` |
| `OrderlyProofs` | from `Orderly`: `SlotsServeOneManeuver`, `BoxesAreNotOverwritten`, `BoxesAreBroughtByOne` |
| `FloorProofs` | `FloorInvariance` (`FloorSpec => []FloorInv`), and from it `FreeSlotsStayEmpty`, `BooksAgreeWithFloor`, `ScriptAsksForOneAtATime` |
| `RecoveryProofs` | `CrashesLoseNoOrder`, `ProgressOutlivesCrashes`, `SettledIsCounted`, `RestartsStrandNoSlot`, `RestartsKeepRobotsInLine`, `ManeuversStayApart` |
| `StepHandshakeProofs` | `TypeCorrectness`, `ManeuversAreNotRepeated`, `AnswersMatchCommands` |
| `ConnectionProofs` | of the mutex `ExactCount`, `BusyDevicesLookLocked`, `LocksHaveHolders` and its types; hence of the connection `MonitorFindsBusyDevices`, `MonitorFindsFreeDevices`; its own `ConnTypeCorrectness`, `MonitorsSpareSockets` |
| `ManeuverProofs` | `TypeCorrectness`; `CommandsSayTheirPlace`, `BoxesArriveWhereOrdered`, `LiftsMoveLeast` for racks whose modules have two digits, whose levels are A to L and whose positions are 1 to 3 |

**Orchestrator.** The properties are not inductive alone. `IInv` adds:

* `LoopsOwnTheirOrders`: a loop past its first await holds an order of its own robot; the
  queue's active place names it from `Activate` to the end of the maneuver (or nobody, after a
  cancel) and is empty otherwise. Without it `Activate` and `Requeue` could overwrite an id that
  nobody else holds.
* `QueuesOwnTheirOrders`, `RetriesNameOrders`: ids in queues and pending retries name existing
  orders of that robot, so that what a loop takes is in its robot's care.
* `StepsArePhysical`: at the PLC the order has a slot, is not logical, not DONE, and the
  captured index is below the number of steps. It is what `StepDone` and `StepFails` need for
  types and slots, and it says that nothing settles an order as DONE under a running maneuver.
* `HeldSlotsAreClaimed`: the claim of a held slot is that of a *physical* order. Logical orders
  settle without touching slots, so `NoStrandedSlot` alone would not survive them.
* `DepthsMatch`: only an occupied slot has a depth other than the default, or one that a
  reservation found at most one.

One lemma per action shows that it keeps `IInv`; `NextIInv` collects them. All of `IInv` but
`NoLostOrder` is named `Books`, and the lemmas are stated for `IInvBut(S)`, where the orders in `S` may
be in nobody's care: `RecoveryProofs` uses them with the orders that rehydration has yet to queue.
`DoneOrdersStayDone` is an action property proved from `IInv` action by action.
`RepeatedRequestsMakeOneOrder` needs only that no action changes an order's external id
(`NamesKept`) and that the one order an action may add has an id the client did not use before.

**Refinement.** Each action of the orchestrator is one step in the life of one order,
or is not seen. Two facts of `IInv` carry it: a loop holds only orders of its own robot, so that
the order which leaves the PLC with one loop does not stay there with another (`MovingStops`) and
the one a loop settles moves nowhere else (`OwnOrderRests`); and the order at the PLC is not DONE,
so that what `StepFails` writes over is never a finished order.

**Orderly clients.** `NoStrandedSlot` says that a held slot has an order. `SlotsServeOneManeuver`
needs the converse: an order whose robot moves, or will go on moving, is the one its slot names
(`OrdersHoldTheirSlots`). It is lost when a claim is taken over, and each way of taking one over
is closed by one conjunct of `Orderly`; a lemma (`ZoneEffect`) says once what each action does
to the slots. The attempt to prove it with any number of interventions found the overlapping
retries of section 4, which one intervention could not show: the run has two since.
`BoxesAreBroughtByOne` speaks of histories without interventions. Then an order with a step
done is active or in its loop's hand, a waiting PICK has no slot, and an order between queue and
loop is PENDING without a step done; so the look for the box and the claim of the slot are one action, and
no PICK comes by with a slot from another time.

**Floor.** `FloorInv` has three layers, since the properties promise different things to different
histories.

* `RackInv` holds whatever anybody does: `IInv`; an order is for the rack of its box and of its
  slot (`OrdersKeepTheirRack`); a slot names an order whose slot it is or was (`ClaimsKeepTheirRack`).
* `FloorInOrder` holds until somebody meddles. An order whose robot moves is the one its slot
  names, and the slot is BUSCANDO or DEVOLVIENDO; a waiting order starts from its first step and
  a failed one did not get to its last. The slot of an unfinished PICK is not LIBRE, RESERVADO or
  OCUPADO, serves no other PICK, and is empty until the last step (`PicksKeepTheirSlots`): a failed PICK may lose its
  claim to a PUT from an old screen, but the slot it goes back to when it is retried is still empty. The
  last step of a PUT leaves a slot that nobody waits for (`PutsLeaveNothing`), and so `finishOrder` may free it.
* `ScriptInv` is about the script: between the two answers it puts together, queue then robot, and when
  it is about to order, all its orders are settled (`IdleMeansSettled`). It needs that they are all in
  the queue it reads, hence `PoolAssumption`.

Every action of the orchestrator is a step about at most one order and one slot. `GoodStep` says
of such a step what it does to the two and how it keeps out of the way of the rest; one lemma per
action shows that it is one, and `RackEffectKeepsRack` and `FloorEffectKeepsOrder` conclude
once for all that nothing else is disturbed. They rest on a
fact that no property names: a LIBRE slot has neither a claimant nor a box in the books, so that a new
PICK inherits nothing.

**Recovery.** `RecIInv` has two parts. The books in memory satisfy `Books`, and nobody's orders are
lost but those that rehydration has yet to queue, `NoneLostBut(Unqueued)`. `Disk` says of the
snapshot what a crash makes of it the next moment: it is consistent by itself
(`SavedSlotsAreClaimed`, `SavedDepthsMatch`), it knows the same orders, their steps and the slots of those
under way, and it lacks an outcome only while a loop is about to save it (`AboutToSave`).
`ManeuversStayApart` adds `InOrder`: without interventions a maneuver that is half done is in its robot's
hands, has yet to be queued, or, after a crash only, waits behind older orders alone. `RehydrateNext`
is stated with a quantifier, not with `CHOOSE`, so that it can be reasoned about.

**Handshake.** A matter of credit: a command has one start to its credit until it is written and
taken, and gets another only by a reset (`StartsAreCredited`). That an answer belongs to the command
is a matter of the registers at each place of the server: undisturbed, they are clean between two
steps, or stuck with an error that nobody takes back, or show the command of this step
(`UndisturbedPlaces`).

**Mutex and connection.** The count follows the
set of operations in flight by one element at a time. After a hard reset it may be too low, since operations that began
before take one off when they end, but never too high (`CountIsCovered`); with that, whatever makes the
device look locked is held by an operation that is still to end, and `LocksHaveHolders` says that the
lock goes with it. The actions of the connection are built from those of the mutex, so the
theorems carry over (a lemma, `ConnectionHasMutex`). `ConnTypeCorrectness` needs that an operation sleeps only before its last attempt
(`SleepersHaveTries`) and that who dials or reads has a client (`WorkersHaveClients`); that a new
client finds a name is the pigeonhole principle. `MonitorsSpareSockets` is proved from `ChecksAlone`: while a check
is chained, running or not yet settled, no other operation is in flight and whoever is chained waits for
an open promise. It becomes true because the monitor looks in a calm moment (promise jobs done) and finds an exact count of
zero, so it is a second use of `CountIsExact`; the hard reset ends both.

**Maneuver.** The invariant says that the
registers hold the command while it is out and which part of the order the robot has done at
each step; that the registers determine the place is a lemma about quotients and remainders.

Only model-checked: everything about fairness (`StartedOrdersSettle`, `PutsAreNotStarved`,
`FreeSlotsFindWaitingPicks`, `InterruptedOrdersGoOn`, `StepsEnd`, `ChainedOpsFinish`, `Reconnects`),
which is beyond the prover. Every invariant and every action property that a run checks is stated
by a theorem.

## 6. Not modelled, and what is left

* The external queue driver (`ExternalQueueManager.js`). Its calls time out, and everything then
  depends on what the service behind it does with a repeated `enqueue` or a `remove` of an active
  order. The service is not in the repository; a model would be about an invented one.
* Direct commands, register reads and writes of the devices page, which share the registers with
  the robots' steps: a second client of `StepHandshake`.
* The metrics reports, which are queries, and `POST /simulate`, which has no effect.
* The slots of several racks: the configuration has one; with a second one a PICK is ranked
  across both, and `RackAssumption` would have to go.
* The depth of a stack against the orders that share the box: after a cancel the two differ, and
  the code does not say which is meant.
* The device's address in a client: a repeated registration changes the registry but not the
  client that is already in the map, until that one is recreated.
* Half a snapshot: the file store, which the server falls back to when SQLite cannot be opened,
  writes the file in place; the SQLite store replaces a row.

Left out for good: rendering of the web fronts, wording and logging, Swagger, simulation mode (it
answers every step at once) and configuration parsing.
