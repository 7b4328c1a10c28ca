------------------------------ MODULE Recovery ------------------------------
(***************************************************************************)
(* What outlives the server process.  The books are saved as one snapshot  *)
(* at the end of most operations, the rows of the metrics are inserted one *)
(* by one, and the queues are not saved at all.  After a restart           *)
(* rehydrateFromSnapshot fills the books and then, order by order, the     *)
(* queues.  server.js does not wait for it: the robots' loops start while  *)
(* the queues are half filled.  Requests and timers come in only when      *)
(* these promise jobs are done.                                            *)
(***************************************************************************)
EXTENDS OrchestratorProps

CONSTANT MaxCrashes   \* bound: restarts in a behaviour

ASSUME MaxCrashesAssumption == MaxCrashes \in Nat

VARIABLES
    saved,     \* the snapshot in the store
    metric,    \* the status in each order's row of order_metrics
    boot,      \* the next order rehydration looks at, Up when it is over
    quiet,     \* the loops that leave a settled order: they save nothing
    crashes

durable == <<saved, metric>>
recVars == <<vars, durable, boot, quiet, crashes>>

Up == 0
NoRow == "NONE"

RecInit ==
    /\ Init
    /\ saved = [orders |-> orders, slots |-> slots, robots |-> robots]
    /\ metric = [o \in OrderIds |-> NoRow]
    /\ boot = Up
    /\ quiet = {}
    /\ crashes = 0

Save == saved' = [orders |-> orders', slots |-> slots', robots |-> robots']

\* insertMetrics: a second row of the same order is refused, and the error
\* is only logged.
InsertRow(o, status) ==
    metric' = [metric EXCEPT ![o] = IF @ = NoRow THEN status ELSE @]

-----------------------------------------------------------------------------
(***************************************************************************)
(* The loops, with what they save and count.                               *)
(***************************************************************************)

\* processOrder found an order that had settled before.
Skips(r) == pc'[r] = "cleared" /\ orders[hand'[r]].status \in Settled

\* Faulty variant: an order that ends without a maneuver is not counted.
CountPhysical(r) ==
    IF pc'[r] = "cleared" /\ ~Skips(r) /\ ~orders'[hand'[r]].logical
    THEN InsertRow(hand'[r], "DONE") ELSE UNCHANGED metric

CountDone(r) ==
    IF pc'[r] = "cleared" /\ ~Skips(r)
    THEN InsertRow(hand'[r], "DONE") ELSE UNCHANGED metric

RecProcess(r) ==
    /\ ResumeActive(r) \/ ProcessActivated(r)
    /\ CountDone(r)
    /\ quiet' = IF Skips(r) THEN quiet \cup {r} ELSE quiet
    /\ UNCHANGED saved

RecQueueCall(r) ==
    /\ NothingToDo(r) \/ Dequeue(r) \/ Activate(r) \/ Requeue(r)
    /\ UNCHANGED <<durable, quiet>>

\* Faulty variant: only the order that failed is saved at once.
FreeUnsaved(r) == FreeRobot(r) /\ quiet' = quiet \ {r} /\ UNCHANGED durable

RecFree(r) ==
    /\ FreeRobot(r)
    /\ IF r \in quiet THEN UNCHANGED saved ELSE Save
    /\ quiet' = quiet \ {r}
    /\ UNCHANGED metric

RecStepDone(r) == StepDone(r) /\ Save /\ UNCHANGED <<metric, quiet>>

RecStepFails(r) ==
    /\ StepFails(r)
    /\ InsertRow(hand[r], "ERROR")
    /\ UNCHANGED <<saved, quiet>>

RecRobotFails(r) == RobotFails(r) /\ Save /\ UNCHANGED <<metric, quiet>>

(***************************************************************************)
(* The handlers.  A cancel, a pause and a registration save nothing.       *)
(***************************************************************************)

\* Faulty variant: the order is answered before anything is saved.
SubmitUnsaved(r) == Submit(r) /\ UNCHANGED <<durable, quiet>>

RecSubmit(r) == Submit(r) /\ Save /\ UNCHANGED <<metric, quiet>>

RecRetryReturns(o) ==
    \/ RetryEnds(o) /\ Save /\ UNCHANGED <<metric, quiet>>
    \/ RetryFails(o) /\ UNCHANGED <<durable, quiet>>

RecCancel(o) ==
    /\ CancelOrder(o)
    /\ InsertRow(o, "CANCELED")
    /\ UNCHANGED <<saved, quiet>>

RecOperate ==
    \/ \E s \in Slots : ReleaseSlot(s) /\ Save /\ UNCHANGED <<metric, quiet>>
    \/ /\ \/ \E o \in OrderIds : RetryBegins(o)
          \/ \E r \in Robots : PauseQueue(r) \/ ResumeQueue(r) \/ RegisterDevice(r)
       /\ UNCHANGED <<durable, quiet>>

-----------------------------------------------------------------------------
(***************************************************************************)
(* A crash at any point, and the way back up.                              *)
(***************************************************************************)

\* The process ends and starts again: the books are those of the snapshot,
\* everything else is new; start() wakes the loops of the robots.
Crash ==
    /\ crashes < MaxCrashes
    /\ crashes' = crashes + 1
    /\ orders' = saved.orders /\ slots' = saved.slots /\ robots' = saved.robots
    /\ queues' = [r \in Robots |-> EmptyQueue(NoOrder)]
    /\ pc' = [r \in Robots |->
                IF saved.robots[r].status = "ABSENT" THEN "off" ELSE "top"]
    /\ hand' = [r \in Robots |-> NoOrder]
    /\ at' = [r \in Robots |-> 0]
    /\ retrying' = [o \in OrderIds |-> 0]
    /\ boot' = 1
    /\ quiet' = {}
    /\ UNCHANGED <<durable, ops>>

\* The orders that rehydration has still to put into a queue.
Unqueued ==
    {o \in OrderIds : /\ boot # Up /\ o >= boot
                      /\ orders[o].status \in {"PENDING", "IN_PROGRESS"}}

\* Faulty variant: an order that was in progress is taken to be active.
RehydratePending ==
    /\ \E o \in Unqueued :
         LET r == orders[o].robot IN
         /\ \A q \in Unqueued : o <= q
         /\ orders' = [orders EXCEPT ![o].status = "PENDING"]
         /\ queues' = IF orders[o].status = "PENDING"
                      THEN [queues EXCEPT ![r] = Enqueue(@, o)] ELSE queues
         /\ boot' = o + 1
    /\ UNCHANGED <<slots, robots, loopVars, retrying, ops, durable, quiet, crashes>>

\* One await of rehydrateFromSnapshot: the oldest order that is left.
RehydrateNext ==
    /\ \E o \in Unqueued :
         LET r == orders[o].robot IN
         /\ \A q \in Unqueued : o <= q
         /\ orders' = [orders EXCEPT ![o].status = "PENDING"]
         /\ queues' = [queues EXCEPT ![r] = Enqueue(@, o)]
         /\ boot' = o + 1
    /\ UNCHANGED <<slots, robots, loopVars, retrying, ops, durable, quiet, crashes>>

\* Every robot that is not in ERROR is shown as idle, also one whose loop
\* has taken an order meanwhile.
RehydrateEnds ==
    /\ boot # Up /\ Unqueued = {}
    /\ robots' = [r \in Robots |->
                    IF robots[r].status \in {"ABSENT", "ERROR"} THEN robots[r]
                    ELSE [status |-> "IDLE", cur |-> NoOrder]]
    /\ boot' = Up
    /\ UNCHANGED <<bookVars, loopVars, retrying, ops, durable, quiet, crashes>>

-----------------------------------------------------------------------------
Running == UNCHANGED <<boot, crashes>>

\* Promise jobs, which also run while the server boots.
RecResume(r) ==
    /\ RecProcess(r) \/ RecQueueCall(r) \/ RecFree(r) \/ RecRobotFails(r)
    /\ Running

\* Timers, PLC answers and requests come in once it is up.
RecTick == boot = Up /\ Tick /\ UNCHANGED <<durable, quiet>> /\ Running
RecPlc(r) == boot = Up /\ (RecStepDone(r) \/ RecStepFails(r)) /\ Running
RecRetried(o) == boot = Up /\ RecRetryReturns(o) /\ Running

Requests ==
    /\ boot = Up /\ Running
    /\ \/ \E r \in Robots : RecSubmit(r)
       \/ \E o \in OrderIds : RecCancel(o)
       \/ RecOperate

Rehydrate == RehydrateNext \/ RehydrateEnds

RecNext ==
    \/ RecTick
    \/ \E r \in Robots : RecResume(r) \/ RecPlc(r)
    \/ \E o \in OrderIds : RecRetried(o)
    \/ Requests
    \/ Rehydrate
    \/ Crash

RecSpec == RecInit /\ [][RecNext]_recVars

\* As Fairness of Orchestrator; a started process also gets to its end.
RecFairness ==
    /\ WF_recVars(RecTick) /\ WF_recVars(Rehydrate)
    /\ \A r \in Robots : WF_recVars(RecResume(r)) /\ WF_recVars(RecPlc(r))
    /\ \A o \in OrderIds : WF_recVars(RecRetried(o))

RecFairSpec == RecSpec /\ RecFairness

-----------------------------------------------------------------------------
(***************************************************************************)
(* An order whose submission was answered is never lost, wherever the      *)
(* process dies: it is still known, and unless it is settled its robot's   *)
(* queue or loop has it, or rehydration is about to queue it.              *)
(***************************************************************************)
OrdersSurviveCrashes ==
    /\ \A o \in OrderIds :
         orders[o].status \in {"PENDING", "IN_PROGRESS"} =>
            InSomeonesCare(o) \/ o \in Unqueued
    /\ boot = Up =>
         \A o \in OrderIds : Exists(o) <=> saved.orders[o].status # "ABSENT"

(***************************************************************************)
(* What a client can see as finished stays finished, and a maneuver goes   *)
(* on where it was: whenever a request can be answered, the snapshot has   *)
(* the DONE and ERROR of the books; it always has the step index, and the  *)
(* slot of an order whose robot is under way to it.                        *)
(***************************************************************************)
ProgressIsSaved ==
    boot = Up =>
        \A o \in OrderIds :
            LET disk == saved.orders[o] IN
            /\ Calm /\ orders[o].status \in {"DONE", "ERROR"} =>
                 disk.status = orders[o].status
            /\ disk.idx = orders[o].idx
            /\ orders[o].idx > 0 => disk.slot = orders[o].slot

(***************************************************************************)
(* Every order that settled has its row in the metrics, whatever crash     *)
(* came between the row and the snapshot.                                  *)
(***************************************************************************)
SettledOrdersAreCounted ==
    \A o \in OrderIds :
        orders[o].status \in Settled => metric[o] # NoRow

\* The robot has done a part of the order's steps.
Midway(o) ==
    /\ orders[o].status \in {"PENDING", "IN_PROGRESS"}
    /\ ~orders[o].logical
    /\ orders[o].idx \in 1 .. NumSteps - 1

(***************************************************************************)
(* Without interventions a robot starts on no order while another one of   *)
(* its orders is half done, the box still on its fork.  The exception is   *)
(* the restart: rehydration queues the orders by age and not by what the   *)
(* robot was doing, so an older order, one that had waited for a slot,     *)
(* overtakes the maneuver that was under way.                              *)
(***************************************************************************)
ManeuversAreNotMixed ==
    ops = 0 =>
        \A r \in Robots : pc[r] = "step" =>
            \A o \in OrderIds : Midway(o) /\ orders[o].robot = r =>
                o = hand[r] \/ (crashes > 0 /\ hand[r] < o)

(***************************************************************************)
(* A maneuver that a restart interrupted goes on: its order leaves PENDING *)
(* again unless the queue is paused.  Nothing but the snapshot knows of    *)
(* it, and the loops start before it is back in a queue.                   *)
(***************************************************************************)
InterruptedOrdersGoOn ==
    \A o \in OrderIds :
        orders[o].status = "PENDING" /\ orders[o].idx > 0 ~>
            \/ orders[o].status # "PENDING"
            \/ queues[orders[o].robot].paused
=============================================================================
