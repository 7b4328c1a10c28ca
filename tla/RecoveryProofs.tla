--------------------------- MODULE RecoveryProofs ---------------------------
(***************************************************************************)
(* Proofs that the books survive any number of crashes, at any point.      *)
(*                                                                         *)
(* The books of the running server are those of OrchestratorProofs, but    *)
(* for the orders that rehydration has still to queue.  Of the snapshot    *)
(* the invariant says what a restart needs: it is consistent by itself, it *)
(* knows the same orders, their steps and the slots of those under way,    *)
(* and it lacks an outcome only while a loop is about to save it.          *)
(***************************************************************************)
EXTENDS Recovery, OrchestratorProofs

Snapshot == [orders : [OrderIds -> Order],
             slots  : [Slots -> Slot],
             robots : [Robots -> Robot]]

RecTypeOK ==
    /\ saved \in Snapshot
    /\ metric \in [OrderIds -> Status \cup {NoRow}]
    /\ boot \in 0 .. MaxOrders + 1
    /\ quiet \subseteq Robots
    /\ crashes \in Nat

\* HeldSlotsAreClaimed and DepthsMatch, of the snapshot.
SavedSlotsAreClaimed ==
    \A s \in Slots :
        LET slot == saved.slots[s] IN
        slot.status \in Held =>
            /\ slot.by # NoOrder
            /\ saved.orders[slot.by].status \in {"PENDING", "IN_PROGRESS", "ERROR"}
            /\ saved.orders[slot.by].slot = s
            /\ ~saved.orders[slot.by].logical

SavedDepthsMatch ==
    \A s \in Slots :
        /\ saved.slots[s].status = "LIBRE" => saved.slots[s].depth = 0
        /\ saved.slots[s].status = "RESERVADO" => OneAtMost(saved.slots[s].depth)

SameOrdersSaved ==
    \A o \in OrderIds :
        orders[o].status = "ABSENT" <=> saved.orders[o].status = "ABSENT"

RowsOutlive ==
    \A o \in OrderIds :
        orders[o].status \in Settled \/ saved.orders[o].status \in Settled =>
            metric[o] # NoRow

Begun(i) == i > 0

StepsSaved ==
    \A o \in OrderIds :
        /\ saved.orders[o].idx = orders[o].idx
        /\ Begun(orders[o].idx) => /\ orders[o].slot # NoSlot
                                   /\ saved.orders[o].slot = orders[o].slot

\* The loop has just settled its order and goes on to save the books.
Saves(r) ==
    /\ pc[r] \in {"failed", "cleared"}
    /\ pc[r] = "cleared" => r \notin quiet

AboutToSave(o) == \E r \in Robots : hand[r] = o /\ Saves(r)

OutcomesSaved ==
    \A o \in OrderIds :
        orders[o].status \in {"DONE", "ERROR"} =>
            saved.orders[o].status = orders[o].status \/ AboutToSave(o)

QuietLoopsLeave == \A r \in quiet : pc[r] = "cleared"

Disk ==
    /\ RecTypeOK
    /\ SavedSlotsAreClaimed
    /\ SavedDepthsMatch
    /\ SameOrdersSaved
    /\ RowsOutlive
    /\ StepsSaved
    /\ OutcomesSaved
    /\ QuietLoopsLeave

RecIInv == IInvBut(Unqueued) /\ Disk

-----------------------------------------------------------------------------
(***************************************************************************)
(* The first snapshot is of the empty books.                               *)
(***************************************************************************)
LEMMA InitRecIInv == RecInit => RecIInv
<1> SUFFICES ASSUME RecInit PROVE RecIInv
  OBVIOUS
<1>1. IInv
  BY InitIInv DEF RecInit
<1>2. TypeOK /\ HeldSlotsAreClaimed /\ DepthsMatch
  BY <1>1 DEF IInv, Books
<1>3. IInvBut(Unqueued)
  BY <1>1 DEF IInv, IInvBut, NoLostOrder, NoneLostBut
<1>4. \A o \in OrderIds : orders[o].status = "ABSENT" /\ orders[o].idx = 0
  BY DEF RecInit, Init, NothingOrdered
<1>5. saved = [orders |-> orders, slots |-> slots, robots |-> robots]
  BY DEF RecInit
<1>6. RecTypeOK
  BY <1>2, <1>5, MaxOrdersAssumption
     DEF RecInit, RecTypeOK, Snapshot, TypeOK, Up
<1>7. SavedSlotsAreClaimed /\ SavedDepthsMatch
  BY <1>2, <1>5 DEF SavedSlotsAreClaimed, SavedDepthsMatch,
                    HeldSlotsAreClaimed, Claims, DepthsMatch
<1>8. SameOrdersSaved /\ RowsOutlive /\ OutcomesSaved
  BY <1>4, <1>5 DEF SameOrdersSaved, RowsOutlive, OutcomesSaved, Settled
<1>9. StepsSaved /\ QuietLoopsLeave
  BY <1>4, <1>5 DEF StepsSaved, Begun, QuietLoopsLeave, RecInit
<1> QED
  BY <1>3, <1>6, <1>7, <1>8, <1>9 DEF RecIInv, Disk

-----------------------------------------------------------------------------
(***************************************************************************)
(* Two kinds of step while the server runs.  One ends by saving the books. *)
(***************************************************************************)
MetricsGrow ==
    /\ metric' \in [OrderIds -> Status \cup {NoRow}]
    /\ \A o \in OrderIds : metric[o] # NoRow => metric'[o] # NoRow

SettledHaveRows ==
    \A o \in OrderIds : orders'[o].status \in Settled =>
        orders[o].status \in Settled \/ metric'[o] # NoRow

(***************************************************************************)
(* After a save the snapshot is the books, and as consistent as they are.  *)
(***************************************************************************)
LEMMA SaveKeepsDisk ==
    ASSUME Disk, Books', Save, Running, MetricsGrow, SettledHaveRows,
           quiet' \subseteq Robots, QuietLoopsLeave',
           \A o \in OrderIds :
              Begun(orders'[o].idx) => orders'[o].slot # NoSlot
    PROVE  Disk'
<1>1. saved' = [orders |-> orders', slots |-> slots', robots |-> robots']
  BY DEF Save
<1>2. TypeOK' /\ HeldSlotsAreClaimed' /\ DepthsMatch'
  BY DEF Books
<1>3. RecTypeOK'
  BY <1>1, <1>2 DEF Disk, RecTypeOK, Snapshot, TypeOK, Running, MetricsGrow
<1>4. SavedSlotsAreClaimed' /\ SavedDepthsMatch'
  BY <1>1, <1>2 DEF SavedSlotsAreClaimed, SavedDepthsMatch,
                    HeldSlotsAreClaimed, Claims, DepthsMatch
<1>5. SameOrdersSaved' /\ StepsSaved' /\ OutcomesSaved'
  BY <1>1 DEF SameOrdersSaved, StepsSaved, OutcomesSaved
<1>6. RowsOutlive'
  BY <1>1 DEF Disk, RowsOutlive, MetricsGrow, SettledHaveRows
<1> QED
  BY <1>3, <1>4, <1>5, <1>6 DEF Disk

(***************************************************************************)
(* The other leaves the snapshot behind the books, by an outcome that some *)
(* loop is about to save.                                                  *)
(***************************************************************************)
SaversGoOn ==
    \A r \in Robots : Saves(r) => Saves(r)' /\ hand'[r] = hand[r]

OrdersKeepPlace ==
    \A o \in OrderIds :
        /\ SameName(o)
        /\ orders'[o].idx = orders[o].idx
        /\ orders[o].slot # NoSlot => orders'[o].slot = orders[o].slot

OutcomesAreFollowed ==
    \A o \in OrderIds : orders'[o].status \in {"DONE", "ERROR"} =>
        orders'[o].status = orders[o].status \/ AboutToSave(o)'

(***************************************************************************)
(* A step that saves nothing keeps the promises of the old snapshot.       *)
(***************************************************************************)
LEMMA UnsavedKeepsDisk ==
    ASSUME Disk, UNCHANGED saved, Running, MetricsGrow, SettledHaveRows,
           SaversGoOn, OrdersKeepPlace, OutcomesAreFollowed,
           quiet' \subseteq Robots, QuietLoopsLeave'
    PROVE  Disk'
<1>1. RecTypeOK'
  BY DEF Disk, RecTypeOK, Running, MetricsGrow
<1>2. SavedSlotsAreClaimed' /\ SavedDepthsMatch'
  BY DEF Disk, SavedSlotsAreClaimed, SavedDepthsMatch
<1>3. SameOrdersSaved' /\ StepsSaved'
  BY DEF Disk, SameOrdersSaved, StepsSaved, OrdersKeepPlace, SameName
<1>4. RowsOutlive'
  BY DEF Disk, RowsOutlive, MetricsGrow, SettledHaveRows
<1>5. \A o \in OrderIds : AboutToSave(o) => AboutToSave(o)'
  BY DEF SaversGoOn, AboutToSave
<1>6. OutcomesSaved'
  BY <1>5 DEF Disk, OutcomesSaved, OutcomesAreFollowed
<1> QED
  BY <1>1, <1>2, <1>3, <1>4, <1>6 DEF Disk

(***************************************************************************)
(* What leaves the orders, the loops and the store alone keeps it too.     *)
(***************************************************************************)
LEMMA AsideKeepsDisk ==
    ASSUME Disk, UNCHANGED <<orders, pc, hand, durable, quiet>>, Running
    PROVE  Disk'
BY DEF durable, Running, Disk, RecTypeOK, SavedSlotsAreClaimed,
       SavedDepthsMatch, SameOrdersSaved, RowsOutlive, StepsSaved,
       OutcomesSaved, AboutToSave, Saves, QuietLoopsLeave

(***************************************************************************)
(* A row that is inserted stays, and its order has one.                    *)
(***************************************************************************)
LEMMA RowInserted ==
    ASSUME Disk, NEW o \in OrderIds, NEW st \in Settled, InsertRow(o, st)
    PROVE  MetricsGrow /\ metric'[o] # NoRow
<1>1. /\ metric \in [OrderIds -> Status \cup {NoRow}]
      /\ st \in Status /\ st # NoRow
  BY DEF Disk, RecTypeOK, Settled, Status, NoRow
<1>2. metric' = [metric EXCEPT ![o] =
                    IF metric[o] = NoRow THEN st ELSE metric[o]]
  BY DEF InsertRow
<1> QED
  BY <1>1, <1>2 DEF MetricsGrow

(***************************************************************************)
(* Without a new row every row stays.                                      *)
(***************************************************************************)
LEMMA NoRowInserted == ASSUME Disk, UNCHANGED metric PROVE MetricsGrow
BY DEF Disk, RecTypeOK, MetricsGrow

-----------------------------------------------------------------------------
(***************************************************************************)
(* Whether the server boots or not, a loop keeps the running books, and    *)
(* the orders that rehydration has to queue are still those.               *)
(***************************************************************************)
LEMMA ResumeKeepsBooks ==
    ASSUME RecIInv, NEW r \in Robots, Resume(r), Running
    PROVE  IInvBut(Unqueued)'
<1> DEFINE X == Unqueued
<1>1. PICK Y : Y = X
  OBVIOUS
<1>2. IInvBut(Y)
  BY <1>1 DEF RecIInv, IInvBut, NoneLostBut
<1>3. IInvBut(Y)'
  BY <1>2, ResumeKeepsIInvBut
<1>4. \A o \in OrderIds :
        o \in Y /\ orders'[o].status \in {"PENDING", "IN_PROGRESS"} =>
            o \in Unqueued'
  BY <1>1 DEF Unqueued, Running
<1> QED
  BY <1>3, <1>4 DEF IInvBut, NoneLostBut

(***************************************************************************)
(* A step of a loop that saves nothing, unless the loop owes a save.       *)
(***************************************************************************)
LEMMA LoopKeepsDisk ==
    ASSUME RecIInv, NEW r \in Robots, Resume(r), Running, UNCHANGED saved,
           ~Saves(r), MetricsGrow, quiet' \subseteq quiet \cup {r},
           r \in quiet' => pc'[r] = "cleared",
           \A o \in OrderIds :
              o = hand'[r] /\ pc'[r] = "cleared"
                 /\ orders[o].status \notin Settled
                 /\ orders'[o].status = "DONE"
              => metric'[o] # NoRow /\ r \notin quiet'
    PROVE  Disk'
<1>1. Disk /\ Books
  BY DEF RecIInv, IInvBut
<1>2. \A q \in Robots \ {r} : pc'[q] = pc[q] /\ hand'[q] = hand[q]
  BY <1>1, ResumeMovesOneLoop
<1>3. LoopEffect(r)
  BY <1>1, ResumeHasLoopEffect
<1>4. quiet' \subseteq Robots
  BY <1>1 DEF Disk, RecTypeOK
<1>5. SaversGoOn
  BY <1>2 DEF SaversGoOn, Saves
<1>6. OrdersKeepPlace
  BY <1>3 DEF OrdersKeepPlace, LoopEffect
<1>7. SettledHaveRows
  BY <1>3 DEF SettledHaveRows, LoopEffect
<1>8. OutcomesAreFollowed
  <2> SUFFICES ASSUME NEW o \in OrderIds, orders'[o].status \in {"DONE", "ERROR"},
                      orders'[o].status # orders[o].status
               PROVE  AboutToSave(o)'
    BY DEF OutcomesAreFollowed
  <2>1. hand'[r] = o /\ pc'[r] = "cleared" /\ r \notin quiet'
    BY <1>3 DEF LoopEffect, Settled
  <2> QED
    BY <2>1 DEF AboutToSave, Saves
<1>9. QuietLoopsLeave'
  BY <1>1, <1>2, <1>4 DEF Disk, QuietLoopsLeave
<1> QED
  BY <1>1, <1>4, <1>5, <1>6, <1>7, <1>8, <1>9, UnsavedKeepsDisk

(***************************************************************************)
(* processOrder: what it settles it counts, and its loop owes the save.    *)
(***************************************************************************)
LEMMA RecProcessKeepsDisk ==
    ASSUME RecIInv, NEW r \in Robots, RecProcess(r), Running PROVE Disk'
<1>1. Disk /\ Books /\ TypeOK
  BY DEF RecIInv, IInvBut, Books
<1>2. Resume(r) /\ pc[r] \in {"top", "activated"}
  BY DEF RecProcess, Resume, ResumeActive, ProcessActivated
<1>3. ~Saves(r) /\ r \notin quiet
  BY <1>1, <1>2 DEF Saves, Disk, QuietLoopsLeave
<1>4. hand'[r] \in OrderIds
  <2>1. CASE ResumeActive(r)
    BY <1>1, <2>1 DEF ResumeActive, TypeOK, Queue
  <2>2. CASE ProcessActivated(r)
    BY <1>1, <2>2 DEF ProcessActivated, Books, LoopsOwnTheirOrders
  <2> QED
    BY <2>1, <2>2 DEF RecProcess
<1>5. CASE pc'[r] = "cleared" /\ ~Skips(r)
  <2>1. InsertRow(hand'[r], "DONE") /\ quiet' = quiet /\ UNCHANGED saved
    BY <1>5 DEF RecProcess, CountDone
  <2>2. MetricsGrow /\ metric'[hand'[r]] # NoRow
    BY <1>1, <1>4, <2>1, RowInserted DEF Settled
  <2> QED
    BY <1>2, <1>3, <1>5, <2>1, <2>2, LoopKeepsDisk
<1>6. CASE ~(pc'[r] = "cleared" /\ ~Skips(r))
  <2>1. MetricsGrow /\ UNCHANGED saved
    BY <1>1, <1>6, NoRowInserted DEF RecProcess, CountDone
  <2>2. quiet' = IF Skips(r) THEN quiet \cup {r} ELSE quiet
    BY DEF RecProcess
  <2> QED
    BY <1>2, <1>3, <1>6, <2>1, <2>2, LoopKeepsDisk DEF Skips
<1> QED
  BY <1>5, <1>6

(***************************************************************************)
(* A call to the queue settles nothing.                                    *)
(***************************************************************************)
LEMMA RecQueueCallKeepsDisk ==
    ASSUME RecIInv, NEW r \in Robots, RecQueueCall(r), Running PROVE Disk'
<1>1. Disk
  BY DEF RecIInv
<1>2. /\ Resume(r) /\ UNCHANGED <<orders, saved, metric, quiet>>
      /\ pc[r] \notin {"failed", "cleared"}
  BY DEF RecQueueCall, Resume, NothingToDo, Dequeue, Activate, Requeue,
         bookVars, durable
<1>3. ~Saves(r) /\ r \notin quiet
  BY <1>1, <1>2 DEF Saves, Disk, QuietLoopsLeave
<1>4. MetricsGrow
  BY <1>1, <1>2, NoRowInserted
<1> QED
  BY <1>2, <1>3, <1>4, LoopKeepsDisk DEF Settled

(***************************************************************************)
(* The end of an iteration saves the books, unless it skipped its order.   *)
(***************************************************************************)
LEMMA RecFreeKeepsDisk ==
    ASSUME RecIInv, NEW r \in Robots, RecFree(r) \/ RecRobotFails(r), Running
    PROVE  Disk'
<1>1. Disk /\ Books
  BY DEF RecIInv, IInvBut
<1>2. /\ Resume(r) /\ pc[r] \in {"failed", "cleared"}
      /\ UNCHANGED <<orders, metric>>
  BY DEF RecFree, RecRobotFails, Resume, FreeRobot, RobotFails, bookVars
<1>3. quiet' = quiet \ {r}
  BY <1>1 DEF RecFree, RecRobotFails, RobotFails, Disk, QuietLoopsLeave
<1>4. MetricsGrow
  BY <1>1, <1>2, NoRowInserted
<1>5. CASE UNCHANGED saved /\ r \in quiet
  <2>1. ~Saves(r)
    BY <1>1, <1>5 DEF Saves, Disk, QuietLoopsLeave
  <2> QED
    BY <1>2, <1>3, <1>4, <1>5, <2>1, LoopKeepsDisk DEF Settled
<1>6. CASE Save
  <2>1. Books'
    BY <1>2, ResumeKeepsBooks DEF IInvBut
  <2>2. \A q \in Robots \ {r} : pc'[q] = pc[q]
    BY <1>1, <1>2, ResumeMovesOneLoop
  <2>3. quiet' \subseteq Robots /\ QuietLoopsLeave'
    BY <1>1, <1>3, <2>2 DEF Disk, RecTypeOK, QuietLoopsLeave
  <2>4. SettledHaveRows
    BY <1>2 DEF SettledHaveRows
  <2>5. \A o \in OrderIds :
          Begun(orders'[o].idx) => orders'[o].slot # NoSlot
    BY <1>1, <1>2 DEF Disk, StepsSaved
  <2> QED
    BY <1>1, <1>4, <1>6, <2>1, <2>3, <2>4, <2>5, SaveKeepsDisk
<1> QED
  BY <1>5, <1>6 DEF RecFree, RecRobotFails

(***************************************************************************)
(* The promise jobs of a loop.                                             *)
(***************************************************************************)
LEMMA RecResumeKeepsRecIInv ==
    ASSUME RecIInv, NEW r \in Robots, RecResume(r) PROVE RecIInv'
<1>1. Resume(r) /\ Running
  BY DEF RecResume, RecProcess, RecQueueCall, RecFree, RecRobotFails, Resume
<1>2. IInvBut(Unqueued)'
  BY <1>1, ResumeKeepsBooks
<1>3. Disk'
  BY <1>1, RecProcessKeepsDisk, RecQueueCallKeepsDisk, RecFreeKeepsDisk
     DEF RecResume
<1> QED
  BY <1>2, <1>3 DEF RecIInv

-----------------------------------------------------------------------------
(***************************************************************************)
(* Once the server is up no order is left out: the whole invariant of      *)
(* OrchestratorProofs holds.                                               *)
(***************************************************************************)
LEMMA UpIsNormal == ASSUME RecIInv, boot = Up PROVE IInv
BY DEF RecIInv, IInvBut, IInv, NoneLostBut, NoLostOrder, Unqueued

(***************************************************************************)
(* So a step of the orchestrator keeps the books.                          *)
(***************************************************************************)
LEMMA UpKeepsBooks ==
    ASSUME RecIInv, boot = Up, Running, Next PROVE IInvBut(Unqueued)'
<1>1. IInv'
  BY UpIsNormal, NextIInv
<1> QED
  BY <1>1 DEF IInv, IInvBut, NoLostOrder, NoneLostBut

(***************************************************************************)
(* A timer starts loops.                                                   *)
(***************************************************************************)
LEMMA RecTickKeepsRecIInv == ASSUME RecIInv, RecTick PROVE RecIInv'
<1>1. Tick /\ boot = Up /\ UNCHANGED <<orders, hand, durable, quiet>> /\ Running
  BY DEF RecTick, Tick, bookVars
<1>2. IInvBut(Unqueued)'
  BY <1>1, UpKeepsBooks DEF Next
<1>3. Disk /\ TypeOK
  BY DEF RecIInv, IInvBut, Books
<1>4. \A r \in Robots : pc[r] # "off" => pc'[r] = pc[r]
  BY <1>1, <1>3 DEF Tick, TypeOK
<1>5. SaversGoOn /\ QuietLoopsLeave' /\ quiet' \subseteq Robots
  BY <1>1, <1>3, <1>4
     DEF SaversGoOn, Saves, Disk, RecTypeOK, QuietLoopsLeave
<1>6. OrdersKeepPlace /\ OutcomesAreFollowed /\ SettledHaveRows
  BY <1>1 DEF OrdersKeepPlace, SameName, OutcomesAreFollowed, SettledHaveRows
<1>7. MetricsGrow /\ UNCHANGED saved
  BY <1>1, <1>3, NoRowInserted DEF durable
<1>8. Disk'
  BY <1>1, <1>3, <1>5, <1>6, <1>7, UnsavedKeepsDisk
<1> QED
  BY <1>2, <1>8 DEF RecIInv

(***************************************************************************)
(* The PLC's answer: a step that is done is saved at once, a failure is    *)
(* counted and its loop owes the save.                                     *)
(***************************************************************************)
LEMMA RecPlcKeepsRecIInv ==
    ASSUME RecIInv, NEW r \in Robots, RecPlc(r) PROVE RecIInv'
<1>1. boot = Up /\ Running /\ PlcAnswers(r)
  BY DEF RecPlc, RecStepDone, RecStepFails, PlcAnswers
<1>2. IInvBut(Unqueued)'
  BY <1>1, UpKeepsBooks DEF Next
<1>3. Disk /\ Books /\ TypeOK /\ Books'
  BY <1>2 DEF RecIInv, IInvBut, Books
<1>4. PICK o \in OrderIds : o = hand[r]
  BY <1>1, <1>3 DEF PlcAnswers, StepDone, StepFails, Books,
                    LoopsOwnTheirOrders
<1>5. /\ pc[r] = "step" /\ orders[o] \in Order
      /\ orders[o].slot # NoSlot /\ orders[o].status # "ABSENT"
  BY <1>4, <1>1, <1>3
    
       DEF PlcAnswers, StepDone, StepFails, Books, TypeOK, Owned,
           LoopsOwnTheirOrders, StepsArePhysical
<1>6. r \notin quiet
  BY <1>3, <1>5 DEF Disk, QuietLoopsLeave
<1>7. hand' = hand /\ quiet' = quiet /\ \A q \in Robots \ {r} : pc'[q] = pc[q]
  BY <1>3 DEF RecPlc, RecStepDone, RecStepFails, StepDone, StepFails, Continue,
              TypeOK
<1>8. QuietLoopsLeave' /\ quiet' \subseteq Robots
  BY <1>3, <1>6, <1>7 DEF Disk, RecTypeOK, QuietLoopsLeave
<1>9. CASE RecStepDone(r)
  <2>1. orders' = [orders EXCEPT ![o] = [orders[o] EXCEPT !.idx = at[r] + 1]]
    BY <1>4, <1>9 DEF RecStepDone, StepDone
  <2>2. \A p \in OrderIds :
          /\ orders'[p].slot = orders[p].slot
          /\ orders'[p].status = orders[p].status
          /\ p # o => orders'[p].idx = orders[p].idx
    BY <1>3, <1>5, <2>1 DEF TypeOK, Order
  <2>3. \A p \in OrderIds : Begun(orders'[p].idx) => orders'[p].slot # NoSlot
    BY <1>3, <1>5, <2>2 DEF Disk, StepsSaved
  <2>4. SettledHaveRows
    BY <2>2 DEF SettledHaveRows
  <2>5. MetricsGrow /\ Save
    BY <1>3, <1>9, NoRowInserted DEF RecStepDone
  <2>6. Disk'
    BY <1>1, <1>3, <1>8, <2>3, <2>4, <2>5, SaveKeepsDisk
  <2> QED
    BY <1>2, <2>6 DEF RecIInv
<1>10. CASE RecStepFails(r)
  <2>1. /\ orders' = [orders EXCEPT ![o] = [orders[o] EXCEPT !.status = "ERROR"]]
        /\ pc'[r] = "failed" /\ UNCHANGED saved
    BY <1>4, <1>3, <1>10 DEF RecStepFails, StepFails, TypeOK
  <2>2. MetricsGrow /\ metric'[o] # NoRow
    BY <1>4, <1>3, <1>10, RowInserted DEF RecStepFails, Settled
  <2>3. OrdersKeepPlace
    BY <1>3, <1>5, <2>1 DEF OrdersKeepPlace, SameName, TypeOK, Order
  <2>4. \A p \in OrderIds : p # o => orders'[p] = orders[p]
    BY <1>3, <2>1 DEF TypeOK
  <2>5. AboutToSave(o)'
    BY <1>4, <1>7, <2>1 DEF AboutToSave, Saves
  <2>6. OutcomesAreFollowed /\ SettledHaveRows
    BY <2>2, <2>4, <2>5 DEF OutcomesAreFollowed, SettledHaveRows
  <2>7. SaversGoOn
    BY <1>5, <1>7 DEF SaversGoOn, Saves
  <2>8. Disk'
    BY <1>1, <1>3, <1>8, <2>1, <2>2, <2>3, <2>6, <2>7, UnsavedKeepsDisk
  <2> QED
    BY <1>2, <2>8 DEF RecIInv
<1> QED
  BY <1>9, <1>10 DEF RecPlc

(***************************************************************************)
(* The answer of a retry: the order starts again, and the books are saved. *)
(***************************************************************************)
LEMMA RecRetriedKeepsRecIInv ==
    ASSUME RecIInv, NEW o \in OrderIds, RecRetried(o) PROVE RecIInv'
<1>1. boot = Up /\ Running /\ RetryReturns(o) /\ UNCHANGED <<metric, quiet>>
  BY DEF RecRetried, RecRetryReturns, RetryReturns, durable
<1>2. IInvBut(Unqueued)'
  BY <1>1, UpKeepsBooks DEF Next
<1>3. Disk /\ TypeOK /\ Books'
  BY <1>2 DEF RecIInv, IInvBut, Books
<1>4. CASE RetryEnds(o) /\ Save
  <2>1. orders' = [orders EXCEPT ![o] =
                     [orders[o] EXCEPT !.status = "PENDING", !.idx = 0,
                                       !.waiting = FALSE]]
    BY <1>3, <1>4 DEF RetryEnds, TypeOK
  <2>2. /\ orders'[o].status = "PENDING" /\ orders'[o].idx = 0
        /\ \A p \in OrderIds : p # o => orders'[p] = orders[p]
    BY <1>3, <2>1 DEF TypeOK, Order
  <2>3. ~Begun(orders'[o].idx)
    BY <2>2 DEF Begun
  <2>4. \A p \in OrderIds : Begun(orders'[p].idx) => orders'[p].slot # NoSlot
    BY <1>3, <2>2, <2>3 DEF Disk, StepsSaved
  <2>5. SettledHaveRows
    BY <2>2 DEF SettledHaveRows, Settled
  <2>6. \A q \in Robots : pc[q] # "off" => pc'[q] = pc[q]
    BY <1>3, <1>4 DEF RetryEnds, Kicked, TypeOK
  <2>7. QuietLoopsLeave' /\ quiet' \subseteq Robots
    BY <1>1, <1>3, <2>6 DEF Disk, RecTypeOK, QuietLoopsLeave
  <2>8. MetricsGrow
    BY <1>1, <1>3, NoRowInserted
  <2>9. Disk'
    BY <1>1, <1>3, <1>4, <2>4, <2>5, <2>7, <2>8, SaveKeepsDisk
  <2> QED
    BY <1>2, <2>9 DEF RecIInv
<1>5. CASE RetryFails(o) /\ UNCHANGED durable
  <2>1. Disk'
    BY <1>1, <1>3, <1>5, AsideKeepsDisk DEF RetryFails, bookVars, loopVars
  <2> QED
    BY <1>2, <2>1 DEF RecIInv
<1> QED
  BY <1>4, <1>5 DEF RecRetried, RecRetryReturns

-----------------------------------------------------------------------------
(***************************************************************************)
(* The requests: an order that is accepted is saved before the answer.     *)
(***************************************************************************)
LEMMA RecSubmitKeepsDisk ==
    ASSUME RecIInv, boot = Up, NEW r \in Robots, RecSubmit(r), Running, Books'
    PROVE  Disk'
<1>1. Disk /\ TypeOK
  BY DEF RecIInv, IInvBut, Books
<1>2. AddsOne /\ UNCHANGED <<metric, quiet>>
  BY <1>1, SubmitAddsOne DEF RecSubmit
<1>3. PICK o \in OrderIds :
        /\ orders'[o].status = "PENDING" /\ orders'[o].idx = 0
        /\ \A p \in OrderIds : p # o => orders'[p] = orders[p]
  BY <1>2 DEF AddsOne
<1>4. \A p \in OrderIds : Begun(orders'[p].idx) => orders'[p].slot # NoSlot
  <2>1. ~Begun(orders'[o].idx)
    BY <1>3 DEF Begun
  <2> QED
    BY <1>1, <1>3, <2>1 DEF Disk, StepsSaved
<1>5. SettledHaveRows
  BY <1>3 DEF SettledHaveRows, Settled
<1>6. \A q \in Robots : pc[q] # "off" => pc'[q] = pc[q]
  BY <1>2 DEF AddsOne
<1>7. QuietLoopsLeave' /\ quiet' \subseteq Robots
  BY <1>1, <1>2, <1>6 DEF Disk, RecTypeOK, QuietLoopsLeave
<1>8. MetricsGrow /\ Save
  BY <1>1, <1>2, NoRowInserted DEF RecSubmit
<1> QED
  BY <1>1, <1>4, <1>5, <1>7, <1>8, SaveKeepsDisk

(***************************************************************************)
(* A cancel is counted and not saved.                                      *)
(***************************************************************************)
LEMMA RecCancelKeepsDisk ==
    ASSUME RecIInv, NEW o \in OrderIds, RecCancel(o), Running PROVE Disk'
<1>1. Disk /\ TypeOK
  BY DEF RecIInv, IInvBut, Books
<1>2. /\ orders' = [orders EXCEPT ![o] =
                      [orders[o] EXCEPT !.status = "CANCELED"]]
      /\ orders[o].status # "ABSENT"
      /\ UNCHANGED <<pc, hand, saved, quiet>>
  BY <1>1 DEF RecCancel, CancelOrder, Exists, loopVars, TypeOK
<1>3. /\ orders'[o].status = "CANCELED"
      /\ \A p \in OrderIds : p # o => orders'[p] = orders[p]
  BY <1>1, <1>2 DEF TypeOK, Order
<1>4. MetricsGrow /\ metric'[o] # NoRow
  BY <1>1, RowInserted DEF RecCancel, Settled
<1>5. OrdersKeepPlace
  BY <1>1, <1>2 DEF OrdersKeepPlace, SameName, TypeOK, Order
<1>6. OutcomesAreFollowed /\ SettledHaveRows
  BY <1>3, <1>4 DEF OutcomesAreFollowed, SettledHaveRows
<1>7. SaversGoOn
  BY <1>2 DEF SaversGoOn, Saves
<1>8. QuietLoopsLeave' /\ quiet' \subseteq Robots
  BY <1>1, <1>2 DEF Disk, RecTypeOK, QuietLoopsLeave
<1> QED
  BY <1>1, <1>2, <1>4, <1>5, <1>6, <1>7, <1>8, UnsavedKeepsDisk

(***************************************************************************)
(* The other interventions touch no order.                                 *)
(***************************************************************************)
LEMMA RecOperateKeepsDisk ==
    ASSUME RecIInv, RecOperate, Running, Books' PROVE Disk'
<1>1. Disk
  BY DEF RecIInv
<1>2. CASE \E s \in Slots : ReleaseSlot(s) /\ Save /\ UNCHANGED <<metric, quiet>>
  <2>1. UNCHANGED <<orders, pc, metric, quiet>> /\ Save
    BY <1>2 DEF ReleaseSlot, loopVars
  <2>2. QuietLoopsLeave' /\ quiet' \subseteq Robots
    BY <1>1, <2>1 DEF Disk, RecTypeOK, QuietLoopsLeave
  <2>3. SettledHaveRows /\ MetricsGrow
    BY <1>1, <2>1, NoRowInserted DEF SettledHaveRows
  <2>4. \A o \in OrderIds :
          Begun(orders'[o].idx) => orders'[o].slot # NoSlot
    BY <1>1, <2>1 DEF Disk, StepsSaved
  <2> QED
    BY <1>1, <2>1, <2>2, <2>3, <2>4, SaveKeepsDisk
<1>3. CASE /\ \/ \E o \in OrderIds : RetryBegins(o)
              \/ \E r \in Robots :
                    PauseQueue(r) \/ ResumeQueue(r) \/ RegisterDevice(r)
           /\ UNCHANGED <<durable, quiet>>
  <2>1. UNCHANGED <<orders, pc, hand, durable, quiet>>
    BY <1>3 DEF RetryBegins, PauseQueue, ResumeQueue, RegisterDevice,
                bookVars, loopVars
  <2> QED
    BY <1>1, <2>1, AsideKeepsDisk
<1> QED
  BY <1>2, <1>3 DEF RecOperate

(***************************************************************************)
(* All the requests.                                                       *)
(***************************************************************************)
LEMMA RequestsKeepRecIInv == ASSUME RecIInv, Requests PROVE RecIInv'
<1>1. boot = Up /\ Running /\ Next
  BY DEF Requests, RecSubmit, RecCancel, RecOperate, Next, Operate
<1>2. IInvBut(Unqueued)'
  BY <1>1, UpKeepsBooks
<1>3. Books'
  BY <1>2 DEF IInvBut
<1>4. Disk'
  BY <1>1, <1>3, RecSubmitKeepsDisk, RecCancelKeepsDisk, RecOperateKeepsDisk
     DEF Requests
<1> QED
  BY <1>2, <1>4 DEF RecIInv

-----------------------------------------------------------------------------
(***************************************************************************)
(* The process dies: the snapshot is a consistent state to start from, and *)
(* every unsettled order of it is to be queued.                            *)
(***************************************************************************)
LEMMA CrashKeepsRecIInv == ASSUME RecIInv, Crash PROVE RecIInv'
<1>1. Disk /\ Books /\ TypeOK
  BY DEF RecIInv, IInvBut, Books
<1>2. /\ orders' = saved.orders /\ slots' = saved.slots
      /\ robots' = saved.robots
      /\ pc' = [r \in Robots |->
                  IF saved.robots[r].status = "ABSENT" THEN "off" ELSE "top"]
      /\ hand' = [r \in Robots |-> NoOrder] /\ at' = [r \in Robots |-> 0]
      /\ retrying' = [o \in OrderIds |-> 0]
      /\ queues' = [r \in Robots |-> EmptyQueue(NoOrder)]
      /\ boot' = 1 /\ quiet' = {} /\ crashes' = crashes + 1
      /\ UNCHANGED <<saved, metric, ops>>
  BY DEF Crash, durable
<1>3. /\ EmptyQueue(NoOrder) \in Queue
      /\ Members(EmptyQueue(NoOrder).items) = {}
      /\ EmptyQueue(NoOrder).active = NoOrder
  <2>1. << >> \in Seq(OrderIds) /\ Members(<< >>) = {}
    BY EmptySeq DEF Members
  <2> QED
    BY <2>1 DEF EmptyQueue, Queue
<1>4. TypeOK'
  BY <1>1, <1>2, <1>3, NumStepsAssumption
     DEF Disk, RecTypeOK, Snapshot, TypeOK, Points
<1>5. \A r \in Robots : pc'[r] \in {"off", "top"}
  BY <1>2
<1>6. LoopsOwnTheirOrders' /\ StepsArePhysical'
  BY <1>5 DEF LoopsOwnTheirOrders, StepsArePhysical
<1>7. QueuesOwnTheirOrders' /\ RetriesNameOrders'
  BY <1>2, <1>3 DEF QueuesOwnTheirOrders, RetriesNameOrders
<1>8. HeldSlotsAreClaimed' /\ DepthsMatch'
  BY <1>1, <1>2 DEF Disk, SavedSlotsAreClaimed, SavedDepthsMatch,
                    HeldSlotsAreClaimed, Claims, DepthsMatch
<1>9. NoneLostBut(Unqueued)'
  BY <1>2 DEF NoneLostBut, Unqueued, Up, OrderIds
<1>10. RecTypeOK'
  BY <1>1, <1>2, MaxOrdersAssumption DEF Disk, RecTypeOK
<1>11. SavedSlotsAreClaimed' /\ SavedDepthsMatch'
  BY <1>1, <1>2 DEF Disk, SavedSlotsAreClaimed, SavedDepthsMatch
<1>12. SameOrdersSaved' /\ OutcomesSaved' /\ QuietLoopsLeave'
  BY <1>2 DEF SameOrdersSaved, OutcomesSaved, QuietLoopsLeave
<1>13. RowsOutlive' /\ StepsSaved'
  BY <1>1, <1>2 DEF Disk, RowsOutlive, StepsSaved
<1> QED
  BY <1>4, <1>6, <1>7, <1>8, <1>9, <1>10, <1>11, <1>12, <1>13
     DEF RecIInv, IInvBut, Books, Disk

(***************************************************************************)
(* Rehydration puts the oldest order that is left back into its queue.     *)
(***************************************************************************)
LEMMA RehydrateNextKeepsRecIInv ==
    ASSUME RecIInv, RehydrateNext PROVE RecIInv'
<1>1. Disk /\ Books /\ TypeOK /\ NoneLostBut(Unqueued)
  BY DEF RecIInv, IInvBut, Books
<1>2. PICK o \in Unqueued :
        /\ \A q \in Unqueued : o <= q
        /\ orders' = [orders EXCEPT ![o] =
                        [orders[o] EXCEPT !.status = "PENDING"]]
        /\ queues' = [queues EXCEPT ![orders[o].robot] =
                        Enqueue(queues[orders[o].robot], o)]
        /\ boot' = o + 1
  BY <1>1 DEF RehydrateNext, TypeOK
<1>3. /\ o \in OrderIds /\ boot # Up /\ o >= boot
      /\ orders[o].status \in {"PENDING", "IN_PROGRESS"}
  BY DEF Unqueued
<1>4. UNCHANGED <<slots, robots, pc, hand, at, retrying, ops, saved, metric,
                  quiet, crashes>>
  BY DEF RehydrateNext, loopVars, durable
<1>5. PICK r \in Robots : r = orders[o].robot
  BY <1>1, <1>3 DEF TypeOK, Order
<1>6. queues[r] \in Queue /\ orders[o] \in Order
  BY <1>1, <1>3 DEF TypeOK
<1>7. /\ Enqueue(queues[r], o) \in Queue
      /\ Enqueue(queues[r], o).active = queues[r].active
      /\ Members(Enqueue(queues[r], o).items) =
            Members(queues[r].items) \cup {o}
  BY <1>3, <1>6, EnqueueOp
<1>8. /\ orders'[o] \in Order /\ orders'[o].status = "PENDING"
      /\ \A p \in OrderIds :
            /\ p # o => orders'[p] = orders[p]
            /\ orders'[p].robot = orders[p].robot
            /\ orders'[p].slot = orders[p].slot
            /\ orders'[p].idx = orders[p].idx
            /\ orders'[p].logical = orders[p].logical
            /\ orders'[p].ext = orders[p].ext
  BY <1>1, <1>2, <1>3, <1>6 DEF TypeOK, Order, Status
<1>9. /\ \A q \in Robots \ {r} : queues'[q] = queues[q]
      /\ queues'[r] = Enqueue(queues[r], o)
  BY <1>1, <1>2, <1>5 DEF TypeOK
<1>10. TypeOK'
  BY <1>1, <1>2, <1>3, <1>4, <1>5, <1>7, <1>8 DEF TypeOK
<1>11. \A p \in OrderIds : orders[p].status # "ABSENT" => orders'[p].status # "ABSENT"
  BY <1>8
<1>12. LoopsOwnTheirOrders'
  <2>1. \A q \in Robots : queues'[q].active = queues[q].active
    BY <1>7, <1>9
  <2> QED
    BY <1>1, <1>4, <1>8, <1>11, <2>1 DEF Books, LoopsOwnTheirOrders, Owned
<1>13. StepsArePhysical'
  BY <1>1, <1>4, <1>8 DEF Books, StepsArePhysical, LoopsOwnTheirOrders
<1>14. QueuesOwnTheirOrders'
  <2> SUFFICES ASSUME NEW q \in Robots, NEW p,
                      \/ p \in Members(queues'[q].items)
                      \/ p = queues'[q].active /\ p # NoOrder
               PROVE  orders'[p].status # "ABSENT" /\ orders'[p].robot = q
    BY DEF QueuesOwnTheirOrders, Owned
  <2>1. /\ queues'[q].active = queues[q].active
        /\ Members(queues'[q].items) =
              Members(queues[q].items) \cup (IF q = r THEN {o} ELSE {})
    BY <1>7, <1>9
  <2>2. CASE p = o /\ q = r
    BY <1>3, <1>5, <1>8, <2>2
  <2>3. CASE ~(p = o /\ q = r)
    <3>1. Owned(p, q)
      BY <1>1, <2>1, <2>3 DEF Books, QueuesOwnTheirOrders
    <3>2. p \in OrderIds
      BY <1>1, <2>1, <2>3, MembersOfSeq DEF TypeOK, Queue
    <3> QED
      BY <1>8, <1>11, <3>1, <3>2 DEF Owned
  <2> QED
    BY <2>2, <2>3
<1>15. RetriesNameOrders'
  BY <1>1, <1>4, <1>11 DEF Books, RetriesNameOrders
<1>16. HeldSlotsAreClaimed' /\ DepthsMatch'
  BY <1>1, <1>4, <1>8
     DEF Books, HeldSlotsAreClaimed, Claims, DepthsMatch, TypeOK, Slot
<1>17. NoneLostBut(Unqueued)'
  <2> SUFFICES ASSUME NEW p \in OrderIds, p \notin Unqueued',
                      orders'[p].status \in {"PENDING", "IN_PROGRESS"}
               PROVE  InSomeonesCare(p)'
    BY DEF NoneLostBut
  <2>1. CASE p = o
    BY <1>5, <1>7, <1>8, <1>9, <2>1 DEF InSomeonesCare
  <2>2. CASE p # o
    <3>1. p \notin Unqueued
      BY <1>1, <1>2, <1>3, <1>8, <2>2
         DEF Unqueued, Up, OrderIds, Disk, RecTypeOK
    <3>2. InSomeonesCare(p)
      BY <1>1, <1>8, <2>2, <3>1 DEF NoneLostBut
    <3> QED
      <4>1. orders'[p].robot = orders[p].robot /\ orders[p].robot \in Robots
        BY <1>1, <1>8 DEF TypeOK, Order
      <4>2. \A q \in Robots :
              /\ queues'[q].active = queues[q].active
              /\ Members(queues[q].items) \subseteq Members(queues'[q].items)
        BY <1>7, <1>9
      <4> QED
        BY <1>4, <3>2, <4>1, <4>2 DEF InSomeonesCare
  <2> QED
    BY <2>1, <2>2
<1>18. RecTypeOK'
  BY <1>1, <1>2, <1>3, <1>4, MaxOrdersAssumption
     DEF Disk, RecTypeOK, OrderIds
<1>19. SavedSlotsAreClaimed' /\ SavedDepthsMatch' /\ QuietLoopsLeave'
  BY <1>1, <1>4
     DEF Disk, SavedSlotsAreClaimed, SavedDepthsMatch, QuietLoopsLeave
<1>20. SameOrdersSaved' /\ RowsOutlive' /\ StepsSaved'
  BY <1>1, <1>3, <1>4, <1>8
     DEF Disk, SameOrdersSaved, RowsOutlive, StepsSaved, Settled
<1>21. OutcomesSaved'
  BY <1>1, <1>4, <1>8 DEF Disk, OutcomesSaved, AboutToSave, Saves
<1> QED
  BY <1>10, <1>12, <1>13, <1>14, <1>15, <1>16, <1>17, <1>18, <1>19, <1>20, <1>21
     DEF RecIInv, IInvBut, Books, Disk

(***************************************************************************)
(* The end of rehydration only changes what is shown of the robots.        *)
(***************************************************************************)
LEMMA RehydrateEndsKeepsRecIInv ==
    ASSUME RecIInv, RehydrateEnds PROVE RecIInv'
<1>1. Disk /\ IInvBut(Unqueued) /\ TypeOK
  BY DEF RecIInv, IInvBut, Books
<1>2. UNCHANGED <<orders, slots, queues, pc, hand, at, retrying, ops, saved,
                  metric, quiet, crashes>>
      /\ Unqueued = {} /\ boot' = Up
  BY DEF RehydrateEnds, bookVars, loopVars, durable
<1>3. robots' \in [Robots -> Robot]
  BY <1>1 DEF RehydrateEnds, TypeOK, Robot, RobotStatus
<1>4. TypeOK'
  BY <1>1, <1>2, <1>3 DEF TypeOK
<1>5. IInvBut(Unqueued)'
  BY <1>1, <1>2, <1>4
     DEF IInvBut, Books, LoopsOwnTheirOrders, StepsArePhysical, Owned,
         QueuesOwnTheirOrders, RetriesNameOrders, NoneLostBut,
         InSomeonesCare, HeldSlotsAreClaimed, Claims, DepthsMatch
<1>6. RecTypeOK'
  BY <1>1, <1>2, MaxOrdersAssumption DEF Disk, RecTypeOK, Up
<1>7. Disk'
  BY <1>1, <1>2, <1>6
     DEF Disk, SavedSlotsAreClaimed, SavedDepthsMatch, SameOrdersSaved,
         RowsOutlive, StepsSaved, OutcomesSaved, AboutToSave, Saves,
         QuietLoopsLeave
<1> QED
  BY <1>5, <1>7 DEF RecIInv

-----------------------------------------------------------------------------
(***************************************************************************)
(* Every step keeps the invariant.                                         *)
(***************************************************************************)
LEMMA RecNextRecIInv == RecIInv /\ [RecNext]_recVars => RecIInv'
<1> SUFFICES ASSUME RecIInv, [RecNext]_recVars PROVE RecIInv'
  OBVIOUS
<1>1. CASE UNCHANGED recVars
  <2>1. UNCHANGED vars /\ UNCHANGED <<saved, metric, boot, quiet, crashes>>
    BY <1>1 DEF recVars, durable
  <2>2. Disk'
    BY <2>1, AsideKeepsDisk DEF RecIInv, vars, durable, Running
  <2>3. IInvBut(Unqueued)'
    BY <2>1 DEF RecIInv, vars, IInvBut, Books, TypeOK, LoopsOwnTheirOrders,
                StepsArePhysical, Owned, QueuesOwnTheirOrders,
                RetriesNameOrders, NoneLostBut, Unqueued, InSomeonesCare,
                HeldSlotsAreClaimed, Claims, DepthsMatch
  <2> QED
    BY <2>2, <2>3 DEF RecIInv
<1> QED
  BY <1>1, RecTickKeepsRecIInv, RecResumeKeepsRecIInv, RecPlcKeepsRecIInv,
     RecRetriedKeepsRecIInv, RequestsKeepRecIInv, CrashKeepsRecIInv,
     RehydrateNextKeepsRecIInv, RehydrateEndsKeepsRecIInv
     DEF RecNext, Rehydrate

(***************************************************************************)
(* The invariant holds whatever dies when.                                 *)
(***************************************************************************)
THEOREM RecInvariance == RecSpec => []RecIInv
BY InitRecIInv, RecNextRecIInv, PTL DEF RecSpec

(***************************************************************************)
(* No order whose submission was answered is lost by a crash, however many *)
(* there are and wherever the process dies: not in the books, and not in   *)
(* the way from the books to the queues.                                   *)
(***************************************************************************)
THEOREM CrashesLoseNoOrder == RecSpec => []OrdersSurviveCrashes
<1>1. RecIInv => OrdersSurviveCrashes
  BY DEF RecIInv, IInvBut, NoneLostBut, Disk, SameOrdersSaved, Exists,
         OrdersSurviveCrashes
<1> QED
  BY <1>1, RecInvariance, PTL

(***************************************************************************)
(* What a client was shown as finished is so in the snapshot, and so are   *)
(* the steps of a maneuver and its slot.                                   *)
(***************************************************************************)
THEOREM ProgressOutlivesCrashes == RecSpec => []ProgressIsSaved
<1>1. RecIInv => ProgressIsSaved
  <2> SUFFICES ASSUME RecIInv, NEW o \in OrderIds
               PROVE  /\ Calm /\ orders[o].status \in {"DONE", "ERROR"} =>
                            saved.orders[o].status = orders[o].status
                      /\ saved.orders[o].idx = orders[o].idx
                      /\ orders[o].idx > 0 =>
                            saved.orders[o].slot = orders[o].slot
    BY DEF ProgressIsSaved
  <2>1. OutcomesSaved /\ StepsSaved
    BY DEF RecIInv, Disk
  <2>2. Calm => ~AboutToSave(o)
    BY DEF Calm, AboutToSave, Saves
  <2>3. orders[o].idx > 0 => Begun(orders[o].idx)
    BY DEF Begun
  <2> QED
    BY <2>1, <2>2, <2>3 DEF OutcomesSaved, StepsSaved
<1> QED
  BY <1>1, RecInvariance, PTL

(***************************************************************************)
(* An order that settled is counted, whichever of the row and the snapshot *)
(* a crash came after.                                                     *)
(***************************************************************************)
THEOREM SettledIsCounted == RecSpec => []SettledOrdersAreCounted
<1>1. RecIInv => SettledOrdersAreCounted
  BY DEF RecIInv, Disk, RowsOutlive, SettledOrdersAreCounted
<1> QED
  BY <1>1, RecInvariance, PTL

(***************************************************************************)
(* Across restarts too, a slot that is held names an unfinished order that *)
(* uses it.                                                                *)
(***************************************************************************)
THEOREM RestartsStrandNoSlot == RecSpec => []NoStrandedSlot
<1>1. RecIInv => NoStrandedSlot
  BY DEF RecIInv, IInvBut, Books, HeldSlotsAreClaimed, Claims, NoStrandedSlot
<1> QED
  BY <1>1, RecInvariance, PTL

(***************************************************************************)
(* After a restart a robot at the PLC works for its queue's active order.  *)
(***************************************************************************)
THEOREM RestartsKeepRobotsInLine == RecSpec => []MovesForItsActiveOrder
<1>1. RecIInv => MovesForItsActiveOrder
  BY NoOrderIsNone DEF RecIInv, IInvBut, Books, LoopsOwnTheirOrders,
                       StepsArePhysical, Owned, MovesForItsActiveOrder
<1> QED
  BY <1>1, RecInvariance, PTL

-----------------------------------------------------------------------------
(***************************************************************************)
(* A restart and the order of the queues.  What is in a queue or a loop    *)
(* while the server boots is older than the order rehydration has got to;  *)
(* so a maneuver that was under way waits behind older orders only, until  *)
(* its robot takes it up again.                                            *)
(***************************************************************************)
Older(p, o) == p < o

\* Nothing but older orders stands before one of the places of the order.
InLine(s, o) ==
    \E j \in 1 .. Len(s) : s[j] = o /\ \A i \in 1 .. j - 1 : Older(s[i], o)

TakenUp(o) ==
    LET r == orders[o].robot IN
    queues[r].active = o \/ (pc[r] = "dequeued" /\ hand[r] = o)

WaitsInLine(o) ==
    LET r == orders[o].robot IN
    /\ crashes > 0
    /\ InLine(queues[r].items, o)
    /\ Older(queues[r].active, o)
    /\ pc[r] = "dequeued" => Older(hand[r], o)

BootsInOrder ==
    boot # Up =>
        /\ crashes > 0
        /\ \A r \in Robots :
              /\ \A o \in Members(queues[r].items) : Older(o, boot)
              /\ Older(queues[r].active, boot)
              /\ pc[r] \in {"dequeued", "requeue"} => Older(hand[r], boot)

\* Without interventions nothing leaves a robot at the PLC without an active
\* order, and nothing is to be reset.
NothingCancelled ==
    ops = 0 =>
        /\ \A r \in Robots : pc[r] = "step" => queues[r].active = hand[r]
        /\ \A o \in OrderIds : ~(retrying[o] > 0)

MidwayInLine ==
    ops = 0 =>
        \A o \in OrderIds :
            Midway(o) => o \in Unqueued \/ TakenUp(o) \/ WaitsInLine(o)

InOrder == BootsInOrder /\ NothingCancelled /\ MidwayInLine

-----------------------------------------------------------------------------
(***************************************************************************)
(* A place in the line survives what comes in behind it, and moves up when *)
(* the first one leaves.                                                   *)
(***************************************************************************)
LEMMA InLineAppend ==
    ASSUME NEW s \in Seq(OrderIds), NEW o \in OrderIds, NEW p \in OrderIds
    PROVE  /\ InLine(s, o) => InLine(Append(s, p), o)
           /\ (\A q \in Members(s) : Older(q, o)) => InLine(Append(s, o), o)
<1>1. \A x \in OrderIds :
        /\ Len(Append(s, x)) = Len(s) + 1
        /\ \A i \in 1 .. Len(s) : Append(s, x)[i] = s[i]
        /\ Append(s, x)[Len(s) + 1] = x
  BY AppendProperties
<1>2. DOMAIN s = 1 .. Len(s) /\ Len(s) \in Nat
  BY LenProperties
<1>3. ASSUME NEW j \in 1 .. Len(s), s[j] = o,
             \A i \in 1 .. j - 1 : Older(s[i], o)
      PROVE  InLine(Append(s, p), o)
  <2>1. j \in 1 .. Len(Append(s, p)) /\ Append(s, p)[j] = o
    BY <1>1, <1>2, <1>3
  <2>2. \A i \in 1 .. j - 1 : i \in 1 .. Len(s)
    BY <1>2
  <2>3. \A i \in 1 .. j - 1 : Older(Append(s, p)[i], o)
    BY <1>1, <1>3, <2>2
  <2> QED
    BY <2>1, <2>3 DEF InLine
<1>4. ASSUME \A q \in Members(s) : Older(q, o) PROVE InLine(Append(s, o), o)
  <2> DEFINE j == Len(s) + 1
  <2>1. j \in 1 .. Len(Append(s, o)) /\ Append(s, o)[j] = o
    BY <1>1, <1>2
  <2>2. \A i \in 1 .. j - 1 : i \in 1 .. Len(s)
    BY <1>2
  <2>3. \A i \in 1 .. j - 1 : Older(Append(s, o)[i], o)
    BY <1>1, <1>2, <1>4, <2>2 DEF Members
  <2> HIDE DEF j
  <2> QED
    BY <2>1, <2>3 DEF InLine
<1> QED
  BY <1>3, <1>4 DEF InLine

(***************************************************************************)
(* The first of the line leaves: it was the order itself, or an older one, *)
(* and the order stands one place further to the front.                    *)
(***************************************************************************)
LEMMA InLineTail ==
    ASSUME NEW s \in Seq(OrderIds), s # << >>, NEW o \in OrderIds, InLine(s, o)
    PROVE  \/ Head(s) = o
           \/ Older(Head(s), o) /\ InLine(Tail(s), o)
<1>1. /\ Head(s) = s[1] /\ Len(Tail(s)) = Len(s) - 1
      /\ \A i \in 1 .. Len(Tail(s)) : Tail(s)[i] = s[i + 1]
  BY HeadTailProperties
<1>2. Len(s) \in Nat
  BY LenProperties
<1>3. PICK j \in 1 .. Len(s) : s[j] = o /\ \A i \in 1 .. j - 1 : Older(s[i], o)
  BY DEF InLine
<1>4. CASE j = 1
  BY <1>1, <1>3, <1>4
<1>5. CASE j # 1
  <2>1. 1 \in 1 .. j - 1
    BY <1>2, <1>5
  <2>2. j - 1 \in 1 .. Len(Tail(s)) /\ (j - 1) + 1 = j
    BY <1>1, <1>2, <1>5
  <2>3. Tail(s)[j - 1] = o
    BY <1>1, <1>3, <2>2
  <2>4. \A i \in 1 .. (j - 1) - 1 : i \in 1 .. Len(Tail(s)) /\ i + 1 \in 1 .. j - 1
    BY <1>1, <1>2
  <2>5. \A i \in 1 .. (j - 1) - 1 : Older(Tail(s)[i], o)
    BY <1>1, <1>3, <2>4
  <2>6. InLine(Tail(s), o)
    BY <2>2, <2>3, <2>5 DEF InLine
  <2> QED
    BY <1>1, <1>3, <2>1, <2>6
<1> QED
  BY <1>4, <1>5

(***************************************************************************)
(* processOrder keeps the order active or leaves it for good: a maneuver   *)
(* that is half done neither waits for a slot nor joins a stack.           *)
(***************************************************************************)
LEMMA ProcessLeavesOrStays ==
    ASSUME Books, StepsSaved, NEW r \in Robots, NEW o \in OrderIds,
           Owned(o, r), ProcessOrder(r, o)
    PROVE  \/ queues' = queues /\ pc'[r] \in {"step", "off"}
           \/ /\ queues' = [queues EXCEPT ![r] = SetActive(queues[r], NoOrder)]
              /\ pc'[r] \in {"cleared", "requeue"}
              /\ ~Midway(o)'
<1>1. /\ TypeOK /\ orders[o] \in Order
      /\ orders[o].slot = NoSlot => ~Begun(orders[o].idx)
  BY DEF Books, TypeOK, StepsSaved
<1>2. PICK new : orders' = [orders EXCEPT ![o] = new] /\ Reworked(r, o, new)
  BY <1>1, ProcessOrderReworks
<1>3. orders'[o] = new /\ new.idx = orders[o].idx
  BY <1>1, <1>2 DEF TypeOK, Reworked
<1>4. Midway(o)' =>
        new.status \in {"PENDING", "IN_PROGRESS"} /\ Begun(orders[o].idx)
  BY <1>3 DEF Midway, Begun
<1>5. CASE \/ JoinStack(r, o) \/ Defer(r, o)
           \/ SkipSettled(r, o, orders[o], slots)
           \/ FinishLogical(r, o, orders[o], slots)
  <2>1. /\ ClearActive(r) /\ pc'[r] \in {"cleared", "requeue"}
    BY <1>1, <1>5 DEF JoinStack, SkipSettled, FinishLogical, Defer, TypeOK
  <2>2. \/ orders[o].slot = NoSlot
        \/ orders'[o].status \in Settled
    <3>1. CASE JoinStack(r, o) \/ Defer(r, o)
      BY <3>1 DEF JoinStack, LooksForBox, Defer
    <3>2. CASE SkipSettled(r, o, orders[o], slots)
      BY <1>1, <3>2 DEF SkipSettled, TypeOK
    <3>3. CASE FinishLogical(r, o, orders[o], slots)
      <4>1. orders'[o] = [orders[o] EXCEPT !.status = "DONE"]
        BY <1>1, <3>3 DEF FinishLogical, TypeOK
      <4> QED
        BY <1>1, <4>1 DEF Settled, Order
    <3> QED
      BY <1>5, <3>1, <3>2, <3>3
  <2> QED
    BY <1>1, <1>3, <1>4, <2>1, <2>2 DEF ClearActive, Settled
<1>6. CASE WorkInAssignedSlot(r, o) \/ WorkInOwnSlot(r, o)
  <2>1. PICK s, book : Work(r, o, Started(o, s), book)
    BY <1>6 DEF WorkInAssignedSlot, WorkInOwnSlot
  <2>2. CASE FinishPhysical(r, o, Started(o, s), book)
    <3>1. orders'[o].status = "DONE" /\ ClearActive(r) /\ pc'[r] = "cleared"
      BY <1>1, <2>2 DEF FinishPhysical, Started, TypeOK, Order
    <3> QED
      BY <1>3, <1>4, <3>1 DEF ClearActive
  <2>3. CASE StartStep(r, o, Started(o, s), book)
             \/ LoopDies(r, o, Started(o, s), book)
    BY <1>1, <2>3 DEF StartStep, LoopDies, TypeOK
  <2> QED
    BY <2>1, <2>2, <2>3 DEF Work
<1> QED
  BY <1>5, <1>6 DEF ProcessOrder

(***************************************************************************)
(* What a loop's step does to its robot's place, in the five ways there    *)
(* are.                                                                    *)
(***************************************************************************)
LeavesQueue(r) ==
    /\ pc[r] \notin {"dequeued", "requeue"} /\ pc'[r] \in {"off", "top"}
    /\ UNCHANGED orders
    /\ hand'[r] = hand[r] /\ queues'[r] = queues[r]

TakesFirst(r) ==
    /\ pc[r] = "top" /\ pc'[r] = "dequeued" /\ UNCHANGED orders
    /\ queues[r].active = NoOrder /\ queues[r].items # << >>
    /\ hand'[r] = Head(queues[r].items)
    /\ queues'[r].active = NoOrder
    /\ queues'[r].items = Tail(queues[r].items)

MakesActive(r) ==
    /\ pc[r] = "dequeued" /\ pc'[r] = "activated" /\ UNCHANGED orders
    /\ hand'[r] = hand[r]
    /\ queues'[r].active = hand[r] /\ queues'[r].items = queues[r].items

PutsBack(r) ==
    /\ pc[r] = "requeue" /\ pc'[r] = "cleared" /\ UNCHANGED orders
    /\ hand'[r] = hand[r]
    /\ queues'[r].active = queues[r].active
    /\ queues'[r].items = Append(queues[r].items, hand[r])

Processes(r) ==
    LET o == queues[r].active IN
    /\ o \in OrderIds /\ hand'[r] = o
    /\ pc[r] \in {"top", "activated"}
    /\ \/ queues'[r] = queues[r] /\ pc'[r] \in {"step", "off"}
       \/ /\ queues'[r].active = NoOrder
          /\ queues'[r].items = queues[r].items
          /\ pc'[r] \in {"cleared", "requeue"}
          /\ \A p \in OrderIds : p = o => ~Midway(p)'

(***************************************************************************)
(* Every step of a loop is one of the five.                                *)
(***************************************************************************)
LEMMA ResumeCases ==
    ASSUME Books, StepsSaved, NEW r \in Robots, Resume(r)
    PROVE  \/ LeavesQueue(r) \/ TakesFirst(r) \/ MakesActive(r)
           \/ PutsBack(r) \/ Processes(r)
<1>1. /\ pc \in [Robots -> Points] /\ queues[r] \in Queue
      /\ hand \in [Robots -> OrderIds \cup {NoOrder}]
      /\ queues \in [Robots -> Queue]
  BY DEF Books, TypeOK
<1>2. CASE NothingToDo(r) \/ FreeRobot(r) \/ RobotFails(r)
  <2>1. pc'[r] \in {"off", "top"}
    BY <1>1, <1>2 DEF NothingToDo, FreeRobot, RobotFails, Continue
  <2> QED
    BY <1>2, <2>1 DEF NothingToDo, FreeRobot, RobotFails, bookVars,
                      LeavesQueue
<1>3. CASE Dequeue(r)
  <2>1. queues'[r] = [queues[r] EXCEPT !.items = Tail(queues[r].items)]
    BY <1>1, <1>3 DEF Dequeue, Dequeued
  <2> QED
    BY <1>1, <1>3, <2>1 DEF Dequeue, CanDequeue, Queue, TakesFirst
<1>4. CASE Activate(r)
  <2>1. queues'[r] = [queues[r] EXCEPT !.active = hand[r]]
    BY <1>1, <1>4 DEF Activate, SetActive
  <2> QED
    BY <1>1, <1>4, <2>1 DEF Activate, Queue, MakesActive
<1>5. CASE Requeue(r)
  <2>1. queues'[r] =
          [queues[r] EXCEPT !.items = Append(queues[r].items, hand[r])]
    BY <1>1, <1>5 DEF Requeue, Enqueue
  <2> QED
    BY <1>1, <1>5, <2>1 DEF Requeue, Queue, PutsBack
<1>6. CASE ResumeActive(r) \/ ProcessActivated(r)
  <2>1. PICK o \in OrderIds : o = queues[r].active
    BY <1>1, <1>6, NoOrderIsNone
       DEF Books, LoopsOwnTheirOrders, ResumeActive, ProcessActivated, Queue
  <2>2. /\ Owned(o, r) /\ ProcessOrder(r, o) /\ hand'[r] = o
        /\ pc[r] \in {"top", "activated"}
    BY <1>1, <1>6, <2>1, NoOrderIsNone
       DEF Books, LoopsOwnTheirOrders, QueuesOwnTheirOrders, ResumeActive,
           ProcessActivated
  <2>3. SetActive(queues[r], NoOrder).active = NoOrder
        /\ SetActive(queues[r], NoOrder).items = queues[r].items
    BY <1>1, SetActiveOp
  <2>4. \/ queues' = queues /\ pc'[r] \in {"step", "off"}
        \/ /\ queues' = [queues EXCEPT ![r] = SetActive(queues[r], NoOrder)]
           /\ pc'[r] \in {"cleared", "requeue"}
           /\ ~Midway(o)'
    BY <2>2, ProcessLeavesOrStays
  <2> QED
    BY <1>1, <2>1, <2>2, <2>3, <2>4 DEF Processes
<1> QED
  BY <1>2, <1>3, <1>4, <1>5, <1>6 DEF Resume

(***************************************************************************)
(* Loops keep the order of the queues.                                     *)
(***************************************************************************)
LEMMA ResumeKeepsInOrder ==
    ASSUME RecIInv, InOrder, NEW r \in Robots, Resume(r), Running PROVE InOrder'
<1>1. /\ Books /\ TypeOK /\ StepsSaved
      /\ UNCHANGED <<boot, crashes, ops, retrying>>
  BY DEF RecIInv, IInvBut, Books, Disk, Running, Resume, NothingToDo, Dequeue,
         Activate, ResumeActive, ProcessActivated, Requeue, FreeRobot,
         RobotFails
<1>2. \A q \in Robots \ {r} :
        pc'[q] = pc[q] /\ hand'[q] = hand[q] /\ queues'[q] = queues[q]
  BY <1>1, ResumeMovesOneLoop
<1>3. \/ LeavesQueue(r) \/ TakesFirst(r) \/ MakesActive(r)
      \/ PutsBack(r) \/ Processes(r)
  BY <1>1, ResumeCases
<1>4. /\ queues[r].items \in Seq(OrderIds)
      /\ queues[r].active \in OrderIds \cup {NoOrder}
      /\ pc[r] = "requeue" => hand[r] \in OrderIds
      /\ pc[r] = "dequeued" => queues[r].active = NoOrder
  BY <1>1 DEF TypeOK, Queue, Books, LoopsOwnTheirOrders
<1>5. BootsInOrder'
  <2> SUFFICES ASSUME boot # Up
               PROVE  /\ \A o \in Members(queues'[r].items) : Older(o, boot)
                      /\ Older(queues'[r].active, boot)
                      /\ pc'[r] \in {"dequeued", "requeue"} =>
                            Older(hand'[r], boot)
    BY <1>1, <1>2 DEF InOrder, BootsInOrder
  <2>1. /\ \A o \in Members(queues[r].items) : Older(o, boot)
        /\ Older(queues[r].active, boot)
        /\ pc[r] \in {"dequeued", "requeue"} => Older(hand[r], boot)
    BY DEF InOrder, BootsInOrder
  <2>2. Older(NoOrder, boot)
    BY DEF Older, NoOrder, RecIInv, Disk, RecTypeOK, Up
  <2>3. CASE LeavesQueue(r)
    BY <2>1, <2>3 DEF LeavesQueue
  <2>4. CASE TakesFirst(r)
    BY <1>4, <2>1, <2>2, <2>4, MembersOfTail DEF TakesFirst
  <2>5. CASE MakesActive(r)
    BY <2>1, <2>5 DEF MakesActive
  <2>6. CASE PutsBack(r)
    BY <1>4, <2>1, <2>6, MembersOfAppend DEF PutsBack
  <2>7. CASE Processes(r)
    BY <2>1, <2>2, <2>7 DEF Processes
  <2> QED
    BY <1>3, <2>3, <2>4, <2>5, <2>6, <2>7
<1>6. NothingCancelled'
  <2>1. pc'[r] = "step" => queues'[r].active = hand'[r]
    BY <1>3 DEF LeavesQueue, TakesFirst, MakesActive, PutsBack, Processes
  <2> QED
    BY <1>1, <1>2, <2>1 DEF InOrder, NothingCancelled
<1>7. MidwayInLine'
  <2> SUFFICES ASSUME ops = 0, NEW o \in OrderIds, Midway(o)'
               PROVE  (o \in Unqueued \/ TakenUp(o) \/ WaitsInLine(o))'
    BY <1>1 DEF MidwayInLine
  <2>1. LoopEffect(r)
    BY <1>1, ResumeHasLoopEffect
  <2>2. /\ Midway(o) /\ orders'[o].robot = orders[o].robot
        /\ orders'[o].status \in {"PENDING", "IN_PROGRESS"}
    <3>1. orders[o].status \in Status /\ orders[o].logical \in BOOLEAN
      BY <1>1 DEF TypeOK, Order
    <3> QED
      BY <2>1, <3>1 DEF LoopEffect, SameName, Midway, Settled, Status
  <2>3. o \in Unqueued \/ TakenUp(o) \/ WaitsInLine(o)
    BY <2>2 DEF InOrder, MidwayInLine
  <2>4. CASE o \in Unqueued
    BY <1>1, <2>2, <2>4 DEF Unqueued
  <2>5. CASE orders[o].robot # r /\ (TakenUp(o) \/ WaitsInLine(o))
    <3>1. orders[o].robot \in Robots
      BY <1>1 DEF TypeOK, Order
    <3> QED
      BY <1>1, <1>2, <2>2, <2>5, <3>1 DEF TakenUp, WaitsInLine
  <2>6. CASE orders[o].robot = r /\ TakenUp(o)
    <3>1. queues[r].active = o \/ (pc[r] = "dequeued" /\ hand[r] = o)
      BY <2>6 DEF TakenUp
    <3>2. queues'[r].active = o \/ (pc'[r] = "dequeued" /\ hand'[r] = o)
      <4>1. CASE LeavesQueue(r) \/ TakesFirst(r) \/ MakesActive(r) \/ PutsBack(r)
        BY <1>4, <3>1, <4>1, NoOrderIsNone
           DEF LeavesQueue, TakesFirst, MakesActive, PutsBack
      <4>2. CASE Processes(r)
        BY <3>1, <4>2 DEF Processes, Midway
      <4> QED
        BY <1>3, <4>1, <4>2
    <3> QED
      BY <2>2, <2>6, <3>2 DEF TakenUp
  <2>7. CASE orders[o].robot = r /\ WaitsInLine(o)
    <3>1. /\ crashes > 0 /\ InLine(queues[r].items, o)
          /\ Older(queues[r].active, o)
          /\ pc[r] = "dequeued" => Older(hand[r], o)
      BY <2>7 DEF WaitsInLine
    <3>2. Older(NoOrder, o)
      BY DEF Older, NoOrder, OrderIds
    <3>3. \/ queues'[r].active = o
          \/ pc'[r] = "dequeued" /\ hand'[r] = o
          \/ /\ InLine(queues'[r].items, o)
             /\ Older(queues'[r].active, o)
             /\ pc'[r] = "dequeued" => Older(hand'[r], o)
      <4>1. CASE LeavesQueue(r)
        BY <3>1, <4>1 DEF LeavesQueue
      <4>2. CASE TakesFirst(r)
        BY <1>4, <3>1, <3>2, <4>2, InLineTail DEF TakesFirst
      <4>3. CASE MakesActive(r)
        BY <3>1, <4>3 DEF MakesActive
      <4>4. CASE PutsBack(r)
        BY <1>4, <3>1, <4>4, InLineAppend DEF PutsBack
      <4>5. CASE Processes(r)
        BY <3>1, <3>2, <4>5 DEF Processes
      <4> QED
        BY <1>3, <4>1, <4>2, <4>3, <4>4, <4>5
    <3> QED
      BY <1>1, <2>2, <2>7, <3>1, <3>3 DEF TakenUp, WaitsInLine
  <2> QED
    BY <2>3, <2>4, <2>5, <2>6, <2>7
<1> QED
  BY <1>5, <1>6, <1>7 DEF InOrder

(***************************************************************************)
(* What comes in once the server is up keeps it too: no step makes an      *)
(* order half done but the answer of the PLC for the active one.           *)
(***************************************************************************)
LEMMA UpInOrder ==
    ASSUME RecIInv, InOrder, boot = Up, Running, ops' = 0, ops = 0
    PROVE  /\ BootsInOrder'
           /\ Unqueued = {}
           /\ \A o \in OrderIds : ~(retrying[o] > 0)
           /\ \A o \in OrderIds : Midway(o) => TakenUp(o) \/ WaitsInLine(o)
           /\ \A r \in Robots : pc[r] = "step" => queues[r].active = hand[r]
BY DEF InOrder, BootsInOrder, Running, Unqueued, NothingCancelled,
       MidwayInLine

(***************************************************************************)
(* The interval timer starts loops that were off; those hold no order.     *)
(***************************************************************************)
LEMMA TickKeepsInOrder ==
    ASSUME RecIInv, InOrder, RecTick PROVE InOrder'
<1>1. /\ boot = Up /\ boot' = Up /\ TypeOK
      /\ UNCHANGED <<orders, slots, queues, hand, retrying, ops, crashes>>
  BY DEF RecTick, Running, Tick, bookVars, RecIInv, IInvBut, Books
<1>2. \A r \in Robots : pc'[r] = pc[r] \/ (pc[r] = "off" /\ pc'[r] = "top")
  BY <1>1 DEF RecTick, Tick, TypeOK
<1>3. BootsInOrder' /\ NothingCancelled'
  BY <1>1, <1>2 DEF InOrder, BootsInOrder, NothingCancelled
<1>4. MidwayInLine'
  <2>1. \A o \in OrderIds : orders[o].robot \in Robots
    BY <1>1 DEF TypeOK, Order
  <2> QED
    BY <1>1, <1>2, <2>1 DEF InOrder, MidwayInLine, Midway, Unqueued, TakenUp,
                            WaitsInLine
<1> QED
  BY <1>3, <1>4 DEF InOrder

(***************************************************************************)
(* The answer of the PLC makes the active order half done, or ends it.     *)
(***************************************************************************)
LEMMA PlcKeepsInOrder ==
    ASSUME RecIInv, InOrder, NEW r \in Robots, RecPlc(r) PROVE InOrder'
<1>1. /\ boot = Up /\ boot' = Up /\ TypeOK /\ Books /\ pc[r] = "step"
      /\ UNCHANGED <<hand, retrying, ops, crashes>> /\ Running
      /\ PlcAnswers(r)
  BY DEF RecPlc, RecStepDone, RecStepFails, Running, StepDone, StepFails,
         PlcAnswers, RecIInv, IInvBut, Books
<1>2. PICK h \in OrderIds : h = hand[r] /\ Owned(h, r)
  BY <1>1 DEF Books, LoopsOwnTheirOrders
<1>3. /\ \A q \in Robots \ {r} : pc'[q] = pc[q] /\ queues'[q] = queues[q]
      /\ pc'[r] \in {"off", "top", "failed"}
      /\ queues'[r].items = queues[r].items
      /\ queues'[r].active \in {queues[r].active, NoOrder}
      /\ \A o \in OrderIds : o # h => orders'[o] = orders[o]
      /\ orders'[h].robot = r
  <2>1. CASE StepDone(r)
    BY <1>1, <1>2, <2>1 DEF StepDone, Continue, TypeOK, Order, Owned
  <2>2. CASE StepFails(r)
    <3>1. /\ SetActive(queues[r], NoOrder).active = NoOrder
          /\ SetActive(queues[r], NoOrder).items = queues[r].items
      BY <1>1, SetActiveOp DEF TypeOK
    <3> QED
      BY <1>1, <1>2, <2>2, <3>1 DEF StepFails, ClearActive, TypeOK, Order, Owned
  <2> QED
    BY <1>1, <2>1, <2>2 DEF PlcAnswers
<1>4. Midway(h)' => queues'[r].active = queues[r].active
  <2>1. CASE StepDone(r)
    BY <2>1 DEF StepDone
  <2>2. CASE StepFails(r)
    <3>1. orders'[h].status = "ERROR"
      BY <1>1, <1>2, <2>2 DEF StepFails, TypeOK, Order
    <3> QED
      BY <3>1 DEF Midway
  <2> QED
    BY <1>1, <2>1, <2>2 DEF PlcAnswers
<1>5. BootsInOrder' /\ NothingCancelled'
  BY <1>1, <1>3 DEF InOrder, BootsInOrder, NothingCancelled
<1>6. MidwayInLine'
  <2> SUFFICES ASSUME ops = 0, NEW o \in OrderIds, Midway(o)'
               PROVE  (TakenUp(o) \/ WaitsInLine(o))'
    BY <1>1 DEF MidwayInLine
  <2>1. /\ \A p \in OrderIds : Midway(p) => TakenUp(p) \/ WaitsInLine(p)
        /\ queues[r].active = h
    BY <1>1, <1>2, UpInOrder
  <2>2. CASE o = h
    BY <1>3, <1>4, <2>1, <2>2 DEF TakenUp
  <2>3. CASE o # h
    <3>1. Midway(o) /\ orders'[o] = orders[o] /\ orders[o].robot \in Robots
      BY <1>1, <1>3, <2>3 DEF Midway, TypeOK, Order
    <3>2. Older(NoOrder, o)
      BY DEF Older, NoOrder, OrderIds
    <3>3. CASE orders[o].robot = r
      BY <1>1, <1>3, <2>1, <2>3, <3>1, <3>2, <3>3 DEF TakenUp, WaitsInLine
    <3>4. CASE orders[o].robot # r
      BY <1>1, <1>3, <2>1, <3>1, <3>4 DEF TakenUp, WaitsInLine
    <3> QED
      BY <3>3, <3>4
  <2> QED
    BY <2>2, <2>3
<1> QED
  BY <1>5, <1>6 DEF InOrder

(***************************************************************************)
(* A retry that comes back was a request, an intervention.                 *)
(***************************************************************************)
LEMMA RetriedKeepsInOrder ==
    ASSUME RecIInv, InOrder, NEW p \in OrderIds, RecRetried(p) PROVE InOrder'
<1>1. /\ boot = Up /\ boot' = Up /\ UNCHANGED ops /\ retrying[p] > 0
  BY DEF RecRetried, RecRetryReturns, Running, RetryEnds, RetryFails
<1>2. ops # 0
  BY <1>1 DEF InOrder, NothingCancelled
<1> QED
  BY <1>1, <1>2 DEF InOrder, BootsInOrder, NothingCancelled, MidwayInLine

(***************************************************************************)
(* A new order has done no step, and queues behind the others; the other   *)
(* requests are interventions.                                             *)
(***************************************************************************)
LEMMA RequestsKeepInOrder ==
    ASSUME RecIInv, InOrder, Requests PROVE InOrder'
<1>1. boot = Up /\ boot' = Up /\ Running /\ TypeOK /\ UNCHANGED crashes
  BY DEF Requests, Running, RecIInv, IInvBut, Books
<1>2. BootsInOrder'
  BY <1>1 DEF BootsInOrder
<1>3. CASE ops' = ops + 1
  BY <1>1, <1>2, <1>3
     DEF InOrder, NothingCancelled, MidwayInLine, TypeOK
<1>4. ASSUME NEW r \in Robots, RecSubmit(r) PROVE InOrder'
  <2>1. PICK n \in OrderIds :
          /\ orders'[n].idx = 0
          /\ \A p \in OrderIds : p # n => orders'[p] = orders[p]
          /\ \A q \in Robots :
                /\ pc[q] # "off" => pc'[q] = pc[q]
                /\ pc[q] = "off" => pc'[q] \in {"off", "top"}
                /\ queues'[q] \in {queues[q], Enqueue(queues[q], n)}
          /\ UNCHANGED <<hand, retrying, ops>>
    BY <1>1, <1>4, SubmitAddsOne DEF RecSubmit, AddsOne
  <2>2. \A q \in Robots :
          /\ queues'[q].active = queues[q].active
          /\ queues'[q].items
               \in {queues[q].items, Append(queues[q].items, n)}
    <3> SUFFICES ASSUME NEW q \in Robots
                 PROVE  /\ queues'[q].active = queues[q].active
                        /\ queues'[q].items
                             \in {queues[q].items, Append(queues[q].items, n)}
      OBVIOUS
    <3>1. queues[q] \in Queue
      BY <1>1 DEF TypeOK
    <3>2. /\ Enqueue(queues[q], n).active = queues[q].active
          /\ Enqueue(queues[q], n).items = Append(queues[q].items, n)
      BY <3>1 DEF Enqueue, Queue
    <3>3. queues'[q] = queues[q] \/ queues'[q] = Enqueue(queues[q], n)
      BY <2>1
    <3> QED
      BY <3>2, <3>3
  <2>3. NothingCancelled'
    BY <2>1, <2>2 DEF InOrder, NothingCancelled
  <2>4. MidwayInLine'
    <3> SUFFICES ASSUME ops = 0, NEW o \in OrderIds, Midway(o)'
                 PROVE  (TakenUp(o) \/ WaitsInLine(o))'
      BY <2>1 DEF MidwayInLine
    <3>1. o # n
      BY <2>1 DEF Midway
    <3>2. orders'[o] = orders[o] /\ Midway(o) /\ orders[o].robot \in Robots
      BY <1>1, <2>1, <3>1 DEF Midway, TypeOK, Order
    <3>3. TakenUp(o) \/ WaitsInLine(o)
      BY <1>1, <2>1, <3>2, UpInOrder
    <3>4. PICK q \in Robots : q = orders[o].robot
      BY <3>2
    <3>5. InLine(queues[q].items, o) => InLine(queues'[q].items, o)
      BY <1>1, <2>2, InLineAppend DEF TypeOK, Queue
    <3> QED
      BY <1>1, <2>1, <2>2, <3>2, <3>3, <3>4, <3>5 DEF TakenUp, WaitsInLine
  <2> QED
    BY <1>2, <2>3, <2>4 DEF InOrder
<1>5. ASSUME NEW r \in Robots, ResumeQueue(r) PROVE InOrder'
  <2>1. /\ UNCHANGED <<orders, pc, hand, retrying, ops>>
        /\ \A q \in Robots : /\ queues'[q].active = queues[q].active
                             /\ queues'[q].items = queues[q].items
    <3>1. /\ WithPause(queues[r], FALSE).active = queues[r].active
          /\ WithPause(queues[r], FALSE).items = queues[r].items
      BY <1>1, WithPauseOp DEF TypeOK
    <3> QED
      BY <1>1, <1>5, <3>1 DEF ResumeQueue, loopVars, TypeOK
  <2>2. NothingCancelled'
    BY <2>1 DEF InOrder, NothingCancelled
  <2>3. MidwayInLine'
    <3>1. \A o \in OrderIds : orders[o].robot \in Robots
      BY <1>1 DEF TypeOK, Order
    <3> QED
      BY <1>1, <2>1, <3>1 DEF InOrder, MidwayInLine, Midway, Unqueued,
                              TakenUp, WaitsInLine
  <2> QED
    BY <1>2, <2>2, <2>3 DEF InOrder
<1>6. ops' = ops + 1 \/ (\E r \in Robots : RecSubmit(r) \/ ResumeQueue(r))
  BY DEF Requests, RecCancel, RecOperate, CancelOrder, ReleaseSlot,
         RetryBegins, PauseQueue, RegisterDevice, Intervene
<1> QED
  BY <1>3, <1>4, <1>5, <1>6

(***************************************************************************)
(* A crash makes every unsettled order wait for rehydration.               *)
(***************************************************************************)
LEMMA CrashKeepsInOrder == ASSUME RecIInv, InOrder, Crash PROVE InOrder'
<1>1. /\ pc' = [r \in Robots |->
                  IF saved.robots[r].status = "ABSENT" THEN "off" ELSE "top"]
      /\ retrying' = [o \in OrderIds |-> 0]
      /\ queues' = [r \in Robots |-> EmptyQueue(NoOrder)]
      /\ boot' = 1 /\ crashes' = crashes + 1 /\ crashes \in Nat
  BY DEF Crash, RecIInv, Disk, RecTypeOK
<1>2. /\ Members(EmptyQueue(NoOrder).items) = {}
      /\ EmptyQueue(NoOrder).active = NoOrder
  <2>1. Members(<< >>) = {}
    BY EmptySeq DEF Members
  <2> QED
    BY <2>1 DEF EmptyQueue
<1>3. \A r \in Robots : pc'[r] \in {"off", "top"}
  BY <1>1
<1>4. BootsInOrder'
  <2>1. Older(NoOrder, 1) /\ crashes' > 0
    BY <1>1 DEF Older, NoOrder
  <2> QED
    BY <1>1, <1>2, <1>3, <2>1 DEF BootsInOrder
<1>5. NothingCancelled'
  BY <1>1, <1>3 DEF NothingCancelled
<1>6. MidwayInLine'
  BY <1>1 DEF MidwayInLine, Midway, Unqueued, Up, OrderIds
<1> QED
  BY <1>4, <1>5, <1>6 DEF InOrder

(***************************************************************************)
(* Rehydration puts the oldest order that is left behind older ones.       *)
(***************************************************************************)
LEMMA RehydrateNextKeepsInOrder ==
    ASSUME RecIInv, InOrder, RehydrateNext PROVE InOrder'
<1>1. TypeOK /\ BootsInOrder
  BY DEF RecIInv, IInvBut, Books, InOrder
<1>2. PICK o \in Unqueued :
        /\ \A q \in Unqueued : o <= q
        /\ orders' = [orders EXCEPT ![o] =
                        [orders[o] EXCEPT !.status = "PENDING"]]
        /\ queues' = [queues EXCEPT ![orders[o].robot] =
                        Enqueue(queues[orders[o].robot], o)]
        /\ boot' = o + 1
  BY <1>1 DEF RehydrateNext, TypeOK
<1>3. /\ o \in OrderIds /\ boot # Up /\ o >= boot /\ o \in Nat \ {0}
      /\ orders[o].status \in {"PENDING", "IN_PROGRESS"}
      /\ boot \in Nat
  BY MaxOrdersAssumption
     DEF Unqueued, OrderIds, RecIInv, Disk, RecTypeOK
<1>4. UNCHANGED <<pc, hand, retrying, ops, crashes>>
  BY DEF RehydrateNext, loopVars
<1>5. PICK r \in Robots : r = orders[o].robot
  BY <1>1, <1>3 DEF TypeOK, Order
<1>6. /\ queues[r] \in Queue /\ queues[r].items \in Seq(OrderIds)
      /\ Members(queues[r].items) \subseteq OrderIds
  <2>1. queues[r] \in Queue
    BY <1>1 DEF TypeOK
  <2>2. queues[r].items \in Seq(OrderIds)
    BY <2>1 DEF Queue
  <2> QED
    BY <2>1, <2>2, MembersOfSeq
<1>7. /\ \A q \in Robots \ {r} : queues'[q] = queues[q]
      /\ queues'[r].active = queues[r].active
      /\ queues'[r].items = Append(queues[r].items, o)
  <2>1. /\ Enqueue(queues[r], o).active = queues[r].active
        /\ Enqueue(queues[r], o).items = Append(queues[r].items, o)
    BY <1>6 DEF Enqueue, Queue
  <2> QED
    BY <1>1, <1>2, <1>5, <2>1 DEF TypeOK
<1>8. /\ \A p \in OrderIds : p # o => orders'[p] = orders[p]
      /\ orders'[o].robot = r
      /\ \A p \in OrderIds : Midway(p)' => Midway(p)
  BY <1>1, <1>2, <1>3, <1>5 DEF TypeOK, Order, Midway
<1>9. /\ crashes > 0
      /\ \A q \in Robots :
            /\ \A p \in Members(queues[q].items) : Older(p, boot)
            /\ Older(queues[q].active, boot)
            /\ pc[q] \in {"dequeued", "requeue"} => Older(hand[q], boot)
  BY <1>1, <1>3 DEF BootsInOrder
<1>10. \A p \in OrderIds \cup {NoOrder} :
         Older(p, boot) => Older(p, o) /\ Older(p, o + 1)
  BY <1>3 DEF Older, NoOrder, OrderIds
<1>11. \A q \in Robots : /\ queues[q].active \in OrderIds \cup {NoOrder}
                         /\ hand[q] \in OrderIds \cup {NoOrder}
                         /\ Members(queues[q].items) \subseteq OrderIds
  BY <1>1, MembersOfSeq DEF TypeOK, Queue
<1>12. BootsInOrder'
  <2> SUFFICES ASSUME NEW q \in Robots
               PROVE  /\ \A p \in Members(queues'[q].items) : Older(p, o + 1)
                      /\ Older(queues'[q].active, o + 1)
                      /\ pc'[q] \in {"dequeued", "requeue"} =>
                            Older(hand'[q], o + 1)
    BY <1>2, <1>4, <1>9 DEF BootsInOrder
  <2>1. /\ Older(queues'[q].active, o + 1)
        /\ pc'[q] \in {"dequeued", "requeue"} => Older(hand'[q], o + 1)
    BY <1>4, <1>7, <1>9, <1>10, <1>11
  <2>2. Members(queues'[q].items) \subseteq Members(queues[q].items) \cup {o}
    <3>1. CASE q = r
      <4>1. Members(Append(queues[r].items, o)) =
              Members(queues[r].items) \cup {o}
        BY <1>3, <1>6, MembersOfAppend
      <4> QED
        BY <1>7, <3>1, <4>1
    <3>2. CASE q # r
      BY <1>7, <3>2
    <3> QED
      BY <3>1, <3>2
  <2>3. Older(o, o + 1)
    BY <1>3 DEF Older
  <2> QED
    BY <1>9, <1>10, <1>11, <2>1, <2>2, <2>3
<1>13. NothingCancelled'
  BY <1>4, <1>7 DEF InOrder, NothingCancelled
<1>14. MidwayInLine'
  <2> SUFFICES ASSUME ops = 0, NEW p \in OrderIds, Midway(p)'
               PROVE  (p \in Unqueued \/ TakenUp(p) \/ WaitsInLine(p))'
    BY <1>4 DEF MidwayInLine
  <2>1. p \in Unqueued \/ TakenUp(p) \/ WaitsInLine(p)
    BY <1>8 DEF InOrder, MidwayInLine
  <2>2. CASE p = o
    <3>1. InLine(queues'[r].items, o)
      <4>1. \A q \in Members(queues[r].items) : Older(q, o)
        BY <1>6, <1>9, <1>10
      <4> QED
        BY <1>3, <1>6, <1>7, <4>1, InLineAppend
    <3>2. /\ Older(queues'[r].active, o)
          /\ pc'[r] = "dequeued" => Older(hand'[r], o)
      BY <1>4, <1>7, <1>9, <1>10, <1>11
    <3> QED
      BY <1>4, <1>8, <1>9, <2>2, <3>1, <3>2 DEF WaitsInLine
  <2>3. CASE p # o /\ p \in Unqueued
    <3>1. o <= p /\ p \in Nat /\ p # o
      BY <1>2, <2>3, MaxOrdersAssumption DEF OrderIds
    <3> QED
      BY <1>2, <1>3, <1>8, <2>3, <3>1 DEF Unqueued, Up
  <2>4. CASE p # o /\ (TakenUp(p) \/ WaitsInLine(p))
    <3>1. orders'[p] = orders[p]
      BY <1>8, <2>4
    <3>2. PICK q \in Robots : q = orders[p].robot
      BY <1>1 DEF TypeOK, Order
    <3>3. queues'[q].active = queues[q].active
      BY <1>7
    <3>4. InLine(queues[q].items, p) => InLine(queues'[q].items, p)
      BY <1>3, <1>6, <1>7, InLineAppend
    <3> QED
      BY <1>4, <2>4, <3>1, <3>2, <3>3, <3>4 DEF TakenUp, WaitsInLine
  <2> QED
    BY <2>1, <2>2, <2>3, <2>4
<1> QED
  BY <1>12, <1>13, <1>14 DEF InOrder

(***************************************************************************)
(* When rehydration is over no order is left that only the books know.     *)
(***************************************************************************)
LEMMA RehydrateEndsKeepsInOrder ==
    ASSUME RecIInv, InOrder, RehydrateEnds PROVE InOrder'
<1>1. /\ Unqueued = {} /\ boot' = Up
      /\ UNCHANGED <<orders, queues, pc, hand, retrying, ops, crashes>>
  BY DEF RehydrateEnds, bookVars, loopVars
<1> QED
  BY <1>1 DEF InOrder, BootsInOrder, NothingCancelled, MidwayInLine, Midway,
              TakenUp, WaitsInLine

(***************************************************************************)
(* Before the first order nothing is half done.                            *)
(***************************************************************************)
LEMMA InitInOrder == RecInit => InOrder
<1> SUFFICES ASSUME RecInit PROVE InOrder
  OBVIOUS
<1>1. /\ boot = Up
      /\ \A o \in OrderIds : orders[o].status = "ABSENT"
      /\ \A r \in Robots : pc[r] # "step"
      /\ \A o \in OrderIds : retrying[o] = 0
  BY DEF RecInit, Init, NothingOrdered
<1> QED
  BY <1>1 DEF InOrder, BootsInOrder, NothingCancelled, MidwayInLine, Midway

(***************************************************************************)
(* The order of the queues is inductive, given the invariant of the books. *)
(***************************************************************************)
LEMMA RecNextInOrder == RecIInv /\ InOrder /\ [RecNext]_recVars => InOrder'
<1> SUFFICES ASSUME RecIInv, InOrder, [RecNext]_recVars PROVE InOrder'
  OBVIOUS
<1>1. CASE UNCHANGED recVars
  BY <1>1 DEF recVars, vars, bookVars, loopVars, InOrder, BootsInOrder,
              NothingCancelled, MidwayInLine, Midway, Unqueued, TakenUp,
              WaitsInLine
<1>2. ASSUME NEW r \in Robots, RecResume(r) PROVE InOrder'
  <2>1. Resume(r) /\ Running
    BY <1>2 DEF RecResume, RecProcess, RecQueueCall, RecFree, RecRobotFails,
                Resume
  <2> QED
    BY <2>1, ResumeKeepsInOrder
<1> QED
  BY <1>1, <1>2, TickKeepsInOrder, PlcKeepsInOrder, RetriedKeepsInOrder,
     RequestsKeepInOrder, CrashKeepsInOrder, RehydrateNextKeepsInOrder,
     RehydrateEndsKeepsInOrder DEF RecNext, Rehydrate

(***************************************************************************)
(* Without interventions no robot starts on an order while another of its  *)
(* orders is half done; after a restart only an older order may overtake   *)
(* it, however many restarts there are.                                    *)
(***************************************************************************)
THEOREM ManeuversStayApart == RecSpec => []ManeuversAreNotMixed
<1>1. RecSpec => []InOrder
  <2>1. RecSpec => []RecIInv
    BY RecInvariance
  <2> QED
    BY <2>1, InitInOrder, RecNextInOrder, PTL DEF RecSpec
<1>2. RecIInv /\ InOrder => ManeuversAreNotMixed
  <2> SUFFICES ASSUME RecIInv, InOrder, ops = 0,
                      NEW r \in Robots, pc[r] = "step",
                      NEW o \in OrderIds, Midway(o), orders[o].robot = r
               PROVE  o = hand[r] \/ (crashes > 0 /\ hand[r] < o)
    BY DEF ManeuversAreNotMixed
  <2>1. queues[r].active = hand[r]
    BY DEF InOrder, NothingCancelled
  <2>2. o \in Unqueued \/ TakenUp(o) \/ WaitsInLine(o)
    BY DEF InOrder, MidwayInLine
  <2>3. CASE o \in Unqueued
    <3>1. /\ boot # Up /\ o >= boot /\ crashes > 0 /\ hand[r] < boot
      BY <2>1, <2>3 DEF Unqueued, InOrder, BootsInOrder, Older
    <3>2. hand[r] \in Int /\ boot \in Int /\ o \in Int
      BY MaxOrdersAssumption
         DEF RecIInv, IInvBut, Books, TypeOK, Disk, RecTypeOK, OrderIds,
             NoOrder
    <3> QED
      BY <3>1, <3>2
  <2>4. CASE TakenUp(o)
    BY <2>1, <2>4 DEF TakenUp
  <2>5. CASE WaitsInLine(o)
    BY <2>1, <2>5 DEF WaitsInLine, Older
  <2> QED
    BY <2>2, <2>3, <2>4, <2>5
<1> QED
  BY <1>1, <1>2, RecInvariance, PTL
=============================================================================
