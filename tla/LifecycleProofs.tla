--------------------------- MODULE LifecycleProofs ---------------------------
(***************************************************************************)
(* Proofs that the orchestrator implements OrderLifecycle.  Every step of  *)
(* a robot loop, a timer or a handler is one step in the life of one order *)
(* or leaves it alone.  That the order a loop settles moves with no other  *)
(* robot follows from the inductive invariant: a loop holds only orders of *)
(* its own robot.                                                          *)
(***************************************************************************)
EXTENDS OrchestratorProofs

\* The robots at the PLC, and that their loops keep their place.
AtPlc(r) == pc[r] = "step"
SameAtPlc(r) == (AtPlc(r)' <=> AtPlc(r)) /\ (AtPlc(r) => hand'[r] = hand[r])

Life(o) ==
    \/ Lifecycle!Submit(o) \/ Lifecycle!Begin(o) \/ Lifecycle!Stop(o)
    \/ Lifecycle!Finish(o) \/ Lifecycle!Reopen(o) \/ Lifecycle!Cancel(o)

LifeGoesOn ==
    \/ \E o \in OrderIds : Life(o)
    \/ UNCHANGED <<Shown, Moving>>

-----------------------------------------------------------------------------
(***************************************************************************)
(* What moves when no loop goes to or comes from the PLC.                  *)
(***************************************************************************)
LEMMA MovingStays ==
    ASSUME \A r \in Robots : SameAtPlc(r)
    PROVE  Moving' = Moving
BY DEF SameAtPlc, AtPlc, Moving

(***************************************************************************)
(* What moves when the loop of r goes to the PLC.                          *)
(***************************************************************************)
LEMMA MovingStarts ==
    ASSUME NEW r \in Robots, ~AtPlc(r), AtPlc(r)',
           \A q \in Robots \ {r} : SameAtPlc(q)
    PROVE  Moving' = Moving \cup {hand'[r]}
BY DEF SameAtPlc, AtPlc, Moving

(***************************************************************************)
(* What moves when the loop of r comes back: no other robot has its order. *)
(***************************************************************************)
LEMMA MovingStops ==
    ASSUME LoopsOwnTheirOrders,
           NEW r \in Robots, AtPlc(r), ~AtPlc(r)',
           \A q \in Robots \ {r} : SameAtPlc(q)
    PROVE  Moving' = Moving \ {hand[r]}
<1>1. \A q \in Robots \ {r} : AtPlc(q) => hand[q] # hand[r]
  BY DEF LoopsOwnTheirOrders, Owned, AtPlc
<1> QED
  BY <1>1 DEF SameAtPlc, AtPlc, Moving

(***************************************************************************)
(* The order of a robot that is not at the PLC does not move.              *)
(***************************************************************************)
LEMMA OwnOrderRests ==
    ASSUME LoopsOwnTheirOrders,
           NEW r \in Robots, ~AtPlc(r), NEW o, orders[o].robot = r
    PROVE  o \notin Moving
BY DEF LoopsOwnTheirOrders, Owned, AtPlc, Moving

(***************************************************************************)
(* What is shown after a step that rewrites one order.                     *)
(***************************************************************************)
LEMMA OneOrderChanges ==
    ASSUME TypeOK, NEW o \in OrderIds, NEW new,
           orders' = [orders EXCEPT ![o] = new]
    PROVE  /\ Lifecycle!Becomes(o, new.status)
           /\ new.status = orders[o].status => Shown' = Shown
BY DEF TypeOK, Shown, Lifecycle!Becomes

LEMMA StatusIsShown ==
    ASSUME NEW o \in OrderIds PROVE Shown[o] = orders[o].status
BY DEF Shown

-----------------------------------------------------------------------------
(***************************************************************************)
(* A loop that is not at the PLC rewrites its order and goes to p: nothing *)
(* is seen of it, or the order is finished, put off, or taken up.          *)
(***************************************************************************)
TakesUp(o, new, p) ==
    \/ p # "step" /\ new.status = orders[o].status
    \/ p # "step" /\ orders[o].status \notin Settled /\ new.status = "DONE"
    \/ p # "step" /\ new.status = "PENDING"
    \/ orders[o].status \notin Settled /\ new.status = "IN_PROGRESS"

LEMMA LoopMovesLife ==
    ASSUME TypeOK, LoopsOwnTheirOrders,
           NEW r \in Robots, ~AtPlc(r), NEW o \in OrderIds, Owned(o, r),
           NEW p, pc' = [pc EXCEPT ![r] = p],
           hand'[r] = o, \A q \in Robots \ {r} : hand'[q] = hand[q],
           NEW new, orders' = [orders EXCEPT ![o] = new],
           TakesUp(o, new, p)
    PROVE  LifeGoesOn
<1>1. /\ Lifecycle!Becomes(o, new.status)
      /\ new.status = orders[o].status => Shown' = Shown
  BY OneOrderChanges
<1>2. /\ \A q \in Robots \ {r} : SameAtPlc(q)
      /\ AtPlc(r)' <=> p = "step"
  BY DEF TypeOK, SameAtPlc, AtPlc
<1>3. Moving' = IF p = "step" THEN Moving \cup {o} ELSE Moving
  <2>1. CASE p = "step"
    BY <2>1, <1>2, MovingStarts
  <2>2. CASE p # "step"
    <3>1. \A q \in Robots : SameAtPlc(q)
      BY <2>2, <1>2 DEF SameAtPlc
    <3> QED
      BY <2>2, <3>1, MovingStays
  <2> QED
    BY <2>1, <2>2
<1>4. o \notin Moving
  BY OwnOrderRests DEF Owned
<1>5. /\ Shown[o] = orders[o].status /\ Shown[o] # "ABSENT"
      /\ Shown[o] \notin Settled => Shown[o] \in Lifecycle!Open
  BY StatusIsShown DEF Owned, TypeOK, Order, Status, Settled, Lifecycle!Open
<1>6. CASE p # "step" /\ new.status = orders[o].status
  BY <1>6, <1>1, <1>3 DEF LifeGoesOn
<1>7. CASE p # "step" /\ orders[o].status \notin Settled /\ new.status = "DONE"
  <2>1. Lifecycle!Finish(o)
    BY <1>7, <1>1, <1>3, <1>4, <1>5 DEF Lifecycle!Finish
  <2> QED
    BY <2>1 DEF LifeGoesOn, Life
<1>8. CASE p # "step" /\ new.status = "PENDING"
  <2>1. Lifecycle!Reopen(o)
    BY <1>8, <1>1, <1>3, <1>5 DEF Lifecycle!Reopen, Lifecycle!Known
  <2> QED
    BY <2>1 DEF LifeGoesOn, Life
<1>9. CASE orders[o].status \notin Settled /\ new.status = "IN_PROGRESS"
  <2>1. Lifecycle!Begin(o)
    BY <1>9, <1>1, <1>3, <1>5 DEF Lifecycle!Begin
  <2> QED
    BY <2>1 DEF LifeGoesOn, Life
<1> QED
  BY <1>6, <1>7, <1>8, <1>9 DEF TakesUp

(***************************************************************************)
(* processOrder is such a step.                                            *)
(***************************************************************************)
LEMMA ProcessOrderTakesUp ==
    ASSUME TypeOK, NEW r \in Robots, NEW o \in OrderIds, ProcessOrder(r, o)
    PROVE  \E p, new : /\ pc' = [pc EXCEPT ![r] = p]
                       /\ orders' = [orders EXCEPT ![o] = new]
                       /\ TakesUp(o, new, p)
<1>0. orders[o] \in Order /\ orders = [orders EXCEPT ![o] = orders[o]]
  BY DEF TypeOK
<1>1. ASSUME NEW ord \in Order, ord.status = orders[o].status, NEW book,
             SkipSettled(r, o, ord, book) \/ FinishLogical(r, o, ord, book)
      PROVE  \E p, new : /\ pc' = [pc EXCEPT ![r] = p]
                         /\ orders' = [orders EXCEPT ![o] = new]
                         /\ TakesUp(o, new, p)
  <2>1. CASE SkipSettled(r, o, ord, book)
    <3>1. /\ pc' = [pc EXCEPT ![r] = "cleared"]
          /\ orders' = [orders EXCEPT ![o] = ord]
      BY <2>1 DEF SkipSettled
    <3>2. TakesUp(o, ord, "cleared")
      BY <1>1 DEF TakesUp
    <3> QED
      BY <3>1, <3>2
  <2>2. CASE FinishLogical(r, o, ord, book)
    <3> DEFINE new == [ord EXCEPT !.status = "DONE"]
    <3>1. /\ pc' = [pc EXCEPT ![r] = "cleared"]
          /\ orders' = [orders EXCEPT ![o] = new]
          /\ orders[o].status \notin Settled
      BY <2>2, <1>1 DEF FinishLogical
    <3>2. new.status = "DONE"
      BY DEF Order
    <3>3. TakesUp(o, new, "cleared")
      BY <3>1, <3>2 DEF TakesUp
    <3> HIDE DEF new
    <3> QED
      BY <3>1, <3>3
  <2> QED
    BY <1>1, <2>1, <2>2
<1>2. CASE JoinStack(r, o)
  <2>1. PICK s \in Slots :
          \/ SkipSettled(r, o, [orders[o] EXCEPT !.slot = s, !.logical = TRUE],
                         [slots EXCEPT ![s] = Stacked(slots[s])])
          \/ FinishLogical(r, o, [orders[o] EXCEPT !.slot = s, !.logical = TRUE],
                           [slots EXCEPT ![s] = Stacked(slots[s])])
    BY <1>2 DEF JoinStack, OccupiedFrom
  <2> DEFINE ord == [orders[o] EXCEPT !.slot = s, !.logical = TRUE]
  <2>2. ord \in Order /\ ord.status = orders[o].status
    BY <1>0 DEF Order
  <2> HIDE DEF ord
  <2> QED
    BY <1>1, <2>1, <2>2 DEF ord
<1>3. CASE SkipSettled(r, o, orders[o], slots) \/ FinishLogical(r, o, orders[o], slots)
  BY <1>0, <1>1, <1>3
<1>4. CASE Defer(r, o)
  <2> DEFINE new == [orders[o] EXCEPT !.status = "PENDING", !.waiting = TRUE]
  <2>1. /\ pc' = [pc EXCEPT ![r] = "requeue"]
        /\ orders' = [orders EXCEPT ![o] = new]
    BY <1>4, <1>0 DEF Defer, TypeOK
  <2>2. new.status = "PENDING"
    BY <1>0 DEF Order
  <2>3. TakesUp(o, new, "requeue")
    BY <2>2 DEF TakesUp
  <2> HIDE DEF new
  <2> QED
    BY <2>1, <2>3
<1>5. ASSUME NEW s \in Slots \cup {NoSlot}, NEW book, orders[o].status \notin Settled,
             Work(r, o, Started(o, s), book)
      PROVE  \E p, new : /\ pc' = [pc EXCEPT ![r] = p]
                         /\ orders' = [orders EXCEPT ![o] = new]
                         /\ TakesUp(o, new, p)
  <2> DEFINE ord == Started(o, s)
  <2> DEFINE done == [ord EXCEPT !.status = "DONE"]
  <2>1. ord.status = "IN_PROGRESS" /\ done.status = "DONE"
    BY <1>0 DEF Started, Order
  <2>2. CASE FinishPhysical(r, o, ord, book)
    <3>1. /\ pc' = [pc EXCEPT ![r] = "cleared"]
          /\ orders' = [orders EXCEPT ![o] = done]
      BY <2>2 DEF FinishPhysical
    <3>2. TakesUp(o, done, "cleared")
      BY <1>5, <2>1 DEF TakesUp
    <3> HIDE DEF done
    <3> QED
      BY <3>1, <3>2
  <2>3. CASE StartStep(r, o, ord, book) \/ LoopDies(r, o, ord, book)
    <3>1. PICK p \in {"step", "off"} : pc' = [pc EXCEPT ![r] = p]
      BY <2>3 DEF StartStep, LoopDies
    <3>2. orders' = [orders EXCEPT ![o] = ord]
      BY <2>3 DEF StartStep, LoopDies
    <3>3. TakesUp(o, ord, p)
      BY <1>5, <2>1 DEF TakesUp
    <3> HIDE DEF ord
    <3> QED
      BY <3>1, <3>2, <3>3
  <2> QED
    BY <1>5, <2>2, <2>3 DEF Work
<1>6. CASE WorkInAssignedSlot(r, o)
  <2>1. PICK s \in Slots :
          Work(r, o, Started(o, s), [slots EXCEPT ![s] = Reserved(slots[s], o)])
    BY <1>6 DEF WorkInAssignedSlot, FreeBeside
  <2>2. orders[o].status \notin Settled
    BY <1>6 DEF WorkInAssignedSlot
  <2> QED
    BY <2>1, <2>2, <1>5
<1>7. CASE WorkInOwnSlot(r, o)
  <2>1. orders[o].slot \in Slots \cup {NoSlot}
    BY <1>0 DEF Order
  <2> QED
    BY <2>1, <1>7, <1>5 DEF WorkInOwnSlot
<1> QED
  BY <1>2, <1>3, <1>4, <1>6, <1>7 DEF ProcessOrder

-----------------------------------------------------------------------------
(***************************************************************************)
(* A step that leaves the shown statuses alone and every loop at the PLC   *)
(* or away from it is not seen.                                            *)
(***************************************************************************)
LEMMA UnseenStep ==
    ASSUME Shown' = Shown, \A r \in Robots : SameAtPlc(r)
    PROVE  LifeGoesOn
BY MovingStays DEF LifeGoesOn

(***************************************************************************)
(* A loop step between the PLC and processOrder is not seen.               *)
(***************************************************************************)
LEMMA QuietLoopStep ==
    ASSUME TypeOK, NEW r \in Robots,
           NothingToDo(r) \/ Dequeue(r) \/ Activate(r) \/ Requeue(r)
             \/ FreeRobot(r) \/ RobotFails(r)
    PROVE  LifeGoesOn
<1>1. Shown' = Shown
  BY DEF NothingToDo, Dequeue, Activate, Requeue, FreeRobot, RobotFails,
         bookVars, Shown
<1>2. ~AtPlc(r)
  BY DEF NothingToDo, Dequeue, Activate, Requeue, FreeRobot, RobotFails, AtPlc
<1>3. \E p : p # "step" /\ pc' = [pc EXCEPT ![r] = p]
  BY DEF NothingToDo, Dequeue, Activate, Requeue, FreeRobot, RobotFails,
         Continue
<1>4. \A q \in Robots \ {r} : hand'[q] = hand[q]
  BY DEF NothingToDo, Dequeue, Activate, Requeue, FreeRobot, RobotFails, TypeOK
<1>5. \A q \in Robots : SameAtPlc(q)
  BY <1>2, <1>3, <1>4 DEF SameAtPlc, AtPlc, TypeOK
<1> QED
  BY <1>1, <1>5, UnseenStep

(***************************************************************************)
(* The end of a step, done or failed, is the end of a movement.            *)
(***************************************************************************)
LEMMA PlcAnswerStops ==
    ASSUME IInv, NEW r \in Robots, PlcAnswers(r)
    PROVE  LifeGoesOn
<1> DEFINE o == hand[r]
<1>1. /\ TypeOK /\ LoopsOwnTheirOrders
      /\ AtPlc(r) /\ o \in OrderIds /\ orders[o] \in Order
  BY DEF IInv, Books, TypeOK, LoopsOwnTheirOrders, PlcAnswers, StepDone,
         StepFails, AtPlc
<1>2. \E p : p # "step" /\ pc' = [pc EXCEPT ![r] = p]
  BY DEF PlcAnswers, StepDone, StepFails, Continue
<1>3. hand' = hand
  BY DEF PlcAnswers, StepDone, StepFails
<1>4. ~AtPlc(r)' /\ \A q \in Robots \ {r} : SameAtPlc(q)
  BY <1>1, <1>2, <1>3 DEF AtPlc, SameAtPlc, TypeOK
<1>5. Moving' = Moving \ {o}
  BY <1>1, <1>4, MovingStops
<1>6. o \in Moving
  BY <1>1 DEF Moving, AtPlc
<1>7. CASE StepDone(r)
  <2>1. orders' = [orders EXCEPT ![o] = [orders[o] EXCEPT !.idx = at[r] + 1]]
    BY <1>7 DEF StepDone
  <2>2. [orders[o] EXCEPT !.idx = at[r] + 1].status = orders[o].status
    BY <1>1 DEF Order
  <2>3. Shown' = Shown
    BY <1>1, <2>1, <2>2, OneOrderChanges
  <2> QED
    BY <1>1, <1>5, <1>6, <2>3 DEF LifeGoesOn, Life, Lifecycle!Stop
<1>8. CASE StepFails(r)
  <2>1. orders' = [orders EXCEPT ![o] = [orders[o] EXCEPT !.status = "ERROR"]]
    BY <1>8 DEF StepFails
  <2>2. [orders[o] EXCEPT !.status = "ERROR"].status = "ERROR"
    BY <1>1 DEF Order
  <2>3. Lifecycle!Becomes(o, "ERROR")
    BY <1>1, <2>1, <2>2, OneOrderChanges
  <2> QED
    BY <1>1, <1>5, <1>6, <2>3 DEF LifeGoesOn, Life, Lifecycle!Stop
<1> QED
  BY <1>7, <1>8 DEF PlcAnswers

(***************************************************************************)
(* Starting loops moves nothing.                                           *)
(***************************************************************************)
LEMMA KickedMovesNothing ==
    ASSUME TypeOK, NEW r, pc' = Kicked(r) \/ pc' = pc, hand' = hand
    PROVE  Moving' = Moving
<1>1. \A q \in Robots : SameAtPlc(q)
  BY DEF TypeOK, Kicked, SameAtPlc, AtPlc
<1> QED
  BY <1>1, MovingStays

(***************************************************************************)
(* Each handler submits, reopens or cancels its order, or is not seen.     *)
(***************************************************************************)
LEMMA SubmitLives ==
    ASSUME IInv, NEW r \in Robots, Submit(r)
    PROVE  LifeGoesOn
<1> DEFINE Submitted == \E o \in NextId : \E ord : Accept(o, ord) /\ ord.status = "PENDING"
<1>0. ASSUME NEW type, NEW home, NEW slot, NEW ext
      PROVE  /\ NewOrder(type, r, home, slot, ext).status = "PENDING"
             /\ [NewOrder(type, r, home, slot, ext)
                   EXCEPT !.logical = TRUE].status = "PENDING"
             /\ [NewOrder(type, r, home, slot, ext)
                   EXCEPT !.waiting = TRUE].status = "PENDING"
  BY DEF NewOrder
<1>1. PICK o \in NextId : \E ord : Accept(o, ord) /\ ord.status = "PENDING"
  <2>1. ASSUME NEW home, NEW want, NEW ext, SubmitPick(r, home, want, ext)
        PROVE  Submitted
    <3>1. PICK o \in NextId :
            \/ Accept(o, NewOrder("PICK", r, home, want, ext))
            \/ \E s \in Slots :
                 Accept(o, [NewOrder("PICK", r, home, s, ext) EXCEPT !.logical = TRUE])
      BY <2>1 DEF SubmitPick, OccupiedFrom
    <3>2. CASE Accept(o, NewOrder("PICK", r, home, want, ext))
      <4> WITNESS o \in NextId, NewOrder("PICK", r, home, want, ext)
      <4> QED
        BY <3>2, <1>0
    <3>3. ASSUME NEW s \in Slots,
                 Accept(o, [NewOrder("PICK", r, home, s, ext) EXCEPT !.logical = TRUE])
          PROVE  Submitted
      <4> WITNESS o \in NextId,
                  [NewOrder("PICK", r, home, s, ext) EXCEPT !.logical = TRUE]
      <4> QED
        BY <3>3, <1>0
    <3> QED
      BY <3>1, <3>2, <3>3
  <2>2. ASSUME NEW home, NEW s, NEW ext, SubmitPut(r, home, s, ext)
        PROVE  Submitted
    <3>1. PICK o \in NextId :
            \/ Accept(o, NewOrder("PUT", r, home, s, ext))
            \/ Accept(o, [NewOrder("PUT", r, home, s, ext) EXCEPT !.logical = TRUE])
            \/ Accept(o, [NewOrder("PUT", r, home, s, ext) EXCEPT !.waiting = TRUE])
      BY <2>2 DEF SubmitPut
    <3>2. CASE Accept(o, NewOrder("PUT", r, home, s, ext))
      <4> WITNESS o \in NextId, NewOrder("PUT", r, home, s, ext)
      <4> QED
        BY <3>2, <1>0
    <3>3. CASE Accept(o, [NewOrder("PUT", r, home, s, ext) EXCEPT !.logical = TRUE])
      <4> WITNESS o \in NextId, [NewOrder("PUT", r, home, s, ext) EXCEPT !.logical = TRUE]
      <4> QED
        BY <3>3, <1>0
    <3>4. CASE Accept(o, [NewOrder("PUT", r, home, s, ext) EXCEPT !.waiting = TRUE])
      <4> WITNESS o \in NextId, [NewOrder("PUT", r, home, s, ext) EXCEPT !.waiting = TRUE]
      <4> QED
        BY <3>4, <1>0
    <3> QED
      BY <3>1, <3>2, <3>3, <3>4
  <2> QED
    BY <2>1, <2>2 DEF Submit
<1>2. PICK ord : Accept(o, ord) /\ ord.status = "PENDING"
  BY <1>1
<1>3. o \in OrderIds /\ orders[o].status = "ABSENT" /\ TypeOK
  BY DEF NextId, IInv, Books
<1>4. Lifecycle!Becomes(o, "PENDING")
  BY <1>2, <1>3, OneOrderChanges DEF Accept
<1>5. Moving' = Moving
  BY <1>2, <1>3, KickedMovesNothing DEF Accept
<1>6. Shown[o] = "ABSENT"
  BY <1>3, StatusIsShown
<1> QED
  BY <1>3, <1>4, <1>5, <1>6
     DEF LifeGoesOn, Life, Lifecycle!Submit, Lifecycle!Known

LEMMA RetryLives ==
    ASSUME IInv, NEW o \in OrderIds, RetryBegins(o) \/ RetryReturns(o)
    PROVE  LifeGoesOn
<1>1. TypeOK /\ orders[o] \in Order
  BY DEF IInv, Books, TypeOK
<1>2. CASE RetryBegins(o) \/ RetryFails(o)
  <2>1. Shown' = Shown /\ pc' = pc /\ hand' = hand
    BY <1>2 DEF RetryBegins, RetryFails, bookVars, loopVars, Shown
  <2> QED
    BY <2>1, UnseenStep DEF SameAtPlc, AtPlc
<1>3. CASE RetryEnds(o)
  <2> DEFINE new == [orders[o] EXCEPT !.status = "PENDING", !.idx = 0,
                                      !.waiting = FALSE]
  <2>1. orders' = [orders EXCEPT ![o] = new]
    BY <1>3, <1>1 DEF RetryEnds, TypeOK
  <2>2. new.status = "PENDING"
    BY <1>1 DEF Order
  <2> HIDE DEF new
  <2>3. Lifecycle!Becomes(o, "PENDING")
    BY <1>1, <2>1, <2>2, OneOrderChanges
  <2>4. Moving' = Moving
    BY <1>3, <1>1, KickedMovesNothing DEF RetryEnds
  <2>5. Shown[o] # "ABSENT"
    BY <1>3, StatusIsShown DEF RetryEnds, IInv, Books, RetriesNameOrders
  <2> QED
    BY <2>3, <2>4, <2>5 DEF LifeGoesOn, Life, Lifecycle!Reopen, Lifecycle!Known
<1> QED
  BY <1>2, <1>3 DEF RetryReturns

LEMMA CancelLives ==
    ASSUME IInv, NEW o \in OrderIds, CancelOrder(o)
    PROVE  LifeGoesOn
<1>1. TypeOK /\ orders[o] \in Order
  BY DEF IInv, Books, TypeOK
<1>2. orders' = [orders EXCEPT ![o] = [orders[o] EXCEPT !.status = "CANCELED"]]
  BY DEF CancelOrder
<1>3. [orders[o] EXCEPT !.status = "CANCELED"].status = "CANCELED"
  BY <1>1 DEF Order
<1>4. Lifecycle!Becomes(o, "CANCELED")
  BY <1>1, <1>2, <1>3, OneOrderChanges
<1>5. Moving' = Moving
  BY <1>1, KickedMovesNothing DEF CancelOrder, loopVars
<1>6. Shown[o] # "ABSENT"
  BY StatusIsShown DEF CancelOrder, Exists
<1> QED
  BY <1>4, <1>5, <1>6 DEF LifeGoesOn, Life, Lifecycle!Cancel, Lifecycle!Known

-----------------------------------------------------------------------------
(***************************************************************************)
(* Every step of the orchestrator is one in the life of an order.          *)
(***************************************************************************)
LEMMA NextLives == IInv /\ [Next]_vars => LifeGoesOn
<1> SUFFICES ASSUME IInv, [Next]_vars PROVE LifeGoesOn
  OBVIOUS
<1>0. TypeOK /\ LoopsOwnTheirOrders /\ QueuesOwnTheirOrders
  BY DEF IInv, Books
<1>1. CASE Tick
  <2>1. Shown' = Shown
    BY <1>1 DEF Tick, bookVars, Shown
  <2>2. \A r \in Robots : SameAtPlc(r)
    BY <1>1 DEF Tick, SameAtPlc, AtPlc
  <2> QED
    BY <2>1, <2>2, UnseenStep
<1>2. ASSUME NEW r \in Robots, Resume(r) PROVE LifeGoesOn
  <2>1. CASE NothingToDo(r) \/ Dequeue(r) \/ Activate(r) \/ Requeue(r)
             \/ FreeRobot(r) \/ RobotFails(r)
    BY <2>1, <1>0, QuietLoopStep
  <2>2. CASE ResumeActive(r)
    <3> DEFINE o == queues[r].active
    <3>1. /\ o \in OrderIds /\ Owned(o, r) /\ ~AtPlc(r)
          /\ hand' = [hand EXCEPT ![r] = o] /\ ProcessOrder(r, o)
      BY <2>2, <1>0 DEF ResumeActive, TypeOK, Queue, QueuesOwnTheirOrders, AtPlc
    <3> HIDE DEF o
    <3>2. hand'[r] = o /\ \A q \in Robots \ {r} : hand'[q] = hand[q]
      BY <3>1, <1>0 DEF TypeOK
    <3> QED
      BY <3>1, <3>2, <1>0, ProcessOrderTakesUp, LoopMovesLife
  <2>3. CASE ProcessActivated(r)
    <3>1. /\ hand[r] \in OrderIds /\ Owned(hand[r], r) /\ ~AtPlc(r)
          /\ hand' = hand /\ ProcessOrder(r, hand[r])
      BY <2>3, <1>0 DEF ProcessActivated, LoopsOwnTheirOrders, AtPlc
    <3> QED
      BY <3>1, <1>0, ProcessOrderTakesUp, LoopMovesLife
  <2> QED
    BY <1>2, <2>1, <2>2, <2>3 DEF Resume
<1>3. ASSUME NEW s \in Slots, ReleaseSlot(s) PROVE LifeGoesOn
  <2>1. Shown' = Shown /\ pc' = pc /\ hand' = hand
    BY <1>3 DEF ReleaseSlot, loopVars, Shown
  <2> QED
    BY <2>1, UnseenStep DEF SameAtPlc, AtPlc
<1>4. ASSUME NEW r \in Robots,
             PauseQueue(r) \/ ResumeQueue(r) \/ RegisterDevice(r)
      PROVE  LifeGoesOn
  <2>1. Shown' = Shown /\ pc' = pc /\ hand' = hand
    BY <1>4
       DEF PauseQueue, ResumeQueue, RegisterDevice, bookVars, loopVars, Shown
  <2> QED
    BY <2>1, UnseenStep DEF SameAtPlc, AtPlc
<1>5. CASE UNCHANGED vars
  BY <1>5 DEF vars, LifeGoesOn, Shown, Moving
<1> QED
  BY <1>1, <1>2, <1>3, <1>4, <1>5, PlcAnswerStops, SubmitLives, RetryLives,
     CancelLives DEF Next, Operate

(***************************************************************************)
(* The orchestrator implements the life of orders it promises.             *)
(***************************************************************************)
THEOREM LifecycleIsKept == Spec => KeepsLifecycle
<1>1. Init => Lifecycle!Init
  <2> SUFFICES ASSUME Init PROVE Lifecycle!Init
    OBVIOUS
  <2>1. Shown = [o \in OrderIds |-> "ABSENT"]
    BY DEF Init, NothingOrdered, Shown
  <2>2. Moving = {}
    BY DEF Init, NothingOrdered, Moving
  <2> QED
    BY <2>1, <2>2 DEF Lifecycle!Init
<1>2. IInv /\ [Next]_vars => [Lifecycle!Next]_(Lifecycle!vars)
  BY NextLives DEF LifeGoesOn, Life, Lifecycle!Next, Lifecycle!vars
<1> QED
  BY <1>1, <1>2, Invariance, PTL DEF Spec, KeepsLifecycle, Lifecycle!Spec
=============================================================================
