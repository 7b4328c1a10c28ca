------------------------- MODULE OrchestratorProofs -------------------------
(***************************************************************************)
(* Proofs that the orchestrator keeps its books for every number of        *)
(* robots, slots, orders, steps and operator interventions.                *)
(*                                                                         *)
(* NoLostOrder and NoStrandedSlot are not inductive by themselves.  The    *)
(* first needs to know that a robot's loop and queue hold existing orders  *)
(* of that robot only, and that the active place is empty whenever the     *)
(* loop has an order in its hand outside a maneuver.  The second needs the *)
(* claim to be one of a physical order: a logical order settles without    *)
(* touching its slot.                                                      *)
(***************************************************************************)
EXTENDS OrchestratorProps, FiniteSetTheorems, SequenceTheorems, TLAPS

Owned(o, r) == orders[o].status # "ABSENT" /\ orders[o].robot = r

\* Named so that the provers see no arithmetic where none is needed.
StepRemains(i) == i < NumSteps
OneAtMost(n) == n <= 1

\* A loop beyond its first await holds an existing order of its robot; the
\* active place is that order's from Activate to the end of the maneuver
\* (unless the order is cancelled), and empty before and after.
LoopsOwnTheirOrders ==
    \A r \in Robots :
        pc[r] \notin {"off", "top"} =>
            /\ hand[r] \in OrderIds
            /\ Owned(hand[r], r)
            /\ pc[r] = "activated" => queues[r].active = hand[r]
            /\ pc[r] = "step" => queues[r].active \in {hand[r], NoOrder}
            /\ pc[r] \notin {"activated", "step"} => queues[r].active = NoOrder

\* At the PLC the order is a physical one with a slot and a step to do.
StepsArePhysical ==
    \A r \in Robots :
        pc[r] = "step" =>
            /\ StepRemains(at[r])
            /\ orders[hand[r]].slot # NoSlot
            /\ ~orders[hand[r]].logical
            /\ orders[hand[r]].status # "DONE"

QueuesOwnTheirOrders ==
    \A r \in Robots :
        /\ \A o \in Members(queues[r].items) : Owned(o, r)
        /\ queues[r].active # NoOrder => Owned(queues[r].active, r)

RetriesNameOrders ==
    \A o \in OrderIds : retrying[o] > 0 => orders[o].status # "ABSENT"

Claims(o, s) ==
    /\ o # NoOrder
    /\ orders[o].status \in {"PENDING", "IN_PROGRESS", "ERROR"}
    /\ orders[o].slot = s
    /\ ~orders[o].logical

HeldSlotsAreClaimed ==
    \A s \in Slots : slots[s].status \in Held => Claims(slots[s].by, s)

DepthsMatch ==
    \A s \in Slots :
        /\ slots[s].status = "LIBRE" => slots[s].depth = 0
        /\ slots[s].status = "RESERVADO" => OneAtMost(slots[s].depth)

\* All but the care for the orders, which a restart takes a while to restore.
Books ==
    /\ TypeOK
    /\ LoopsOwnTheirOrders
    /\ StepsArePhysical
    /\ QueuesOwnTheirOrders
    /\ RetriesNameOrders
    /\ HeldSlotsAreClaimed
    /\ DepthsMatch

IInv == Books /\ NoLostOrder

\* NoLostOrder, but for some orders.
NoneLostBut(X) ==
    \A o \in OrderIds \ X :
        orders[o].status \in {"PENDING", "IN_PROGRESS"} => InSomeonesCare(o)

IInvBut(X) == Books /\ NoneLostBut(X)

-----------------------------------------------------------------------------
(* What the operations on a robot's queue do to its members.               *)

(***************************************************************************)
(* What a queue holds is what was put into it.                             *)
(***************************************************************************)
LEMMA MembersOfSeq == ASSUME NEW S, NEW s \in Seq(S) PROVE Members(s) \subseteq S
BY LenProperties, ElementOfSeq DEF Members

(***************************************************************************)
(* Enqueue keeps every member and adds the order.                          *)
(***************************************************************************)
LEMMA MembersOfAppend ==
    ASSUME NEW S, NEW s \in Seq(S), NEW o \in S
    PROVE  /\ Append(s, o) \in Seq(S)
           /\ Members(Append(s, o)) = Members(s) \cup {o}
<1>1. /\ Append(s, o) \in Seq(S)
      /\ Len(Append(s, o)) = Len(s) + 1
      /\ \A i \in 1 .. Len(s) : Append(s, o)[i] = s[i]
      /\ Append(s, o)[Len(s) + 1] = o
  BY AppendProperties
<1>2. DOMAIN s = 1 .. Len(s) /\ Len(s) \in Nat
  BY LenProperties
<1>3. DOMAIN Append(s, o) = 1 .. (Len(s) + 1)
  BY <1>1, LenProperties
<1>4. Members(Append(s, o)) \subseteq Members(s) \cup {o}
  BY <1>1, <1>2, <1>3 DEF Members
<1>5. Members(s) \cup {o} \subseteq Members(Append(s, o))
  BY <1>1, <1>2, <1>3 DEF Members
<1> QED
  BY <1>1, <1>4, <1>5

(***************************************************************************)
(* dequeueNext hands out a member; every other member stays.               *)
(***************************************************************************)
LEMMA MembersOfTail ==
    ASSUME NEW S, NEW s \in Seq(S), s # << >>
    PROVE  /\ Tail(s) \in Seq(S)
           /\ Head(s) \in S
           /\ Members(s) = Members(Tail(s)) \cup {Head(s)}
<1>1. /\ Tail(s) \in Seq(S) /\ Head(s) = s[1] /\ Head(s) \in S
      /\ Len(Tail(s)) = Len(s) - 1
      /\ \A i \in 1 .. Len(Tail(s)) : Tail(s)[i] = s[i + 1]
  BY HeadTailProperties
<1>2. DOMAIN s = 1 .. Len(s) /\ Len(s) \in Nat /\ Len(s) # 0
  BY LenProperties, EmptySeq
<1>3. DOMAIN Tail(s) = 1 .. (Len(s) - 1)
  BY <1>1, LenProperties
<1>4. Members(s) \subseteq Members(Tail(s)) \cup {Head(s)}
  <2> SUFFICES ASSUME NEW i \in 1 .. Len(s)
               PROVE  s[i] \in Members(Tail(s)) \cup {Head(s)}
    BY <1>2 DEF Members
  <2>1. CASE i = 1
    BY <2>1, <1>1
  <2>2. CASE i # 1
    <3>1. i - 1 \in 1 .. (Len(s) - 1) /\ (i - 1) + 1 = i
      BY <2>2, <1>2
    <3>2. Tail(s)[i - 1] = s[i]
      BY <3>1, <1>1
    <3> QED
      BY <3>1, <3>2, <1>3 DEF Members
  <2> QED
    BY <2>1, <2>2
<1>5. Members(Tail(s)) \cup {Head(s)} \subseteq Members(s)
  BY <1>1, <1>2, <1>3 DEF Members
<1> QED
  BY <1>1, <1>4, <1>5

(***************************************************************************)
(* removeOrder takes out every copy of the order and nothing else.         *)
(***************************************************************************)
LEMMA MembersOfWithout ==
    ASSUME NEW S, NEW s \in Seq(S), NEW o
    PROVE  /\ Without(s, o) \in Seq(S)
           /\ Members(Without(s, o)) = Members(s) \ {o}
<1> DEFINE Kept == {i \in DOMAIN s : s[i] # o}
           UpTo(i) == {j \in Kept : j <= i}
           rank == [i \in Kept |-> Cardinality(UpTo(i))]
           n == Cardinality(Kept)
           nth == [m \in 1 .. n |-> CHOOSE i \in Kept : rank[i] = m]
<1>1. DOMAIN s = 1 .. Len(s) /\ Len(s) \in Nat
  BY LenProperties
<1>2. /\ IsFiniteSet(Kept) /\ n \in Nat
      /\ \A i \in Kept : i \in Nat
  <2>1. IsFiniteSet(1 .. Len(s))
    BY <1>1, FS_Interval
  <2>2. Kept \in SUBSET (1 .. Len(s))
    BY <1>1
  <2> QED
    BY <2>1, <2>2, FS_Subset, FS_CardinalityType
<1>3. \A i \in Kept : /\ IsFiniteSet(UpTo(i)) /\ rank[i] \in Nat
                      /\ rank[i] \in 1 .. n
  <2> TAKE i \in Kept
  <2>1. UpTo(i) \in SUBSET Kept /\ UpTo(i) # {}
    BY <1>2
  <2>2. IsFiniteSet(UpTo(i)) /\ Cardinality(UpTo(i)) <= n
    BY <1>2, <2>1, FS_Subset
  <2>3. Cardinality(UpTo(i)) \in Nat /\ Cardinality(UpTo(i)) # 0
    BY <2>1, <2>2, FS_CardinalityType, FS_EmptySet
  <2>4. rank[i] = Cardinality(UpTo(i))
    OBVIOUS
  <2> HIDE DEF n, rank, UpTo
  <2> QED
    BY <2>2, <2>3, <2>4, <1>2
<1>4. \A i, k \in Kept : i < k => rank[i] < rank[k]
  <2> SUFFICES ASSUME NEW i \in Kept, NEW k \in Kept, i < k
               PROVE  rank[i] < rank[k]
    OBVIOUS
  <2>1. IsFiniteSet(UpTo(i)) /\ k \notin UpTo(i)
    <3>1. ~(k <= i)
      BY <1>2
    <3> QED
      BY <3>1, <1>3
  <2>2. Cardinality(UpTo(i) \cup {k}) = Cardinality(UpTo(i)) + 1
    BY <2>1, FS_AddElement
  <2>3. UpTo(i) \cup {k} \in SUBSET UpTo(k)
    BY <1>2
  <2>4. Cardinality(UpTo(i) \cup {k}) <= Cardinality(UpTo(k))
    BY <2>3, <1>3, FS_Subset
  <2>5. rank[i] = Cardinality(UpTo(i)) /\ rank[k] = Cardinality(UpTo(k))
    OBVIOUS
  <2>6. rank[i] \in Nat /\ rank[k] \in Nat
    BY <1>3
  <2> HIDE DEF rank, UpTo
  <2> QED
    BY <2>2, <2>4, <2>5, <2>6
<1> HIDE DEF n
<1>5. \A i, k \in Kept : rank[i] = rank[k] => i = k
  <2> SUFFICES ASSUME NEW i \in Kept, NEW k \in Kept, rank[i] = rank[k]
               PROVE  i = k
    OBVIOUS
  <2>1. i \in Nat /\ k \in Nat /\ rank[i] \in Nat /\ rank[k] \in Nat
    BY <1>2, <1>3
  <2>2. ~(rank[i] < rank[k]) /\ ~(rank[k] < rank[i])
    <3> HIDE DEF rank
    <3> QED
      BY <2>1
  <2>3. ~(i < k) /\ ~(k < i)
    BY <2>2, <1>4
  <2> QED
    BY <2>1, <2>3
<1>6. rank \in Surjection(Kept, 1 .. n)
  <2>1. rank \in [Kept -> 1 .. n]
    BY <1>3
  <2> HIDE DEF rank
  <2>3. rank \in Injection(Kept, 1 .. n)
    BY <2>1, <1>5 DEF Injection, IsInjective
  <2>4. IsFiniteSet(1 .. n) /\ Cardinality(1 .. n) = n
    BY <1>2, FS_Interval
  <2> QED
    BY <2>3, <2>4, FS_Injection DEF n
<1>7. \A m \in 1 .. n : nth[m] \in Kept /\ rank[nth[m]] = m
  BY <1>6 DEF Surjection
<1>8. Without(s, o) = [m \in 1 .. n |-> s[nth[m]]]
  BY DEF Without, n
<1>9. \A i \in Kept : nth[rank[i]] = i
  <2> TAKE i \in Kept
  <2>1. rank[i] \in 1 .. n
    BY <1>3
  <2> HIDE DEF rank, nth
  <2>2. nth[rank[i]] \in Kept /\ rank[nth[rank[i]]] = rank[i]
    BY <2>1, <1>7
  <2> QED
    BY <2>2, <1>5
<1>10. \A m \in 1 .. n : s[nth[m]] \in S /\ s[nth[m]] \in Members(s) \ {o}
  BY <1>7, <1>1, ElementOfSeq DEF Members
<1> HIDE DEF rank, nth
<1>11. Without(s, o) \in Seq(S) /\ DOMAIN Without(s, o) = 1 .. n
  BY <1>2, <1>8, <1>10, IsASeq
<1>12. Members(Without(s, o)) \subseteq Members(s) \ {o}
  BY <1>8, <1>10, <1>11 DEF Members
<1>13. Members(s) \ {o} \subseteq Members(Without(s, o))
  <2> SUFFICES ASSUME NEW i \in DOMAIN s, s[i] # o
               PROVE  s[i] \in Members(Without(s, o))
    BY DEF Members
  <2>1. i \in Kept /\ rank[i] \in 1 .. n /\ nth[rank[i]] = i
    BY <1>3, <1>9
  <2> QED
    BY <2>1, <1>8, <1>11 DEF Members
<1> QED
  BY <1>11, <1>12, <1>13

-----------------------------------------------------------------------------
(***************************************************************************)
(* Orders are numbered from 1: null is not one of them.                    *)
(***************************************************************************)
LEMMA NoOrderIsNone == NoOrder \notin OrderIds
BY MaxOrdersAssumption DEF NoOrder, OrderIds

(***************************************************************************)
(* The queue operations, by what they do to the three parts of the record. *)
(***************************************************************************)

(***************************************************************************)
(* enqueue adds one member and leaves the active place alone.              *)
(***************************************************************************)
LEMMA EnqueueOp ==
    ASSUME NEW q \in Queue, NEW o \in OrderIds
    PROVE  /\ Enqueue(q, o) \in Queue
           /\ Enqueue(q, o).active = q.active
           /\ Members(Enqueue(q, o).items) = Members(q.items) \cup {o}
<1>1. q.items \in Seq(OrderIds)
  BY DEF Queue
<1>2. /\ Append(q.items, o) \in Seq(OrderIds)
      /\ Members(Append(q.items, o)) = Members(q.items) \cup {o}
  BY <1>1, MembersOfAppend
<1>3. Enqueue(q, o) = [q EXCEPT !.items = Append(q.items, o)]
  BY DEF Enqueue
<1> QED
  BY <1>2, <1>3 DEF Queue

(***************************************************************************)
(* setActive and clearActive leave the members alone.                      *)
(***************************************************************************)
LEMMA SetActiveOp ==
    ASSUME NEW q \in Queue, NEW o \in OrderIds \cup {NoOrder}
    PROVE  /\ SetActive(q, o) \in Queue
           /\ SetActive(q, o).active = o
           /\ SetActive(q, o).items = q.items
BY DEF Queue, SetActive

(***************************************************************************)
(* dequeueNext hands out a member and keeps the others.                    *)
(***************************************************************************)
LEMMA DequeuedOp ==
    ASSUME NEW q \in Queue, CanDequeue(q)
    PROVE  /\ Dequeued(q) \in Queue
           /\ Dequeued(q).active = q.active
           /\ Head(q.items) \in OrderIds
           /\ Members(q.items) = Members(Dequeued(q).items) \cup {Head(q.items)}
<1>1. q.items \in Seq(OrderIds) /\ q.items # << >>
  BY DEF Queue, CanDequeue
<1>2. /\ Tail(q.items) \in Seq(OrderIds) /\ Head(q.items) \in OrderIds
      /\ Members(q.items) = Members(Tail(q.items)) \cup {Head(q.items)}
  BY <1>1, MembersOfTail
<1>3. Dequeued(q) = [q EXCEPT !.items = Tail(q.items)]
  BY DEF Dequeued
<1> QED
  BY <1>2, <1>3 DEF Queue

(***************************************************************************)
(* pause and resume leave the orders alone.                                *)
(***************************************************************************)
LEMMA WithPauseOp ==
    ASSUME NEW q \in Queue, NEW b \in BOOLEAN
    PROVE  /\ WithPause(q, b) \in Queue
           /\ WithPause(q, b).active = q.active
           /\ WithPause(q, b).items = q.items
BY DEF Queue, WithPause

(***************************************************************************)
(* removeOrder takes the order out of both places and nothing else.        *)
(***************************************************************************)
LEMMA RemoveOrderOp ==
    ASSUME NEW q \in Queue, NEW o \in OrderIds
    PROVE  /\ RemoveOrder(q, o, NoOrder) \in Queue
           /\ RemoveOrder(q, o, NoOrder).active =
                IF q.active = o THEN NoOrder ELSE q.active
           /\ Members(RemoveOrder(q, o, NoOrder).items) = Members(q.items) \ {o}
<1>1. q.items \in Seq(OrderIds)
  BY DEF Queue
<1>2. /\ Without(q.items, o) \in Seq(OrderIds)
      /\ Members(Without(q.items, o)) = Members(q.items) \ {o}
  BY <1>1, MembersOfWithout
<1>3. RemoveOrder(q, o, NoOrder) =
        [q EXCEPT !.items = Without(q.items, o),
                  !.active = IF q.active = o THEN NoOrder ELSE q.active]
  BY DEF RemoveOrder
<1> QED
  BY <1>2, <1>3 DEF Queue

-----------------------------------------------------------------------------
(***************************************************************************)
(* The invariant holds of the empty books.                                 *)
(***************************************************************************)
LEMMA EmptyBooksIInv ==
    ASSUME NothingOrdered, robots \in [Robots -> Robot]
    PROVE  IInv
<1>1. EmptyQueue(NoOrder) \in Queue
  <2>1. << >> \in Seq(OrderIds)
    BY EmptySeq
  <2> QED
    BY <2>1 DEF Queue, EmptyQueue
<1>2. Members(EmptyQueue(NoOrder).items) = {}
  BY EmptySeq DEF EmptyQueue, Members
<1>3. EmptyQueue(NoOrder).active = NoOrder
  BY DEF EmptyQueue
<1>4. PICK r \in Robots :
        orders = [o \in OrderIds |->
           [status |-> "ABSENT", type |-> "PICK", home |-> NoHome, robot |-> r,
            slot |-> NoSlot, idx |-> 0, logical |-> FALSE, waiting |-> FALSE,
            ext |-> NoExternalId]]
  BY DEF NothingOrdered
<1>5. TypeOK
  <2>1. orders \in [OrderIds -> Order]
    BY <1>4, NumStepsAssumption DEF Order, Status
  <2>2. slots \in [Slots -> Slot]
    BY DEF NothingOrdered, ClearSlot, Slot, SlotStatus
  <2>3. queues \in [Robots -> Queue]
    BY <1>1 DEF NothingOrdered
  <2>4. /\ pc \in [Robots -> Points] /\ hand \in [Robots -> OrderIds \cup {NoOrder}]
        /\ at \in [Robots -> 0 .. NumSteps] /\ retrying \in [OrderIds -> Nat]
        /\ ops \in Nat
    BY NumStepsAssumption DEF NothingOrdered, Points
  <2> QED
    BY <2>1, <2>2, <2>3, <2>4 DEF TypeOK
<1>6. LoopsOwnTheirOrders /\ StepsArePhysical
  BY DEF NothingOrdered, LoopsOwnTheirOrders, StepsArePhysical
<1>7. QueuesOwnTheirOrders
  BY <1>2, <1>3 DEF NothingOrdered, QueuesOwnTheirOrders
<1>8. RetriesNameOrders
  BY DEF NothingOrdered, RetriesNameOrders
<1>9. NoLostOrder
  BY <1>4 DEF NoLostOrder
<1>10. HeldSlotsAreClaimed /\ DepthsMatch
  BY DEF NothingOrdered, HeldSlotsAreClaimed, DepthsMatch, ClearSlot, Held
<1> QED
  BY <1>5, <1>6, <1>7, <1>8, <1>9, <1>10 DEF IInv, Books

(***************************************************************************)
(* The server starts with empty books and no robots.                       *)
(***************************************************************************)
LEMMA InitIInv == Init => IInv
BY EmptyBooksIInv DEF Init, Robot, RobotStatus

(***************************************************************************)
(* tick only starts loops.                                                 *)
(***************************************************************************)
LEMMA TickKeepsIInv == ASSUME IInv, Tick PROVE IInv'
<1>1. TypeOK'
  BY DEF IInv, Books, TypeOK, Tick, bookVars, Points
<1>2. LoopsOwnTheirOrders' /\ StepsArePhysical'
  BY DEF IInv, Books, TypeOK, Tick, bookVars, LoopsOwnTheirOrders,
         StepsArePhysical, Owned
<1>3. QueuesOwnTheirOrders' /\ RetriesNameOrders' /\ DepthsMatch'
  BY DEF IInv, Books, Tick, bookVars, QueuesOwnTheirOrders, RetriesNameOrders,
         DepthsMatch, Owned
<1>4. NoLostOrder'
  BY DEF IInv, Books, TypeOK, Order, Tick, bookVars, NoLostOrder, InSomeonesCare
<1>5. HeldSlotsAreClaimed'
  BY DEF IInv, Books, Tick, bookVars, HeldSlotsAreClaimed, Claims
<1> QED
  BY <1>1, <1>2, <1>3, <1>4, <1>5 DEF IInv, Books

(***************************************************************************)
(* Taking an order from the queue moves it from the queue to the hand.     *)
(***************************************************************************)
LEMMA DequeueKeepsIInv ==
    ASSUME NEW X, IInvBut(X), NEW r \in Robots, Dequeue(r)
    PROVE  IInvBut(X)'
<1> DEFINE o == Head(queues[r].items)
<1>1. /\ queues[r] \in Queue /\ CanDequeue(queues[r])
      /\ queues[r].active = NoOrder
  BY DEF IInvBut, Books, TypeOK, Dequeue
<1>2. /\ Dequeued(queues[r]) \in Queue
      /\ Dequeued(queues[r]).active = NoOrder
      /\ o \in OrderIds
      /\ Members(queues[r].items) =
            Members(Dequeued(queues[r]).items) \cup {o}
  BY <1>1, DequeuedOp
<1> HIDE DEF o
<1>3. /\ hand' = [hand EXCEPT ![r] = o]
      /\ queues' = [queues EXCEPT ![r] = Dequeued(queues[r])]
      /\ pc[r] = "top" /\ pc' = [pc EXCEPT ![r] = "dequeued"]
      /\ UNCHANGED <<orders, slots, robots, at, retrying, ops>>
  BY DEF Dequeue, o
<1>4. TypeOK'
  BY <1>2, <1>3 DEF IInvBut, Books, TypeOK, Points
<1>5. Owned(o, r)
  BY <1>2 DEF IInvBut, Books, QueuesOwnTheirOrders
<1>6. LoopsOwnTheirOrders' /\ StepsArePhysical'
  BY <1>2, <1>3, <1>5
     DEF IInvBut, Books, TypeOK, LoopsOwnTheirOrders, StepsArePhysical, Owned
<1>7. QueuesOwnTheirOrders' /\ RetriesNameOrders' /\ DepthsMatch'
  BY <1>2, <1>3
     DEF IInvBut, Books, TypeOK, QueuesOwnTheirOrders, RetriesNameOrders,
         DepthsMatch, Owned
<1>8. NoneLostBut(X)'
  BY <1>1, <1>2, <1>3
     DEF IInvBut, Books, TypeOK, Order, NoneLostBut, InSomeonesCare
<1>9. HeldSlotsAreClaimed'
  BY <1>3 DEF IInvBut, Books, HeldSlotsAreClaimed, Claims
<1> QED
  BY <1>4, <1>6, <1>7, <1>8, <1>9 DEF IInvBut, Books

(***************************************************************************)
(* setActive moves the order from the hand to the active place.            *)
(***************************************************************************)
LEMMA ActivateKeepsIInv ==
    ASSUME NEW X, IInvBut(X), NEW r \in Robots, Activate(r)
    PROVE  IInvBut(X)'
<1>1. /\ queues[r] \in Queue /\ hand[r] \in OrderIds /\ Owned(hand[r], r)
      /\ queues[r].active = NoOrder
  BY DEF IInvBut, Books, TypeOK, Activate, LoopsOwnTheirOrders
<1>2. /\ SetActive(queues[r], hand[r]) \in Queue
      /\ SetActive(queues[r], hand[r]).active = hand[r]
      /\ SetActive(queues[r], hand[r]).items = queues[r].items
  BY <1>1, SetActiveOp
<1>3. /\ queues' = [queues EXCEPT ![r] = SetActive(queues[r], hand[r])]
      /\ pc[r] = "dequeued" /\ pc' = [pc EXCEPT ![r] = "activated"]
      /\ UNCHANGED <<orders, slots, robots, hand, at, retrying, ops>>
  BY DEF Activate
<1>4. TypeOK'
  BY <1>2, <1>3 DEF IInvBut, Books, TypeOK, Points
<1>5. LoopsOwnTheirOrders' /\ StepsArePhysical'
  BY <1>1, <1>2, <1>3
     DEF IInvBut, Books, TypeOK, LoopsOwnTheirOrders, StepsArePhysical, Owned
<1>6. QueuesOwnTheirOrders' /\ RetriesNameOrders' /\ DepthsMatch'
  BY <1>1, <1>2, <1>3
     DEF IInvBut, Books, TypeOK, QueuesOwnTheirOrders, RetriesNameOrders,
         DepthsMatch, Owned
<1>7. NoneLostBut(X)'
  BY <1>1, <1>2, <1>3, NoOrderIsNone
     DEF IInvBut, Books, TypeOK, Order, NoneLostBut, InSomeonesCare
<1>8. HeldSlotsAreClaimed'
  BY <1>3 DEF IInvBut, Books, HeldSlotsAreClaimed, Claims
<1> QED
  BY <1>4, <1>5, <1>6, <1>7, <1>8 DEF IInvBut, Books

(***************************************************************************)
(* A loop that finds nothing to do, frees its robot or shows it in ERROR   *)
(* only changes its own place.                                             *)
(***************************************************************************)
LEMMA LoopStepKeepsIInv ==
    ASSUME NEW X, IInvBut(X), NEW r \in Robots, NEW p \in {"off", "top"},
           pc[r] \notin {"dequeued", "requeue"},
           pc' = [pc EXCEPT ![r] = p],
           robots' \in [Robots -> Robot],
           UNCHANGED <<orders, slots, queues, hand, at, retrying, ops>>
    PROVE  IInvBut(X)'
<1>1. TypeOK'
  BY DEF IInvBut, Books, TypeOK, Points
<1>2. LoopsOwnTheirOrders' /\ StepsArePhysical'
  BY DEF IInvBut, Books, TypeOK, LoopsOwnTheirOrders, StepsArePhysical, Owned
<1>3. QueuesOwnTheirOrders' /\ RetriesNameOrders' /\ DepthsMatch'
  BY DEF IInvBut, Books, QueuesOwnTheirOrders, RetriesNameOrders, DepthsMatch,
         Owned
<1>4. NoneLostBut(X)'
  BY DEF IInvBut, Books, TypeOK, Order, NoneLostBut, InSomeonesCare
<1>5. HeldSlotsAreClaimed'
  BY DEF IInvBut, Books, HeldSlotsAreClaimed, Claims
<1> QED
  BY <1>1, <1>2, <1>3, <1>4, <1>5 DEF IInvBut, Books

(***************************************************************************)
(* A loop that ends for want of work.                                      *)
(***************************************************************************)
LEMMA NothingToDoKeepsIInv ==
    ASSUME NEW X, IInvBut(X), NEW r \in Robots, NothingToDo(r) PROVE IInvBut(X)'
BY LoopStepKeepsIInv DEF IInvBut, Books, TypeOK, NothingToDo, bookVars

(***************************************************************************)
(* FreeRobot shows the robot as IDLE.                                      *)
(***************************************************************************)
LEMMA FreeRobotKeepsIInv ==
    ASSUME NEW X, IInvBut(X), NEW r \in Robots, FreeRobot(r) PROVE IInvBut(X)'
<1>1. robots' \in [Robots -> Robot]
  BY DEF IInvBut, Books, TypeOK, FreeRobot, Robot, RobotStatus
<1>2. PICK p \in {"off", "top"} : pc' = [pc EXCEPT ![r] = p]
  BY DEF FreeRobot, Continue
<1> QED
  BY <1>1, <1>2, LoopStepKeepsIInv DEF FreeRobot, bookVars

(***************************************************************************)
(* RobotFails shows the robot in ERROR.                                    *)
(***************************************************************************)
LEMMA RobotFailsKeepsIInv ==
    ASSUME NEW X, IInvBut(X), NEW r \in Robots, RobotFails(r) PROVE IInvBut(X)'
<1>1. robots' \in [Robots -> Robot]
  BY DEF IInvBut, Books, TypeOK, RobotFails, Robot, RobotStatus
<1>2. PICK p \in {"off", "top"} : pc' = [pc EXCEPT ![r] = p]
  BY DEF RobotFails, Continue
<1> QED
  BY <1>1, <1>2, LoopStepKeepsIInv DEF RobotFails, bookVars

(***************************************************************************)
(* A deferred PICK goes from the hand to the tail of the queue.            *)
(***************************************************************************)
LEMMA RequeueKeepsIInv ==
    ASSUME NEW X, IInvBut(X), NEW r \in Robots, Requeue(r)
    PROVE  IInvBut(X)'
<1>1. /\ queues[r] \in Queue /\ hand[r] \in OrderIds /\ Owned(hand[r], r)
      /\ queues[r].active = NoOrder
  BY DEF IInvBut, Books, TypeOK, Requeue, LoopsOwnTheirOrders
<1>2. /\ Enqueue(queues[r], hand[r]) \in Queue
      /\ Enqueue(queues[r], hand[r]).active = NoOrder
      /\ Members(Enqueue(queues[r], hand[r]).items) =
            Members(queues[r].items) \cup {hand[r]}
  BY <1>1, EnqueueOp
<1>3. /\ queues' = [queues EXCEPT ![r] = Enqueue(queues[r], hand[r])]
      /\ pc[r] = "requeue" /\ pc' = [pc EXCEPT ![r] = "cleared"]
      /\ UNCHANGED <<orders, slots, robots, hand, at, retrying, ops>>
  BY DEF Requeue
<1>4. TypeOK'
  BY <1>2, <1>3 DEF IInvBut, Books, TypeOK, Points
<1>5. LoopsOwnTheirOrders' /\ StepsArePhysical'
  BY <1>1, <1>2, <1>3
     DEF IInvBut, Books, TypeOK, LoopsOwnTheirOrders, StepsArePhysical, Owned
<1>6. QueuesOwnTheirOrders' /\ RetriesNameOrders' /\ DepthsMatch'
  BY <1>1, <1>2, <1>3
     DEF IInvBut, Books, TypeOK, QueuesOwnTheirOrders, RetriesNameOrders,
         DepthsMatch, Owned
<1>7. NoneLostBut(X)'
  BY <1>1, <1>2, <1>3
     DEF IInvBut, Books, TypeOK, Order, NoneLostBut, InSomeonesCare
<1>8. HeldSlotsAreClaimed'
  BY <1>3 DEF IInvBut, Books, HeldSlotsAreClaimed, Claims
<1> QED
  BY <1>4, <1>5, <1>6, <1>7, <1>8 DEF IInvBut, Books

-----------------------------------------------------------------------------
(***************************************************************************)
(* The outcomes of processOrder, for an order of the robot that is in the  *)
(* robot's active place.                                                   *)
(***************************************************************************)
Processing(r, o) ==
    /\ r \in Robots /\ o \in OrderIds /\ Owned(o, r)
    /\ pc[r] \in {"top", "activated"}
    /\ queues[r].active = o
    /\ hand' = [hand EXCEPT ![r] = o]
    /\ robots' \in [Robots -> Robot]
    /\ UNCHANGED <<retrying, ops>>

(***************************************************************************)
(* A settled order leaves the active place.  It was settled before, or it  *)
(* settles and leaves no claim: `new' is its record, `s' the only slot     *)
(* whose record changes, to one that nobody holds.                         *)
(***************************************************************************)
LEMMA SettlingKeepsIInv ==
    ASSUME NEW X, IInvBut(X), NEW r, NEW o, Processing(r, o),
           NEW new \in Order, new.status \in Settled, new.robot = r,
           slots' \in [Slots -> Slot], NEW s,
           \/ new = orders[o] /\ slots' = slots
           \/ /\ \A t \in Slots : t # s => slots'[t] = slots[t]
              /\ s \in Slots =>
                   /\ slots'[s].status \notin Held
                   /\ slots'[s].status = "LIBRE" => slots'[s].depth = 0
              /\ orders[o].logical \/ orders[o].slot \in {NoSlot, s},
           orders' = [orders EXCEPT ![o] = new],
           ClearActive(r), pc' = [pc EXCEPT ![r] = "cleared"], UNCHANGED at
    PROVE  IInvBut(X)'
<1>1. /\ queues[r] \in Queue /\ r \in Robots /\ o \in OrderIds
      /\ NoOrder \in OrderIds \cup {NoOrder}
      /\ new.status # "ABSENT" /\ new.status \notin {"PENDING", "IN_PROGRESS"}
  BY DEF IInvBut, Books, TypeOK, Processing, Settled
<1>2. /\ SetActive(queues[r], NoOrder) \in Queue
      /\ SetActive(queues[r], NoOrder).active = NoOrder
      /\ SetActive(queues[r], NoOrder).items = queues[r].items
  BY <1>1, SetActiveOp
<1>3. /\ queues' = [queues EXCEPT ![r] = SetActive(queues[r], NoOrder)]
      /\ hand' = [hand EXCEPT ![r] = o] /\ Owned(o, r)
      /\ pc[r] \in {"top", "activated"}
      /\ queues[r].active = o
      /\ robots' \in [Robots -> Robot]
      /\ UNCHANGED <<at, retrying, ops>>
  BY DEF ClearActive, Processing
<1>4. TypeOK'
  BY <1>1, <1>2, <1>3 DEF IInvBut, Books, TypeOK, Points
<1>5. LoopsOwnTheirOrders' /\ StepsArePhysical'
  BY <1>1, <1>2, <1>3
     DEF IInvBut, Books, TypeOK, LoopsOwnTheirOrders, StepsArePhysical, Owned
<1>6. QueuesOwnTheirOrders' /\ RetriesNameOrders'
  BY <1>1, <1>2, <1>3
     DEF IInvBut, Books, TypeOK, QueuesOwnTheirOrders, RetriesNameOrders,
         Owned
<1>7. NoneLostBut(X)'
  BY <1>1, <1>2, <1>3
     DEF IInvBut, Books, TypeOK, Order, NoneLostBut, InSomeonesCare
<1>8. HeldSlotsAreClaimed'
  BY <1>1, SlotsAssumption
     DEF IInvBut, Books, TypeOK, HeldSlotsAreClaimed, Claims
<1>9. DepthsMatch'
  BY <1>1 DEF IInvBut, Books, TypeOK, DepthsMatch, Held
<1> QED
  BY <1>4, <1>5, <1>6, <1>7, <1>8, <1>9 DEF IInvBut, Books

(***************************************************************************)
(* A deferred PICK leaves the active place for the loop's hand.            *)
(***************************************************************************)
LEMMA DeferKeepsIInv ==
    ASSUME NEW X, IInvBut(X), NEW r, NEW o, Processing(r, o), Defer(r, o)
    PROVE  IInvBut(X)'
<1>1. /\ queues[r] \in Queue /\ r \in Robots /\ o \in OrderIds
      /\ Owned(o, r) /\ orders[o] \in Order
      /\ pc[r] \in {"top", "activated"} /\ queues[r].active = o
  BY DEF IInvBut, Books, TypeOK, Processing
<1>2. /\ SetActive(queues[r], NoOrder) \in Queue
      /\ SetActive(queues[r], NoOrder).active = NoOrder
      /\ SetActive(queues[r], NoOrder).items = queues[r].items
  BY <1>1, SetActiveOp
<1>3. /\ queues' = [queues EXCEPT ![r] = SetActive(queues[r], NoOrder)]
      /\ hand' = [hand EXCEPT ![r] = o]
      /\ robots' \in [Robots -> Robot]
      /\ orders' = [orders EXCEPT ![o] =
                      [orders[o] EXCEPT !.status = "PENDING", !.waiting = TRUE]]
      /\ pc' = [pc EXCEPT ![r] = "requeue"]
      /\ UNCHANGED <<slots, at, retrying, ops>>
      /\ orders[o].slot = NoSlot
  BY <1>1 DEF ClearActive, Processing, Defer, IInvBut, Books, TypeOK
<1>4. TypeOK'
  <2>1. [orders[o] EXCEPT !.status = "PENDING", !.waiting = TRUE] \in Order
    BY <1>1 DEF Order, Status
  <2> QED
    BY <1>1, <1>2, <1>3, <2>1 DEF IInvBut, Books, TypeOK, Points
<1>5. LoopsOwnTheirOrders' /\ StepsArePhysical'
  BY <1>1, <1>2, <1>3
    
       DEF IInvBut, Books, TypeOK, Order, LoopsOwnTheirOrders,
           StepsArePhysical, Owned
<1>6. QueuesOwnTheirOrders' /\ RetriesNameOrders' /\ DepthsMatch'
  BY <1>1, <1>2, <1>3 DEF IInvBut, Books, TypeOK, Order, QueuesOwnTheirOrders,
         RetriesNameOrders, DepthsMatch, Owned
<1>7. NoneLostBut(X)'
  BY <1>1, <1>2, <1>3
     DEF IInvBut, Books, TypeOK, Order, NoneLostBut, InSomeonesCare, Owned
<1>8. HeldSlotsAreClaimed'
  BY <1>1, <1>3, SlotsAssumption
     DEF IInvBut, Books, TypeOK, Order, HeldSlotsAreClaimed, Claims
<1> QED
  BY <1>4, <1>5, <1>6, <1>7, <1>8 DEF IInvBut, Books

(***************************************************************************)
(* An order that starts or goes on stays in the active place, and its slot *)
(* is either as it was or claimed by it.                                   *)
(***************************************************************************)
LEMMA WorkingKeepsIInv ==
    ASSUME NEW X, IInvBut(X), NEW r, NEW o, Processing(r, o),
           NEW new \in Order, new.status = "IN_PROGRESS", new.robot = r,
           NEW s \in Slots, new.slot = s, ~new.logical,
           slots' \in [Slots -> Slot],
           \A t \in Slots : t # s => slots'[t] = slots[t],
           \/ slots'[s] = slots[s]
           \/ /\ slots'[s].status # "LIBRE" /\ slots'[s].by = o
              /\ slots'[s].status = "RESERVADO" => OneAtMost(slots'[s].depth),
           orders[o].slot \in {NoSlot, s},
           orders' = [orders EXCEPT ![o] = new],
           \/ pc' = [pc EXCEPT ![r] = "off"] /\ UNCHANGED at
           \/ /\ pc' = [pc EXCEPT ![r] = "step"]
              /\ StepRemains(new.idx) /\ at' = [at EXCEPT ![r] = new.idx],
           UNCHANGED queues
    PROVE  IInvBut(X)'
<1>1. /\ queues[r] \in Queue /\ r \in Robots /\ o \in OrderIds
      /\ Owned(o, r)
      /\ pc[r] \in {"top", "activated"} /\ queues[r].active = o
      /\ hand' = [hand EXCEPT ![r] = o]
      /\ robots' \in [Robots -> Robot]
      /\ UNCHANGED <<retrying, ops>>
  BY DEF IInvBut, Books, TypeOK, Processing
<1>2. TypeOK'
  <2>1. new.idx \in 0 .. NumSteps
    BY DEF Order
  <2>2. at' \in [Robots -> 0 .. NumSteps] /\ pc' \in [Robots -> Points]
    BY <1>1, <2>1 DEF IInvBut, Books, TypeOK, Points
  <2> QED
    BY <1>1, <2>2 DEF IInvBut, Books, TypeOK
<1>3. LoopsOwnTheirOrders'
  BY <1>1 DEF IInvBut, Books, TypeOK, LoopsOwnTheirOrders, Owned
<1>4. StepsArePhysical'
  BY <1>1, SlotsAssumption
     DEF IInvBut, Books, TypeOK, LoopsOwnTheirOrders, StepsArePhysical, Owned
<1>5. QueuesOwnTheirOrders' /\ RetriesNameOrders'
  BY <1>1
     DEF IInvBut, Books, TypeOK, QueuesOwnTheirOrders, RetriesNameOrders,
         Owned
<1>6. NoneLostBut(X)'
  BY <1>1 DEF IInvBut, Books, TypeOK, Order, NoneLostBut, InSomeonesCare, Owned
<1>7. HeldSlotsAreClaimed'
  BY <1>1, SlotsAssumption, NoOrderIsNone
     DEF IInvBut, Books, TypeOK, HeldSlotsAreClaimed, Claims
<1>8. DepthsMatch'
  BY <1>1 DEF IInvBut, Books, TypeOK, DepthsMatch
<1> QED
  BY <1>2, <1>3, <1>4, <1>5, <1>6, <1>7, <1>8 DEF IInvBut, Books

(***************************************************************************)
(* The work on an order in slot s, whatever brought the order there.       *)
(***************************************************************************)
LEMMA WorkKeepsIInv ==
    ASSUME NEW X, IInvBut(X), NEW r, NEW o, Processing(r, o), NEW s \in Slots,
           NEW book \in [Slots -> Slot],
           \A t \in Slots : t # s => book[t] = slots[t],
           \/ book[s] = slots[s]
           \/ /\ book[s].status = "RESERVADO" /\ book[s].by = o
              /\ OneAtMost(book[s].depth),
           ~orders[o].logical, orders[o].slot \in {NoSlot, s},
           Work(r, o, Started(o, s), book)
    PROVE  IInvBut(X)'
<1> DEFINE ord == Started(o, s)
<1>1. /\ ord \in Order /\ ord.status = "IN_PROGRESS" /\ ord.robot = r
      /\ ord.slot = s /\ ~ord.logical
      /\ o \in OrderIds /\ orders[o] \in Order
  <2>1. o \in OrderIds /\ orders[o] \in Order /\ orders[o].robot = r
    BY DEF IInvBut, Books, TypeOK, Processing, Owned
  <2> QED
    BY <2>1 DEF Started, Order, Status
<1> HIDE DEF ord
<1>2. CASE FinishPhysical(r, o, ord, book)
  <2> DEFINE new == [ord EXCEPT !.status = "DONE"]
             left == IF ord.type = "PICK" THEN Occupied(o, ord.home)
                     ELSE ClearSlot
  <2>1. new \in Order /\ new.status \in Settled /\ new.robot = r
    BY <1>1 DEF Order, Status, Settled
  <2>2. /\ left \in Slot /\ left.status \notin Held
        /\ left.status = "LIBRE" => left.depth = 0
    BY <1>1 DEF Occupied, ClearSlot, Slot, SlotStatus, Held, Order
  <2>3. /\ slots' = [book EXCEPT ![s] = left]
        /\ orders' = [orders EXCEPT ![o] = new]
        /\ ClearActive(r) /\ pc' = [pc EXCEPT ![r] = "cleared"] /\ UNCHANGED at
    BY <1>1, <1>2 DEF FinishPhysical
  <2> HIDE DEF new, left
  <2>4. /\ slots' \in [Slots -> Slot] /\ slots'[s] = left
        /\ \A t \in Slots : t # s => slots'[t] = slots[t]
    BY <2>2, <2>3
  <2> QED
    BY <2>1, <2>2, <2>3, <2>4, SettlingKeepsIInv
<1>3. CASE StartStep(r, o, ord, book) \/ LoopDies(r, o, ord, book)
  <2> DEFINE left == InProgress(book[s], ord, o)
  <2>1. /\ left \in Slot
        /\ \/ left = book[s]
           \/ left.status \in {"BUSCANDO", "DEVOLVIENDO"} /\ left.by = o
    BY <1>1, NoOrderIsNone DEF InProgress, WithStatus, Slot, SlotStatus
  <2>2. /\ slots' = [book EXCEPT ![s] = left]
        /\ orders' = [orders EXCEPT ![o] = ord]
        /\ \/ pc' = [pc EXCEPT ![r] = "off"] /\ UNCHANGED at
           \/ /\ pc' = [pc EXCEPT ![r] = "step"]
              /\ StepRemains(ord.idx) /\ at' = [at EXCEPT ![r] = ord.idx]
        /\ UNCHANGED queues
    BY <1>1, <1>3 DEF StartStep, LoopDies, StepRemains
  <2> HIDE DEF left
  <2>3. /\ slots' \in [Slots -> Slot] /\ slots'[s] = left
        /\ \A t \in Slots : t # s => slots'[t] = slots[t]
    BY <2>1, <2>2
  <2>4. \/ slots'[s] = slots[s]
        \/ /\ slots'[s].status # "LIBRE" /\ slots'[s].by = o
           /\ slots'[s].status = "RESERVADO" => OneAtMost(slots'[s].depth)
    BY <2>1, <2>3
  <2>5. CASE pc' = [pc EXCEPT ![r] = "off"] /\ UNCHANGED at
    BY <1>1, <2>2, <2>3, <2>4, <2>5, WorkingKeepsIInv
  <2>6. CASE /\ pc' = [pc EXCEPT ![r] = "step"]
             /\ StepRemains(ord.idx) /\ at' = [at EXCEPT ![r] = ord.idx]
    BY <1>1, <2>2, <2>3, <2>4, <2>6, WorkingKeepsIInv
  <2> QED
    BY <2>2, <2>5, <2>6
<1> QED
  BY <1>2, <1>3 DEF Work, ord

(***************************************************************************)
(* processOrder.                                                           *)
(***************************************************************************)
LEMMA ProcessOrderKeepsIInv ==
    ASSUME NEW X, IInvBut(X), NEW r, NEW o, Processing(r, o), ProcessOrder(r, o)
    PROVE  IInvBut(X)'
<1>1. /\ r \in Robots /\ o \in OrderIds /\ orders[o] \in Order
      /\ orders[o].robot = r
      /\ slots \in [Slots -> Slot]
  BY DEF Processing, Owned, IInvBut, Books, TypeOK
<1>2. CASE JoinStack(r, o)
  <2>1. PICK s \in OccupiedFrom(slots, orders[o].home) :
          \/ SkipSettled(r, o, [orders[o] EXCEPT !.slot = s, !.logical = TRUE],
                         [slots EXCEPT ![s] = Stacked(slots[s])])
          \/ FinishLogical(r, o, [orders[o] EXCEPT !.slot = s, !.logical = TRUE],
                           [slots EXCEPT ![s] = Stacked(slots[s])])
    BY <1>2 DEF JoinStack
  <2> DEFINE ord == [orders[o] EXCEPT !.slot = s, !.logical = TRUE]
             new == IF orders[o].status \in Settled THEN ord
                    ELSE [ord EXCEPT !.status = "DONE"]
             left == Stacked(slots[s])
  <2>2. s \in Slots /\ slots[s].status = "OCUPADO" /\ orders[o].slot = NoSlot
    BY <1>2 DEF OccupiedFrom, JoinStack, LooksForBox
  <2>3. left \in Slot /\ left.status = "OCUPADO"
    BY <1>1, <2>2 DEF Stacked, Depth, Slot
  <2>4. new \in Order /\ new.status \in Settled /\ new.robot = r
    BY <1>1, <2>2 DEF Order, Status, Settled
  <2>5. /\ orders' = [orders EXCEPT ![o] = new]
        /\ slots' = [slots EXCEPT ![s] = left]
        /\ ClearActive(r) /\ pc' = [pc EXCEPT ![r] = "cleared"] /\ UNCHANGED at
    BY <1>1, <2>1 DEF SkipSettled, FinishLogical, Order
  <2> HIDE DEF new, left
  <2>6. /\ slots' \in [Slots -> Slot] /\ slots'[s] = left
        /\ \A t \in Slots : t # s => slots'[t] = slots[t]
    BY <1>1, <2>2, <2>3, <2>5
  <2> QED
    BY <2>2, <2>3, <2>4, <2>5, <2>6, SettlingKeepsIInv DEF Held
<1>3. CASE SkipSettled(r, o, orders[o], slots)
  BY <1>1, <1>3, SettlingKeepsIInv DEF SkipSettled
<1>4. CASE FinishLogical(r, o, orders[o], slots)
  <2> DEFINE new == [orders[o] EXCEPT !.status = "DONE"]
  <2>1. new \in Order /\ new.status \in Settled /\ new.robot = r
    BY <1>1 DEF Order, Status, Settled
  <2>2. /\ orders' = [orders EXCEPT ![o] = new] /\ slots' = slots
        /\ orders[o].logical
        /\ ClearActive(r) /\ pc' = [pc EXCEPT ![r] = "cleared"] /\ UNCHANGED at
    BY <1>4 DEF FinishLogical
  <2> HIDE DEF new
  <2> QED
    BY <1>1, <2>1, <2>2, SlotsAssumption, SettlingKeepsIInv
<1>5. CASE Defer(r, o)
  BY <1>5, DeferKeepsIInv
<1>6. CASE WorkInAssignedSlot(r, o)
  <2>1. PICK s \in FreeBeside(orders[o].home) :
          Work(r, o, Started(o, s), [slots EXCEPT ![s] = Reserved(slots[s], o)])
    BY <1>6 DEF WorkInAssignedSlot
  <2> DEFINE book == [slots EXCEPT ![s] = Reserved(slots[s], o)]
  <2>2. /\ s \in Slots /\ slots[s] \in Slot
        /\ slots[s].status = "LIBRE" /\ slots[s].depth = 0
    BY <1>1 DEF FreeBeside, IInvBut, Books, DepthsMatch
  <2>3. /\ Reserved(slots[s], o) \in Slot
        /\ Reserved(slots[s], o).status = "RESERVADO"
        /\ Reserved(slots[s], o).by = o /\ Reserved(slots[s], o).depth = 0
    BY <1>1, <2>2 DEF Reserved, Slot, SlotStatus
  <2>4. /\ book \in [Slots -> Slot] /\ book[s] = Reserved(slots[s], o)
        /\ \A t \in Slots : t # s => book[t] = slots[t]
    BY <1>1, <2>2, <2>3
  <2>6. OneAtMost(Reserved(slots[s], o).depth)
    BY <2>3 DEF OneAtMost
  <2>5. ~orders[o].logical /\ orders[o].slot = NoSlot
    BY <1>6 DEF WorkInAssignedSlot
  <2> HIDE DEF book
  <2> QED
    BY <2>1, <2>2, <2>3, <2>4, <2>5, <2>6, WorkKeepsIInv DEF book
<1>7. CASE WorkInOwnSlot(r, o)
  <2>1. orders[o].slot \in Slots /\ ~orders[o].logical
    BY <1>1, <1>7 DEF WorkInOwnSlot, Order
  <2> QED
    BY <1>1, <1>7, <2>1, WorkKeepsIInv DEF WorkInOwnSlot
<1> QED
  BY <1>2, <1>3, <1>4, <1>5, <1>6, <1>7 DEF ProcessOrder

(***************************************************************************)
(* A loop that finds its active order still there goes on with it.         *)
(***************************************************************************)
LEMMA ResumeActiveKeepsIInv ==
    ASSUME NEW X, IInvBut(X), NEW r \in Robots, ResumeActive(r) PROVE IInvBut(X)'
<1> DEFINE o == queues[r].active
<1>1. o \in OrderIds /\ Owned(o, r)
  BY DEF IInvBut, Books, TypeOK, Queue, QueuesOwnTheirOrders, ResumeActive
<1>2. Processing(r, o)
  BY <1>1 DEF Processing, ResumeActive, IInvBut, Books, TypeOK
<1>3. ProcessOrder(r, o)
  BY DEF ResumeActive
<1> QED
  BY <1>2, <1>3, ProcessOrderKeepsIInv

(***************************************************************************)
(* A dequeued and activated order is processed.                            *)
(***************************************************************************)
LEMMA ProcessActivatedKeepsIInv ==
    ASSUME NEW X, IInvBut(X), NEW r \in Robots, ProcessActivated(r) PROVE IInvBut(X)'
<1>1. /\ hand[r] \in OrderIds /\ Owned(hand[r], r)
      /\ queues[r].active = hand[r]
  BY DEF IInvBut, Books, LoopsOwnTheirOrders, ProcessActivated
<1>2. hand' = [hand EXCEPT ![r] = hand[r]]
  BY DEF IInvBut, Books, TypeOK, ProcessActivated
<1>3. robots' \in [Robots -> Robot]
  BY <1>1 DEF IInvBut, Books, TypeOK, Robot, RobotStatus, ProcessActivated
<1>4. Processing(r, hand[r])
  BY <1>1, <1>2, <1>3 DEF Processing, ProcessActivated
<1> QED
  BY <1>4, ProcessOrderKeepsIInv DEF ProcessActivated

-----------------------------------------------------------------------------
(***************************************************************************)
(* A step that is done moves the order's index, and nothing else of it.    *)
(***************************************************************************)
LEMMA StepDoneKeepsIInv ==
    ASSUME IInv, NEW r \in Robots, StepDone(r) PROVE IInv'
<1> DEFINE o == hand[r]
<1>1. /\ o \in OrderIds /\ orders[o] \in Order
      /\ at[r] \in 0 .. NumSteps /\ StepRemains(at[r])
  BY DEF IInv, Books, TypeOK, LoopsOwnTheirOrders, StepsArePhysical, StepDone
<1>2. at[r] + 1 \in 0 .. NumSteps
  BY <1>1, NumStepsAssumption DEF StepRemains
<1> DEFINE new == [orders[o] EXCEPT !.idx = at[r] + 1]
<1>3. /\ new \in Order /\ new.status = orders[o].status
      /\ new.robot = orders[o].robot /\ new.slot = orders[o].slot
      /\ new.logical = orders[o].logical
  BY <1>1, <1>2 DEF Order
<1>4. PICK p \in {"off", "top"} : pc' = [pc EXCEPT ![r] = p]
  BY DEF StepDone, Continue
<1>5. /\ orders' = [orders EXCEPT ![o] = new] /\ pc[r] = "step"
      /\ UNCHANGED <<slots, queues, robots, hand, at, retrying, ops>>
  BY DEF StepDone
<1> HIDE DEF new, o
<1>6. TypeOK'
  BY <1>3, <1>4, <1>5 DEF IInv, Books, TypeOK, Points
<1>7. LoopsOwnTheirOrders' /\ StepsArePhysical'
  BY <1>1, <1>3, <1>4, <1>5
     DEF IInv, Books, TypeOK, LoopsOwnTheirOrders, StepsArePhysical, Owned
<1>8. QueuesOwnTheirOrders' /\ RetriesNameOrders' /\ DepthsMatch'
  BY <1>1, <1>3, <1>5 DEF IInv, Books, TypeOK, QueuesOwnTheirOrders,
         RetriesNameOrders, DepthsMatch, Owned
<1>9. NoLostOrder'
  BY <1>1, <1>3, <1>4, <1>5
     DEF IInv, Books, TypeOK, Order, NoLostOrder, InSomeonesCare
<1>10. HeldSlotsAreClaimed'
  BY <1>1, <1>3, <1>5 DEF IInv, Books, TypeOK, HeldSlotsAreClaimed, Claims
<1> QED
  BY <1>6, <1>7, <1>8, <1>9, <1>10 DEF IInv, Books

(***************************************************************************)
(* A step that fails leaves the slot blocked by an order in ERROR.         *)
(***************************************************************************)
LEMMA StepFailsKeepsIInv ==
    ASSUME IInv, NEW r \in Robots, StepFails(r) PROVE IInv'
<1> DEFINE o == hand[r]
           s == orders[o].slot
           new == [orders[o] EXCEPT !.status = "ERROR"]
           left == Blocked(slots[s], o)
<1>1. /\ o \in OrderIds /\ orders[o] \in Order /\ Owned(o, r)
      /\ queues[r] \in Queue /\ queues[r].active \in {o, NoOrder}
      /\ ~orders[o].logical /\ orders[o].slot # NoSlot
  BY DEF IInv, Books, TypeOK, LoopsOwnTheirOrders, StepsArePhysical, StepFails
<1>2. s \in Slots /\ slots[s] \in Slot
  BY <1>1 DEF Order, IInv, Books, TypeOK
<1>3. /\ new \in Order /\ new.status = "ERROR"
      /\ new.robot = orders[o].robot /\ new.slot = s /\ ~new.logical
  BY <1>1 DEF Order, Status
<1>4. left \in Slot /\ left.status = "ERROR" /\ left.by = o
  BY <1>1, <1>2, NoOrderIsNone DEF Blocked, WithStatus, Slot, SlotStatus
<1>5. /\ SetActive(queues[r], NoOrder) \in Queue
      /\ SetActive(queues[r], NoOrder).active = NoOrder
      /\ SetActive(queues[r], NoOrder).items = queues[r].items
  BY <1>1, SetActiveOp
<1>6. /\ orders' = [orders EXCEPT ![o] = new]
      /\ slots' = [slots EXCEPT ![s] = left]
      /\ queues' = [queues EXCEPT ![r] = SetActive(queues[r], NoOrder)]
      /\ pc[r] = "step" /\ pc' = [pc EXCEPT ![r] = "failed"]
      /\ UNCHANGED <<robots, hand, at, retrying, ops>>
  BY DEF StepFails, ClearActive
<1>7. hand[r] = o /\ orders[o].slot = s
  OBVIOUS
<1> HIDE DEF new, left, o, s
<1>8. TypeOK'
  BY <1>3, <1>4, <1>5, <1>6 DEF IInv, Books, TypeOK, Points
<1>9. LoopsOwnTheirOrders' /\ StepsArePhysical'
  BY <1>1, <1>3, <1>5, <1>6, <1>7
     DEF IInv, Books, TypeOK, LoopsOwnTheirOrders, StepsArePhysical, Owned
<1>10. QueuesOwnTheirOrders' /\ RetriesNameOrders'
  BY <1>1, <1>3, <1>5, <1>6
     DEF IInv, Books, TypeOK, QueuesOwnTheirOrders, RetriesNameOrders, Owned
<1>11. NoLostOrder'
  BY <1>1, <1>3, <1>5, <1>6, NoOrderIsNone
     DEF IInv, Books, TypeOK, Order, NoLostOrder, InSomeonesCare, Owned
<1>12. HeldSlotsAreClaimed'
  BY <1>1, <1>2, <1>3, <1>4, <1>6, <1>7, NoOrderIsNone
     DEF IInv, Books, TypeOK, HeldSlotsAreClaimed, Claims
<1>13. DepthsMatch'
  BY <1>4, <1>6 DEF IInv, Books, TypeOK, DepthsMatch
<1> QED
  BY <1>8, <1>9, <1>10, <1>11, <1>12, <1>13 DEF IInv, Books

-----------------------------------------------------------------------------
(***************************************************************************)
(* A kick starts a loop that is off and does nothing to another one.       *)
(***************************************************************************)
LEMMA KickedOp ==
    ASSUME pc \in [Robots -> Points], NEW r \in Robots
    PROVE  /\ Kicked(r) \in [Robots -> Points]
           /\ \A q \in Robots :
                \/ Kicked(r)[q] = pc[q]
                \/ pc[q] = "off" /\ Kicked(r)[q] = "top"
BY DEF Kicked, Points

(***************************************************************************)
(* An order is accepted; a slot stays as it was, or only its stack         *)
(* changes, or it is reserved by the new order.                            *)
(***************************************************************************)
LEMMA AcceptKeepsIInv ==
    ASSUME IInv, NEW o \in OrderIds, orders[o].status = "ABSENT",
           NEW ord \in Order, ord.status = "PENDING", NEW r \in Robots,
           ord.robot = r,
           slots' \in [Slots -> Slot],
           \A s \in Slots :
             \/ slots'[s] = slots[s]
             \/ /\ slots'[s].status \notin {"LIBRE", "RESERVADO"}
                /\ slots'[s].status = slots[s].status /\ slots'[s].by = slots[s].by
             \/ /\ slots'[s].status = "RESERVADO" /\ slots'[s].by = o
                /\ OneAtMost(slots'[s].depth)
                /\ ord.slot = s /\ ~ord.logical,
           Accept(o, ord)
    PROVE  IInv'
<1>1. /\ queues[r] \in Queue
      /\ Enqueue(queues[r], o) \in Queue
      /\ Enqueue(queues[r], o).active = queues[r].active
      /\ Members(Enqueue(queues[r], o).items) = Members(queues[r].items) \cup {o}
  BY EnqueueOp DEF IInv, Books, TypeOK
<1>2. /\ orders' = [orders EXCEPT ![o] = ord]
      /\ robots' = [robots EXCEPT ![r] = [robots[r] EXCEPT !.status = "IDLE"]]
      /\ queues' = [queues EXCEPT ![r] = Enqueue(queues[r], o)]
      /\ UNCHANGED <<hand, at, retrying, ops>>
  BY DEF Accept
<1>3. /\ pc' \in [Robots -> Points]
      /\ \A q \in Robots : \/ pc'[q] = pc[q]
                           \/ pc[q] = "off" /\ pc'[q] = "top"
  BY KickedOp DEF Accept, IInv, Books, TypeOK
<1>4. TypeOK'
  <2>1. [robots[r] EXCEPT !.status = "IDLE"] \in Robot
    BY DEF IInv, Books, TypeOK, Robot, RobotStatus
  <2> QED
    BY <1>1, <1>2, <1>3, <2>1 DEF IInv, Books, TypeOK
<1>5. LoopsOwnTheirOrders' /\ StepsArePhysical'
  BY <1>1, <1>2, <1>3
     DEF IInv, Books, TypeOK, LoopsOwnTheirOrders, StepsArePhysical, Owned
<1>6. QueuesOwnTheirOrders' /\ RetriesNameOrders'
  BY <1>1, <1>2
     DEF IInv, Books, TypeOK, QueuesOwnTheirOrders, RetriesNameOrders, Owned
<1>7. NoLostOrder'
  BY <1>1, <1>2, <1>3
     DEF IInv, Books, TypeOK, Order, NoLostOrder, InSomeonesCare
<1>8. HeldSlotsAreClaimed'
  BY <1>2, NoOrderIsNone
     DEF IInv, Books, TypeOK, HeldSlotsAreClaimed, Claims, Held
<1>9. DepthsMatch'
  BY DEF IInv, Books, TypeOK, DepthsMatch, Held
<1> QED
  BY <1>4, <1>5, <1>6, <1>7, <1>8, <1>9 DEF IInv, Books

(***************************************************************************)
(* A submitted PICK.                                                       *)
(***************************************************************************)
LEMMA SubmitPickKeepsIInv ==
    ASSUME IInv, NEW r \in Robots, NEW home \in Homes,
           NEW want \in Slots \cup {NoSlot},
           NEW ext \in ExternalIds \cup {NoExternalId},
           SubmitPick(r, home, want, ext)
    PROVE  IInv'
<1>1. PICK o \in NextId :
        \/ /\ Accept(o, NewOrder("PICK", r, home, want, ext))
           /\ UNCHANGED slots
        \/ \E s \in OccupiedFrom(slots, home) :
             /\ slots' = [slots EXCEPT ![s] = Stacked(slots[s])]
             /\ Accept(o, [NewOrder("PICK", r, home, s, ext)
                             EXCEPT !.logical = TRUE])
  BY DEF SubmitPick
<1>2. o \in OrderIds /\ orders[o].status = "ABSENT" /\ slots \in [Slots -> Slot]
  BY DEF NextId, IInv, Books, TypeOK
<1>3. CASE Accept(o, NewOrder("PICK", r, home, want, ext)) /\ UNCHANGED slots
  <2> DEFINE ord == NewOrder("PICK", r, home, want, ext)
  <2>1. ord \in Order /\ ord.status = "PENDING" /\ ord.robot = r
    BY NumStepsAssumption DEF NewOrder, Order, Status
  <2> HIDE DEF ord
  <2> QED
    BY <1>2, <1>3, <2>1, AcceptKeepsIInv DEF ord
<1>4. CASE \E s \in OccupiedFrom(slots, home) :
             /\ slots' = [slots EXCEPT ![s] = Stacked(slots[s])]
             /\ Accept(o, [NewOrder("PICK", r, home, s, ext)
                             EXCEPT !.logical = TRUE])
  <2>1. PICK s \in OccupiedFrom(slots, home) :
             /\ slots' = [slots EXCEPT ![s] = Stacked(slots[s])]
             /\ Accept(o, [NewOrder("PICK", r, home, s, ext)
                             EXCEPT !.logical = TRUE])
    BY <1>4
  <2> DEFINE ord == [NewOrder("PICK", r, home, s, ext) EXCEPT !.logical = TRUE]
             left == Stacked(slots[s])
  <2>2. s \in Slots /\ slots[s] \in Slot /\ slots[s].status = "OCUPADO"
    BY <1>2 DEF OccupiedFrom
  <2>3. ord \in Order /\ ord.status = "PENDING" /\ ord.robot = r
    <3>1. /\ NewOrder("PICK", r, home, s, ext) \in Order
          /\ NewOrder("PICK", r, home, s, ext).status = "PENDING"
          /\ NewOrder("PICK", r, home, s, ext).robot = r
      BY <2>2, NumStepsAssumption DEF NewOrder, Order, Status
    <3> QED
      BY <3>1 DEF Order
  <2>4. left \in Slot /\ left.status = "OCUPADO" /\ left.by = slots[s].by
    BY <2>2 DEF Stacked, Depth, Slot
  <2>5. slots' = [slots EXCEPT ![s] = left] /\ Accept(o, ord)
    BY <2>1
  <2> HIDE DEF ord, left
  <2>6. /\ slots' \in [Slots -> Slot]
        /\ slots'[s] = left
        /\ \A t \in Slots : t # s => slots'[t] = slots[t]
    BY <1>2, <2>2, <2>4, <2>5
  <2> QED
    BY <1>2, <2>2, <2>3, <2>4, <2>5, <2>6, AcceptKeepsIInv
<1> QED
  BY <1>1, <1>3, <1>4

(***************************************************************************)
(* A submitted PUT.                                                        *)
(***************************************************************************)
LEMMA SubmitPutKeepsIInv ==
    ASSUME IInv, NEW r \in Robots, NEW home \in Homes \cup {NoHome},
           NEW s \in Slots, NEW ext \in ExternalIds \cup {NoExternalId},
           SubmitPut(r, home, s, ext)
    PROVE  IInv'
<1> DEFINE ord == NewOrder("PUT", r, home, s, ext)
<1>1. PICK o \in NextId :
        \/ /\ Depth(slots[s]) > 1
           /\ slots' = [slots EXCEPT ![s] = Unstacked(slots[s])]
           /\ Accept(o, [ord EXCEPT !.logical = TRUE])
        \/ /\ Depth(slots[s]) <= 1 /\ ReservableForPut(slots[s])
           /\ slots' = [slots EXCEPT ![s] = Reserved(slots[s], o)]
           /\ Accept(o, ord)
        \/ /\ Accept(o, [ord EXCEPT !.waiting = TRUE])
           /\ UNCHANGED slots
  BY DEF SubmitPut
<1>2. /\ o \in OrderIds /\ orders[o].status = "ABSENT"
      /\ slots \in [Slots -> Slot] /\ slots[s] \in Slot
      /\ slots[s].status = "LIBRE" => slots[s].depth = 0
      /\ slots[s].status = "RESERVADO" => OneAtMost(slots[s].depth)
  BY DEF NextId, IInv, Books, TypeOK, DepthsMatch
<1>3. /\ ord \in Order /\ ord.status = "PENDING" /\ ord.robot = r
      /\ ord.slot = s /\ ~ord.logical
  BY NumStepsAssumption DEF NewOrder, Order, Status
<1> HIDE DEF ord
<1>4. CASE /\ Depth(slots[s]) > 1
           /\ slots' = [slots EXCEPT ![s] = Unstacked(slots[s])]
           /\ Accept(o, [ord EXCEPT !.logical = TRUE])
  <2> DEFINE new == [ord EXCEPT !.logical = TRUE]
             left == Unstacked(slots[s])
  <2>1. new \in Order /\ new.status = "PENDING" /\ new.robot = r
    BY <1>3 DEF Order
  <2>2. slots[s].depth \in Nat /\ slots[s].depth > 1
    BY <1>2, <1>4 DEF Slot, Depth
  <2>3. slots[s].status \notin {"LIBRE", "RESERVADO"}
    BY <1>2, <2>2 DEF OneAtMost
  <2>4. left \in Slot /\ left.status = slots[s].status /\ left.by = slots[s].by
    BY <1>2, <2>2 DEF Unstacked, Depth, Slot
  <2>5. slots' = [slots EXCEPT ![s] = left] /\ Accept(o, new)
    BY <1>4
  <2> HIDE DEF new, left
  <2>6. /\ slots' \in [Slots -> Slot] /\ slots'[s] = left
        /\ \A t \in Slots : t # s => slots'[t] = slots[t]
    BY <1>2, <2>4, <2>5
  <2> QED
    BY <1>2, <2>1, <2>3, <2>4, <2>5, <2>6, AcceptKeepsIInv
<1>5. CASE /\ Depth(slots[s]) <= 1 /\ ReservableForPut(slots[s])
           /\ slots' = [slots EXCEPT ![s] = Reserved(slots[s], o)]
           /\ Accept(o, ord)
  <2> DEFINE left == Reserved(slots[s], o)
  <2>1. /\ left \in Slot /\ left.status = "RESERVADO" /\ left.by = o
        /\ left.depth = slots[s].depth
    BY <1>2 DEF Reserved, Slot, SlotStatus
  <2>2. OneAtMost(left.depth)
    <3>1. slots[s].depth \in Nat
      BY <1>2 DEF Slot
    <3>2. slots[s].depth <= 1
      BY <1>5, <3>1 DEF Depth
    <3> QED
      BY <2>1, <3>2 DEF OneAtMost
  <2>3. slots' = [slots EXCEPT ![s] = left] /\ Accept(o, ord)
    BY <1>5
  <2> HIDE DEF left
  <2>4. /\ slots' \in [Slots -> Slot] /\ slots'[s] = left
        /\ \A t \in Slots : t # s => slots'[t] = slots[t]
    BY <1>2, <2>1, <2>3
  <2> QED
    BY <1>2, <1>3, <2>1, <2>2, <2>3, <2>4, AcceptKeepsIInv
<1>6. CASE Accept(o, [ord EXCEPT !.waiting = TRUE]) /\ UNCHANGED slots
  <2> DEFINE new == [ord EXCEPT !.waiting = TRUE]
  <2>1. new \in Order /\ new.status = "PENDING" /\ new.robot = r
    BY <1>3 DEF Order
  <2>2. Accept(o, new) /\ UNCHANGED slots
    BY <1>6
  <2> HIDE DEF new
  <2> QED
    BY <1>2, <2>1, <2>2, AcceptKeepsIInv
<1> QED
  BY <1>1, <1>4, <1>5, <1>6

-----------------------------------------------------------------------------
(***************************************************************************)
(* A retry names an existing order when it goes to the PLC.                *)
(***************************************************************************)
LEMMA RetryBeginsKeepsIInv ==
    ASSUME IInv, NEW o \in OrderIds, RetryBegins(o) PROVE IInv'
<1>1. TypeOK'
  BY DEF IInv, Books, TypeOK, RetryBegins, Intervene, bookVars, loopVars
<1>2. LoopsOwnTheirOrders' /\ StepsArePhysical'
  BY DEF IInv, Books, LoopsOwnTheirOrders, StepsArePhysical, Owned, RetryBegins,
         bookVars, loopVars
<1>3. QueuesOwnTheirOrders' /\ DepthsMatch'
  BY DEF IInv, Books, QueuesOwnTheirOrders, Owned, DepthsMatch, RetryBegins,
         bookVars
<1>4. RetriesNameOrders'
  BY DEF IInv, Books, TypeOK, RetriesNameOrders, RetryBegins, bookVars, Exists
<1>5. NoLostOrder'
  BY DEF IInv, Books, NoLostOrder, InSomeonesCare, RetryBegins, bookVars,
         loopVars
<1>6. HeldSlotsAreClaimed'
  BY DEF IInv, Books, HeldSlotsAreClaimed, Claims, RetryBegins, bookVars
<1> QED
  BY <1>1, <1>2, <1>3, <1>4, <1>5, <1>6 DEF IInv, Books

(***************************************************************************)
(* A retry that succeeds puts the order at the end of its robot's queue.   *)
(***************************************************************************)
LEMMA RetryEndsKeepsIInv ==
    ASSUME IInv, NEW o \in OrderIds, RetryEnds(o) PROVE IInv'
<1> DEFINE r == orders[o].robot
           new == [orders[o] EXCEPT !.status = "PENDING", !.idx = 0,
                                    !.waiting = FALSE]
<1>1. /\ orders[o] \in Order /\ r \in Robots
      /\ orders[o].status # "ABSENT"
  BY DEF IInv, Books, TypeOK, Order, RetriesNameOrders, RetryEnds
<1>2. /\ queues[r] \in Queue
      /\ Enqueue(queues[r], o) \in Queue
      /\ Enqueue(queues[r], o).active = queues[r].active
      /\ Members(Enqueue(queues[r], o).items) = Members(queues[r].items) \cup {o}
  BY <1>1, EnqueueOp DEF IInv, Books, TypeOK
<1>3. /\ new \in Order /\ new.status = "PENDING" /\ new.robot = r
      /\ new.slot = orders[o].slot /\ new.logical = orders[o].logical
  <2>1. 0 \in 0 .. NumSteps
    BY NumStepsAssumption
  <2> QED
    BY <1>1, <2>1 DEF Order, Status
<1>4. /\ orders' = [orders EXCEPT ![o] = new]
      /\ queues' = [queues EXCEPT ![r] = Enqueue(queues[r], o)]
      /\ robots' = [robots EXCEPT ![r] = [status |-> "IDLE", cur |-> NoOrder]]
      /\ retrying' = [retrying EXCEPT ![o] = retrying[o] - 1]
      /\ retrying[o] > 0
      /\ UNCHANGED <<slots, hand, at, ops>>
  BY DEF RetryEnds
<1>5. /\ pc' \in [Robots -> Points]
      /\ \A q \in Robots : \/ pc'[q] = pc[q]
                           \/ pc[q] = "off" /\ pc'[q] = "top"
  BY <1>1, KickedOp DEF RetryEnds, IInv, Books, TypeOK
<1>6. orders[o].robot = r
  OBVIOUS
<1> HIDE DEF r, new
<1>7. TypeOK'
  <2>1. retrying' \in [OrderIds -> Nat]
    BY <1>4 DEF IInv, Books, TypeOK
  <2>2. robots' \in [Robots -> Robot]
    BY <1>4 DEF IInv, Books, TypeOK, Robot, RobotStatus
  <2> QED
    BY <1>2, <1>3, <1>4, <1>5, <2>1, <2>2 DEF IInv, Books, TypeOK
<1>8. LoopsOwnTheirOrders' /\ StepsArePhysical'
  BY <1>1, <1>2, <1>3, <1>4, <1>5, <1>6
     DEF IInv, Books, TypeOK, LoopsOwnTheirOrders, StepsArePhysical, Owned
<1>9. QueuesOwnTheirOrders'
  BY <1>1, <1>2, <1>3, <1>4, <1>6
     DEF IInv, Books, TypeOK, QueuesOwnTheirOrders, Owned
<1>10. RetriesNameOrders'
  BY <1>1, <1>3, <1>4 DEF IInv, Books, TypeOK, RetriesNameOrders
<1>11. NoLostOrder'
  BY <1>1, <1>2, <1>3, <1>4, <1>5, <1>6
     DEF IInv, Books, TypeOK, Order, NoLostOrder, InSomeonesCare
<1>12. HeldSlotsAreClaimed' /\ DepthsMatch'
  BY <1>1, <1>3, <1>4
     DEF IInv, Books, TypeOK, HeldSlotsAreClaimed, Claims, DepthsMatch
<1> QED
  BY <1>7, <1>8, <1>9, <1>10, <1>11, <1>12 DEF IInv, Books

(***************************************************************************)
(* A retry that fails changes no book.                                     *)
(***************************************************************************)
LEMMA RetryFailsKeepsIInv ==
    ASSUME IInv, NEW o \in OrderIds, RetryFails(o) PROVE IInv'
<1>1. TypeOK'
  BY DEF IInv, Books, TypeOK, RetryFails, bookVars, loopVars
<1>2. LoopsOwnTheirOrders' /\ StepsArePhysical'
  BY DEF IInv, Books, LoopsOwnTheirOrders, StepsArePhysical, Owned, RetryFails,
         bookVars, loopVars
<1>3. QueuesOwnTheirOrders' /\ DepthsMatch'
  BY DEF IInv, Books, QueuesOwnTheirOrders, Owned, DepthsMatch, RetryFails,
         bookVars
<1>4. RetriesNameOrders'
  BY DEF IInv, Books, TypeOK, RetriesNameOrders, RetryFails, bookVars
<1>5. NoLostOrder'
  BY DEF IInv, Books, NoLostOrder, InSomeonesCare, RetryFails, bookVars,
         loopVars
<1>6. HeldSlotsAreClaimed'
  BY DEF IInv, Books, HeldSlotsAreClaimed, Claims, RetryFails, bookVars
<1> QED
  BY <1>1, <1>2, <1>3, <1>4, <1>5, <1>6 DEF IInv, Books

(***************************************************************************)
(* A cancelled order leaves its queue, and its slot when it still holds it.*)
(***************************************************************************)
LEMMA CancelOrderKeepsIInv ==
    ASSUME IInv, NEW o \in OrderIds, CancelOrder(o) PROVE IInv'
<1> DEFINE r == orders[o].robot
           s == orders[o].slot
           new == [orders[o] EXCEPT !.status = "CANCELED"]
<1>1. /\ orders[o] \in Order /\ r \in Robots /\ s \in Slots \cup {NoSlot}
      /\ orders[o].status # "ABSENT"
  BY DEF IInv, Books, TypeOK, Order, CancelOrder, Exists
<1>2. /\ queues[r] \in Queue
      /\ RemoveOrder(queues[r], o, NoOrder) \in Queue
      /\ RemoveOrder(queues[r], o, NoOrder).active =
            IF queues[r].active = o THEN NoOrder ELSE queues[r].active
      /\ Members(RemoveOrder(queues[r], o, NoOrder).items) =
            Members(queues[r].items) \ {o}
  BY <1>1, RemoveOrderOp DEF IInv, Books, TypeOK
<1>3. /\ new \in Order /\ new.status = "CANCELED" /\ new.robot = r
      /\ new.slot = s /\ new.logical = orders[o].logical
  BY <1>1 DEF Order, Status
<1>4. /\ orders' = [orders EXCEPT ![o] = new]
      /\ queues' = [queues EXCEPT ![r] = RemoveOrder(queues[r], o, NoOrder)]
      /\ robots' = [robots EXCEPT ![r] = [status |-> "IDLE", cur |-> NoOrder]]
      /\ UNCHANGED <<pc, hand, at, retrying>>
      /\ ops' = ops + 1
      /\ \A q \in Robots : pc[q] \in {"off", "step"}
  BY DEF CancelOrder, Intervene, loopVars, Calm
<1>5. slots' \in [Slots -> Slot] /\ (\A t \in Slots : t # s => slots'[t] = slots[t])
  <2>1. ASSUME NEW slot \in Slot PROVE GiveBack(slot, o) \in Slot
    <3>1. ClearSlot \in Slot
      BY DEF ClearSlot, Slot, SlotStatus
    <3>2. WithStatus(slot, "OCUPADO", NoOrder) \in Slot
      BY DEF WithStatus, Slot, SlotStatus
    <3> QED
      BY <3>1, <3>2 DEF GiveBack
  <2> QED
    BY <1>1, <2>1 DEF IInv, Books, TypeOK, CancelOrder
<1>6. s \in Slots => \/ slots'[s] = slots[s] /\ slots[s].by # o
                    \/ /\ slots'[s].status \notin Held
                       /\ slots'[s].status = "LIBRE" => slots'[s].depth = 0
  BY <1>1, SlotsAssumption
    
       DEF IInv, Books, TypeOK, CancelOrder, GiveBack, ClearSlot, WithStatus,
           Slot, Held
<1>7. orders[o].robot = r /\ orders[o].slot = s
  OBVIOUS
<1> HIDE DEF r, s, new
<1>8. TypeOK'
  <2>1. robots' \in [Robots -> Robot]
    BY <1>4 DEF IInv, Books, TypeOK, Robot, RobotStatus
  <2> QED
    BY <1>2, <1>3, <1>4, <1>5, <2>1 DEF IInv, Books, TypeOK
<1>9. LoopsOwnTheirOrders' /\ StepsArePhysical'
  BY <1>1, <1>2, <1>3, <1>4, <1>7
     DEF IInv, Books, TypeOK, LoopsOwnTheirOrders, StepsArePhysical, Owned
<1>10. QueuesOwnTheirOrders' /\ RetriesNameOrders'
  BY <1>1, <1>2, <1>3, <1>4, <1>7
     DEF IInv, Books, TypeOK, QueuesOwnTheirOrders, RetriesNameOrders, Owned
<1>11. NoLostOrder'
  BY <1>1, <1>2, <1>3, <1>4, <1>7
     DEF IInv, Books, TypeOK, Order, NoLostOrder, InSomeonesCare
<1>12. HeldSlotsAreClaimed'
  BY <1>1, <1>3, <1>4, <1>5, <1>6, <1>7
     DEF IInv, Books, TypeOK, HeldSlotsAreClaimed, Claims
<1>13. DepthsMatch'
  BY <1>5, <1>6 DEF IInv, Books, TypeOK, DepthsMatch, Held
<1> QED
  BY <1>8, <1>9, <1>10, <1>11, <1>12, <1>13 DEF IInv, Books

(***************************************************************************)
(* A slot that is released by hand is free, whoever claimed it.            *)
(***************************************************************************)
LEMMA ReleaseSlotKeepsIInv ==
    ASSUME IInv, NEW s \in Slots, ReleaseSlot(s) PROVE IInv'
<1>1. /\ slots' = [slots EXCEPT ![s] = ClearSlot] /\ ops' = ops + 1
      /\ UNCHANGED <<orders, queues, robots, pc, hand, at, retrying>>
  BY DEF ReleaseSlot, Intervene, loopVars
<1>2. ClearSlot \in Slot /\ ClearSlot.status = "LIBRE" /\ ClearSlot.depth = 0
  BY DEF ClearSlot, Slot, SlotStatus
<1>3. TypeOK'
  BY <1>1, <1>2 DEF IInv, Books, TypeOK
<1>4. LoopsOwnTheirOrders' /\ StepsArePhysical'
  BY <1>1 DEF IInv, Books, LoopsOwnTheirOrders, StepsArePhysical, Owned
<1>5. QueuesOwnTheirOrders' /\ RetriesNameOrders'
  BY <1>1 DEF IInv, Books, QueuesOwnTheirOrders, RetriesNameOrders, Owned
<1>6. NoLostOrder'
  BY <1>1 DEF IInv, Books, NoLostOrder, InSomeonesCare
<1>7. HeldSlotsAreClaimed' /\ DepthsMatch'
  BY <1>1, <1>2
     DEF IInv, Books, TypeOK, HeldSlotsAreClaimed, Claims, DepthsMatch, Held
<1> QED
  BY <1>3, <1>4, <1>5, <1>6, <1>7 DEF IInv, Books

(***************************************************************************)
(* Pausing or resuming a queue moves no order.                             *)
(***************************************************************************)
LEMMA PauseKeepsIInv ==
    ASSUME IInv, NEW r \in Robots, PauseQueue(r) \/ ResumeQueue(r) PROVE IInv'
<1>1. PICK b \in BOOLEAN :
        queues' = [queues EXCEPT ![r] = WithPause(queues[r], b)]
  BY DEF PauseQueue, ResumeQueue
<1>2. /\ WithPause(queues[r], b) \in Queue
      /\ WithPause(queues[r], b).active = queues[r].active
      /\ WithPause(queues[r], b).items = queues[r].items
  BY WithPauseOp DEF IInv, Books, TypeOK
<1>3. /\ UNCHANGED <<orders, slots, robots, pc, hand, at, retrying>>
      /\ ops' \in {ops, ops + 1}
  BY DEF PauseQueue, ResumeQueue, Intervene, loopVars
<1>4. TypeOK'
  BY <1>1, <1>2, <1>3 DEF IInv, Books, TypeOK
<1>5. LoopsOwnTheirOrders' /\ StepsArePhysical'
  BY <1>1, <1>2, <1>3
     DEF IInv, Books, TypeOK, LoopsOwnTheirOrders, StepsArePhysical, Owned
<1>6. QueuesOwnTheirOrders' /\ RetriesNameOrders'
  BY <1>1, <1>2, <1>3
     DEF IInv, Books, TypeOK, QueuesOwnTheirOrders, RetriesNameOrders, Owned
<1>7. NoLostOrder'
  BY <1>1, <1>2, <1>3
     DEF IInv, Books, TypeOK, Order, NoLostOrder, InSomeonesCare
<1>8. HeldSlotsAreClaimed' /\ DepthsMatch'
  BY <1>3 DEF IInv, Books, HeldSlotsAreClaimed, Claims, DepthsMatch
<1> QED
  BY <1>4, <1>5, <1>6, <1>7, <1>8 DEF IInv, Books

(***************************************************************************)
(* Registering a device changes what is shown of the robot.                *)
(***************************************************************************)
LEMMA RegisterDeviceKeepsIInv ==
    ASSUME IInv, NEW r \in Robots, RegisterDevice(r) PROVE IInv'
<1>1. /\ robots' = [robots EXCEPT ![r] = [robots[r] EXCEPT !.status = "IDLE"]]
      /\ UNCHANGED <<orders, slots, queues, pc, hand, at, retrying>>
      /\ ops' = ops + 1
  BY DEF RegisterDevice, Intervene, bookVars, loopVars
<1>2. [robots[r] EXCEPT !.status = "IDLE"] \in Robot
  BY DEF IInv, Books, TypeOK, Robot, RobotStatus
<1>3. TypeOK'
  BY <1>1, <1>2 DEF IInv, Books, TypeOK
<1>4. LoopsOwnTheirOrders' /\ StepsArePhysical'
  BY <1>1 DEF IInv, Books, LoopsOwnTheirOrders, StepsArePhysical, Owned
<1>5. QueuesOwnTheirOrders' /\ RetriesNameOrders'
  BY <1>1 DEF IInv, Books, QueuesOwnTheirOrders, RetriesNameOrders, Owned
<1>6. NoLostOrder'
  BY <1>1 DEF IInv, Books, NoLostOrder, InSomeonesCare
<1>7. HeldSlotsAreClaimed' /\ DepthsMatch'
  BY <1>1 DEF IInv, Books, HeldSlotsAreClaimed, Claims, DepthsMatch
<1> QED
  BY <1>3, <1>4, <1>5, <1>6, <1>7 DEF IInv, Books

-----------------------------------------------------------------------------
(***************************************************************************)
(* A loop's step keeps the invariant, whichever orders nobody cares for.   *)
(***************************************************************************)
LEMMA ResumeKeepsIInvBut ==
    ASSUME NEW X, IInvBut(X), NEW r \in Robots, Resume(r)
    PROVE  IInvBut(X)'
<1>1. CASE NothingToDo(r)
  BY <1>1, NothingToDoKeepsIInv
<1>2. CASE Dequeue(r)
  BY <1>2, DequeueKeepsIInv
<1>3. CASE Activate(r)
  BY <1>3, ActivateKeepsIInv
<1>4. CASE ResumeActive(r)
  BY <1>4, ResumeActiveKeepsIInv
<1>5. CASE ProcessActivated(r)
  BY <1>5, ProcessActivatedKeepsIInv
<1>6. CASE Requeue(r)
  BY <1>6, RequeueKeepsIInv
<1>7. CASE FreeRobot(r)
  BY <1>7, FreeRobotKeepsIInv
<1>8. CASE RobotFails(r)
  BY <1>8, RobotFailsKeepsIInv
<1> QED
  BY <1>1, <1>2, <1>3, <1>4, <1>5, <1>6, <1>7, <1>8 DEF Resume

(***************************************************************************)
(* A step of one loop leaves the others where they are.                    *)
(***************************************************************************)
LEMMA ResumeMovesOneLoop ==
    ASSUME Books, NEW r \in Robots, Resume(r)
    PROVE  \A q \in Robots \ {r} :
              pc'[q] = pc[q] /\ hand'[q] = hand[q] /\ queues'[q] = queues[q]
<1>1. /\ pc \in [Robots -> Points]
      /\ hand \in [Robots -> OrderIds \cup {NoOrder}]
      /\ queues \in [Robots -> Queue]
  BY DEF Books, TypeOK
<1>2. \E p : pc' = [pc EXCEPT ![r] = p]
  <2>1. ASSUME NEW o, ProcessOrder(r, o)
        PROVE  \E p : pc' = [pc EXCEPT ![r] = p]
    BY <2>1 DEF ProcessOrder, JoinStack, SkipSettled, FinishLogical, Defer,
                WorkInAssignedSlot, WorkInOwnSlot, Work, FinishPhysical,
                StartStep, LoopDies
  <2> QED
    BY <2>1 DEF Resume, NothingToDo, Dequeue, Activate, ResumeActive,
                ProcessActivated, Requeue, FreeRobot, RobotFails, Continue
<1>3. \E o : hand' = [hand EXCEPT ![r] = o]
  <2>1. hand = [hand EXCEPT ![r] = hand[r]]
    BY <1>1
  <2> QED
    BY <2>1 DEF Resume, NothingToDo, Dequeue, Activate, ResumeActive,
                ProcessActivated, Requeue, FreeRobot, RobotFails
<1>4. \E q : queues' = [queues EXCEPT ![r] = q]
  <2>1. queues = [queues EXCEPT ![r] = queues[r]]
    BY <1>1
  <2>2. ASSUME NEW o, ProcessOrder(r, o)
        PROVE  \E q : queues' = [queues EXCEPT ![r] = q]
    BY <2>1, <2>2
       DEF ProcessOrder, JoinStack, SkipSettled, FinishLogical, Defer,
           WorkInAssignedSlot, WorkInOwnSlot, Work, FinishPhysical,
           StartStep, LoopDies, ClearActive
  <2> QED
    BY <2>1, <2>2 DEF Resume, NothingToDo, Dequeue, Activate, ResumeActive,
                ProcessActivated, Requeue, FreeRobot, RobotFails, bookVars
<1> QED
  BY <1>1, <1>2, <1>3, <1>4

(***************************************************************************)
(* Every step keeps the invariant.                                         *)
(***************************************************************************)
LEMMA NextIInv == IInv /\ [Next]_vars => IInv'
<1> SUFFICES ASSUME IInv, [Next]_vars PROVE IInv'
  OBVIOUS
<1>1. CASE Tick
  BY <1>1, TickKeepsIInv
<1>2. ASSUME NEW r \in Robots, Resume(r) PROVE IInv'
  <2>1. IInvBut({})
    BY DEF IInv, IInvBut, NoLostOrder, NoneLostBut
  <2>2. IInvBut({})'
    BY <1>2, <2>1, ResumeKeepsIInvBut
  <2> QED
    BY <2>2 DEF IInv, IInvBut, NoLostOrder, NoneLostBut
<1>3. ASSUME NEW r \in Robots, PlcAnswers(r) PROVE IInv'
  BY <1>3, StepDoneKeepsIInv, StepFailsKeepsIInv DEF PlcAnswers
<1>4. ASSUME NEW r \in Robots, Submit(r) PROVE IInv'
  <2>1. PICK ext \in ExternalIds \cup {NoExternalId} :
          \/ \E home \in Homes, want \in Slots \cup {NoSlot} :
               SubmitPick(r, home, want, ext)
          \/ \E home \in Unreachable \cup {NoHome}, s \in Slots :
               SubmitPut(r, home, s, ext)
    BY <1>4 DEF Submit
  <2>2. ASSUME NEW home \in Homes, NEW want \in Slots \cup {NoSlot},
               SubmitPick(r, home, want, ext)
        PROVE  IInv'
    BY <2>2, SubmitPickKeepsIInv
  <2>3. ASSUME NEW home \in Unreachable \cup {NoHome}, NEW s \in Slots,
               SubmitPut(r, home, s, ext)
        PROVE  IInv'
    <3>1. home \in Homes \cup {NoHome}
      BY UnreachableAssumption
    <3> QED
      BY <2>3, <3>1, SubmitPutKeepsIInv
  <2> QED
    BY <2>1, <2>2, <2>3
<1>5. ASSUME NEW o \in OrderIds, RetryReturns(o) PROVE IInv'
  BY <1>5, RetryEndsKeepsIInv, RetryFailsKeepsIInv DEF RetryReturns
<1>6. ASSUME NEW o \in OrderIds, RetryBegins(o) \/ CancelOrder(o) PROVE IInv'
  BY <1>6, RetryBeginsKeepsIInv, CancelOrderKeepsIInv
<1>7. ASSUME NEW s \in Slots, ReleaseSlot(s) PROVE IInv'
  BY <1>7, ReleaseSlotKeepsIInv
<1>8. ASSUME NEW r \in Robots,
             PauseQueue(r) \/ ResumeQueue(r) \/ RegisterDevice(r)
      PROVE  IInv'
  BY <1>8, PauseKeepsIInv, RegisterDeviceKeepsIInv
<1>9. CASE UNCHANGED vars
  BY <1>9
     DEF vars, IInv, Books, TypeOK, LoopsOwnTheirOrders, StepsArePhysical,
         Owned,
              QueuesOwnTheirOrders, RetriesNameOrders, NoLostOrder,
              InSomeonesCare, HeldSlotsAreClaimed, Claims, DepthsMatch
<1> QED
  BY <1>1, <1>2, <1>3, <1>4, <1>5, <1>6, <1>7, <1>8, <1>9 DEF Next, Operate

(***************************************************************************)
(* The inductive invariant holds in every reachable state.                 *)
(***************************************************************************)
THEOREM Invariance == Spec => []IInv
BY InitIInv, NextIInv, PTL DEF Spec

(***************************************************************************)
(* Every variable has its type; a step index never passes the last step.   *)
(***************************************************************************)
THEOREM TypeCorrectness == Spec => []TypeOK
<1>1. IInv => TypeOK
  BY DEF IInv, Books
<1> QED
  BY <1>1, Invariance, PTL

(***************************************************************************)
(* No interleaving of loops, timers and API calls loses an order.          *)
(***************************************************************************)
THEOREM OrdersAreNotLost == Spec => []NoLostOrder
<1>1. IInv => NoLostOrder
  BY DEF IInv, Books
<1> QED
  BY <1>1, Invariance, PTL

(***************************************************************************)
(* A slot that is held names an unfinished order that uses it.             *)
(***************************************************************************)
THEOREM SlotsAreNotStranded == Spec => []NoStrandedSlot
<1>1. IInv => NoStrandedSlot
  BY DEF IInv, Books, HeldSlotsAreClaimed, Claims, NoStrandedSlot
<1> QED
  BY <1>1, Invariance, PTL

(***************************************************************************)
(* A slot reserved for one PUT holds no shared box.                        *)
(***************************************************************************)
THEOREM ReservedBoxesAreNotShared == Spec => []ReservedBoxServesOneOrder
<1>1. IInv => ReservedBoxServesOneOrder
  <2> SUFFICES ASSUME IInv, NEW s \in Slots, slots[s].status = "RESERVADO"
               PROVE  Depth(slots[s]) = 1
    BY DEF ReservedBoxServesOneOrder
  <2>1. slots[s].depth \in Nat /\ slots[s].depth <= 1
    BY DEF IInv, Books, TypeOK, Slot, DepthsMatch, OneAtMost
  <2> QED
    BY <2>1 DEF Depth
<1> QED
  BY <1>1, Invariance, PTL

(***************************************************************************)
(* A robot at the PLC works for its queue's active order.                  *)
(***************************************************************************)
THEOREM RobotsMoveForActiveOrders == Spec => []MovesForItsActiveOrder
<1>1. IInv => MovesForItsActiveOrder
  BY NoOrderIsNone
     DEF IInv, Books, LoopsOwnTheirOrders, StepsArePhysical, Owned,
                       MovesForItsActiveOrder
<1> QED
  BY <1>1, Invariance, PTL

-----------------------------------------------------------------------------
(***************************************************************************)
(* What a step does to an order that is DONE: nothing, or an operator's    *)
(* retry ends, or an operator cancels it.                                  *)
(***************************************************************************)
ReopenedByOperator(o) ==
    \/ retrying'[o] < retrying[o] /\ orders'[o].status = "PENDING"
    \/ ops' > ops /\ orders'[o].status = "CANCELED"

DoneIsKept ==
    \A o \in OrderIds :
        orders[o].status = "DONE" /\ orders'[o].status # "DONE" =>
            ReopenedByOperator(o)

(***************************************************************************)
(* processOrder leaves a DONE order as it is, its own and any other.       *)
(***************************************************************************)
LEMMA ProcessOrderKeepsDone ==
    ASSUME TypeOK, NEW r, NEW o \in OrderIds, ProcessOrder(r, o) PROVE DoneIsKept
<1> SUFFICES \/ orders' = orders
             \/ \E new : /\ orders' = [orders EXCEPT ![o] = new]
                         /\ orders[o].status = "DONE" => new.status = "DONE"
  BY DEF TypeOK, DoneIsKept
<1>1. orders[o] \in Order
  BY DEF TypeOK
<1>2. CASE JoinStack(r, o)
  <2>1. PICK s \in Slots :
          \/ SkipSettled(r, o, [orders[o] EXCEPT !.slot = s, !.logical = TRUE],
                         [slots EXCEPT ![s] = Stacked(slots[s])])
          \/ FinishLogical(r, o, [orders[o] EXCEPT !.slot = s, !.logical = TRUE],
                           [slots EXCEPT ![s] = Stacked(slots[s])])
    BY <1>2 DEF JoinStack, OccupiedFrom
  <2> DEFINE ord == [orders[o] EXCEPT !.slot = s, !.logical = TRUE]
  <2>2. ord.status = orders[o].status /\ [ord EXCEPT !.status = "DONE"].status = "DONE"
    BY <1>1 DEF Order
  <2>3. \/ orders' = [orders EXCEPT ![o] = ord]
        \/ orders' = [orders EXCEPT ![o] = [ord EXCEPT !.status = "DONE"]]
    BY <2>1 DEF SkipSettled, FinishLogical
  <2> HIDE DEF ord
  <2> QED
    BY <2>2, <2>3
<1>3. CASE SkipSettled(r, o, orders[o], slots)
  BY <1>3 DEF SkipSettled, TypeOK
<1>4. CASE FinishLogical(r, o, orders[o], slots) \/ Defer(r, o)
           \/ WorkInAssignedSlot(r, o) \/ WorkInOwnSlot(r, o)
  <2>1. orders[o].status # "DONE"
    BY <1>4 DEF FinishLogical, Defer, WorkInAssignedSlot, WorkInOwnSlot, Settled
  <2>2. \E new : orders' = [orders EXCEPT ![o] = new]
    BY <1>4 DEF FinishLogical, Defer, WorkInAssignedSlot, WorkInOwnSlot, Work,
                FinishPhysical, StartStep, LoopDies
  <2> QED
    BY <2>1, <2>2
<1> QED
  BY <1>2, <1>3, <1>4 DEF ProcessOrder

(***************************************************************************)
(* Every step keeps it.                                                    *)
(***************************************************************************)
LEMMA NextKeepsDone == IInv /\ [Next]_vars => DoneIsKept
<1> SUFFICES ASSUME IInv, [Next]_vars PROVE DoneIsKept
  OBVIOUS
<1>0. TypeOK
  BY DEF IInv, Books
<1>1. CASE Tick \/ UNCHANGED vars
  BY <1>1 DEF Tick, bookVars, vars, DoneIsKept
<1>2. ASSUME NEW r \in Robots, Resume(r) PROVE DoneIsKept
  <2>1. CASE NothingToDo(r) \/ Dequeue(r) \/ Activate(r) \/ Requeue(r)
             \/ FreeRobot(r) \/ RobotFails(r)
    BY <2>1 DEF NothingToDo, Dequeue, Activate, Requeue, FreeRobot, RobotFails,
                bookVars, DoneIsKept
  <2>2. CASE ResumeActive(r)
    <3>1. queues[r].active \in OrderIds
      BY <2>2, <1>0 DEF ResumeActive, TypeOK, Queue
    <3> QED
      BY <2>2, <3>1, <1>0, ProcessOrderKeepsDone DEF ResumeActive
  <2>3. CASE ProcessActivated(r)
    <3>1. hand[r] \in OrderIds
      BY <2>3 DEF ProcessActivated, IInv, Books, LoopsOwnTheirOrders
    <3> QED
      BY <2>3, <3>1, <1>0, ProcessOrderKeepsDone DEF ProcessActivated
  <2> QED
    BY <1>2, <2>1, <2>2, <2>3 DEF Resume
<1>3. ASSUME NEW r \in Robots, PlcAnswers(r) PROVE DoneIsKept
  <2>1. orders[hand[r]].status # "DONE"
    BY <1>3 DEF PlcAnswers, StepDone, StepFails, IInv, Books, StepsArePhysical
  <2> QED
    BY <1>3, <1>0, <2>1 DEF PlcAnswers, StepDone, StepFails, DoneIsKept, TypeOK
<1>4. ASSUME NEW r \in Robots, Submit(r) PROVE DoneIsKept
  <2>1. PICK o \in NextId : \E ord : Accept(o, ord)
    BY <1>4 DEF Submit, SubmitPick, SubmitPut
  <2>2. orders[o].status = "ABSENT"
    BY DEF NextId
  <2> QED
    BY <2>1, <2>2, <1>0 DEF Accept, DoneIsKept, TypeOK
<1>5. ASSUME NEW o \in OrderIds, RetryReturns(o) PROVE DoneIsKept
  <2>1. CASE RetryFails(o)
    BY <2>1 DEF RetryFails, bookVars, DoneIsKept
  <2>2. CASE RetryEnds(o)
    <3>1. retrying'[o] < retrying[o]
      <4>1. retrying' = [retrying EXCEPT ![o] = retrying[o] - 1]
        BY <2>2 DEF RetryEnds
      <4> QED
        BY <4>1, <1>0 DEF TypeOK
    <3>2. orders'[o].status = "PENDING"
          /\ (\A p \in OrderIds : p # o => orders'[p] = orders[p])
      BY <2>2, <1>0 DEF RetryEnds, TypeOK, Order
    <3> QED
      BY <3>1, <3>2 DEF DoneIsKept, ReopenedByOperator
  <2> QED
    BY <1>5, <2>1, <2>2 DEF RetryReturns
<1>6. ASSUME NEW o \in OrderIds, RetryBegins(o) \/ CancelOrder(o) PROVE DoneIsKept
  <2>1. CASE RetryBegins(o)
    BY <2>1 DEF RetryBegins, bookVars, DoneIsKept
  <2>2. CASE CancelOrder(o)
    <3>1. ops' > ops
      BY <2>2, <1>0 DEF CancelOrder, Intervene, TypeOK
    <3>2. orders'[o].status = "CANCELED"
          /\ (\A p \in OrderIds : p # o => orders'[p] = orders[p])
      BY <2>2, <1>0 DEF CancelOrder, TypeOK, Order
    <3> QED
      BY <3>1, <3>2 DEF DoneIsKept, ReopenedByOperator
  <2> QED
    BY <1>6, <2>1, <2>2
<1>7. ASSUME NEW s \in Slots, ReleaseSlot(s) PROVE DoneIsKept
  BY <1>7 DEF ReleaseSlot, DoneIsKept
<1>8. ASSUME NEW r \in Robots,
             PauseQueue(r) \/ ResumeQueue(r) \/ RegisterDevice(r)
      PROVE  DoneIsKept
  BY <1>8 DEF PauseQueue, ResumeQueue, RegisterDevice, bookVars, DoneIsKept
<1> QED
  BY <1>1, <1>2, <1>3, <1>4, <1>5, <1>6, <1>7, <1>8 DEF Next, Operate

(***************************************************************************)
(* A DONE order is reopened by an operator's retry or cancel only.         *)
(***************************************************************************)
THEOREM DoneOrdersStayDone == Spec => DoneStaysDone
<1>1. IInv /\ [Next]_vars =>
        [\A o \in OrderIds :
           orders[o].status = "DONE" /\ orders'[o].status # "DONE" =>
              \/ retrying'[o] < retrying[o] /\ orders'[o].status = "PENDING"
              \/ ops' > ops /\ orders'[o].status = "CANCELED"]_vars
  BY NextKeepsDone DEF DoneIsKept, ReopenedByOperator
<1> QED
  BY <1>1, Invariance, PTL DEF Spec, DoneStaysDone

-----------------------------------------------------------------------------
(***************************************************************************)
(* The order is the one it was: it keeps its name and whether it exists.   *)
(***************************************************************************)
SameName(o) ==
    /\ orders'[o].ext = orders[o].ext
    /\ orders'[o].status = "ABSENT" <=> orders[o].status = "ABSENT"

NamesKept == \A o \in OrderIds : SameName(o)

\* What a loop may do to the orders between two awaits: it settles the order
\* in its hand and gives a slot to an order that has none; it reopens no
\* order and makes no progress in an order's steps.
LoopEffect(r) ==
    \A o \in OrderIds :
        /\ SameName(o)
        /\ orders'[o].robot = orders[o].robot
        /\ orders'[o].idx = orders[o].idx
        /\ orders[o].logical => orders'[o].logical
        /\ orders[o].status \in Settled => orders'[o].status = orders[o].status
        /\ orders[o].slot # NoSlot => orders'[o].slot = orders[o].slot
        /\ orders'[o].status \in Settled =>
              \/ orders'[o].status = orders[o].status
              \/ /\ o = hand'[r] /\ pc'[r] = "cleared"
                 /\ orders[o].status \notin Settled
                 /\ orders'[o].status = "DONE"

\* `new' differs from the order as LoopEffect allows.
Reworked(r, o, new) ==
    /\ new.ext = orders[o].ext /\ new.status # "ABSENT"
    /\ new.robot = orders[o].robot
    /\ new.idx = orders[o].idx
    /\ orders[o].logical => new.logical
    /\ orders[o].status \in Settled => new.status = orders[o].status
    /\ orders[o].slot # NoSlot => new.slot = orders[o].slot
    /\ new.status \in Settled =>
          \/ new.status = orders[o].status
          \/ /\ pc'[r] = "cleared" /\ orders[o].status \notin Settled
             /\ new.status = "DONE"

(***************************************************************************)
(* The work on an order, in a slot it had or gets now.                     *)
(***************************************************************************)
LEMMA WorkReworks ==
    ASSUME TypeOK, NEW r \in Robots, NEW o \in OrderIds, NEW s, NEW book,
           Work(r, o, Started(o, s), book),
           orders[o].status \notin Settled,
           orders[o].slot # NoSlot => s = orders[o].slot
    PROVE  \E new : /\ orders' = [orders EXCEPT ![o] = new]
                    /\ Reworked(r, o, new)
<1> DEFINE ord == Started(o, s)
<1>1. orders[o] \in Order
  BY DEF TypeOK
<1>2. /\ ord.status = "IN_PROGRESS" /\ ord.ext = orders[o].ext
      /\ ord.idx = orders[o].idx /\ ord.slot = s
      /\ ord.robot = orders[o].robot /\ ord.logical = orders[o].logical
  BY <1>1 DEF Started, Order
<1>3. [ord EXCEPT !.status = "DONE"] =
        [orders[o] EXCEPT !.status = "DONE", !.waiting = FALSE, !.slot = s]
  BY <1>1 DEF Started, Order
<1>4. CASE FinishPhysical(r, o, ord, book)
  <2> DEFINE new ==
        [orders[o] EXCEPT !.status = "DONE", !.waiting = FALSE, !.slot = s]
  <2>1. orders' = [orders EXCEPT ![o] = new] /\ pc'[r] = "cleared"
    BY <1>3, <1>4 DEF FinishPhysical, TypeOK
  <2>2. Reworked(r, o, new)
    BY <1>1, <2>1 DEF Reworked, Order
  <2> HIDE DEF new
  <2> QED
    BY <2>1, <2>2
<1>5. CASE StartStep(r, o, ord, book) \/ LoopDies(r, o, ord, book)
  <2>1. orders' = [orders EXCEPT ![o] = ord]
    BY <1>5 DEF StartStep, LoopDies
  <2>2. Reworked(r, o, ord)
    BY <1>1, <1>2 DEF Reworked, Settled
  <2> HIDE DEF ord
  <2> QED
    BY <2>1, <2>2
<1> QED
  BY <1>4, <1>5 DEF Work

(***************************************************************************)
(* processOrder reworks the order it is called with.                       *)
(***************************************************************************)
LEMMA ProcessOrderReworks ==
    ASSUME TypeOK, NEW r \in Robots, NEW o \in OrderIds, Owned(o, r),
           ProcessOrder(r, o)
    PROVE  \E new : /\ orders' = [orders EXCEPT ![o] = new]
                    /\ Reworked(r, o, new)
<1>1. orders[o] \in Order /\ orders[o].status # "ABSENT"
  BY DEF TypeOK, Owned
<1>2. CASE JoinStack(r, o)
  <2>1. PICK s \in Slots :
          LET ord == [orders[o] EXCEPT !.slot = s, !.logical = TRUE]
              book == [slots EXCEPT ![s] = Stacked(slots[s])]
          IN  SkipSettled(r, o, ord, book) \/ FinishLogical(r, o, ord, book)
    BY <1>2 DEF JoinStack, OccupiedFrom
  <2> DEFINE ord == [orders[o] EXCEPT !.slot = s, !.logical = TRUE]
             done == [orders[o] EXCEPT !.slot = s, !.logical = TRUE,
                                       !.status = "DONE"]
  <2>2. orders[o].slot = NoSlot
    BY <1>2 DEF JoinStack, LooksForBox
  <2>3. /\ pc'[r] = "cleared"
        /\ \/ orders' = [orders EXCEPT ![o] = ord]
              /\ orders[o].status \in Settled
           \/ orders' = [orders EXCEPT ![o] = done]
              /\ orders[o].status \notin Settled
    BY <1>1, <2>1 DEF SkipSettled, FinishLogical, Order, TypeOK
  <2>4. Reworked(r, o, ord)
    BY <1>1, <2>2 DEF Reworked, Order
  <2>5. orders[o].status \notin Settled => Reworked(r, o, done)
    BY <1>1, <2>2, <2>3 DEF Reworked, Order
  <2> HIDE DEF ord, done
  <2> QED
    BY <2>3, <2>4, <2>5
<1>3. CASE SkipSettled(r, o, orders[o], slots)
  <2>1. Reworked(r, o, orders[o])
    BY <1>1 DEF Reworked
  <2> QED
    BY <1>3, <2>1 DEF SkipSettled
<1>4. CASE FinishLogical(r, o, orders[o], slots)
  <2> DEFINE new == [orders[o] EXCEPT !.status = "DONE"]
  <2>1. orders' = [orders EXCEPT ![o] = new] /\ pc'[r] = "cleared"
        /\ orders[o].status \notin Settled
    BY <1>4 DEF FinishLogical, TypeOK
  <2>2. Reworked(r, o, new)
    BY <1>1, <2>1 DEF Reworked, Order
  <2> HIDE DEF new
  <2> QED
    BY <2>1, <2>2
<1>5. CASE Defer(r, o)
  <2> DEFINE new == [orders[o] EXCEPT !.status = "PENDING", !.waiting = TRUE]
  <2>1. orders' = [orders EXCEPT ![o] = new] /\ orders[o].status \notin Settled
    BY <1>1, <1>5 DEF Defer, TypeOK
  <2>2. Reworked(r, o, new)
    BY <1>1, <2>1 DEF Reworked, Order, Settled
  <2> HIDE DEF new
  <2> QED
    BY <2>1, <2>2
<1>6. CASE WorkInAssignedSlot(r, o) \/ WorkInOwnSlot(r, o)
  BY <1>6, WorkReworks DEF WorkInAssignedSlot, WorkInOwnSlot
<1> QED
  BY <1>2, <1>3, <1>4, <1>5, <1>6 DEF ProcessOrder

(***************************************************************************)
(* A loop's step does no more to the orders than LoopEffect says.          *)
(***************************************************************************)
LEMMA ResumeHasLoopEffect ==
    ASSUME Books, NEW r \in Robots, Resume(r) PROVE LoopEffect(r)
<1>0. TypeOK
  BY DEF Books
<1>1. CASE UNCHANGED orders
  BY <1>1 DEF LoopEffect, SameName
<1>2. ASSUME NEW o \in OrderIds, Owned(o, r), hand'[r] = o, ProcessOrder(r, o)
      PROVE  LoopEffect(r)
  <2>1. PICK new : orders' = [orders EXCEPT ![o] = new] /\ Reworked(r, o, new)
    BY <1>0, <1>2, ProcessOrderReworks
  <2>2. orders'[o] = new
        /\ \A p \in OrderIds : p # o => orders'[p] = orders[p]
    BY <1>0, <2>1 DEF TypeOK
  <2>3. SameName(o)
    BY <1>2, <2>1, <2>2 DEF SameName, Owned, Reworked
  <2> QED
    BY <1>2, <2>1, <2>2, <2>3 DEF LoopEffect, SameName, Reworked
<1>3. CASE ResumeActive(r)
  <2>1. /\ queues[r].active \in OrderIds /\ Owned(queues[r].active, r)
        /\ hand'[r] = queues[r].active
    BY <1>3 DEF Books, TypeOK, Queue, QueuesOwnTheirOrders, ResumeActive
  <2> QED
    BY <1>2, <1>3, <2>1 DEF ResumeActive
<1>4. CASE ProcessActivated(r)
  <2>1. hand[r] \in OrderIds /\ Owned(hand[r], r) /\ hand'[r] = hand[r]
    BY <1>4 DEF Books, LoopsOwnTheirOrders, ProcessActivated
  <2> QED
    BY <1>2, <1>4, <2>1 DEF ProcessActivated
<1>5. CASE NothingToDo(r) \/ Dequeue(r) \/ Activate(r) \/ Requeue(r)
           \/ FreeRobot(r) \/ RobotFails(r)
  BY <1>1, <1>5 DEF NothingToDo, Dequeue, Activate, Requeue, FreeRobot,
                    RobotFails, bookVars
<1> QED
  BY <1>3, <1>4, <1>5 DEF Resume

\* submitOrder makes one order, unless its id is known; the order goes to
\* the end of one queue, and loops only start.
AddsOne ==
    \E o \in OrderIds :
        /\ orders[o].status = "ABSENT"
        /\ orders'[o].status = "PENDING" /\ orders'[o].idx = 0
        /\ ~Known(orders'[o].ext)
        /\ \A p \in OrderIds : p # o => orders'[p] = orders[p]
        /\ \A r \in Robots :
              /\ pc[r] # "off" => pc'[r] = pc[r]
              /\ pc[r] = "off" => pc'[r] \in {"off", "top"}
              /\ queues'[r] \in {queues[r], Enqueue(queues[r], o)}
        /\ UNCHANGED <<hand, retrying, ops>>

\* An order as submitOrder makes it.
FreshOrder(ord, ext) == ord.ext = ext /\ ord.status = "PENDING" /\ ord.idx = 0

(***************************************************************************)
(* Every branch of submitOrder accepts a new order with the client's id.   *)
(***************************************************************************)
LEMMA SubmitAddsOne ==
    ASSUME TypeOK, NEW r \in Robots, Submit(r) PROVE AddsOne
<1>1. PICK ext \in ExternalIds \cup {NoExternalId} :
        \/ \E home \in Homes, want \in Slots \cup {NoSlot} :
             SubmitPick(r, home, want, ext)
        \/ \E home \in Unreachable \cup {NoHome}, s \in Slots :
             SubmitPut(r, home, s, ext)
  BY DEF Submit
<1>2. ~Known(ext)
  BY <1>1 DEF SubmitPick, SubmitPut
<1> DEFINE Accepted(o) == \E new : Accept(o, new) /\ FreshOrder(new, ext)
<1>3. \E o \in NextId : Accepted(o)
  <2>1. ASSUME NEW home, NEW s, NEW type
        PROVE  LET new == NewOrder(type, r, home, s, ext) IN
               /\ FreshOrder(new, ext)
               /\ FreshOrder([new EXCEPT !.logical = TRUE], ext)
               /\ FreshOrder([new EXCEPT !.waiting = TRUE], ext)
    BY DEF NewOrder, FreshOrder
  <2>2. ASSUME NEW home \in Homes, NEW want \in Slots \cup {NoSlot},
               SubmitPick(r, home, want, ext)
        PROVE  \E o \in NextId : Accepted(o)
    <3>1. PICK o \in NextId, s \in Slots \cup {NoSlot} :
            \/ Accept(o, NewOrder("PICK", r, home, s, ext))
            \/ Accept(o, [NewOrder("PICK", r, home, s, ext)
                            EXCEPT !.logical = TRUE])
      BY <2>2 DEF SubmitPick, OccupiedFrom
    <3> QED
      BY <2>1, <3>1
  <2>3. ASSUME NEW home \in Unreachable \cup {NoHome}, NEW s \in Slots,
               SubmitPut(r, home, s, ext)
        PROVE  \E o \in NextId : Accepted(o)
    <3>1. PICK o \in NextId :
            LET new == NewOrder("PUT", r, home, s, ext) IN
            \/ Accept(o, [new EXCEPT !.logical = TRUE])
            \/ Accept(o, new)
            \/ Accept(o, [new EXCEPT !.waiting = TRUE])
      BY <2>3 DEF SubmitPut
    <3> QED
      BY <2>1, <3>1
  <2> QED
    BY <1>1, <2>2, <2>3
<1>4. PICK o \in NextId : Accepted(o)
  BY <1>3
<1>5. PICK new : Accept(o, new) /\ FreshOrder(new, ext)
  BY <1>4
<1>6. o \in OrderIds /\ orders[o].status = "ABSENT"
  BY DEF NextId
<1>7. orders'[o] = new /\ \A p \in OrderIds : p # o => orders'[p] = orders[p]
  BY <1>5, <1>6 DEF Accept, TypeOK
<1>8. /\ \A q \in Robots :
            /\ pc[q] # "off" => pc'[q] = pc[q]
            /\ pc[q] = "off" => pc'[q] \in {"off", "top"}
            /\ queues'[q] \in {queues[q], Enqueue(queues[q], o)}
      /\ UNCHANGED <<hand, retrying, ops>>
  BY <1>5 DEF Accept, Kicked, TypeOK
<1> QED
  BY <1>2, <1>5, <1>6, <1>7, <1>8 DEF AddsOne, FreshOrder

(***************************************************************************)
(* Nothing but submitOrder makes an order or gives one its id.             *)
(***************************************************************************)
LEMMA NextKeepsNames == IInv /\ [Next]_vars => NamesKept \/ AddsOne
<1> SUFFICES ASSUME IInv, [Next]_vars PROVE NamesKept \/ AddsOne
  OBVIOUS
<1>0. TypeOK
  BY DEF IInv, Books
<1>1. CASE UNCHANGED orders
  BY <1>1 DEF NamesKept, SameName
<1>2. ASSUME NEW r \in Robots, Resume(r) PROVE NamesKept
  BY <1>2, ResumeHasLoopEffect DEF IInv, LoopEffect, NamesKept
<1>3. ASSUME NEW r \in Robots, PlcAnswers(r) PROVE NamesKept
  <2>1. hand[r] \in OrderIds /\ orders[hand[r]].status # "ABSENT"
    BY <1>3 DEF PlcAnswers, StepDone, StepFails, IInv, Books, Owned,
                LoopsOwnTheirOrders
  <2> QED
    BY <1>0, <1>3, <2>1 DEF PlcAnswers, StepDone, StepFails, NamesKept,
                            SameName, TypeOK, Order
<1>4. ASSUME NEW r \in Robots, Submit(r) PROVE AddsOne
  BY <1>0, <1>4, SubmitAddsOne
<1>5. ASSUME NEW o \in OrderIds, RetryEnds(o) PROVE NamesKept
  <2>1. orders[o].status # "ABSENT"
    BY <1>5 DEF RetryEnds, IInv, Books, RetriesNameOrders
  <2> QED
    BY <1>0, <1>5, <2>1 DEF RetryEnds, NamesKept, SameName, TypeOK, Order
<1>6. ASSUME NEW o \in OrderIds, CancelOrder(o) PROVE NamesKept
  BY <1>0, <1>6 DEF CancelOrder, Exists, NamesKept, SameName, TypeOK, Order
<1>7. CASE Tick \/ UNCHANGED vars
           \/ (\E o \in OrderIds : RetryFails(o) \/ RetryBegins(o))
           \/ (\E s \in Slots : ReleaseSlot(s))
           \/ \E r \in Robots :
                 PauseQueue(r) \/ ResumeQueue(r) \/ RegisterDevice(r)
  BY <1>1, <1>7 DEF Tick, vars, bookVars, RetryFails, RetryBegins, ReleaseSlot,
                    PauseQueue, ResumeQueue, RegisterDevice
<1> QED
  BY <1>2, <1>3, <1>4, <1>5, <1>6, <1>7 DEF Next, Operate, RetryReturns

(***************************************************************************)
(* A repeated request makes no second order, in whatever state the first   *)
(* one is by then.                                                         *)
(***************************************************************************)
THEOREM RepeatedRequestsMakeOneOrder == Spec => []OneOrderPerExternalId
<1>1. Init => OneOrderPerExternalId
  BY DEF Init, NothingOrdered, OneOrderPerExternalId, Exists
<1>2. IInv /\ [Next]_vars /\ OneOrderPerExternalId => OneOrderPerExternalId'
  <2> SUFFICES ASSUME IInv, [Next]_vars, OneOrderPerExternalId,
                      NEW p \in OrderIds, NEW q \in OrderIds,
                      Exists(p)', Exists(q)', orders'[p].ext = orders'[q].ext,
                      orders'[p].ext # NoExternalId
               PROVE  p = q
    BY DEF OneOrderPerExternalId
  <2>1. CASE NamesKept
    BY <2>1 DEF NamesKept, SameName, Exists, OneOrderPerExternalId
  <2>2. CASE AddsOne
    <3>1. PICK o \in OrderIds :
            /\ orders[o].status = "ABSENT"
            /\ orders'[o].status = "PENDING"
            /\ ~Known(orders'[o].ext)
            /\ \A x \in OrderIds : x # o => orders'[x] = orders[x]
      BY <2>2 DEF AddsOne
    <3>2. CASE p = o \/ q = o
      BY <3>1, <3>2 DEF Known, Exists
    <3>3. CASE p # o /\ q # o
      BY <3>1, <3>3 DEF Exists, OneOrderPerExternalId
    <3> QED
      BY <3>2, <3>3
  <2> QED
    BY <2>1, <2>2, NextKeepsNames
<1> QED
  BY <1>1, <1>2, Invariance, PTL DEF Spec
=============================================================================
