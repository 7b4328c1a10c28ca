----------------------------- MODULE RobotQueue -----------------------------
(***************************************************************************)
(* The queue of one robot in QueueManager (src/src/core/queue/             *)
(* QueueManager.js): the active order, the orders that wait, in order of   *)
(* arrival, and whether the queue is paused.  Every operation of the       *)
(* in-memory driver is synchronous and touches the record of one robot, so *)
(* each is a function from a record to a record.                           *)
(***************************************************************************)
EXTENDS Integers, Sequences, FiniteSets

\* ensureRobot creates the record on first use; NoOrder is activeOrderId null.
EmptyQueue(none) == [active |-> none, items |-> << >>, paused |-> FALSE]

Enqueue(q, o) == [q EXCEPT !.items = Append(@, o)]
SetActive(q, o) == [q EXCEPT !.active = o]
WithPause(q, paused) == [q EXCEPT !.paused = paused]

\* dequeueNext hands out nothing while the queue is paused.
CanDequeue(q) == ~q.paused /\ q.items # << >>
Dequeued(q) == [q EXCEPT !.items = Tail(@)]

Members(s) == {s[i] : i \in DOMAIN s}

\* items.filter(id => id !== o): the n-th survivor is the element that has
\* n survivors up to itself.
Without(s, o) ==
    LET Kept == {i \in DOMAIN s : s[i] # o}
        rank == [i \in Kept |-> Cardinality({j \in Kept : j <= i})]
    IN  [n \in 1 .. Cardinality(Kept) |-> s[CHOOSE i \in Kept : rank[i] = n]]

\* removeOrder also takes the order out of the active place.
RemoveOrder(q, o, none) ==
    [q EXCEPT !.items = Without(@, o),
              !.active = IF @ = o THEN none ELSE @]
=============================================================================
