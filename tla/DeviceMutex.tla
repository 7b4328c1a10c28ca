---------------------------- MODULE DeviceMutex ----------------------------
(***************************************************************************)
(* The mutex in front of one Modbus device (DeviceMutex.js) for one key.   *)
(* An operation chains itself behind the promise stored as the key's tail, *)
(* and becomes the tail.  When an operation has ended, its finally-handler *)
(* lowers the count of operations in flight and drops the tail at zero.    *)
(* The tail may by then be an operation that still waits.                  *)
(*                                                                         *)
(* Commands, polls and register writes use run; the connection monitor     *)
(* uses tryRun, which gives up when the device looks busy.  A hard reset   *)
(* of the transport clears the mutex under the operations in flight.       *)
(***************************************************************************)
EXTENDS Integers, FiniteSets

CONSTANTS
    Users,      \* the calls of run
    Monitors,   \* the calls of tryRun
    None

Ops == Users \cup Monitors

ASSUME NoneAssumption == None \notin Ops
ASSUME OpsAssumption == IsFiniteSet(Ops) /\ Users \cap Monitors = {}

VARIABLES
    tail,       \* _queues.get(key): the operation last chained, or None
    inflight,   \* _inflight.get(key), 0 when there is no entry
    op,         \* where each operation is
    behind,     \* the operation whose promise each one is chained to
    cleared     \* a hard reset has cleared the mutex

vars == <<tail, inflight, op, behind, cleared>>

\* "ended" is over but its finally-handler has not run.
Places == {"idle", "chained", "running", "ended", "settled"}

Init ==
    /\ tail = None
    /\ inflight = 0
    /\ op = [o \in Ops |-> "idle"]
    /\ behind = [o \in Ops |-> None]
    /\ cleared = FALSE

Chain(o) ==
    /\ behind' = [behind EXCEPT ![o] = tail]
    /\ tail' = o
    /\ op' = [op EXCEPT ![o] = "chained"]
    /\ UNCHANGED <<inflight, cleared>>

Run(o) == o \in Users /\ op[o] = "idle" /\ Chain(o)

\* Faulty variant: the count is not looked at.
IsLockedByTail == tail # None

IsLocked == tail # None \/ inflight > 0

\* tryRun does nothing while the key is locked.
TryRun(o) == o \in Monitors /\ op[o] = "idle" /\ ~IsLocked /\ Chain(o)

\* The promise it is chained to has settled.
Ready(o) == op[o] = "chained" /\ (behind[o] # None => op[behind[o]] = "settled")

\* fn is called.
Start(o) ==
    /\ Ready(o)
    /\ op' = [op EXCEPT ![o] = "running"]
    /\ inflight' = inflight + 1
    /\ behind' = [behind EXCEPT ![o] = None]
    /\ UNCHANGED <<tail, cleared>>

\* fn's promise settles, fulfilled or rejected.
End(o) ==
    /\ op[o] = "running"
    /\ op' = [op EXCEPT ![o] = "ended"]
    /\ UNCHANGED <<tail, inflight, behind, cleared>>

\* A missing count reads as 1.
Remaining == IF inflight = 0 THEN 0 ELSE inflight - 1

\* Faulty variant: only the operation at the tail lowers the count.
SettleTail(o) ==
    /\ op[o] = "ended"
    /\ op' = [op EXCEPT ![o] = "settled"]
    /\ inflight' = IF tail = o THEN Remaining ELSE inflight
    /\ tail' = IF tail = o THEN None ELSE tail
    /\ UNCHANGED <<behind, cleared>>

\* Faulty variant: the tail stays when the last operation has settled.
SettleBesideTail(o) ==
    /\ op[o] = "ended"
    /\ op' = [op EXCEPT ![o] = "settled"]
    /\ inflight' = Remaining
    /\ UNCHANGED <<tail, behind, cleared>>

\* The finally-handler.
Settle(o) ==
    /\ op[o] = "ended"
    /\ op' = [op EXCEPT ![o] = "settled"]
    /\ inflight' = Remaining
    /\ tail' = IF Remaining = 0 THEN None ELSE tail
    /\ UNCHANGED <<behind, cleared>>

\* hardResetModbusTransport, called by an operation of this or of another
\* device.
Clear ==
    /\ cleared' = TRUE
    /\ tail' = None /\ inflight' = 0
    /\ UNCHANGED <<op, behind>>

\* The caller has its answer; the name serves a later call, as soon as no
\* promise refers to it.
Return(o) ==
    /\ op[o] = "settled"
    /\ tail # o /\ \A p \in Ops : op[p] = "chained" => behind[p] # o
    /\ op' = [op EXCEPT ![o] = "idle"]
    /\ UNCHANGED <<tail, inflight, behind, cleared>>

Step(o) == Start(o) \/ End(o) \/ Settle(o)

Next ==
    \/ \E o \in Ops : Run(o) \/ TryRun(o) \/ Step(o) \/ Return(o)
    \/ Clear

Spec == Init /\ [][Next]_vars

-----------------------------------------------------------------------------
TypeOK ==
    /\ tail \in Ops \cup {None}
    /\ inflight \in Nat
    /\ op \in [Ops -> Places]
    /\ behind \in [Ops -> Ops \cup {None}]
    /\ cleared \in BOOLEAN

InFlight == {o \in Ops : op[o] \in {"running", "ended"}}

(***************************************************************************)
(* The connection monitor never uses the socket next to an operation it    *)
(* found there: as long as nothing clears the mutex, it looks locked       *)
(* whenever an operation runs, although the tail may have been dropped.    *)
(***************************************************************************)
BusyLooksLocked == ~cleared /\ InFlight # {} => IsLocked

Pending == {o \in Ops : op[o] \in {"chained", "running", "ended"}}

(***************************************************************************)
(* A device that looks locked has an operation that waits or runs: no tail *)
(* and no count outlives the operations it stood for, although hard resets *)
(* clear both under operations that settle later, beside new ones.  With   *)
(* a leftover tryRun would give up for ever, and with it the monitor.      *)
(***************************************************************************)
LocksAreLetGo == IsLocked => Pending # {}

(***************************************************************************)
(* Every operation that was chained gets its turn, in spite of dropped     *)
(* tails and hard resets.                                                  *)
(***************************************************************************)
ChainedOpsFinish == \A o \in Ops : op[o] = "chained" ~> op[o] = "settled"

(***************************************************************************)
(* Until the first hard reset the count is exact, also when operations run *)
(* beside each other, so the tail is dropped only when nothing is in       *)
(* flight.  The header of DeviceMutex.js promises more, one operation at a *)
(* time.  That fails when an operation that still waits loses its place as *)
(* tail: the next one does not chain behind it.                            *)
(***************************************************************************)
CountIsExact == ~cleared => inflight = Cardinality(InFlight)
=============================================================================
