-------------------------- MODULE ConnectionProofs --------------------------
(***************************************************************************)
(* Proofs about a device's mutex and connection, for every number of       *)
(* operations, monitor calls and registrations.                            *)
(*                                                                         *)
(* The mutex first: the count of operations in flight follows the set      *)
(* InFlight one element at a time; an operation that ends is still in it,  *)
(* so the count the finally-handler lowers is never missing.               *)
(*                                                                         *)
(* Then the connection, which uses the mutex by the rules: every step of   *)
(* an operation, of the monitor, of a registration or of a hard reset is a *)
(* step of DeviceMutex or leaves the mutex alone.  What is proved of the   *)
(* mutex is therefore true of the connection.                              *)
(***************************************************************************)
EXTENDS Connection, FiniteSetTheorems, TLAPS

IInv == TypeOK /\ CountIsExact

(***************************************************************************)
(* The operations in flight are finitely many, and so have a cardinality.  *)
(***************************************************************************)
LEMMA FiniteInFlight == IsFiniteSet(InFlight) /\ Cardinality(InFlight) \in Nat
<1>1. InFlight \subseteq Ops
  BY DEF InFlight
<1> QED
  BY <1>1, OpsAssumption, FS_Subset, FS_CardinalityType

(***************************************************************************)
(* An action that leaves InFlight, the count and the resets alone keeps    *)
(* the count exact.                                                        *)
(***************************************************************************)
LEMMA SameInFlight ==
  ASSUME CountIsExact, InFlight' = InFlight, UNCHANGED <<inflight, cleared>>
  PROVE  CountIsExact'
BY DEF CountIsExact

(***************************************************************************)
(* run and tryRun chain an operation that was idle: nothing more is in     *)
(* flight than before.                                                     *)
(***************************************************************************)
LEMMA ChainKeepsIInv ==
  ASSUME IInv, NEW o \in Ops, op[o] = "idle", Chain(o)
  PROVE  IInv'
<1>1. TypeOK'
  BY DEF IInv, TypeOK, Chain, Places
<1>2. InFlight' = InFlight
  BY DEF IInv, TypeOK, Chain, InFlight
<1> QED
  BY <1>1, <1>2, SameInFlight DEF IInv, Chain

(***************************************************************************)
(* Start of fn adds the operation to the set and one to the count.         *)
(***************************************************************************)
LEMMA StartKeepsIInv ==
  ASSUME IInv, NEW o \in Ops, Start(o)
  PROVE  IInv'
<1>1. TypeOK'
  BY DEF IInv, TypeOK, Start, Ready, Places
<1>2. InFlight' = InFlight \cup {o} /\ o \notin InFlight
  BY DEF IInv, TypeOK, Start, Ready, InFlight
<1>3. Cardinality(InFlight') = Cardinality(InFlight) + 1
  BY <1>2, FiniteInFlight, FS_AddElement
<1>4. CountIsExact'
  BY <1>3 DEF IInv, CountIsExact, Start
<1> QED
  BY <1>1, <1>4 DEF IInv

(***************************************************************************)
(* The finally-handler removes an operation that was counted.              *)
(***************************************************************************)
LEMMA SettleKeepsIInv ==
  ASSUME IInv, NEW o \in Ops, Settle(o)
  PROVE  IInv'
<1>1. TypeOK'
  BY NoneAssumption DEF IInv, TypeOK, Settle, Places, Remaining
<1>2. InFlight' = InFlight \ {o} /\ o \in InFlight
  BY DEF IInv, TypeOK, Settle, InFlight
<1>3. Cardinality(InFlight') = Cardinality(InFlight) - 1
  BY <1>2, FiniteInFlight, FS_RemoveElement
<1>4. Cardinality(InFlight) # 0
  BY <1>2, FiniteInFlight, FS_EmptySet
<1>5. CountIsExact'
  BY <1>3, <1>4, FiniteInFlight DEF IInv, CountIsExact, Settle, Remaining
<1> QED
  BY <1>1, <1>5 DEF IInv

(***************************************************************************)
(* Every step of the mutex keeps the invariant.                            *)
(***************************************************************************)
LEMMA NextIInv == IInv /\ [Next]_vars => IInv'
<1> SUFFICES ASSUME IInv, [Next]_vars PROVE IInv'
  OBVIOUS
<1>1. ASSUME NEW o \in Ops, Run(o) PROVE IInv'
  BY <1>1, ChainKeepsIInv DEF Run
<1>2. ASSUME NEW o \in Ops, TryRun(o) PROVE IInv'
  BY <1>2, ChainKeepsIInv DEF TryRun
<1>3. ASSUME NEW o \in Ops, End(o) PROVE IInv'
  <2>1. TypeOK'
    BY <1>3 DEF IInv, TypeOK, End, Places
  <2>2. InFlight' = InFlight
    BY <1>3 DEF IInv, TypeOK, End, InFlight
  <2> QED
    BY <1>3, <2>1, <2>2, SameInFlight DEF IInv, End
<1>4. ASSUME NEW o \in Ops, Return(o) PROVE IInv'
  <2>1. TypeOK'
    BY <1>4 DEF IInv, TypeOK, Return, Places
  <2>2. InFlight' = InFlight
    BY <1>4 DEF IInv, TypeOK, Return, InFlight
  <2> QED
    BY <1>4, <2>1, <2>2, SameInFlight DEF IInv, Return
<1>5. CASE Clear
  BY <1>5 DEF IInv, TypeOK, Clear, CountIsExact
<1>6. CASE UNCHANGED vars
  BY <1>6 DEF IInv, TypeOK, vars, CountIsExact, InFlight
<1> QED
  BY <1>1, <1>2, <1>3, <1>4, <1>5, <1>6, StartKeepsIInv, SettleKeepsIInv
  DEF Next, Step

(***************************************************************************)
(* Before the first operation nothing is in flight.                        *)
(***************************************************************************)
LEMMA InitIInv == Init => IInv
<1> SUFFICES ASSUME Init PROVE IInv
  OBVIOUS
<1>1. InFlight = {}
  BY DEF Init, InFlight
<1> QED
  BY <1>1, FS_EmptySet DEF Init, IInv, TypeOK, CountIsExact, Places

(***************************************************************************)
(* The tail is an operation or none, and the count of operations in flight *)
(* never drops below zero, also when a hard reset lost entries.            *)
(***************************************************************************)
THEOREM TypeCorrectness == Spec => []TypeOK
<1>1. IInv => TypeOK
  BY DEF IInv
<1> QED
  BY <1>1, InitIInv, NextIInv, PTL DEF Spec

(***************************************************************************)
(* The count of operations in flight is exact until the first hard reset.  *)
(***************************************************************************)
THEOREM ExactCount == Spec => []CountIsExact
<1>1. IInv => CountIsExact
  BY DEF IInv
<1> QED
  BY <1>1, InitIInv, NextIInv, PTL DEF Spec

(***************************************************************************)
(* Until then the monitor never takes a busy device for a free one, even   *)
(* when the tail of a waiting operation has been dropped.                  *)
(***************************************************************************)
THEOREM BusyDevicesLookLocked == Spec => []BusyLooksLocked
<1>1. IInv => BusyLooksLocked
  <2> SUFFICES ASSUME IInv, ~cleared, InFlight # {} PROVE IsLocked
    BY DEF BusyLooksLocked
  <2>1. Cardinality(InFlight) # 0
    BY FiniteInFlight, FS_EmptySet
  <2> QED
    BY <2>1, FiniteInFlight DEF IInv, CountIsExact, IsLocked
<1> QED
  BY <1>1, InitIInv, NextIInv, PTL DEF Spec

-----------------------------------------------------------------------------
(***************************************************************************)
(* A hard reset forgets operations that are in flight, so the count may be *)
(* too low from then on, but never too high: whoever settles last finds at *)
(* most one and drops the tail.                                            *)
(***************************************************************************)
CountIsCovered == inflight <= Cardinality(InFlight)

LockInv == TypeOK /\ CountIsCovered /\ LocksAreLetGo

(***************************************************************************)
(* An operation that waits or runs keeps the device from looking locked by *)
(* nobody.                                                                 *)
(***************************************************************************)
LEMMA PendingHoldsLock ==
  ASSUME NEW o \in Ops, op'[o] \in {"chained", "running", "ended"}
  PROVE  LocksAreLetGo'
BY DEF LocksAreLetGo, Pending

(***************************************************************************)
(* The finally-handler leaves the device locked only while another         *)
(* operation is in flight.                                                 *)
(***************************************************************************)
LEMMA SettleKeepsLockInv ==
  ASSUME LockInv, NEW o \in Ops, Settle(o)
  PROVE  LockInv'
<1>1. TypeOK'
  BY NoneAssumption DEF LockInv, TypeOK, Settle, Places, Remaining
<1>2. InFlight' = InFlight \ {o} /\ o \in InFlight
  BY DEF LockInv, TypeOK, Settle, InFlight
<1>3. Cardinality(InFlight') = Cardinality(InFlight) - 1
  BY <1>2, FiniteInFlight, FS_RemoveElement
<1>4. Cardinality(InFlight) # 0
  BY <1>2, FiniteInFlight, FS_EmptySet
<1>5. CountIsCovered'
  BY <1>3, <1>4, FiniteInFlight
  DEF LockInv, TypeOK, CountIsCovered, Settle, Remaining
<1>6. CASE Remaining = 0
  BY <1>1, <1>5, <1>6 DEF LockInv, LocksAreLetGo, IsLocked, Settle
<1>7. CASE Remaining # 0
  <2>1. Cardinality(InFlight') # 0
    BY <1>3, <1>7, FiniteInFlight
    DEF LockInv, TypeOK, CountIsCovered, Remaining
  <2>2. InFlight' # {}
    BY <2>1, FS_EmptySet
  <2>3. LocksAreLetGo'
    BY <2>2 DEF LocksAreLetGo, Pending, InFlight
  <2> QED
    BY <1>1, <1>5, <2>3 DEF LockInv
<1> QED
  BY <1>6, <1>7

(***************************************************************************)
(* Every step of the mutex keeps the invariant.                            *)
(***************************************************************************)
LEMMA NextLockInv == LockInv /\ [Next]_vars => LockInv'
<1> SUFFICES ASSUME LockInv, [Next]_vars PROVE LockInv'
  OBVIOUS
<1>1. ASSUME NEW o \in Ops, op[o] = "idle", Chain(o) PROVE LockInv'
  <2>1. TypeOK' /\ InFlight' = InFlight /\ op'[o] = "chained"
    BY <1>1 DEF LockInv, TypeOK, Chain, Places, InFlight
  <2> QED
    BY <1>1, <2>1, PendingHoldsLock DEF LockInv, CountIsCovered, Chain
<1>2. ASSUME NEW o \in Ops, Start(o) PROVE LockInv'
  <2>1. TypeOK' /\ op'[o] = "running"
    BY <1>2 DEF LockInv, TypeOK, Start, Ready, Places
  <2>2. InFlight' = InFlight \cup {o} /\ o \notin InFlight
    BY <1>2 DEF LockInv, TypeOK, Start, Ready, InFlight
  <2>3. Cardinality(InFlight') = Cardinality(InFlight) + 1
    BY <2>2, FiniteInFlight, FS_AddElement
  <2>4. CountIsCovered'
    BY <1>2, <2>3, FiniteInFlight DEF LockInv, TypeOK, CountIsCovered, Start
  <2> QED
    BY <2>1, <2>4, PendingHoldsLock DEF LockInv
<1>3. ASSUME NEW o \in Ops, End(o) PROVE LockInv'
  <2>1. TypeOK' /\ InFlight' = InFlight /\ op'[o] = "ended"
    BY <1>3 DEF LockInv, TypeOK, End, Places, InFlight
  <2> QED
    BY <1>3, <2>1, PendingHoldsLock DEF LockInv, CountIsCovered, End
<1>4. ASSUME NEW o \in Ops, Return(o) PROVE LockInv'
  <2>1. TypeOK' /\ InFlight' = InFlight /\ Pending' = Pending
    BY <1>4 DEF LockInv, TypeOK, Return, Places, InFlight, Pending
  <2> QED
    BY <1>4, <2>1
    DEF LockInv, CountIsCovered, LocksAreLetGo, IsLocked, Return
<1>5. CASE Clear
  <2>1. TypeOK' /\ InFlight' = InFlight
    BY <1>5 DEF LockInv, TypeOK, Clear, InFlight
  <2>2. CountIsCovered'
    BY <1>5, <2>1, FiniteInFlight DEF CountIsCovered, Clear
  <2> QED
    BY <1>5, <2>1, <2>2 DEF LockInv, LocksAreLetGo, IsLocked, Clear
<1>6. CASE UNCHANGED vars
  BY <1>6 DEF LockInv, TypeOK, vars, CountIsCovered, InFlight, LocksAreLetGo,
              IsLocked, Pending
<1> QED
  BY <1>1, <1>2, <1>3, <1>4, <1>5, <1>6, SettleKeepsLockInv
  DEF Next, Step, Run, TryRun

(***************************************************************************)
(* A device that looks locked has an operation that waits or runs, however *)
(* many hard resets cleared the mutex under however many operations.       *)
(***************************************************************************)
THEOREM LocksHaveHolders == Spec => []LocksAreLetGo
<1>1. Init => LockInv
  <2> SUFFICES ASSUME Init PROVE LockInv
    OBVIOUS
  <2>1. TypeOK
    BY InitIInv DEF IInv
  <2> QED
    BY <2>1, FiniteInFlight
    DEF Init, LockInv, CountIsCovered, LocksAreLetGo, IsLocked
<1>2. LockInv => LocksAreLetGo
  BY DEF LockInv
<1> QED
  BY <1>1, <1>2, NextLockInv, PTL DEF Spec

-----------------------------------------------------------------------------
\* A step of the mutex by its rules: the monitor looks in a calm moment.
MutexStep ==
    \/ \E o \in Ops : Run(o) \/ (Calm /\ TryRun(o)) \/ Step(o) \/ Return(o)
    \/ Clear

(***************************************************************************)
(* A step of the mutex by one operation.                                   *)
(***************************************************************************)
LEMMA StepIsOfMutex == ASSUME NEW o \in Ops, Step(o) PROVE MutexStep
BY DEF MutexStep

(***************************************************************************)
(* The steps of an operation.                                              *)
(***************************************************************************)
LEMMA OpStepsUseMutex ==
  ASSUME NEW u \in Users, Call(u) \/ OpStep(u)
  PROVE  MutexStep \/ UNCHANGED vars
<1> u \in Ops
  BY DEF Ops
<1>1. CASE Call(u)
  BY <1>1 DEF Call, MutexStep
<1>2. CASE Begin(u)
  BY <1>2, StepIsOfMutex DEF Begin, Step
<1>3. CASE DialsThrough(u)
  BY <1>3 DEF DialsThrough
<1>4. CASE Succeeds(u)
  BY <1>4, StepIsOfMutex DEF Succeeds, Ends, Step
<1>5. CASE FailsForGood(u)
  BY <1>5, StepIsOfMutex DEF FailsForGood, Ends, Step
<1>6. CASE TriesAgainLater(u)
  BY <1>6 DEF TriesAgainLater
<1>7. CASE NextRound(u)
  BY <1>7 DEF NextRound
<1>8. CASE GivesUp(u)
  BY <1>8, StepIsOfMutex DEF GivesUp, Ends, Step
<1>9. CASE ResetsTransport(u)
  BY <1>9 DEF ResetsTransport, ClearTransport, MutexStep
<1>10. CASE Wakes(u)
  BY <1>10 DEF Wakes
<1>11. CASE CoolsDown(u)
  BY <1>11, StepIsOfMutex DEF CoolsDown, Ends, Step
<1>12. CASE Finishes(u)
  BY <1>12, StepIsOfMutex DEF Finishes, Step
<1> QED
  BY <1>1, <1>2, <1>3, <1>4, <1>5, <1>6, <1>7, <1>8, <1>9, <1>10, <1>11, <1>12
  DEF OpStep, OpAnswered

(***************************************************************************)
(* The steps of the monitor.                                               *)
(***************************************************************************)
LEMMA CheckStepsUseMutex ==
  ASSUME NEW m \in Monitors,
         Check(m) \/ CheckYields(m) \/ CheckDelayed(m) \/ CheckStep(m)
  PROVE  MutexStep \/ UNCHANGED vars
<1> m \in Ops
  BY DEF Ops
<1>1. CASE Check(m)
  BY <1>1 DEF Check, Due, MutexStep
<1>2. CASE CheckYields(m)
  BY <1>2 DEF CheckYields
<1>3. CASE CheckDelayed(m)
  BY <1>3 DEF CheckDelayed
<1>4. CASE CheckBegins(m)
  BY <1>4, StepIsOfMutex DEF CheckBegins, Step
<1>5. CASE CheckConnects(m)
  BY <1>5, StepIsOfMutex DEF CheckConnects, Step
<1>6. CASE CheckBreaks(m)
  BY <1>6, StepIsOfMutex DEF CheckBreaks, Step
<1>7. CASE CheckPasses(m)
  BY <1>7, StepIsOfMutex DEF CheckPasses, Step
<1>8. CASE CheckFails(m)
  BY <1>8, StepIsOfMutex DEF CheckFails, Step
<1>9. CASE DropsClient(m)
  BY <1>9 DEF DropsClient
<1>10. CASE NextTick(m)
  BY <1>10 DEF NextTick
<1> QED
  BY <1>1, <1>2, <1>3, <1>4, <1>5, <1>6, <1>7, <1>8, <1>9, <1>10 DEF CheckStep

(***************************************************************************)
(* Every step of the connection.                                           *)
(***************************************************************************)
LEMMA ConnStepsUseMutex == ConnNext => MutexStep \/ UNCHANGED vars
<1> SUFFICES ASSUME ConnNext PROVE MutexStep \/ UNCHANGED vars
  OBVIOUS
<1>1. CASE \E u \in Users : Call(u) \/ OpStep(u)
  BY <1>1, OpStepsUseMutex
<1>2. CASE \E m \in Monitors :
             Check(m) \/ CheckYields(m) \/ CheckDelayed(m) \/ CheckStep(m)
  BY <1>2, CheckStepsUseMutex
<1>3. CASE \E g \in Registrars :
             Register(g) \/ RegisterConnects(g) \/ RegisterFails(g)
  BY <1>3 DEF Register, RegisterConnects, RegisterFails
<1>4. CASE \E o \in Ops : Reuse(o)
  BY <1>4 DEF Reuse, MutexStep
<1>5. CASE BackoffEnds \/ ResetByOther
  BY <1>5 DEF BackoffEnds, ResetByOther, ClearTransport, MutexStep
<1> QED
  BY <1>1, <1>2, <1>3, <1>4, <1>5 DEF ConnNext

(***************************************************************************)
(* A behaviour of the connection is one of the mutex, by the way it is     *)
(* composed.                                                               *)
(***************************************************************************)
LEMMA ConnectionHasMutex == ConnSpec => Spec
<1>1. ConnInit => Init
  BY DEF ConnInit
<1>2. [ConnNext]_connVars => [Next]_vars
  BY ConnStepsUseMutex DEF MutexStep, Next, connVars, vars
<1> QED
  BY <1>1, <1>2, PTL DEF ConnSpec, Spec

(***************************************************************************)
(* So the monitor never uses the socket next to an operation it found      *)
(* there, whatever the connection goes through before a hard reset.        *)
(***************************************************************************)
THEOREM MonitorFindsBusyDevices == ConnSpec => []BusyLooksLocked
BY ConnectionHasMutex, BusyDevicesLookLocked

(***************************************************************************)
(* Nor does a hard reset, or a client dropped under an operation, leave a  *)
(* device that looks locked although nobody uses it: the monitor's next    *)
(* check is not turned away by a leftover.                                 *)
(***************************************************************************)
THEOREM MonitorFindsFreeDevices == ConnSpec => []LocksAreLetGo
BY ConnectionHasMutex, LocksHaveHolders

-----------------------------------------------------------------------------
(***************************************************************************)
(* The types.  They need to know that an operation sleeps only before its  *)
(* last attempt and that a caller who dials or reads has a client; that a  *)
(* new client has a name is a matter of counting the callers.              *)
(***************************************************************************)
Actions == {"none", "dial", "io", "sleep", "cooldown", "passed", "failed",
            "drop", "yielded"}

ClientTypes ==
    /\ client \in Clients \cup {NoClient}
    /\ connected \subseteq Clients
    /\ held \in [Callers -> Clients \cup {NoClient}]
    /\ doing \in [Callers -> Actions]

CountTypes ==
    /\ tries \in [Users -> 0 .. InnerAttempts]
    /\ round \in [Users -> 0 .. HardLimit]
    /\ streak \in 0 .. HardLimit - 1

ShownTypes ==
    /\ failures \in 0 .. RecreateAfter - 1
    /\ backoff \in BOOLEAN
    /\ shown \in {"CONNECTED", "DISCONNECTED"}

SleepersHaveTries ==
    \A u \in Users : doing[u] = "sleep" => tries[u] < InnerAttempts

WorkersHaveClients ==
    \A k \in Callers : doing[k] \in {"dial", "io"} => held[k] \in Clients

Conduct == ClientTypes /\ SleepersHaveTries /\ WorkersHaveClients

ConnBooks == Conduct /\ CountTypes /\ ShownTypes

(***************************************************************************)
(* There are more names than other callers.                                *)
(***************************************************************************)
LEMMA FreshIsClient ==
    ASSUME ClientTypes, NEW k \in Callers PROVE Fresh(k) \in Clients
<1> DEFINE Others == Callers \ {k}
<1>1. IsFiniteSet(Callers)
  BY OpsAssumption, ClientsAssumption, FS_Union DEF Callers
<1>2. /\ IsFiniteSet(Others) /\ Cardinality(Callers) \in Nat
      /\ Cardinality(Others) = Cardinality(Callers) - 1
  BY <1>1, FS_RemoveElement, FS_CardinalityType
<1>3. IsFiniteSet(Clients) /\ Cardinality(Clients) = MaxClients
  BY LimitsAssumption, FS_Interval DEF Clients
<1>4. Cardinality(Others) < Cardinality(Clients)
  BY <1>2, <1>3, ClientsAssumption, LimitsAssumption
<1>5. \E c \in Clients : \A j \in Others : held[j] # c
  <2> SUFFICES ASSUME \A c \in Clients : \E j \in Others : held[j] = c
               PROVE  FALSE
    OBVIOUS
  <2> DEFINE f == [c \in Clients |-> CHOOSE j \in Others : held[j] = c]
  <2>1. \A c \in Clients : f[c] \in Others /\ held[f[c]] = c
    OBVIOUS
  <2>2. f \in [Clients -> Others]
    BY <2>1
  <2> HIDE DEF f
  <2>3. \E c, d \in Clients : c # d /\ f[c] = f[d]
    BY <1>2, <1>3, <1>4, <2>2, FS_PigeonHole
  <2> QED
    BY <2>1, <2>3
<1> QED
  BY <1>5 DEF Fresh

(***************************************************************************)
(* A caller moves, perhaps to another client; the clients that are         *)
(* connected then were so before, or are the caller's.                     *)
(***************************************************************************)
LEMMA CallerMoves ==
    ASSUME Conduct, NEW k \in Callers,
           NEW x \in Actions, doing' = [doing EXCEPT ![k] = x],
           NEW c \in Clients \cup {NoClient}, held' = [held EXCEPT ![k] = c],
           client' \in Clients \cup {NoClient},
           NEW on \in SUBSET Clients, connected' \subseteq on,
           x \in {"dial", "io"} => c \in Clients,
           k \in Users /\ x = "sleep" => tries'[k] < InnerAttempts,
           \A u \in Users : u # k => tries'[u] = tries[u]
    PROVE  Conduct'
<1> USE DEF Conduct
<1>1. doing'[k] = x /\ \A j \in Callers : j # k => doing'[j] = doing[j]
  BY DEF ClientTypes
<1>2. held'[k] = c /\ \A j \in Callers : j # k => held'[j] = held[j]
  BY DEF ClientTypes
<1>3. ClientTypes'
  BY DEF ClientTypes
<1>4. SleepersHaveTries'
  BY <1>1 DEF SleepersHaveTries, Callers, Ops
<1>5. WorkersHaveClients'
  BY <1>1, <1>2 DEF WorkersHaveClients
<1> QED
  BY <1>3, <1>4, <1>5

(***************************************************************************)
(* Nobody moves; clients may be closed or forgotten.                       *)
(***************************************************************************)
LEMMA NobodyMoves ==
    ASSUME Conduct, UNCHANGED <<held, doing, tries>>,
           client' \in Clients \cup {NoClient}, connected' \subseteq connected
    PROVE  Conduct'
BY DEF Conduct, ClientTypes, SleepersHaveTries, WorkersHaveClients

(***************************************************************************)
(* A caller gets hold of a client.                                         *)
(***************************************************************************)
LEMMA AttemptConduct ==
    ASSUME Conduct, NEW k \in Callers, Attempt(k),
           \A u \in Users : u # k => tries'[u] = tries[u]
    PROVE  Conduct'
<1>1. /\ connected \subseteq Clients /\ client \in Clients \cup {NoClient}
      /\ held \in [Callers -> Clients \cup {NoClient}]
      /\ Fresh(k) \in Clients
  BY FreshIsClient DEF Conduct, ClientTypes
<1>2. \E x \in {"dial", "io"} : doing' = [doing EXCEPT ![k] = x]
  BY DEF Attempt
<1>3. client' \in Clients /\ held' = [held EXCEPT ![k] = client']
  BY <1>1 DEF Attempt
<1>4. connected' \subseteq connected
  BY DEF Attempt, Keeps
<1> HIDE DEF Attempt
<1> QED
  BY <1>1, <1>2, <1>3, <1>4, CallerMoves DEF Actions

(***************************************************************************)
(* An operation ends and lets go of its client.                            *)
(***************************************************************************)
LEMMA EndsConduct ==
    ASSUME Conduct, CountTypes, NEW u \in Users, Ends(u),
           client' \in Clients \cup {NoClient},
           NEW on \in SUBSET Clients, connected' \subseteq on
    PROVE  /\ Conduct'
           /\ tries' \in [Users -> 0 .. InnerAttempts]
           /\ round' \in [Users -> 0 .. HardLimit]
<1>1. /\ u \in Callers
      /\ held' = [held EXCEPT ![u] = NoClient]
      /\ doing' = [doing EXCEPT ![u] = "none"]
      /\ tries' = [tries EXCEPT ![u] = 0] /\ round' = [round EXCEPT ![u] = 0]
  BY DEF Callers, Ops, Ends, Leaves
<1>2. \A v \in Users : v # u => tries'[v] = tries[v]
  BY <1>1 DEF CountTypes
<1>3. Conduct'
  BY <1>1, <1>2, CallerMoves DEF Actions
<1> QED
  BY <1>1, <1>3, LimitsAssumption DEF CountTypes

(***************************************************************************)
(* The clients a caller leaves connected.                                  *)
(***************************************************************************)
LEMMA ConnectedClients ==
    ASSUME Conduct, NEW k \in Callers
    PROVE  /\ doing[k] \in {"dial", "io"} => Connected(k) \subseteq Clients
           /\ MarkedDown(k) \subseteq Clients
           /\ Disconnected(MarkedDown(k)) \subseteq Clients
           /\ connected \subseteq Clients
           /\ held[k] \in Clients \cup {NoClient}
           /\ held = [held EXCEPT ![k] = held[k]]
           /\ client \in Clients \cup {NoClient}
           /\ NoClient \in Clients \cup {NoClient}
BY DEF Conduct, ClientTypes, WorkersHaveClients, Connected, MarkedDown,
       Disconnected

(***************************************************************************)
(* Every counter may be zero.                                              *)
(***************************************************************************)
LEMMA ZeroIsAllowed ==
    /\ 0 \in 0 .. HardLimit - 1 /\ 0 \in 0 .. RecreateAfter - 1
    /\ 0 \in 0 .. InnerAttempts /\ 0 \in 0 .. HardLimit
BY LimitsAssumption

(***************************************************************************)
(* A client that nobody refers to is not kept.                             *)
(***************************************************************************)
LEMMA KeepsSome == ASSUME NEW S, Keeps(S) PROVE connected' \subseteq S
BY DEF Keeps

(***************************************************************************)
(* The steps of an operation keep the types.                               *)
(***************************************************************************)
LEMMA OpStepTypes ==
    ASSUME ConnBooks, NEW u \in Users, Call(u) \/ OpStep(u) PROVE ConnBooks'
<1> u \in Callers /\ u \in Ops
  BY DEF Callers, Ops
<1> USE DEF ConnBooks
<1>0. CountTypes /\ ShownTypes /\ Conduct
  OBVIOUS
<1>1. CASE Call(u) \/ Finishes(u)
  <2>1. UNCHANGED <<client, connected, held, doing, countVars, monitorVars>>
    BY <1>1 DEF Call, Finishes
  <2> QED
    BY <2>1, NobodyMoves, ConnectedClients
       DEF CountTypes, ShownTypes, countVars, monitorVars
<1>2. CASE Begin(u)
  <2>1. tries' = [tries EXCEPT ![u] = 1] /\ UNCHANGED <<round, streak, monitorVars>>
        /\ Attempt(u)
    BY <1>2 DEF Begin
  <2>2. CountTypes' /\ ShownTypes' /\ \A v \in Users : v # u => tries'[v] = tries[v]
    BY <2>1, LimitsAssumption DEF CountTypes, ShownTypes, monitorVars
  <2> QED
    BY <2>1, <2>2, AttemptConduct
<1>3. CASE DialsThrough(u)
  <2>1. /\ doing[u] = "dial" /\ connected' = Connected(u)
        /\ doing' = [doing EXCEPT ![u] = "io"]
        /\ UNCHANGED <<client, held, countVars, monitorVars>>
    BY <1>3 DEF DialsThrough
  <2>2. CountTypes' /\ ShownTypes' /\ tries' = tries
    BY <2>1 DEF CountTypes, ShownTypes, monitorVars, countVars
  <2>3. held[u] \in Clients
    BY <2>1 DEF Conduct, WorkersHaveClients
  <2>4. Conduct'
    BY <2>1, <2>2, <2>3, ConnectedClients, CallerMoves DEF Actions
  <2> QED
    BY <2>2, <2>4
<1>4. CASE Succeeds(u)
  <2>1. /\ doing[u] = "io" /\ Ends(u) /\ client' = client
        /\ connected' \subseteq Connected(u)
        /\ failures' = 0 /\ backoff' = FALSE /\ streak' = 0 /\ shown' = shown
    BY <1>4, KeepsSome DEF Succeeds
  <2> QED
    BY <1>0, <2>1, ConnectedClients, EndsConduct, ZeroIsAllowed
       DEF CountTypes, ShownTypes
<1>5. CASE FailsForGood(u)
  <2>1. /\ Ends(u) /\ client' = client /\ connected' \subseteq connected
        /\ UNCHANGED <<streak, monitorVars>>
    BY <1>5, KeepsSome DEF FailsForGood
  <2> QED
    BY <1>0, <2>1, ConnectedClients, EndsConduct
       DEF CountTypes, ShownTypes, monitorVars
<1>6. CASE TriesAgainLater(u)
  <2>1. /\ shown' = "DISCONNECTED" /\ tries[u] < InnerAttempts
        /\ connected' = MarkedDown(u)
        /\ doing' = [doing EXCEPT ![u] = "sleep"]
        /\ UNCHANGED <<client, held, countVars, failures, backoff>>
    BY <1>6 DEF TriesAgainLater, LosesLink
  <2>2. CountTypes' /\ ShownTypes' /\ tries' = tries
    BY <2>1 DEF CountTypes, ShownTypes, countVars
  <2>3. Conduct'
    BY <2>1, <2>2, ConnectedClients, CallerMoves DEF Actions
  <2> QED
    BY <2>2, <2>3
<1>7. CASE Wakes(u)
  <2>1. /\ doing[u] = "sleep" /\ Attempt(u)
        /\ tries' = [tries EXCEPT ![u] = tries[u] + 1]
        /\ UNCHANGED <<round, streak, monitorVars>>
    BY <1>7 DEF Wakes
  <2>2. tries[u] < InnerAttempts
    BY <2>1 DEF Conduct, SleepersHaveTries
  <2>3. CountTypes' /\ ShownTypes' /\ \A v \in Users : v # u => tries'[v] = tries[v]
    BY <2>1, <2>2, LimitsAssumption DEF CountTypes, ShownTypes, monitorVars
  <2> QED
    BY <2>1, <2>3, AttemptConduct
<1>8. CASE NextRound(u)
  <2>1. /\ streak + 1 < HardLimit /\ round[u] < HardLimit
        /\ client' = Fresh(u) /\ held' = [held EXCEPT ![u] = Fresh(u)]
        /\ connected' \subseteq Disconnected(MarkedDown(u))
        /\ doing' = [doing EXCEPT ![u] = "dial"]
        /\ tries' = [tries EXCEPT ![u] = 1]
        /\ round' = [round EXCEPT ![u] = round[u] + 1]
        /\ streak' = streak + 1 /\ shown' = "DISCONNECTED"
        /\ UNCHANGED <<failures, backoff>>
    BY <1>8, KeepsSome DEF NextRound, RoundFails, LosesLink
  <2>2. CountTypes' /\ ShownTypes' /\ \A v \in Users : v # u => tries'[v] = tries[v]
    BY <2>1, LimitsAssumption DEF CountTypes, ShownTypes
  <2>3. Fresh(u) \in Clients
    BY FreshIsClient DEF Conduct
  <2>4. Conduct'
    BY <2>1, <2>2, <2>3, ConnectedClients, CallerMoves DEF Actions
  <2> QED
    BY <2>2, <2>4
<1>9. CASE GivesUp(u)
  <2>1. /\ streak + 1 < HardLimit /\ Ends(u) /\ client' = NoClient
        /\ connected' \subseteq Disconnected(MarkedDown(u))
        /\ streak' = streak + 1 /\ shown' = "DISCONNECTED"
        /\ UNCHANGED <<failures, backoff>>
    BY <1>9, KeepsSome DEF GivesUp, RoundFails, LosesLink
  <2> QED
    BY <1>0, <2>1, ConnectedClients, EndsConduct, LimitsAssumption
       DEF CountTypes, ShownTypes
<1>10. CASE ResetsTransport(u)
  <2>1. /\ held' = [held EXCEPT ![u] = NoClient]
        /\ doing' = [doing EXCEPT ![u] = "cooldown"]
        /\ client' = NoClient /\ connected' \subseteq Disconnected(MarkedDown(u))
        /\ streak' = 0 /\ failures' = 0 /\ backoff' = FALSE
        /\ shown' = "DISCONNECTED" /\ UNCHANGED <<tries, round>>
    BY <1>10, KeepsSome
       DEF ResetsTransport, RoundFails, LosesLink, ClearTransport
  <2>2. CountTypes' /\ ShownTypes'
    BY <2>1, ZeroIsAllowed DEF CountTypes, ShownTypes
  <2>3. Conduct'
    BY <2>1, ConnectedClients, CallerMoves DEF Actions
  <2> QED
    BY <2>2, <2>3
<1>11. CASE CoolsDown(u)
  <2>1. Ends(u) /\ UNCHANGED <<client, connected, streak, monitorVars>>
    BY <1>11 DEF CoolsDown
  <2> QED
    BY <1>0, <2>1, ConnectedClients, EndsConduct
       DEF CountTypes, ShownTypes, monitorVars
<1> QED
  BY <1>1, <1>2, <1>3, <1>4, <1>5, <1>6, <1>7, <1>8, <1>9, <1>10, <1>11
     DEF OpStep, OpAnswered

(***************************************************************************)
(* The steps of the monitor keep the types.                                *)
(***************************************************************************)
LEMMA CheckStepTypes ==
    ASSUME ConnBooks, NEW m \in Monitors,
           Check(m) \/ CheckYields(m) \/ CheckDelayed(m) \/ CheckStep(m)
    PROVE  ConnBooks'
<1> m \in Callers /\ m \notin Users
  BY OpsAssumption DEF Callers, Ops
<1> USE DEF ConnBooks
<1>1. countVars' = countVars /\ CountTypes' /\ UNCHANGED tries
  BY DEF Check, CheckYields, CheckDelayed, CheckStep, CheckBegins,
         CheckConnects, CheckBreaks, CheckPasses, CheckFails, DropsClient,
         NextTick, countVars, CountTypes
<1>2. CASE Check(m) \/ CheckDelayed(m)
  <2>1. /\ UNCHANGED <<client, connected, held, doing, failures, backoff>>
        /\ shown' \in {shown, "DISCONNECTED"}
    BY <1>2 DEF Check, CheckDelayed, monitorVars
  <2> QED
    BY <1>1, <2>1, NobodyMoves, ConnectedClients DEF ShownTypes
<1>3. CASE CheckYields(m) \/ NextTick(m)
  <2>1. /\ UNCHANGED <<client, connected, held, monitorVars>>
        /\ \E x \in {"none", "yielded"} : doing' = [doing EXCEPT ![m] = x]
    BY <1>3 DEF CheckYields, NextTick
  <2>2. Conduct'
    BY <1>1, <2>1, ConnectedClients, CallerMoves DEF Actions
  <2> QED
    BY <1>1, <2>1, <2>2 DEF ShownTypes, monitorVars
<1>4. CASE CheckBegins(m)
  <2>1. Attempt(m) /\ UNCHANGED monitorVars
    BY <1>4 DEF CheckBegins
  <2> QED
    BY <1>1, <2>1, AttemptConduct DEF ShownTypes, monitorVars
<1>5. CASE CheckConnects(m)
  <2>1. /\ UNCHANGED <<client, held, monitorVars>>
        /\ doing[m] \in {"dial", "io"} /\ connected' \subseteq Connected(m)
        /\ doing' = [doing EXCEPT ![m] = "passed"]
    BY <1>5 DEF CheckConnects, Connected
  <2>2. Conduct'
    BY <1>1, <2>1, ConnectedClients, CallerMoves DEF Actions
  <2> QED
    BY <1>1, <2>1, <2>2 DEF ShownTypes, monitorVars
<1>6. CASE CheckBreaks(m)
  <2>1. /\ UNCHANGED <<client, connected, held, monitorVars>>
        /\ doing' = [doing EXCEPT ![m] = "failed"]
    BY <1>6 DEF CheckBreaks
  <2>2. Conduct'
    BY <1>1, <2>1, ConnectedClients, CallerMoves DEF Actions
  <2> QED
    BY <1>1, <2>1, <2>2 DEF ShownTypes, monitorVars
<1>7. CASE CheckPasses(m)
  <2>1. /\ client' = client /\ connected' \subseteq connected
        /\ held' = [held EXCEPT ![m] = NoClient]
        /\ doing' = [doing EXCEPT ![m] = "none"]
        /\ failures' = 0 /\ backoff' = FALSE /\ shown' = "CONNECTED"
    BY <1>7, KeepsSome DEF CheckPasses, Leaves
  <2>2. Conduct'
    BY <1>1, <2>1, ConnectedClients, CallerMoves DEF Actions
  <2> QED
    BY <1>1, <2>1, <2>2, ZeroIsAllowed DEF ShownTypes
<1>8. CASE CheckFails(m)
  <2>1. /\ client' = client /\ connected' \subseteq connected
        /\ held' = [held EXCEPT ![m] = NoClient]
        /\ \E x \in {"none", "drop"} : doing' = [doing EXCEPT ![m] = x]
        /\ failures' = (failures + 1) % RecreateAfter /\ backoff' = TRUE
        /\ shown' \in {shown, "DISCONNECTED"}
    BY <1>8, KeepsSome DEF CheckFails, Leaves, Disconnected
  <2>2. Conduct'
    BY <1>1, <2>1, ConnectedClients, CallerMoves DEF Actions
  <2>3. failures' \in 0 .. RecreateAfter - 1
    BY <2>1, LimitsAssumption DEF ShownTypes
  <2> QED
    BY <1>1, <2>1, <2>2, <2>3 DEF ShownTypes
<1>9. CASE DropsClient(m)
  <2>1. /\ client' = NoClient /\ connected' \subseteq connected /\ held' = held
        /\ doing' = [doing EXCEPT ![m] = "none"]
        /\ shown' = "DISCONNECTED" /\ UNCHANGED <<failures, backoff>>
    BY <1>9, KeepsSome DEF DropsClient
  <2>2. Conduct'
    BY <1>1, <2>1, ConnectedClients, CallerMoves DEF Actions
  <2> QED
    BY <1>1, <2>1, <2>2 DEF ShownTypes
<1> QED
  BY <1>2, <1>3, <1>4, <1>5, <1>6, <1>7, <1>8, <1>9 DEF CheckStep

(***************************************************************************)
(* Registrations, and what happens to the connection without a caller.     *)
(***************************************************************************)
LEMMA OtherStepTypes ==
    ASSUME ConnBooks,
           \/ \E g \in Registrars :
                 Register(g) \/ RegisterConnects(g) \/ RegisterFails(g)
           \/ \E o \in Ops : Reuse(o)
           \/ BackoffEnds \/ ResetByOther
    PROVE  ConnBooks'
<1> USE DEF ConnBooks
<1>1. ASSUME NEW g \in Registrars,
             Register(g) \/ RegisterConnects(g) \/ RegisterFails(g)
      PROVE  ConnBooks'
  <2>1. g \in Callers /\ g \notin Users
    BY RegistrarsAssumption DEF Callers, Ops
  <2>2. UNCHANGED <<countVars, failures, backoff>> /\ UNCHANGED tries
    BY <1>1 DEF Register, RegisterConnects, RegisterFails, monitorVars, countVars
  <2>3. CountTypes' /\ ShownTypes'
    BY <1>1, <2>2 DEF CountTypes, ShownTypes, Register, RegisterConnects,
                      RegisterFails, monitorVars, countVars
  <2>4. CASE Register(g)
    BY <2>1, <2>2, <2>3, <2>4, AttemptConduct DEF Register
  <2>5. CASE RegisterConnects(g) \/ RegisterFails(g)
    <3>1. /\ client' = client /\ connected' \subseteq Connected(g)
          /\ held' = [held EXCEPT ![g] = NoClient]
          /\ doing' = [doing EXCEPT ![g] = "none"]
          /\ doing[g] \in {"dial", "io"}
      BY <2>5, KeepsSome DEF RegisterConnects, RegisterFails, Leaves, Connected
    <3>2. Conduct'
      BY <2>1, <2>2, <3>1, ConnectedClients, CallerMoves DEF Actions
    <3> QED
      BY <2>3, <3>2
  <2> QED
    BY <1>1, <2>4, <2>5
<1>2. CASE (\E o \in Ops : Reuse(o)) \/ BackoffEnds
  <2>1. /\ UNCHANGED <<client, connected, held, doing, countVars, failures, shown>>
        /\ UNCHANGED tries /\ backoff' \in {backoff, FALSE}
    BY <1>2 DEF Reuse, BackoffEnds, countVars, monitorVars
  <2>2. Conduct'
    BY <2>1, NobodyMoves DEF Conduct, ClientTypes
  <2> QED
    BY <2>1, <2>2 DEF CountTypes, ShownTypes, countVars
<1>3. CASE ResetByOther
  <2>1. /\ client' = NoClient /\ connected' \subseteq connected
        /\ UNCHANGED <<held, doing, tries, round, shown>>
        /\ streak' = 0 /\ failures' = 0 /\ backoff' = FALSE
    BY <1>3, KeepsSome DEF ResetByOther, ClearTransport, Disconnected
  <2>2. Conduct'
    BY <2>1, NobodyMoves
  <2> QED
    BY <2>1, <2>2, ZeroIsAllowed DEF CountTypes, ShownTypes
<1> QED
  BY <1>1, <1>2, <1>3

(***************************************************************************)
(* The books of the connection and of the mutex are kept together.         *)
(***************************************************************************)
LEMMA ConnInvariance == ConnSpec => [](IInv /\ ConnBooks)
<1>1. ConnInit => IInv /\ ConnBooks
  <2> SUFFICES ASSUME ConnInit PROVE IInv /\ ConnBooks
    OBVIOUS
  <2>1. IInv
    BY InitIInv DEF ConnInit
  <2>2. CountTypes /\ ShownTypes
    BY ZeroIsAllowed DEF ConnInit, CountTypes, ShownTypes
  <2>3. Conduct
    BY DEF ConnInit, Conduct, ClientTypes, SleepersHaveTries,
           WorkersHaveClients, Actions, Callers, Ops
  <2> QED
    BY <2>1, <2>2, <2>3 DEF ConnBooks
<1>2. IInv /\ ConnBooks /\ [ConnNext]_connVars => (IInv /\ ConnBooks)'
  <2> SUFFICES ASSUME IInv, ConnBooks, [ConnNext]_connVars
               PROVE  IInv' /\ ConnBooks'
    OBVIOUS
  <2>1. IInv'
    BY ConnStepsUseMutex, NextIInv DEF MutexStep, Next, connVars, vars
  <2>2. CASE UNCHANGED connVars
    BY <2>1, <2>2
       DEF connVars, countVars, monitorVars, ConnBooks, Conduct, ClientTypes,
           CountTypes, ShownTypes, SleepersHaveTries, WorkersHaveClients
  <2>3. CASE ConnNext
    BY <2>1, <2>3, OpStepTypes, CheckStepTypes, OtherStepTypes DEF ConnNext
  <2> QED
    BY <2>2, <2>3
<1> QED
  BY <1>1, <1>2, PTL DEF ConnSpec

(***************************************************************************)
(* Every limit is kept: attempts in a round, rounds, the streak of new     *)
(* clients, the failures of the monitor; and a new client has a name of    *)
(* its own.                                                                *)
(***************************************************************************)
THEOREM ConnTypeCorrectness == ConnSpec => []ConnTypeOK
<1>1. IInv /\ ConnBooks => ConnTypeOK
  BY DEF IInv, ConnBooks, Conduct, ClientTypes, CountTypes, ShownTypes,
         Actions, ConnTypeOK
<1> QED
  BY <1>1, ConnInvariance, PTL

-----------------------------------------------------------------------------
(***************************************************************************)
(* The monitor's check has the device to itself.  While its operation is   *)
(* under way no other one is in flight, and whoever else is chained waits  *)
(* for a promise that is still open: in the end, for the check.  It began  *)
(* that way, because it looked in a calm moment and found an exact count   *)
(* of zero.                                                                *)
(***************************************************************************)
Unsettled == {"chained", "running", "ended"}

Waits(o) == op[o] = "chained" => behind[o] # None /\ op[behind[o]] \in Unsettled

Alone(m) ==
    /\ tail # None /\ op[tail] \in Unsettled
    /\ \A o \in Ops \ {m} : op[o] \notin {"running", "ended"} /\ Waits(o)

ChecksAlone == ~cleared => \A m \in Monitors : op[m] \in Unsettled => Alone(m)

NobodyAwaitsIdle ==
    /\ tail # None => op[tail] # "idle"
    /\ \A o \in Ops :
         op[o] = "chained" /\ behind[o] # None => op[behind[o]] # "idle"

Company == NobodyAwaitsIdle /\ ChecksAlone

\* An operation that connects, accesses, sleeps or cools down runs.
WorkersRun ==
    \A u \in Users :
       doing[u] \in {"dial", "io", "sleep", "cooldown"} => op[u] = "running"

(***************************************************************************)
(* Nobody is chained to an operation that has not been called.             *)
(***************************************************************************)
LEMMA NobodyAwaitsIdleKept ==
    ASSUME TypeOK, NobodyAwaitsIdle, MutexStep PROVE NobodyAwaitsIdle'
<1> USE NoneAssumption DEF TypeOK, NobodyAwaitsIdle
<1>1. ASSUME NEW o \in Ops, op[o] = "idle", Chain(o) PROVE NobodyAwaitsIdle'
  BY <1>1 DEF Chain
<1>2. ASSUME NEW o \in Ops, Step(o) PROVE NobodyAwaitsIdle'
  <2>1. CASE Start(o)
    BY <2>1 DEF Start
  <2>2. CASE End(o)
    BY <2>2 DEF End
  <2>3. CASE Settle(o)
    BY <2>3 DEF Settle
  <2> QED
    BY <1>2, <2>1, <2>2, <2>3 DEF Step
<1>3. ASSUME NEW o \in Ops, Return(o) PROVE NobodyAwaitsIdle'
  BY <1>3 DEF Return
<1>4. CASE Clear
  BY <1>4 DEF Clear
<1> QED
  BY <1>1, <1>2, <1>3, <1>4 DEF MutexStep, Run, TryRun

(***************************************************************************)
(* In a calm moment with nothing in flight everybody waits.                *)
(***************************************************************************)
LEMMA CalmAndFree ==
    ASSUME IInv, NobodyAwaitsIdle, Calm, ~IsLocked, ~cleared
    PROVE  \A o \in Ops : op[o] \notin {"running", "ended"} /\ Waits(o)
<1>1. InFlight = {}
  <2>1. inflight = 0
    BY DEF IInv, TypeOK, IsLocked
  <2>2. Cardinality(InFlight) = 0
    BY <2>1 DEF IInv, CountIsExact
  <2> QED
    BY <2>2, FiniteInFlight, FS_EmptySet
<1> SUFFICES ASSUME NEW o \in Ops
             PROVE  op[o] \notin {"running", "ended"} /\ Waits(o)
  OBVIOUS
<1>2. op[o] \notin {"running", "ended"}
  BY <1>1 DEF InFlight
<1>3. ASSUME op[o] = "chained" PROVE behind[o] # None /\ op[behind[o]] \in Unsettled
  <2>1. behind[o] # None /\ op[behind[o]] # "settled"
    BY <1>3 DEF Calm, Ready
  <2>2. op[behind[o]] # "idle" /\ op[behind[o]] \in Places
    BY <1>3, <2>1 DEF NobodyAwaitsIdle, IInv, TypeOK
  <2> QED
    BY <2>1, <2>2 DEF Places, Unsettled
<1> QED
  BY <1>2, <1>3 DEF Waits

(***************************************************************************)
(* A check stays alone until it is over.                                   *)
(***************************************************************************)
LEMMA ChecksAloneKept ==
    ASSUME IInv, Company, MutexStep PROVE ChecksAlone'
<1> SUFFICES ASSUME ~cleared', NEW m \in Monitors, op'[m] \in Unsettled
             PROVE  Alone(m)'
  BY DEF ChecksAlone
<1>0. /\ TypeOK /\ NobodyAwaitsIdle /\ ChecksAlone /\ m \in Ops
      /\ ~cleared /\ ~Clear
  BY DEF IInv, Company, Ops, MutexStep, Run, TryRun, Chain, Step, Start, End,
         Settle, Return, Clear
<1>1. ASSUME op[m] \in Unsettled PROVE Alone(m)
  BY <1>0, <1>1 DEF ChecksAlone
<1> USE NoneAssumption DEF TypeOK, Unsettled, Waits
<1>2. ASSUME NEW o \in Ops, Run(o) PROVE Alone(m)'
  <2>1. op[o] = "idle" /\ Chain(o) /\ o # m
    BY <1>2, OpsAssumption DEF Run
  <2>2. Alone(m)
    BY <1>0, <1>1, <2>1 DEF Chain
  <2> QED
    BY <1>0, <2>1, <2>2 DEF Chain, Alone
<1>3. ASSUME NEW o \in Ops, Calm, TryRun(o) PROVE Alone(m)'
  <2>1. op[o] = "idle" /\ Chain(o) /\ tail = None /\ ~IsLocked
    BY <1>3 DEF TryRun, IsLocked
  <2>2. o = m
    BY <1>0, <1>1, <2>1 DEF Chain, Alone
  <2>3. \A p \in Ops : op[p] \notin {"running", "ended"} /\ Waits(p)
    BY <1>0, <1>3, <2>1, CalmAndFree
  <2> QED
    BY <1>0, <2>1, <2>2, <2>3 DEF Chain, Alone
<1>4. ASSUME NEW o \in Ops, Step(o) PROVE Alone(m)'
  <2>1. op[m] \in Unsettled
    BY <1>0, <1>4 DEF Step, Start, End, Settle, Ready
  <2>2. Alone(m)
    BY <1>1, <2>1
  <2>3. o = m
    BY <1>0, <1>4, <2>2 DEF Step, Start, End, Settle, Ready, Alone
  <2>4. ~Settle(o)
    BY <1>0, <2>3 DEF Settle
  <2>5. Start(o) \/ End(o)
    BY <1>4, <2>4 DEF Step
  <2> QED
    BY <1>0, <2>2, <2>3, <2>5 DEF Start, End, Alone
<1>5. ASSUME NEW o \in Ops, Return(o) PROVE Alone(m)'
  <2>1. op[m] \in Unsettled
    BY <1>0, <1>5 DEF Return
  <2> QED
    BY <1>0, <1>1, <1>5, <2>1 DEF Return, Alone
<1> QED
  BY <1>0, <1>2, <1>3, <1>4, <1>5 DEF MutexStep

(***************************************************************************)
(* Whoever works with a client is the operation that runs.                 *)
(***************************************************************************)
LEMMA WorkersRunKept ==
    ASSUME TypeOK, ClientTypes, WorkersRun, [ConnNext]_connVars
    PROVE  WorkersRun'
<1> SUFFICES ASSUME NEW u \in Users,
                    doing'[u] \in {"dial", "io", "sleep", "cooldown"}
             PROVE  op'[u] = "running"
  BY DEF WorkersRun
<1> u \in Ops /\ u \in Callers
  BY DEF Ops, Callers
<1> USE DEF TypeOK, ClientTypes
<1>1. ASSUME NEW v \in Users, Call(v) \/ OpStep(v) PROVE op'[u] = "running"
  <2> v \in Ops /\ v \in Callers
    BY DEF Ops, Callers
  <2>1. CASE Begin(v)
    <3>1. /\ op' = [op EXCEPT ![v] = "running"]
          /\ \E x \in {"dial", "io"} : doing' = [doing EXCEPT ![v] = x]
      BY <2>1 DEF Begin, Start, Attempt
    <3> QED
      BY <3>1 DEF WorkersRun
  <2>2. CASE Call(v) \/ Finishes(v)
    <3>1. /\ doing' = doing /\ op[v] \in {"idle", "ended"}
          /\ \E x \in Places : op' = [op EXCEPT ![v] = x]
      BY <2>2 DEF Call, Run, Chain, Finishes, Settle, Places
    <3> QED
      BY <3>1 DEF WorkersRun
  <2>3. CASE \/ DialsThrough(v) \/ TriesAgainLater(v) \/ NextRound(v)
             \/ ResetsTransport(v) \/ Wakes(v)
    <3>1. /\ op' = op
          /\ doing[v] \in {"dial", "io", "sleep", "cooldown"}
          /\ \E x \in Actions : doing' = [doing EXCEPT ![v] = x]
      BY <2>3 DEF DialsThrough, TriesAgainLater, NextRound, ResetsTransport,
                  Wakes, Attempt, LosesLink, RoundFails, Breaks, ClearTransport,
                  Clear, vars, Actions
    <3> QED
      BY <3>1 DEF WorkersRun
  <2>4. CASE Succeeds(v) \/ FailsForGood(v) \/ GivesUp(v) \/ CoolsDown(v)
    <3>1. /\ op' = [op EXCEPT ![v] = "ended"]
          /\ doing' = [doing EXCEPT ![v] = "none"]
      BY <2>4 DEF Succeeds, FailsForGood, GivesUp, CoolsDown, Ends, End, Leaves
    <3> QED
      BY <3>1 DEF WorkersRun
  <2> QED
    BY <1>1, <2>1, <2>2, <2>3, <2>4 DEF OpStep, OpAnswered
<1>2. ASSUME NEW k \in Callers \ Users,
             \E x \in Actions : doing' = [doing EXCEPT ![k] = x],
             op'[u] = op[u]
      PROVE  op'[u] = "running"
  BY <1>2 DEF WorkersRun
<1>3. ASSUME NEW m \in Monitors,
             Check(m) \/ CheckYields(m) \/ CheckDelayed(m) \/ CheckStep(m)
      PROVE  op'[u] = "running"
  <2>1. m \in Callers \ Users
    BY OpsAssumption DEF Callers, Ops
  <2>2. \E x \in Actions : doing' = [doing EXCEPT ![m] = x]
    <3>1. doing = [doing EXCEPT ![m] = doing[m]]
      BY <2>1
    <3> QED
      BY <1>3, <2>1, <3>1
         DEF Check, CheckYields, CheckDelayed, CheckStep, CheckBegins, Attempt,
             CheckConnects, CheckBreaks, CheckPasses, CheckFails, Leaves,
             DropsClient, NextTick, Actions
  <2>3. op'[u] = op[u]
    BY <1>3, <2>1
       DEF Check, TryRun, Chain, CheckYields, CheckDelayed, CheckStep,
           CheckBegins, Start, CheckConnects, CheckBreaks, End, CheckPasses,
           CheckFails, Settle, DropsClient, NextTick, vars
  <2> QED
    BY <1>2, <2>1, <2>2, <2>3
<1>4. ASSUME NEW g \in Registrars,
             Register(g) \/ RegisterConnects(g) \/ RegisterFails(g)
      PROVE  op'[u] = "running"
  <2>1. g \in Callers \ Users
    BY RegistrarsAssumption DEF Callers, Ops
  <2>2. op' = op /\ \E x \in Actions : doing' = [doing EXCEPT ![g] = x]
    BY <1>4 DEF Register, RegisterConnects, RegisterFails, Attempt, Leaves,
                Actions, vars
  <2> QED
    BY <1>2, <2>1, <2>2
<1>5. CASE (\E o \in Ops : Reuse(o)) \/ BackoffEnds \/ ResetByOther
  <2>1. doing' = doing /\ (op[u] = "running" => op'[u] = "running")
    BY <1>5 DEF Reuse, Return, BackoffEnds, ResetByOther, ClearTransport, Clear,
                vars
  <2> QED
    BY <2>1 DEF WorkersRun
<1>6. CASE UNCHANGED connVars
  BY <1>6 DEF connVars, vars, WorkersRun
<1> QED
  BY <1>1, <1>3, <1>4, <1>5, <1>6 DEF ConnNext

(***************************************************************************)
(* Together with the books, both are invariants.                           *)
(***************************************************************************)
LEMMA CompanyInvariance == ConnSpec => [](Company /\ WorkersRun)
<1>1. ConnInit => Company /\ WorkersRun
  <2> SUFFICES ASSUME ConnInit PROVE Company /\ WorkersRun
    OBVIOUS
  <2>1. Init /\ \A o \in Ops : doing[o] = "none" /\ op[o] = "idle"
    BY DEF ConnInit, Init, Callers
  <2>2. NobodyAwaitsIdle
    BY <2>1 DEF Init, NobodyAwaitsIdle
  <2>3. ChecksAlone
    BY <2>1 DEF ChecksAlone, Unsettled, Ops
  <2>4. WorkersRun
    BY <2>1 DEF WorkersRun, Ops
  <2> QED
    BY <2>2, <2>3, <2>4 DEF Company
<1>2. IInv /\ ConnBooks /\ Company /\ WorkersRun /\ [ConnNext]_connVars
      => (Company /\ WorkersRun)'
  <2> SUFFICES ASSUME IInv, ConnBooks, Company, WorkersRun, [ConnNext]_connVars
               PROVE  Company' /\ WorkersRun'
    OBVIOUS
  <2>1. TypeOK /\ ClientTypes /\ NobodyAwaitsIdle
    BY DEF IInv, ConnBooks, Conduct, Company
  <2>2. WorkersRun'
    BY <2>1, WorkersRunKept
  <2>3. MutexStep \/ UNCHANGED vars
    BY ConnStepsUseMutex DEF connVars
  <2>4. CASE MutexStep
    BY <2>1, <2>2, <2>4, NobodyAwaitsIdleKept, ChecksAloneKept DEF Company
  <2>5. CASE UNCHANGED vars
    BY <2>2, <2>5
       DEF vars, Company, NobodyAwaitsIdle, ChecksAlone, Alone, Waits
  <2> QED
    BY <2>3, <2>4, <2>5
<1> QED
  BY <1>1, <1>2, ConnInvariance, PTL DEF ConnSpec

(***************************************************************************)
(* Until a hard reset the monitor never breaks the connection under an     *)
(* operation.  What it does to the client it does while its check is under *)
(* way, and alone; what it still does after the check, the deletion of the *)
(* client, leaves the socket of an operation that has begun by then alone. *)
(***************************************************************************)
THEOREM MonitorsSpareSockets == ConnSpec => MonitorSparesSockets
<1>1. ASSUME IInv, ConnBooks, Company, WorkersRun, [ConnNext]_connVars,
             NEW u \in Users, NEW m \in Monitors,
             ~cleared, doing'[m] # doing[m], doing[u] = "io", doing'[u] = "io"
      PROVE  held[u] \in connected' <=> held[u] \in connected
  <2> USE <1>1
  <2>1. u \in Callers /\ m \in Callers /\ m \notin Users \cup Registrars
        /\ u \in Ops /\ m \in Ops
    BY OpsAssumption, RegistrarsAssumption DEF Callers, Ops
  <2>2. doing \in [Callers -> Actions]
    BY DEF ConnBooks, Conduct, ClientTypes
  <2>3. op[m] \notin Unsettled
    <3>1. op[u] = "running" /\ u # m
      BY <2>1 DEF WorkersRun
    <3> QED
      BY <2>1, <3>1 DEF Company, ChecksAlone, Alone
  <2>4. ~(\E v \in Users : Call(v) \/ OpStep(v))
    <3> SUFFICES ASSUME NEW v \in Users, Call(v) \/ OpStep(v) PROVE FALSE
      OBVIOUS
    <3>1. v # m
      BY <2>1
    <3>2. doing'[m] = doing[m]
      BY <2>1, <2>2, <3>1
         DEF Call, OpStep, OpAnswered, Begin, Attempt, DialsThrough, Succeeds,
             FailsForGood, TriesAgainLater, NextRound, GivesUp,
             ResetsTransport, Wakes, CoolsDown, Finishes, Ends, Leaves
    <3> QED
      BY <3>2
  <2>5. ~(\E g \in Registrars :
             Register(g) \/ RegisterConnects(g) \/ RegisterFails(g))
    BY <2>1, <2>2
       DEF Register, RegisterConnects, RegisterFails, Attempt, Leaves
  <2>6. ~(\E o \in Ops : Reuse(o)) /\ ~BackoffEnds /\ ~ResetByOther
        /\ ~UNCHANGED connVars
    BY DEF Reuse, BackoffEnds, ResetByOther, connVars
  <2>7. PICK n \in Monitors :
          Check(n) \/ CheckYields(n) \/ CheckDelayed(n) \/ CheckStep(n)
    BY <2>4, <2>5, <2>6 DEF ConnNext
  <2>8. n = m
    <3>1. n \in Callers
      BY DEF Callers, Ops
    <3> QED
      BY <2>1, <2>2, <2>7, <3>1
         DEF Check, CheckYields, CheckDelayed, CheckStep, CheckBegins, Attempt,
             CheckConnects, CheckBreaks, CheckPasses, CheckFails, Leaves,
             DropsClient, NextTick
  <2>9. CheckYields(m) \/ DropsClient(m) \/ NextTick(m)
    BY <2>3, <2>7, <2>8
       DEF Check, CheckDelayed, CheckStep, CheckBegins, Start, Ready,
           CheckConnects, CheckBreaks, End, CheckPasses, CheckFails, Settle,
           Unsettled
  <2>10. CASE CheckYields(m) \/ NextTick(m)
    BY <2>10 DEF CheckYields, NextTick
  <2>11. CASE DropsClient(m)
    <3>1. connected' = {c \in connected :
                          c = client' \/ \E k \in Callers : held[k] = c}
      BY <2>11 DEF DropsClient, Keeps
    <3> QED
      BY <2>1, <3>1
  <2> QED
    BY <2>9, <2>10, <2>11
<1>2. IInv /\ ConnBooks /\ Company /\ WorkersRun /\ [ConnNext]_connVars
      => [\A u \in Users, m \in Monitors :
            /\ ~cleared /\ doing'[m] # doing[m]
            /\ doing[u] = "io" /\ doing'[u] = "io"
            => (held[u] \in connected' <=> held[u] \in connected)]_connVars
  BY <1>1
<1> QED
  BY <1>2, ConnInvariance, CompanyInvariance, PTL
     DEF ConnSpec, MonitorSparesSockets
=============================================================================
