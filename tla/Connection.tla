----------------------------- MODULE Connection -----------------------------
(***************************************************************************)
(* The connection of one device (ConnectionService.js, ModbusClient.js):   *)
(* its entry in the map of clients, the operations that reconnect and try  *)
(* again, the monitor that checks the connection between them, and the     *)
(* hard reset of the whole transport, by this device or by another.        *)
(*                                                                         *)
(* Operations and the monitor go through the device's mutex, whose actions *)
(* these refine.  The registration of a device connects beside it.         *)
(***************************************************************************)
EXTENDS DeviceMutex

CONSTANTS
    Registrars,     \* the calls of connectDevice
    MaxClients,     \* names for ModbusClient objects, reused when forgotten
    InnerAttempts,  \* MODBUS_CONNECTIVITY_INNER_ATTEMPTS, 3
    HardLimit,      \* modbusHardResetAfterRecreates, 10
    RecreateAfter   \* recreateClientAfterFailures, 5

Callers == Ops \cup Registrars
Clients == 1 .. MaxClients
NoClient == 0

ASSUME RegistrarsAssumption == Registrars \cap (Ops \cup {None}) = {}
ASSUME LimitsAssumption ==
    /\ InnerAttempts \in Nat \ {0}
    /\ HardLimit \in Nat \ {0}
    /\ RecreateAfter \in Nat \ {0}
    /\ MaxClients \in Nat
\* As many names as there are callers, so that a new client finds one.
ASSUME ClientsAssumption ==
    IsFiniteSet(Registrars) /\ MaxClients >= Cardinality(Callers)

VARIABLES
    client,     \* clients.get(key)
    connected,  \* the clients whose connected flag is set
    held,       \* the client each caller works with
    doing,      \* where each caller is
    tries,      \* attempts of each operation in its round
    round,      \* full rounds of each operation
    streak,     \* modbusRecreateStreakByDevice.get(key)
    failures,   \* consecutiveFailures modulo RecreateAfter
    backoff,    \* nextRetryAt is in the future
    shown       \* the device's status in the registry and in the books

countVars == <<tries, round, streak>>
monitorVars == <<failures, backoff, shown>>
connVars == <<vars, client, connected, held, doing, countVars, monitorVars>>

ConnInit ==
    /\ Init
    /\ client = NoClient
    /\ connected = {}
    /\ held = [k \in Callers |-> NoClient]
    /\ doing = [k \in Callers |-> "none"]
    /\ tries = [u \in Users |-> 0]
    /\ round = [u \in Users |-> 0]
    /\ streak = 0 /\ failures = 0 /\ backoff = FALSE
    /\ shown \in {"CONNECTED", "DISCONNECTED"}   \* as the snapshot says

\* No promise job of this device is queued: a socket, a timer or a request
\* comes next.  A caller whose operation ended may call again as such a job.
Calm ==
    /\ \A o \in Ops : op[o] # "ended" /\ ~Ready(o)
    /\ \A m \in Monitors : doing[m] \in {"none", "dial", "yielded"}

-----------------------------------------------------------------------------
(***************************************************************************)
(* Clients.                                                                *)
(***************************************************************************)
\* A name nobody else uses.
Fresh(k) == CHOOSE c \in Clients : \A j \in Callers \ {k} : held[j] # c

\* A client that nobody refers to any more is forgotten.
Keeps(clients) ==
    connected' = {c \in clients : c = client' \/ \E k \in Callers : held'[k] = c}

\* getClient, and the test in ensureConnected: the flag alone decides whether
\* a connection is set up.
Attempt(k) ==
    \/ /\ client = NoClient
       /\ client' = Fresh(k)
       /\ held' = [held EXCEPT ![k] = client']
       /\ Keeps(connected \ {client'})
       /\ doing' = [doing EXCEPT ![k] = "dial"]
    \/ /\ client # NoClient
       /\ UNCHANGED client
       /\ held' = [held EXCEPT ![k] = client]
       /\ Keeps(connected)
       /\ doing' = [doing EXCEPT ![k] = IF client \in connected THEN "io" ELSE "dial"]

\* connectTCP went through.
Connected(k) == connected \cup {held[k]}

\* A connection cannot be set up, or a register access fails.
Breaks(k) == Calm /\ doing[k] \in {"dial", "io"}
MarkedDown(k) == connected \ {held[k]}

\* disconnect of the client in the map.  A client whose connection is still
\* being set up has nothing to close: it connects later all the same.
Disconnected(clients) == clients \ {client}

Leaves(k) ==
    /\ held' = [held EXCEPT ![k] = NoClient]
    /\ doing' = [doing EXCEPT ![k] = "none"]

-----------------------------------------------------------------------------
(***************************************************************************)
(* runModbusOp: InnerAttempts attempts, then a new client, and so on until *)
(* HardLimit clients in a row have failed.                                 *)
(***************************************************************************)
Ends(u) ==
    /\ End(u) /\ Leaves(u)
    /\ tries' = [tries EXCEPT ![u] = 0]
    /\ round' = [round EXCEPT ![u] = 0]

Call(u) ==
    /\ Run(u) /\ doing[u] = "none"
    /\ UNCHANGED <<client, connected, held, doing, countVars, monitorVars>>

Begin(u) ==
    /\ u \in Users /\ Start(u) /\ Attempt(u)
    /\ tries' = [tries EXCEPT ![u] = 1]
    /\ UNCHANGED <<round, streak, monitorVars>>

DialsThrough(u) ==
    /\ u \in Users /\ Calm /\ doing[u] = "dial"
    /\ connected' = Connected(u)
    /\ doing' = [doing EXCEPT ![u] = "io"]
    /\ UNCHANGED <<vars, client, held, countVars, monitorVars>>

\* The accesses reconnect a client that was closed under the operation.
Succeeds(u) ==
    /\ u \in Users /\ Calm /\ doing[u] = "io"
    /\ Ends(u) /\ UNCHANGED client /\ Keeps(Connected(u))
    /\ failures' = 0 /\ backoff' = FALSE /\ streak' = 0
    /\ UNCHANGED shown

\* An error that isConnectivityError does not know is thrown at once.
FailsForGood(u) ==
    /\ u \in Users /\ Breaks(u)
    /\ Ends(u) /\ UNCHANGED client /\ Keeps(connected)
    /\ UNCHANGED <<streak, monitorVars>>

\* notifyModbusConnectivityIssue.
LosesLink(u) ==
    u \in Users /\ Breaks(u) /\ shown' = "DISCONNECTED"

\* Faulty variant: one attempt too many.
TriesOnceMore(u) ==
    /\ LosesLink(u)
    /\ tries[u] <= InnerAttempts
    /\ connected' = MarkedDown(u)
    /\ doing' = [doing EXCEPT ![u] = "sleep"]
    /\ UNCHANGED <<vars, client, held, countVars, failures, backoff>>

TriesAgainLater(u) ==
    /\ LosesLink(u)
    /\ tries[u] < InnerAttempts
    /\ connected' = MarkedDown(u)
    /\ doing' = [doing EXCEPT ![u] = "sleep"]
    /\ UNCHANGED <<vars, client, held, countVars, failures, backoff>>

Wakes(u) ==
    /\ u \in Users /\ Calm /\ doing[u] = "sleep" /\ Attempt(u)
    /\ tries' = [tries EXCEPT ![u] = @ + 1]
    /\ UNCHANGED <<vars, round, streak, monitorVars>>

\* The last attempt of a round: the client is closed and deleted.
RoundFails(u) == LosesLink(u) /\ tries[u] = InnerAttempts

\* Faulty variant: no round is ever the last one.
NextRoundForEver(u) ==
    /\ RoundFails(u)
    /\ client' = Fresh(u) /\ held' = [held EXCEPT ![u] = client']
    /\ Keeps(Disconnected(MarkedDown(u)))
    /\ doing' = [doing EXCEPT ![u] = "dial"]
    /\ tries' = [tries EXCEPT ![u] = 1]
    /\ UNCHANGED <<vars, round, streak, failures, backoff>>

NextRound(u) ==
    /\ RoundFails(u)
    /\ streak + 1 < HardLimit /\ round[u] < HardLimit
    /\ client' = Fresh(u) /\ held' = [held EXCEPT ![u] = client']
    /\ Keeps(Disconnected(MarkedDown(u)))
    /\ doing' = [doing EXCEPT ![u] = "dial"]
    /\ tries' = [tries EXCEPT ![u] = 1]
    /\ round' = [round EXCEPT ![u] = @ + 1]
    /\ streak' = streak + 1
    /\ UNCHANGED <<vars, failures, backoff>>

\* Somebody else's success reset the streak between the rounds.
GivesUp(u) ==
    /\ RoundFails(u)
    /\ streak + 1 < HardLimit /\ round[u] = HardLimit
    /\ Ends(u) /\ client' = NoClient /\ Keeps(Disconnected(MarkedDown(u)))
    /\ streak' = streak + 1
    /\ UNCHANGED <<failures, backoff>>

\* hardResetModbusTransport: clients, recovery, streaks and mutex are cleared.
ClearTransport(clients) ==
    /\ Clear
    /\ client' = NoClient /\ Keeps(Disconnected(clients))
    /\ streak' = 0 /\ failures' = 0 /\ backoff' = FALSE

ResetsTransport(u) ==
    /\ RoundFails(u)
    /\ streak + 1 >= HardLimit
    /\ held' = [held EXCEPT ![u] = NoClient]
    /\ doing' = [doing EXCEPT ![u] = "cooldown"]
    /\ ClearTransport(MarkedDown(u))
    /\ UNCHANGED <<tries, round>>

CoolsDown(u) ==
    /\ u \in Users /\ Calm /\ doing[u] = "cooldown" /\ Ends(u)
    /\ UNCHANGED <<client, connected, streak, monitorVars>>

Finishes(u) ==
    /\ u \in Users /\ Settle(u)
    /\ UNCHANGED <<client, connected, held, doing, countVars, monitorVars>>

\* The hard reset of another device.
ResetByOther ==
    /\ Calm
    /\ UNCHANGED <<held, doing, tries, round, shown>>
    /\ ClearTransport(connected)

-----------------------------------------------------------------------------
(***************************************************************************)
(* checkRobotConnections for this device.                                  *)
(***************************************************************************)
Due(m) == m \in Monitors /\ Calm /\ doing[m] = "none" /\ op[m] = "idle"

\* Faulty variant: the monitor queues up like an operation.
CheckInTurn(m) ==
    /\ Due(m) /\ ~backoff /\ Chain(m)
    /\ UNCHANGED <<client, connected, held, doing, countVars, monitorVars>>

Check(m) ==
    /\ Due(m) /\ ~backoff /\ TryRun(m)
    /\ UNCHANGED <<client, connected, held, doing, countVars, monitorVars>>

\* monitorPriorityResolver: the robot is working on an order.
CheckYields(m) ==
    /\ Due(m)
    /\ doing' = [doing EXCEPT ![m] = "yielded"]
    /\ UNCHANGED <<vars, client, connected, held, countVars, monitorVars>>

CheckDelayed(m) ==
    /\ Due(m) /\ backoff
    /\ shown' = "DISCONNECTED"
    /\ UNCHANGED <<vars, client, connected, held, doing, countVars, failures, backoff>>

BackoffEnds ==
    /\ Calm /\ backoff /\ backoff' = FALSE
    /\ UNCHANGED <<vars, client, connected, held, doing, countVars, failures, shown>>

CheckBegins(m) ==
    /\ m \in Monitors /\ Start(m) /\ Attempt(m)
    /\ UNCHANGED <<countVars, monitorVars>>

\* Connected already, or now: no register is read.
CheckConnects(m) ==
    /\ m \in Monitors /\ End(m)
    /\ \/ doing[m] = "io" /\ UNCHANGED connected
       \/ Calm /\ doing[m] = "dial" /\ connected' = Connected(m)
    /\ doing' = [doing EXCEPT ![m] = "passed"]
    /\ UNCHANGED <<client, held, countVars, monitorVars>>

CheckBreaks(m) ==
    /\ m \in Monitors /\ Calm /\ doing[m] = "dial" /\ End(m)
    /\ doing' = [doing EXCEPT ![m] = "failed"]
    /\ UNCHANGED <<client, connected, held, countVars, monitorVars>>

\* Faulty variant: the status is written only after a failed check.
CheckRecovers(m) ==
    /\ doing[m] = "passed" /\ Settle(m) /\ Leaves(m)
    /\ UNCHANGED client /\ Keeps(connected)
    /\ failures' = 0 /\ backoff' = FALSE
    /\ shown' = IF failures # 0 THEN "CONNECTED" ELSE shown
    /\ UNCHANGED countVars

CheckPasses(m) ==
    /\ doing[m] = "passed" /\ Settle(m) /\ Leaves(m)
    /\ UNCHANGED client /\ Keeps(connected)
    /\ failures' = 0 /\ backoff' = FALSE /\ shown' = "CONNECTED"
    /\ UNCHANGED countVars

CheckFails(m) ==
    /\ doing[m] = "failed" /\ Settle(m)
    /\ failures' = (failures + 1) % RecreateAfter
    /\ backoff' = TRUE
    /\ UNCHANGED <<client, countVars>>
    /\ \/ failures' # 0 /\ Leaves(m) /\ Keeps(connected) /\ shown' = "DISCONNECTED"
       \/ /\ failures' = 0
          /\ held' = [held EXCEPT ![m] = NoClient]
          /\ doing' = [doing EXCEPT ![m] = "drop"]
          /\ Keeps(Disconnected(connected))
          /\ UNCHANGED shown

\* The client in the map is deleted a promise job later than it is closed.
\* An operation that waited for the check has begun by then, with the client.
DropsClient(m) ==
    /\ doing[m] = "drop"
    /\ \A u \in Users : ~(op[u] = "chained" /\ behind[u] = m)
    /\ doing' = [doing EXCEPT ![m] = "none"]
    /\ client' = NoClient /\ UNCHANGED held /\ Keeps(connected)
    /\ shown' = "DISCONNECTED"
    /\ UNCHANGED <<vars, countVars, failures, backoff>>

NextTick(m) ==
    /\ Calm /\ doing[m] = "yielded"
    /\ doing' = [doing EXCEPT ![m] = "none"]
    /\ UNCHANGED <<vars, client, connected, held, countVars, monitorVars>>

-----------------------------------------------------------------------------
(***************************************************************************)
(* registerDevice and connectDevice, beside the mutex.                     *)
(***************************************************************************)
Register(g) ==
    /\ g \in Registrars /\ Calm /\ doing[g] = "none" /\ Attempt(g)
    /\ shown' = "DISCONNECTED"
    /\ UNCHANGED <<vars, countVars, failures, backoff>>

RegisterConnects(g) ==
    /\ g \in Registrars /\ Calm /\ doing[g] \in {"io", "dial"}
    /\ Leaves(g) /\ UNCHANGED client
    /\ Keeps(IF doing[g] = "io" THEN connected ELSE Connected(g))
    /\ shown' = "CONNECTED"
    /\ UNCHANGED <<vars, countVars, failures, backoff>>

RegisterFails(g) ==
    /\ g \in Registrars /\ Calm /\ doing[g] = "dial"
    /\ Leaves(g) /\ UNCHANGED client /\ Keeps(connected)
    /\ UNCHANGED <<vars, countVars, monitorVars>>

-----------------------------------------------------------------------------
Reuse(o) ==
    /\ doing[o] = "none" /\ Return(o)
    /\ UNCHANGED <<client, connected, held, doing, countVars, monitorVars>>

OpAnswered(u) ==
    \/ DialsThrough(u) \/ Succeeds(u) \/ FailsForGood(u)
    \/ TriesAgainLater(u) \/ NextRound(u) \/ GivesUp(u) \/ ResetsTransport(u)

OpStep(u) == Begin(u) \/ OpAnswered(u) \/ Wakes(u) \/ CoolsDown(u) \/ Finishes(u)

CheckStep(m) ==
    \/ CheckBegins(m) \/ CheckConnects(m) \/ CheckBreaks(m)
    \/ CheckPasses(m) \/ CheckFails(m) \/ DropsClient(m) \/ NextTick(m)

ConnNext ==
    \/ \E u \in Users : Call(u) \/ OpStep(u)
    \/ \E m \in Monitors :
         Check(m) \/ CheckYields(m) \/ CheckDelayed(m) \/ CheckStep(m)
    \/ \E g \in Registrars : Register(g) \/ RegisterConnects(g) \/ RegisterFails(g)
    \/ \E o \in Ops : Reuse(o)
    \/ BackoffEnds \/ ResetByOther

ConnSpec == ConnInit /\ [][ConnNext]_connVars

\* Promise jobs run and come to an end, so that sockets and timers get their
\* turn between them: attempts end, one way or the other, by their timeouts,
\* and the monitor's interval comes round.
ConnFairness ==
    /\ \A u \in Users : SF_connVars(OpStep(u))
    /\ \A m \in Monitors :
         SF_connVars(CheckStep(m)) /\ WF_connVars(Check(m)) /\ WF_connVars(Reuse(m))
    /\ WF_connVars(BackoffEnds)

ConnFairSpec == ConnSpec /\ ConnFairness

-----------------------------------------------------------------------------
ConnTypeOK ==
    /\ TypeOK
    /\ client \in Clients \cup {NoClient}
    /\ connected \subseteq Clients
    /\ held \in [Callers -> Clients \cup {NoClient}]
    /\ doing \in [Callers -> {"none", "dial", "io", "sleep", "cooldown",
                               "passed", "failed", "drop", "yielded"}]
    /\ tries \in [Users -> 0 .. InnerAttempts]
    /\ round \in [Users -> 0 .. HardLimit]
    /\ streak \in 0 .. HardLimit - 1
    /\ failures \in 0 .. RecreateAfter - 1
    /\ backoff \in BOOLEAN
    /\ shown \in {"CONNECTED", "DISCONNECTED"}

(***************************************************************************)
(* Until a hard reset the monitor never breaks the connection under an     *)
(* operation: when it closes the client after repeated failures, outside   *)
(* the mutex, no operation is in the middle of an access with it.          *)
(***************************************************************************)
MonitorSparesSockets ==
    [][\A u \in Users, m \in Monitors :
         /\ ~cleared /\ doing'[m] # doing[m]
         /\ doing[u] = "io" /\ doing'[u] = "io"
         => (held[u] \in connected' <=> held[u] \in connected)]_connVars

\* Only checks still happen, and they find the device.
Undisturbed ==
    /\ \A u \in Users : op'[u] \in {"idle", "settled"}
    /\ \A m \in Monitors : doing'[m] \notin {"yielded", "failed"}
    /\ \A g \in Registrars : doing'[g] = "none"

(***************************************************************************)
(* A device that answers again comes to be shown as CONNECTED, and stays   *)
(* so: no leftover of the failures before, of a hard reset or of a dropped *)
(* client keeps the monitor from it or takes the status back, however      *)
(* often it was connected and lost before.                                 *)
(***************************************************************************)
Reconnects == <>[][Undisturbed]_connVars => <>[](shown = "CONNECTED")

-----------------------------------------------------------------------------
\* The device takes no connection and answers no access, although the
\* monitor is not kept from checking.
Dead ==
    /\ \A u \in Users : ~Succeeds(u)
    /\ \A k \in Callers : doing[k] = "dial" => doing'[k] \notin {"io", "passed"}
    /\ \A m \in Monitors : doing'[m] # "yielded"
    /\ \A g \in Registrars : doing'[g] = "none"

(***************************************************************************)
(* docs/business-logic.md 1.2 and 2: the service checks the connectivity   *)
(* periodically, and the state of a device is shown as CONNECTED or        *)
(* DISCONNECTED.  The check looks at a flag that nothing but a failed      *)
(* access takes back: a device that went away stays CONNECTED.             *)
(***************************************************************************)
LostLinksAreNoticed == <>[][Dead]_connVars => []<>(shown = "DISCONNECTED")
=============================================================================
