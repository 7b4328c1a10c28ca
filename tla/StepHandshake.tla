--------------------------- MODULE StepHandshake ---------------------------
(***************************************************************************)
(* How a step of an order is carried out on one PLC: executeStepWithRetry  *)
(* in OrchestratorService.js and executeStepCommand in ConnectionService.js*)
(* write the command into messageIn, poll messageOut for the answer, write *)
(* messageIn back to zero and poll until messageOut is zero again.         *)
(*                                                                         *)
(* One device and the steps the server sends to it, one after the other;   *)
(* a step stands for its command.  Each action is one Modbus operation     *)
(* under the device's mutex; a connection that is lost repeats it, so a    *)
(* write may reach the PLC more than once.  retryOrder resets messageIn    *)
(* between any two of these operations.                                    *)
(*                                                                         *)
(* The PLC is not part of the repository.  It is what the polls expect: it *)
(* carries out a command it finds while messageOut is zero, then answers,  *)
(* and takes the answer back when messageIn is zero.                       *)
(***************************************************************************)
EXTENDS Integers

CONSTANTS
    NumSteps,      \* bound: how many steps are sent
    MaxAttempts,   \* config.maxRetries
    MaxTries,      \* attempts of the polls, and of a lost write
    MaxResets      \* bound: resets by retryOrder

ASSUME BoundsAssumption ==
    /\ NumSteps \in Nat /\ MaxResets \in Nat
    /\ MaxAttempts \in Nat \ {0} /\ MaxTries \in Nat \ {0}

Steps == 1 .. NumSteps
NoStep == 0

VARIABLES
    messageIn,    \* the step whose command is in the register, 0 for zero
    messageOut,   \* the PLC's answer
    moving,       \* the command the PLC carries out
    runs,         \* how often the PLC started each command
    answered,     \* the command of the PLC's last answer
    disturbed,    \* the PLC was late, an operation was given up, or a retry
                  \* reset the registers
    place,        \* what executeStepCommand does next
    step,         \* the step it works on
    attempt,      \* of executeStepWithRetry
    tries,        \* polls or writes made in this place
    resets

plcVars == <<messageOut, moving, runs, answered>>
vars == <<messageIn, plcVars, disturbed, place, step, attempt, tries, resets>>

Places == {"idle", "write", "poll", "clear", "verify"}

Init ==
    /\ messageIn = NoStep /\ messageOut = "zero"
    /\ moving = NoStep /\ answered = NoStep
    /\ runs = [s \in Steps |-> 0]
    /\ disturbed = FALSE
    /\ place = "idle" /\ step = NoStep
    /\ attempt = 1 /\ tries = 0 /\ resets = 0

GoTo(p) == place' = p /\ tries' = 0

Begin ==
    /\ place = "idle" /\ step < NumSteps
    /\ step' = step + 1
    /\ attempt' = 1
    /\ GoTo("write")
    /\ UNCHANGED <<messageIn, plcVars, disturbed, resets>>

\* Faulty variants: one attempt too many; attempts are not counted.
EndPastLast(fatal) ==
    /\ UNCHANGED step
    /\ IF fatal \/ attempt > MaxAttempts
       THEN GoTo("idle") /\ UNCHANGED attempt
       ELSE GoTo("write") /\ attempt' = attempt + 1

EndForEver(fatal) ==
    /\ UNCHANGED <<step, attempt>>
    /\ GoTo(IF fatal THEN "idle" ELSE "write")

\* The catch of executeStepWithRetry.
EndAttempt(fatal) ==
    /\ UNCHANGED step
    /\ IF fatal \/ attempt = MaxAttempts
       THEN GoTo("idle") /\ UNCHANGED attempt
       ELSE GoTo("write") /\ attempt' = attempt + 1

WriteCommand ==
    /\ place = "write"
    /\ messageIn' = step
    /\ GoTo("poll")
    /\ UNCHANGED <<plcVars, disturbed, step, attempt, resets>>

\* The connection broke before or after the PLC had the value; the write is
\* repeated, or given up for an error of another kind or after all rounds.
LoseWrite ==
    /\ place = "write"
    /\ messageIn' \in {messageIn, step}
    /\ \/ /\ tries + 1 < MaxTries
          /\ tries' = tries + 1
          /\ UNCHANGED <<place, step, attempt, disturbed>>
       \/ EndAttempt(FALSE) /\ disturbed' = TRUE
    /\ UNCHANGED <<plcVars, resets>>

\* waitForExpectedResponse: 100 is the only answer it does not wait on for.
Acknowledged ==
    /\ place = "poll" /\ messageOut = "ok"
    /\ GoTo("clear")
    /\ UNCHANGED <<messageIn, plcVars, disturbed, step, attempt, resets>>

PollAgain ==
    /\ place = "poll" /\ messageOut # "ok" /\ tries + 1 < MaxTries
    /\ tries' = tries + 1
    /\ UNCHANGED <<messageIn, plcVars, disturbed, place, step, attempt, resets>>

\* The last poll: an error, fatal when its code is 99, or no answer at all.
NotAcknowledged ==
    /\ place = "poll" /\ messageOut # "ok" /\ tries + 1 = MaxTries
    /\ \/ /\ messageOut = "error" /\ UNCHANGED disturbed
          /\ \E fatal \in BOOLEAN : EndAttempt(fatal)
       \/ /\ messageOut = "zero" /\ disturbed' = TRUE
          /\ EndAttempt(FALSE)
    /\ UNCHANGED <<messageIn, plcVars, resets>>

\* A poll is given up after all rounds of recreation of the client.
LosePoll ==
    /\ place = "poll"
    /\ EndAttempt(FALSE)
    /\ disturbed' = TRUE
    /\ UNCHANGED <<messageIn, plcVars, resets>>

\* Faulty variant: messageOut is not waited for.
ClearAndGo ==
    /\ place = "clear"
    /\ messageIn' = NoStep
    /\ GoTo("idle")
    /\ UNCHANGED <<plcVars, disturbed, step, attempt, resets>>

\* resetStepRegisters: writeResetMessageIn.
ClearCommand ==
    /\ place = "clear"
    /\ messageIn' = NoStep
    /\ GoTo("verify")
    /\ UNCHANGED <<plcVars, disturbed, step, attempt, resets>>

\* waitForMessageOutZero.
Confirmed ==
    /\ place = "verify" /\ messageOut = "zero"
    /\ GoTo("idle")
    /\ UNCHANGED <<messageIn, plcVars, disturbed, step, attempt, resets>>

VerifyAgain ==
    /\ place = "verify" /\ messageOut # "zero" /\ tries + 1 < MaxTries
    /\ tries' = tries + 1
    /\ UNCHANGED <<messageIn, plcVars, disturbed, place, step, attempt, resets>>

\* Faulty variant: an incomplete reset is retried like any other error.
TryResetAgain ==
    /\ place \in {"clear", "verify"}
    /\ disturbed' = TRUE
    /\ messageIn' \in IF place = "clear" THEN {messageIn, NoStep}
                      ELSE {messageIn}
    /\ EndAttempt(FALSE)
    /\ UNCHANGED <<plcVars, resets>>

\* The reset is incomplete: a lost write, or a messageOut that is not zero
\* or cannot be read.  The error is fatal, the step is not repeated.
ResetIncomplete ==
    /\ place \in {"clear", "verify"}
    /\ disturbed' = TRUE
    /\ messageIn' \in IF place = "clear" THEN {messageIn, NoStep}
                      ELSE {messageIn}
    /\ EndAttempt(TRUE)
    /\ UNCHANGED <<plcVars, resets>>

\* resetRobotMessageIn, by a retry of any order of the robot.  The mutex
\* keeps it out of a write that is being repeated.
ResetByRetry ==
    /\ resets < MaxResets
    /\ place = "write" => tries = 0
    /\ resets' = resets + 1
    /\ messageIn' = NoStep
    /\ disturbed' = TRUE
    /\ UNCHANGED <<plcVars, place, step, attempt, tries>>

-----------------------------------------------------------------------------
PlcStarts ==
    /\ moving = NoStep /\ messageOut = "zero" /\ messageIn # NoStep
    /\ moving' = messageIn
    /\ runs' = [runs EXCEPT ![messageIn] = @ + 1]
    /\ UNCHANGED <<messageIn, messageOut, answered, disturbed, place, step,
                   attempt, tries, resets>>

PlcAnswers ==
    /\ moving # NoStep
    /\ messageOut' \in {"ok", "error"}
    /\ answered' = moving
    /\ moving' = NoStep
    /\ UNCHANGED <<messageIn, runs, disturbed, place, step, attempt, tries,
                   resets>>

PlcClears ==
    /\ messageIn = NoStep /\ messageOut # "zero"
    /\ messageOut' = "zero"
    /\ UNCHANGED <<messageIn, moving, runs, answered, disturbed, place, step,
                   attempt, tries, resets>>

Server ==
    \/ WriteCommand \/ LoseWrite
    \/ Acknowledged \/ PollAgain \/ NotAcknowledged \/ LosePoll
    \/ ClearCommand \/ Confirmed \/ VerifyAgain \/ ResetIncomplete

Plc == PlcStarts \/ PlcAnswers \/ PlcClears

Next == Begin \/ Server \/ ResetByRetry \/ Plc

Spec == Init /\ [][Next]_vars

\* Every Modbus operation ends; nothing is assumed of the PLC.
FairSpec == Spec /\ WF_vars(Server)

-----------------------------------------------------------------------------
TypeOK ==
    /\ messageIn \in Steps \cup {NoStep}
    /\ messageOut \in {"zero", "ok", "error"}
    /\ moving \in Steps \cup {NoStep}
    /\ runs \in [Steps -> Nat]
    /\ answered \in Steps \cup {NoStep}
    /\ disturbed \in BOOLEAN
    /\ place \in Places
    /\ step \in Steps \cup {NoStep}
    /\ attempt \in 1 .. MaxAttempts
    /\ tries \in 0 .. MaxTries - 1
    /\ resets \in 0 .. MaxResets

(***************************************************************************)
(* docs/business-logic.md 3: a step advances when the PLC's answer         *)
(* confirms the maneuver that is expected.  The answer the server took is  *)
(* the PLC's answer to the command of this step, in spite of lost writes   *)
(* and errors, until the PLC is late, an operation is given up or a retry  *)
(* resets the registers: nothing tells an old answer from a new one.       *)
(***************************************************************************)
AcksAreForTheCommand ==
    ~disturbed /\ place \in {"clear", "verify"} => answered = step

(***************************************************************************)
(* A maneuver is not repeated: lost connections, timeouts and the retries  *)
(* of a step write its command again, but the PLC starts it only once.     *)
(* Only a reset by the retry of an order, in the middle of the step, can   *)
(* make the PLC start it again, each reset once.                           *)
(***************************************************************************)
OneRunPerReset == \A s \in Steps : runs[s] <= 1 + resets

(***************************************************************************)
(* A step ends whatever the PLC does or fails to do: the fairness the      *)
(* orchestrator's model assumes of its PLC calls.                          *)
(***************************************************************************)
StepsEnd == place # "idle" ~> place = "idle"
=============================================================================
