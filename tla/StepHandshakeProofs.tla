------------------------ MODULE StepHandshakeProofs ------------------------
(***************************************************************************)
(* Proofs about the handshake with a PLC, for any number of steps,         *)
(* attempts, polls and resets.                                             *)
(*                                                                         *)
(* That a maneuver is not repeated is a matter of credit: a command has    *)
(* one start to its credit until it is written and taken, and gets another *)
(* only by a reset.  That an answer belongs to the command is a matter of  *)
(* the registers' state at each place of the server: undisturbed, they are *)
(* clean between two steps, or stuck with an error that nobody takes back. *)
(***************************************************************************)
EXTENDS StepHandshake, TLAPS

\* The PLC would start on the command if it is or comes into the register.
AtRest == moving = NoStep /\ messageOut = "zero"

\* The command may be started once more although nobody resets anything.
MayStart(s) ==
    \/ step < s
    \/ s = step /\ place \in {"write", "poll"} /\ messageIn # s
    \/ s = messageIn /\ AtRest

\* Named so that the provers see no arithmetic where none is needed.
WithinCredit(n, m) == n <= 1 + m
BelowCredit(n, m) == n < 1 + m

StartsAreCredited ==
    \A s \in Steps : /\ WithinCredit(runs[s], resets)
                     /\ MayStart(s) => BelowCredit(runs[s], resets)

RegistersFollow ==
    /\ messageIn <= step
    /\ moving # NoStep => messageOut = "zero"

\* An error that stays: its command is in the register.
Stuck == messageOut = "error" /\ messageIn # NoStep /\ moving = NoStep

Clean == messageIn = NoStep /\ AtRest

\* The command of this step is on its way, or answered.
Underway ==
    /\ messageIn \in {NoStep, step}
    /\ moving \in {NoStep, step}
    /\ moving # NoStep => messageIn = step
    /\ messageOut # "zero" => messageIn = step /\ answered = step

UndisturbedPlaces ==
    ~disturbed =>
        /\ place = "idle" => Clean \/ Stuck
        /\ place = "write" => Stuck \/ Underway
        /\ place = "poll" => Stuck \/ (Underway /\ messageIn = step)
        /\ place \in {"clear", "verify"} => answered = step /\ moving = NoStep
        /\ place = "clear" => messageIn = step /\ messageOut # "zero"
        /\ place = "verify" => messageIn = NoStep
        /\ place \in {"write", "poll", "clear"} => step # NoStep

IInv ==
    /\ TypeOK
    /\ RegistersFollow
    /\ StartsAreCredited
    /\ UndisturbedPlaces

-----------------------------------------------------------------------------
(***************************************************************************)
(* An attempt that ends leads to the next one or out of the step.          *)
(***************************************************************************)
LEMMA EndAttemptOp ==
    ASSUME TypeOK, NEW fatal \in BOOLEAN, EndAttempt(fatal)
    PROVE  /\ step' = step /\ tries' = 0
           /\ place' \in {"idle", "write"}
           /\ fatal => place' = "idle"
           /\ attempt' \in 1 .. MaxAttempts
BY BoundsAssumption DEF TypeOK, EndAttempt, GoTo

(***************************************************************************)
(* The next step begins.                                                   *)
(***************************************************************************)
LEMMA BeginKeepsIInv == ASSUME IInv, Begin PROVE IInv'
<1>1. TypeOK'
  BY BoundsAssumption
     DEF IInv, TypeOK, Begin, GoTo, plcVars, Places, Steps, NoStep
<1>2. RegistersFollow'
  BY DEF IInv, TypeOK, RegistersFollow, Begin, GoTo, plcVars, Steps, NoStep
<1>3. StartsAreCredited'
  BY DEF IInv, TypeOK, RegistersFollow, StartsAreCredited, MayStart, AtRest,
         WithinCredit, BelowCredit, Begin, GoTo, plcVars, Steps, NoStep
<1>4. UndisturbedPlaces'
  BY DEF IInv, TypeOK, UndisturbedPlaces, RegistersFollow, Clean, Stuck,
         Underway,
         AtRest, Begin, GoTo, plcVars, Steps, NoStep
<1> QED
  BY <1>1, <1>2, <1>3, <1>4 DEF IInv

(***************************************************************************)
(* The command comes into the register.                                    *)
(***************************************************************************)
LEMMA WriteCommandKeepsIInv == ASSUME IInv, WriteCommand PROVE IInv'
<1>1. TypeOK'
  BY BoundsAssumption
     DEF IInv, TypeOK, WriteCommand, GoTo, plcVars, Places, Steps, NoStep
<1>2. RegistersFollow'
  BY DEF IInv, TypeOK, RegistersFollow, WriteCommand, GoTo, plcVars, Steps,
         NoStep
<1>3. StartsAreCredited'
  BY DEF IInv, TypeOK, RegistersFollow, StartsAreCredited, MayStart, AtRest,
         WithinCredit, BelowCredit, WriteCommand, GoTo, plcVars, Steps, NoStep
<1>4. UndisturbedPlaces'
  BY DEF IInv, TypeOK, UndisturbedPlaces, RegistersFollow, Clean, Stuck,
         Underway,
         AtRest, WriteCommand, GoTo, plcVars, Steps, NoStep
<1> QED
  BY <1>1, <1>2, <1>3, <1>4 DEF IInv

(***************************************************************************)
(* A lost write may or may not have reached the PLC.                       *)
(***************************************************************************)
LEMMA LoseWriteKeepsIInv == ASSUME IInv, LoseWrite PROVE IInv'
<1>1. TypeOK'
  <2>1. /\ place' \in Places
        /\ attempt' \in 1 .. MaxAttempts
        /\ tries' \in 0 .. MaxTries - 1
        /\ disturbed' \in BOOLEAN
    <3>1. CASE EndAttempt(FALSE) /\ disturbed' = TRUE
      <4>1. place' \in {"idle", "write"} /\ tries' = 0 /\ attempt' \in 1 .. MaxAttempts
        BY <3>1, EndAttemptOp DEF IInv
      <4> QED
        BY <3>1, <4>1, BoundsAssumption DEF Places
    <3>2. CASE /\ tries + 1 < MaxTries /\ tries' = tries + 1
               /\ UNCHANGED <<place, step, attempt, disturbed>>
      BY <3>2, BoundsAssumption DEF IInv, TypeOK
    <3> QED
      BY <3>1, <3>2 DEF LoseWrite
  <2> QED
    BY <2>1 DEF IInv, TypeOK, LoseWrite, EndAttempt, plcVars, Steps, NoStep
<1>2. RegistersFollow'
  BY DEF IInv, TypeOK, RegistersFollow, LoseWrite, EndAttempt, GoTo, plcVars,
         Steps, NoStep
<1>3. StartsAreCredited'
  BY DEF IInv, TypeOK, RegistersFollow, StartsAreCredited, MayStart, AtRest,
         WithinCredit, BelowCredit, LoseWrite, EndAttempt, GoTo, plcVars, Steps, NoStep
<1>4. UndisturbedPlaces'
  BY DEF IInv, TypeOK, UndisturbedPlaces, RegistersFollow, Clean, Stuck,
         Underway,
         AtRest, LoseWrite, EndAttempt, GoTo, plcVars, Steps, NoStep
<1> QED
  BY <1>1, <1>2, <1>3, <1>4 DEF IInv

(***************************************************************************)
(* The server takes an answer it waited for: it is the one to this command. *)
(***************************************************************************)
LEMMA AcknowledgedKeepsIInv == ASSUME IInv, Acknowledged PROVE IInv'
<1>1. TypeOK'
  BY BoundsAssumption
     DEF IInv, TypeOK, Acknowledged, GoTo, plcVars, Places, Steps, NoStep
<1>2. RegistersFollow'
  BY DEF IInv, TypeOK, RegistersFollow, Acknowledged, GoTo, plcVars, Steps,
         NoStep
<1>3. StartsAreCredited'
  BY DEF IInv, TypeOK, RegistersFollow, StartsAreCredited, MayStart, AtRest,
         WithinCredit, BelowCredit, Acknowledged, GoTo, plcVars, Steps, NoStep
<1>4. UndisturbedPlaces'
  BY DEF IInv, TypeOK, UndisturbedPlaces, RegistersFollow, Clean, Stuck,
         Underway,
         AtRest, Acknowledged, GoTo, plcVars, Steps, NoStep
<1> QED
  BY <1>1, <1>2, <1>3, <1>4 DEF IInv

(***************************************************************************)
(* Polling changes nothing but its count.                                  *)
(***************************************************************************)
LEMMA PollAgainKeepsIInv == ASSUME IInv, PollAgain PROVE IInv'
<1>1. TypeOK'
  BY BoundsAssumption
     DEF IInv, TypeOK, PollAgain, GoTo, plcVars, Places, Steps, NoStep
<1>2. RegistersFollow'
  BY DEF IInv, TypeOK, RegistersFollow, PollAgain, GoTo, plcVars, Steps, NoStep
<1>3. StartsAreCredited'
  BY DEF IInv, TypeOK, RegistersFollow, StartsAreCredited, MayStart, AtRest,
         WithinCredit, BelowCredit, PollAgain, GoTo, plcVars, Steps, NoStep
<1>4. UndisturbedPlaces'
  BY DEF IInv, TypeOK, UndisturbedPlaces, RegistersFollow, Clean, Stuck,
         Underway,
         AtRest, PollAgain, GoTo, plcVars, Steps, NoStep
<1> QED
  BY <1>1, <1>2, <1>3, <1>4 DEF IInv

(***************************************************************************)
(* An error, or no answer at all.                                          *)
(***************************************************************************)
LEMMA NotAcknowledgedKeepsIInv == ASSUME IInv, NotAcknowledged PROVE IInv'
<1>1. TypeOK'
  <2>1. PICK fatal \in BOOLEAN : EndAttempt(fatal)
    BY DEF NotAcknowledged
  <2>2. disturbed' \in BOOLEAN
    BY DEF IInv, TypeOK, NotAcknowledged
  <2> QED
    BY <2>1, <2>2, EndAttemptOp, BoundsAssumption
       DEF IInv, TypeOK, NotAcknowledged, Places, plcVars
<1>2. RegistersFollow'
  BY DEF IInv, TypeOK, RegistersFollow, NotAcknowledged, EndAttempt, GoTo,
         plcVars, Steps, NoStep
<1>3. StartsAreCredited'
  BY DEF IInv, TypeOK, RegistersFollow, StartsAreCredited, MayStart, AtRest,
         WithinCredit, BelowCredit, NotAcknowledged, EndAttempt, GoTo, plcVars, Steps, NoStep
<1>4. UndisturbedPlaces'
  BY DEF IInv, TypeOK, UndisturbedPlaces, RegistersFollow, Clean, Stuck,
         Underway,
         AtRest, NotAcknowledged, EndAttempt, GoTo, plcVars, Steps, NoStep
<1> QED
  BY <1>1, <1>2, <1>3, <1>4 DEF IInv

(***************************************************************************)
(* A poll that is given up.                                                *)
(***************************************************************************)
LEMMA LosePollKeepsIInv == ASSUME IInv, LosePoll PROVE IInv'
<1>1. TypeOK'
  BY BoundsAssumption
     DEF IInv, TypeOK, LosePoll, EndAttempt, GoTo, plcVars, Places, Steps,
         NoStep
<1>2. RegistersFollow'
  BY DEF IInv, TypeOK, RegistersFollow, LosePoll, EndAttempt, GoTo, plcVars,
         Steps, NoStep
<1>3. StartsAreCredited'
  BY DEF IInv, TypeOK, RegistersFollow, StartsAreCredited, MayStart, AtRest,
         WithinCredit, BelowCredit, LosePoll, EndAttempt, GoTo, plcVars, Steps, NoStep
<1>4. UndisturbedPlaces'
  BY DEF IInv, TypeOK, UndisturbedPlaces, RegistersFollow, Clean, Stuck,
         Underway,
         AtRest, LosePoll, EndAttempt, GoTo, plcVars, Steps, NoStep
<1> QED
  BY <1>1, <1>2, <1>3, <1>4 DEF IInv

(***************************************************************************)
(* The command is taken back; the step will not write it again.            *)
(***************************************************************************)
LEMMA ClearCommandKeepsIInv == ASSUME IInv, ClearCommand PROVE IInv'
<1>1. TypeOK'
  BY BoundsAssumption
     DEF IInv, TypeOK, ClearCommand, GoTo, plcVars, Places, Steps, NoStep
<1>2. RegistersFollow'
  BY DEF IInv, TypeOK, RegistersFollow, ClearCommand, GoTo, plcVars, Steps,
         NoStep
<1>3. StartsAreCredited'
  BY DEF IInv, TypeOK, RegistersFollow, StartsAreCredited, MayStart, AtRest,
         WithinCredit, BelowCredit, ClearCommand, GoTo, plcVars, Steps, NoStep
<1>4. UndisturbedPlaces'
  BY DEF IInv, TypeOK, UndisturbedPlaces, RegistersFollow, Clean, Stuck,
         Underway,
         AtRest, ClearCommand, GoTo, plcVars, Steps, NoStep
<1> QED
  BY <1>1, <1>2, <1>3, <1>4 DEF IInv

(***************************************************************************)
(* The registers are zero again.                                           *)
(***************************************************************************)
LEMMA ConfirmedKeepsIInv == ASSUME IInv, Confirmed PROVE IInv'
<1>1. TypeOK'
  BY BoundsAssumption
     DEF IInv, TypeOK, Confirmed, GoTo, plcVars, Places, Steps, NoStep
<1>2. RegistersFollow'
  BY DEF IInv, TypeOK, RegistersFollow, Confirmed, GoTo, plcVars, Steps, NoStep
<1>3. StartsAreCredited'
  BY DEF IInv, TypeOK, RegistersFollow, StartsAreCredited, MayStart, AtRest,
         WithinCredit, BelowCredit, Confirmed, GoTo, plcVars, Steps, NoStep
<1>4. UndisturbedPlaces'
  BY DEF IInv, TypeOK, UndisturbedPlaces, RegistersFollow, Clean, Stuck,
         Underway,
         AtRest, Confirmed, GoTo, plcVars, Steps, NoStep
<1> QED
  BY <1>1, <1>2, <1>3, <1>4 DEF IInv

(***************************************************************************)
(* Another look at messageOut.                                             *)
(***************************************************************************)
LEMMA VerifyAgainKeepsIInv == ASSUME IInv, VerifyAgain PROVE IInv'
<1>1. TypeOK'
  BY BoundsAssumption
     DEF IInv, TypeOK, VerifyAgain, GoTo, plcVars, Places, Steps, NoStep
<1>2. RegistersFollow'
  BY DEF IInv, TypeOK, RegistersFollow, VerifyAgain, GoTo, plcVars, Steps,
         NoStep
<1>3. StartsAreCredited'
  BY DEF IInv, TypeOK, RegistersFollow, StartsAreCredited, MayStart, AtRest,
         WithinCredit, BelowCredit, VerifyAgain, GoTo, plcVars, Steps, NoStep
<1>4. UndisturbedPlaces'
  BY DEF IInv, TypeOK, UndisturbedPlaces, RegistersFollow, Clean, Stuck,
         Underway,
         AtRest, VerifyAgain, GoTo, plcVars, Steps, NoStep
<1> QED
  BY <1>1, <1>2, <1>3, <1>4 DEF IInv

(***************************************************************************)
(* The reset is given up, and the step with it.                            *)
(***************************************************************************)
LEMMA ResetIncompleteKeepsIInv == ASSUME IInv, ResetIncomplete PROVE IInv'
<1>1. TypeOK'
  BY BoundsAssumption
     DEF IInv, TypeOK, ResetIncomplete, EndAttempt, GoTo, plcVars, Places,
         Steps, NoStep
<1>2. RegistersFollow'
  BY DEF IInv, TypeOK, RegistersFollow, ResetIncomplete, EndAttempt, GoTo,
         plcVars, Steps, NoStep
<1>3. StartsAreCredited'
  BY DEF IInv, TypeOK, RegistersFollow, StartsAreCredited, MayStart, AtRest,
         WithinCredit, BelowCredit, ResetIncomplete, EndAttempt, GoTo, plcVars, Steps, NoStep
<1>4. UndisturbedPlaces'
  BY DEF IInv, TypeOK, UndisturbedPlaces, RegistersFollow, Clean, Stuck,
         Underway,
         AtRest, ResetIncomplete, EndAttempt, GoTo, plcVars, Steps, NoStep
<1> QED
  BY <1>1, <1>2, <1>3, <1>4 DEF IInv

(***************************************************************************)
(* A retry gives the command another start, and is counted.                *)
(***************************************************************************)
LEMMA ResetByRetryKeepsIInv == ASSUME IInv, ResetByRetry PROVE IInv'
<1>1. TypeOK'
  BY BoundsAssumption
     DEF IInv, TypeOK, ResetByRetry, GoTo, plcVars, Places, Steps, NoStep
<1>2. RegistersFollow'
  BY DEF IInv, TypeOK, RegistersFollow, ResetByRetry, GoTo, plcVars, Steps,
         NoStep
<1>3. StartsAreCredited'
  BY DEF IInv, TypeOK, RegistersFollow, StartsAreCredited, MayStart, AtRest,
         WithinCredit, BelowCredit, ResetByRetry, GoTo, plcVars, Steps, NoStep
<1>4. UndisturbedPlaces'
  BY DEF IInv, TypeOK, UndisturbedPlaces, RegistersFollow, Clean, Stuck,
         Underway,
         AtRest, ResetByRetry, GoTo, plcVars, Steps, NoStep
<1> QED
  BY <1>1, <1>2, <1>3, <1>4 DEF IInv

(***************************************************************************)
(* The PLC uses up the credit of the command it starts.                    *)
(***************************************************************************)
LEMMA PlcStartsKeepsIInv == ASSUME IInv, PlcStarts PROVE IInv'
<1>1. TypeOK'
  BY BoundsAssumption
     DEF IInv, TypeOK, PlcStarts, GoTo, plcVars, Places, Steps, NoStep
<1>2. RegistersFollow'
  BY DEF IInv, TypeOK, RegistersFollow, PlcStarts, GoTo, plcVars, Steps, NoStep
<1>3. StartsAreCredited'
  <2> SUFFICES ASSUME NEW s \in Steps
               PROVE  /\ WithinCredit(runs'[s], resets')
                      /\ MayStart(s)' => BelowCredit(runs'[s], resets')
    BY DEF StartsAreCredited
  <2>1. messageIn \in Steps /\ MayStart(messageIn)
    BY DEF IInv, TypeOK, PlcStarts, MayStart, AtRest
  <2>2. CASE s = messageIn
    <3>1. runs'[s] = runs[s] + 1 /\ resets' = resets
      BY <2>2 DEF IInv, TypeOK, PlcStarts
    <3>2. ~MayStart(s)'
      BY <2>1, <2>2
         DEF IInv, TypeOK, RegistersFollow, PlcStarts, MayStart, AtRest,
                        Steps, NoStep
    <3>3. BelowCredit(runs[s], resets)
      BY <2>1, <2>2 DEF IInv, StartsAreCredited
    <3> QED
      BY <3>1, <3>2, <3>3 DEF IInv, TypeOK, WithinCredit, BelowCredit
  <2>3. CASE s # messageIn
    <3>1. runs'[s] = runs[s] /\ resets' = resets
      BY <2>3 DEF IInv, TypeOK, PlcStarts
    <3>2. MayStart(s)' => MayStart(s)
      BY <2>3 DEF PlcStarts, MayStart, AtRest
    <3> QED
      BY <3>1, <3>2 DEF IInv, StartsAreCredited
  <2> QED
    BY <2>2, <2>3
<1>4. UndisturbedPlaces'
  BY DEF IInv, TypeOK, UndisturbedPlaces, RegistersFollow, Clean, Stuck,
         Underway,
         AtRest, PlcStarts, GoTo, plcVars, Steps, NoStep
<1> QED
  BY <1>1, <1>2, <1>3, <1>4 DEF IInv

(***************************************************************************)
(* The PLC answers the command it carried out.                             *)
(***************************************************************************)
LEMMA PlcAnswersKeepsIInv == ASSUME IInv, PlcAnswers PROVE IInv'
<1>1. TypeOK'
  BY BoundsAssumption
     DEF IInv, TypeOK, PlcAnswers, GoTo, plcVars, Places, Steps, NoStep
<1>2. RegistersFollow'
  BY DEF IInv, TypeOK, RegistersFollow, PlcAnswers, GoTo, plcVars, Steps, NoStep
<1>3. StartsAreCredited'
  BY DEF IInv, TypeOK, RegistersFollow, StartsAreCredited, MayStart, AtRest,
         WithinCredit, BelowCredit, PlcAnswers, GoTo, plcVars, Steps, NoStep
<1>4. UndisturbedPlaces'
  BY DEF IInv, TypeOK, UndisturbedPlaces, RegistersFollow, Clean, Stuck,
         Underway,
         AtRest, PlcAnswers, GoTo, plcVars, Steps, NoStep
<1> QED
  BY <1>1, <1>2, <1>3, <1>4 DEF IInv

(***************************************************************************)
(* The PLC takes its answer back when no command is there.                 *)
(***************************************************************************)
LEMMA PlcClearsKeepsIInv == ASSUME IInv, PlcClears PROVE IInv'
<1>1. TypeOK'
  BY BoundsAssumption
     DEF IInv, TypeOK, PlcClears, GoTo, plcVars, Places, Steps, NoStep
<1>2. RegistersFollow'
  BY DEF IInv, TypeOK, RegistersFollow, PlcClears, GoTo, plcVars, Steps, NoStep
<1>3. StartsAreCredited'
  BY DEF IInv, TypeOK, RegistersFollow, StartsAreCredited, MayStart, AtRest,
         WithinCredit, BelowCredit, PlcClears, GoTo, plcVars, Steps, NoStep
<1>4. UndisturbedPlaces'
  BY DEF IInv, TypeOK, UndisturbedPlaces, RegistersFollow, Clean, Stuck,
         Underway,
         AtRest, PlcClears, GoTo, plcVars, Steps, NoStep
<1> QED
  BY <1>1, <1>2, <1>3, <1>4 DEF IInv

-----------------------------------------------------------------------------
(***************************************************************************)
(* Before the first step nothing is in the registers.                      *)
(***************************************************************************)
LEMMA InitIInv == Init => IInv
<1> SUFFICES ASSUME Init PROVE IInv
  OBVIOUS
<1>1. TypeOK
  <2>1. runs \in [Steps -> Nat]
    BY DEF Init
  <2>2. /\ attempt \in 1 .. MaxAttempts /\ tries \in 0 .. MaxTries - 1
        /\ resets \in 0 .. MaxResets
    BY BoundsAssumption DEF Init
  <2>3. /\ messageOut \in {"zero", "ok", "error"} /\ place \in Places
        /\ disturbed \in BOOLEAN
    BY DEF Init, Places
  <2> QED
    BY <2>1, <2>2, <2>3 DEF Init, TypeOK
<1>2. RegistersFollow /\ StartsAreCredited
  BY BoundsAssumption
     DEF Init, RegistersFollow, StartsAreCredited, WithinCredit,
                          BelowCredit, NoStep
<1>3. UndisturbedPlaces
  BY DEF Init, UndisturbedPlaces, Clean, AtRest
<1> QED
  BY <1>1, <1>2, <1>3 DEF IInv

(***************************************************************************)
(* Every step of the server, of a retry and of the PLC keeps it.           *)
(***************************************************************************)
LEMMA NextIInv == IInv /\ [Next]_vars => IInv'
<1> SUFFICES ASSUME IInv, [Next]_vars PROVE IInv'
  OBVIOUS
<1>1. CASE Begin
  BY <1>1, BeginKeepsIInv
<1>2. CASE Server
  BY <1>2, WriteCommandKeepsIInv, LoseWriteKeepsIInv, AcknowledgedKeepsIInv,
     PollAgainKeepsIInv, NotAcknowledgedKeepsIInv, LosePollKeepsIInv,
     ClearCommandKeepsIInv, ConfirmedKeepsIInv, VerifyAgainKeepsIInv,
     ResetIncompleteKeepsIInv
  DEF Server
<1>3. CASE ResetByRetry
  BY <1>3, ResetByRetryKeepsIInv
<1>4. CASE Plc
  BY <1>4, PlcStartsKeepsIInv, PlcAnswersKeepsIInv, PlcClearsKeepsIInv DEF Plc
<1>5. CASE UNCHANGED vars
  BY <1>5 DEF vars, plcVars, IInv, TypeOK, RegistersFollow, StartsAreCredited,
              MayStart, AtRest, UndisturbedPlaces, Clean, Stuck, Underway
<1> QED
  BY <1>1, <1>2, <1>3, <1>4, <1>5 DEF Next

(***************************************************************************)
(* Every variable keeps its type: the attempts and polls end at their      *)
(* bounds, and the register holds the command of a step that was begun.    *)
(***************************************************************************)
THEOREM TypeCorrectness == Spec => []TypeOK
<1>1. IInv => TypeOK
  BY DEF IInv
<1> QED
  BY <1>1, InitIInv, NextIInv, PTL DEF Spec

(***************************************************************************)
(* However often writes are lost and steps are attempted again, the PLC    *)
(* starts a command once, and once more for each reset by a retry.         *)
(***************************************************************************)
THEOREM ManeuversAreNotRepeated == Spec => []OneRunPerReset
<1>1. IInv => OneRunPerReset
  BY DEF IInv, StartsAreCredited, WithinCredit, OneRunPerReset
<1> QED
  BY <1>1, InitIInv, NextIInv, PTL DEF Spec

(***************************************************************************)
(* Until a disturbance the answer the server takes is the one to its       *)
(* command: lost writes, errors and further attempts do not mix them up.   *)
(***************************************************************************)
THEOREM AnswersMatchCommands == Spec => []AcksAreForTheCommand
<1>1. IInv => AcksAreForTheCommand
  BY DEF IInv, UndisturbedPlaces, AcksAreForTheCommand
<1> QED
  BY <1>1, InitIInv, NextIInv, PTL DEF Spec
=============================================================================
