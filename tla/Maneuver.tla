------------------------------ MODULE Maneuver ------------------------------
(***************************************************************************)
(* What the commands of an order make a robot do.  An order names places   *)
(* of a rack by codes (locationTranslator.js); a PICK gets the nearest     *)
(* free slot (slotDistance.js); resolveStepCommand turns the codes into    *)
(* numbers, and the number for the carro is cut into two registers.  The   *)
(* PLCs see nothing but these numbers.                                     *)
(*                                                                         *)
(* One robot, one rack, one order at a time.  How the PLCs read a number   *)
(* is not in the repository: they are taken to undo the composition that   *)
(* the comments and tests of locationTranslator.js describe.               *)
(***************************************************************************)
EXTENDS Integers, FiniteSets

CONSTANTS
    Modules,     \* module numbers of the rack (two digits in the code)
    Levels,      \* 1..12 for the letters A..L
    Positions,   \* the last digit of the code
    PickSlots,   \* the places that are slots
    NoPlace

Place == [module : Modules, level : Levels, position : Positions]

\* Module 00 parses but has no command: toParanteCode throws for it.
ASSUME CodesAssumption ==
    Modules \subseteq 1 .. 99 /\ Levels \subseteq 1 .. 12
ASSUME PositionsAssumption == Positions \subseteq 1 .. 3
ASSUME PickSlotsAssumption == PickSlots \subseteq Place /\ IsFiniteSet(PickSlots)
ASSUME NoPlaceAssumption == NoPlace \notin Place

VARIABLES
    free,     \* the slots that are LIBRE
    order,    \* the order in progress: its type and two places
    idx,      \* currentStepIndex
    sent,     \* the command of this step is in the registers
    carro,    \* messageIn of the carro: two registers
    elevador, \* messageIn of the elevador
    robot     \* what the PLCs did: the level of the lift, where the carro
              \* took a box and where it left it

vars == <<free, order, idx, sent, carro, elevador, robot>>

NoOrder == [type |-> "NONE", source |-> NoPlace, drop |-> NoPlace]
Busy == order # NoOrder
NumSteps == 5

-----------------------------------------------------------------------------
\* parseLocationCode: odd modules are on the left.
SideBit(p) == p.module % 2

\* toParanteCode: half the module number, rounded up.
Parante(p) == (p.module + 1) \div 2

\* toCarroCommand: the digits <position><parante: 2><side><action>.
CarroCommand(p, bit) ==
    p.position * 10000 + Parante(p) * 100 + SideBit(p) * 10 + bit

\* toElevadorGoLevelCommand.
ElevadorCommand(p) == 100 + p.level

\* CARRO.COMMANDS.INIT
Init41000 == 41000

\* Faulty variant: the lift goes to the source's level for both.
SourceLevelTwice(o, i) ==
    CASE i = 0 -> Init41000
      [] i \in {1, 3} -> ElevadorCommand(o.source)
      [] i = 2 -> CarroCommand(o.source, 1)
      [] i = 4 -> CarroCommand(o.drop, 0)

\* resolveStepCommand for the steps of buildSteps, counted from 0.
StepCommand(o, i) ==
    CASE i = 0 -> Init41000
      [] i = 1 -> ElevadorCommand(o.source)
      [] i = 2 -> CarroCommand(o.source, 1)
      [] i = 3 -> ElevadorCommand(o.drop)
      [] i = 4 -> CarroCommand(o.drop, 0)

ForElevador(i) == i \in {1, 3}

\* Faulty variant: cut one digit too far to the right.
SplitAtThree(value) == [high |-> value \div 1000, low |-> value % 1000]

\* splitCarroCommandValue: the last five digits, one and four.
Split(value) == [high |-> (value \div 10000) % 10, low |-> value % 10000]

-----------------------------------------------------------------------------
Distance(a, b) == IF a > b THEN a - b ELSE b - a

\* Faulty variant: the way of the carro counts before that of the lift.
ModulesFirst(home, s) ==
    <<Distance(s.module, home.module), Distance(s.level, home.level),
      s.module, s.position, s.level>>

\* comparePickSlotCandidates compares these one after the other; the codes,
\* which come last, differ in the level by then.
Rank(home, s) ==
    <<Distance(s.level, home.level), Distance(s.module, home.module),
      s.module, s.position, s.level>>

Closer(home, s, t) ==
    \E i \in 1 .. 5 :
        /\ Rank(home, s)[i] < Rank(home, t)[i]
        /\ \A j \in 1 .. i - 1 : Rank(home, s)[j] = Rank(home, t)[j]

\* sortPickSlotsByDistance drops the slots of the other side.
Candidates(home) == {s \in free : SideBit(s) = SideBit(home)}

\* selectNearestPickSlot.
IsNearest(s, home) ==
    /\ s \in Candidates(home)
    /\ \A t \in Candidates(home) \ {s} : Closer(home, s, t)

-----------------------------------------------------------------------------
Init ==
    /\ free = PickSlots
    /\ order = NoOrder /\ idx = 0 /\ sent = FALSE
    /\ carro = [high |-> 0, low |-> 0] /\ elevador = 0
    /\ robot = [level |-> 0, taken |-> NoPlace, left |-> NoPlace]

Take(type, source, drop) ==
    /\ ~Busy
    /\ order' = [type |-> type, source |-> source, drop |-> drop]
    /\ idx' = 0
    /\ UNCHANGED <<sent, carro, elevador, robot>>

\* assignSlotForPickOrder; the slot drops out of the free ones.
StartPick(home) ==
    \E s \in PickSlots :
        /\ IsNearest(s, home)
        /\ Take("PICK", home, s)
        /\ free' = free \ {s}

\* A PUT without targetLocation puts the box back where it is.
StartPut(slot, target) ==
    /\ Take("PUT", slot, IF target = NoPlace THEN slot ELSE target)
    /\ UNCHANGED free

\* executeStepCommand writes messageIn.
SendStep ==
    LET value == StepCommand(order, idx) IN
    /\ Busy /\ idx < NumSteps /\ ~sent
    /\ sent' = TRUE
    /\ IF ForElevador(idx)
       THEN elevador' = value /\ UNCHANGED carro
       ELSE carro' = Split(value) /\ UNCHANGED elevador
    /\ UNCHANGED <<free, order, idx, robot>>

\* What the PLC of the carro makes of its registers.
Value(regs) == regs.high * 10000 + regs.low
Target(regs, level) ==
    [module   |-> 2 * (regs.low \div 100) - ((regs.low \div 10) % 10),
     level    |-> level,
     position |-> regs.high]
Action(regs) == regs.low % 10

Obeyed ==
    IF ForElevador(idx) THEN [robot EXCEPT !.level = elevador - 100]
    ELSE IF Value(carro) = Init41000 THEN robot
    ELSE IF Action(carro) = 1
         THEN [robot EXCEPT !.taken = Target(carro, robot.level)]
    ELSE [robot EXCEPT !.left = Target(carro, robot.level)]

\* The PLC acts and the step is acknowledged.
StepDone ==
    /\ sent
    /\ robot' = Obeyed
    /\ sent' = FALSE
    /\ idx' = idx + 1
    /\ UNCHANGED <<free, order, carro, elevador>>

\* The slot of a PUT is released.
Finish ==
    /\ Busy /\ idx = NumSteps
    /\ order' = NoOrder
    /\ idx' = 0
    /\ free' = IF order.type = "PUT" THEN free \cup {order.source} ELSE free
    /\ UNCHANGED <<sent, carro, elevador, robot>>

Next ==
    \/ \E home \in Place : StartPick(home)
    \/ \E slot \in PickSlots, target \in Place \cup {NoPlace} :
         StartPut(slot, target)
    \/ SendStep \/ StepDone \/ Finish

Spec == Init /\ [][Next]_vars

-----------------------------------------------------------------------------
TypeOK ==
    /\ free \subseteq PickSlots
    /\ order \in [type : {"PICK", "PUT"}, source : Place, drop : Place]
                  \cup {NoOrder}
    /\ idx \in 0 .. NumSteps
    /\ sent \in BOOLEAN
    /\ carro \in [high : 0 .. 9, low : 0 .. 9999]
    /\ elevador \in 0 .. 112
    /\ robot \in [level : 0 .. 12, taken : Place \cup {NoPlace},
                  left : Place \cup {NoPlace}]

(***************************************************************************)
(* The robot takes the box where the order says and leaves it where the    *)
(* order says: the rounding to parantes, the packing into one number, the  *)
(* cut into two registers and the level the lift is at lose nothing, and   *)
(* no place has the number of HOMING.                                      *)
(***************************************************************************)
BoxesGoWhereOrdered ==
    Busy /\ idx = NumSteps => /\ robot.taken = order.source
                              /\ robot.left = order.drop

(***************************************************************************)
(* A PICK gets a slot on the side of its home, and the lift goes no        *)
(* further than to any other slot that was free.                           *)
(***************************************************************************)
LiftMovesLeast ==
    [][~Busy /\ order'.type = "PICK" =>
         \A s \in Candidates(order'.source) :
             /\ SideBit(order'.drop) = SideBit(s)
             /\ Distance(order'.drop.level, order'.source.level)
                  <= Distance(s.level, order'.source.level)]_vars
=============================================================================
