--------------------------- MODULE ManeuverProofs ---------------------------
(***************************************************************************)
(* Proofs about Maneuver, for every rack whose modules have two digits,    *)
(* whose levels are A to L and whose positions are 1 to 3.  A command says *)
(* its place whatever the place is; from there the robot is followed       *)
(* through the five steps.                                                 *)
(***************************************************************************)
EXTENDS Maneuver, TLAPS

(***************************************************************************)
(* The coordinates of a place.                                             *)
(***************************************************************************)
LEMMA Coordinates ==
  ASSUME NEW p \in Place
  PROVE  /\ p.module \in 1 .. 99
         /\ p.level \in 1 .. 12
         /\ p.position \in 1 .. 3
         /\ p = [module |-> p.module, level |-> p.level, position |-> p.position]
BY CodesAssumption, PositionsAssumption DEF Place

(***************************************************************************)
(* A module is its parante and its side.                                   *)
(***************************************************************************)
LEMMA ModuleOfParante ==
  ASSUME NEW p \in Place
  PROVE  /\ SideBit(p) \in 0 .. 1
         /\ Parante(p) \in 1 .. 50
         /\ 2 * Parante(p) - SideBit(p) = p.module
BY Coordinates DEF SideBit, Parante

(***************************************************************************)
(* The cut of a carro command: the position, then the rest.                *)
(***************************************************************************)
LEMMA CutCommand ==
  ASSUME NEW p \in Place, NEW bit \in 0 .. 1
  PROVE  Split(CarroCommand(p, bit)) =
           [high |-> p.position,
            low  |-> Parante(p) * 100 + SideBit(p) * 10 + bit]
<1> DEFINE q == p.position
           rest == Parante(p) * 100 + SideBit(p) * 10 + bit
<1>1. q \in 1 .. 3 /\ rest \in 0 .. 9999
  BY ModuleOfParante, Coordinates
<1>2. CarroCommand(p, bit) = q * 10000 + rest
  BY Coordinates, ModuleOfParante DEF CarroCommand
<1> HIDE DEF q, rest
<1>3. (q * 10000 + rest) \div 10000 = q
  BY <1>1
<1>4. (q * 10000 + rest) % 10000 = rest
  BY <1>1
<1>5. q % 10 = q
  BY <1>1
<1> QED
  BY <1>2, <1>3, <1>4, <1>5 DEF Split, q, rest

(***************************************************************************)
(* What toCarroCommand and splitCarroCommandValue write, the carro reads   *)
(* back: the place, the action, and never HOMING.                          *)
(***************************************************************************)
THEOREM CommandsSayTheirPlace ==
  ASSUME NEW p \in Place, NEW bit \in 0 .. 1
  PROVE  LET regs == Split(CarroCommand(p, bit)) IN
         /\ Target(regs, p.level) = p
         /\ Action(regs) = bit
         /\ Value(regs) # Init41000
<1> DEFINE regs == Split(CarroCommand(p, bit))
<1>1. regs.high = p.position /\ regs.low = Parante(p) * 100 + SideBit(p) * 10 + bit
  BY CutCommand
<1> HIDE DEF regs
<1>2. /\ regs.low \div 100 = Parante(p)
      /\ (regs.low \div 10) % 10 = SideBit(p)
      /\ regs.low % 10 = bit
  <2> DEFINE a == Parante(p)  b == SideBit(p)
  <2>1. a \in 1 .. 50 /\ b \in 0 .. 1
    BY ModuleOfParante
  <2> HIDE DEF a, b
  <2>2. regs.low = a * 100 + b * 10 + bit
    BY <1>1 DEF a, b
  <2>3. regs.low \div 100 = a
    BY <2>1, <2>2
  <2>4. regs.low \div 10 = a * 10 + b
    BY <2>1, <2>2
  <2>5. (a * 10 + b) % 10 = b
    BY <2>1
  <2>6. regs.low % 10 = bit
    BY <2>1, <2>2
  <2> QED
    BY <2>3, <2>4, <2>5, <2>6 DEF a, b
<1>3. Target(regs, p.level) = p
  BY <1>1, <1>2, ModuleOfParante, Coordinates DEF Target
<1>4. Value(regs) < 41000
  BY <1>1, ModuleOfParante, Coordinates DEF Value
<1>5. Value(regs) \in Int
  BY <1>1, ModuleOfParante, Coordinates DEF Value
<1> QED
  BY <1>2, <1>3, <1>4, <1>5 DEF Action, Init41000, regs

(***************************************************************************)
(* The nearest slot is on the side of the home, and none is nearer by      *)
(* level: Rank compares the level first.                                   *)
(***************************************************************************)
LEMMA NearestByLevel ==
  ASSUME NEW home \in Place, free \subseteq Place,
         NEW s, IsNearest(s, home),
         NEW t \in Candidates(home)
  PROVE  /\ SideBit(s) = SideBit(t)
         /\ Distance(s.level, home.level) <= Distance(t.level, home.level)
<1>1. s \in Place /\ t \in Place /\ SideBit(s) = SideBit(t)
  BY DEF IsNearest, Candidates
<1>2. Distance(s.level, home.level) \in Int /\ Distance(t.level, home.level) \in Int
  BY <1>1, Coordinates DEF Distance
<1>3. CASE s = t
  BY <1>1, <1>2, <1>3
<1>4. CASE s # t
  <2>1. PICK i \in 1 .. 5 :
          /\ Rank(home, s)[i] < Rank(home, t)[i]
          /\ \A j \in 1 .. i - 1 : Rank(home, s)[j] = Rank(home, t)[j]
    BY <1>4 DEF IsNearest, Closer
  <2>2. /\ Rank(home, s)[1] = Distance(s.level, home.level)
        /\ Rank(home, t)[1] = Distance(t.level, home.level)
    BY DEF Rank
  <2>3. CASE i = 1
    BY <1>1, <1>2, <2>1, <2>2, <2>3
  <2>4. CASE i > 1
    BY <1>1, <1>2, <2>1, <2>2, <2>4
  <2> QED
    BY <2>3, <2>4
<1> QED
  BY <1>3, <1>4

-----------------------------------------------------------------------------
(***************************************************************************)
(* Where an order in progress stands: while a command is out, the          *)
(* registers hold it; what the steps so far did is done.                   *)
(***************************************************************************)
CommandIsOut ==
    sent => /\ Busy /\ idx < NumSteps
            /\ IF ForElevador(idx) THEN elevador = StepCommand(order, idx)
               ELSE carro = Split(StepCommand(order, idx))

StepsAreDone ==
    /\ idx \in {2, 3} => robot.level = order.source.level
    /\ idx \in {4, 5} => robot.level = order.drop.level
    /\ idx \in 3 .. 5 => robot.taken = order.source
    /\ idx = 5 => robot.left = order.drop

PlacesAreNamed ==
    Busy => /\ order \in [type : {"PICK", "PUT"}, source : Place, drop : Place]
            /\ order.type = "PUT" => order.source \in PickSlots

IInv == TypeOK /\ PlacesAreNamed /\ CommandIsOut /\ StepsAreDone

\* What the two registers of the carro may hold.
Registers == [high : 0 .. 9, low : 0 .. 9999]

(***************************************************************************)
(* The registers of HOMING, which the carro reads back as HOMING.          *)
(***************************************************************************)
LEMMA HomingRegisters ==
  /\ Split(Init41000) \in Registers
  /\ Value(Split(Init41000)) = Init41000
<1>1. (41000 \div 10000) % 10 = 4 /\ 41000 % 10000 = 1000
  OBVIOUS
<1>2. Split(Init41000) = [high |-> 4, low |-> 1000]
  BY <1>1 DEF Split, Init41000
<1>3. Value([high |-> 4, low |-> 1000]) = 41000
  BY DEF Value
<1>4. [high |-> 4, low |-> 1000] \in Registers
  BY DEF Registers
<1> QED
  BY <1>2, <1>3, <1>4 DEF Init41000

(***************************************************************************)
(* The registers of a carro command, and the command of the lift.          *)
(***************************************************************************)
LEMMA CarroRegisters ==
  ASSUME NEW p \in Place, NEW bit \in 0 .. 1
  PROVE  Split(CarroCommand(p, bit)) \in Registers
BY CutCommand, Coordinates, ModuleOfParante DEF Registers

LEMMA ElevadorLevel ==
  ASSUME NEW p \in Place
  PROVE  ElevadorCommand(p) \in 0 .. 112 /\ ElevadorCommand(p) - 100 = p.level
BY Coordinates DEF ElevadorCommand

(***************************************************************************)
(* The commands by the number of the step.                                 *)
(***************************************************************************)
LEMMA CommandsByStep ==
  ASSUME NEW o
  PROVE  /\ StepCommand(o, 0) = Init41000
         /\ StepCommand(o, 1) = ElevadorCommand(o.source)
         /\ StepCommand(o, 2) = CarroCommand(o.source, 1)
         /\ StepCommand(o, 3) = ElevadorCommand(o.drop)
         /\ StepCommand(o, 4) = CarroCommand(o.drop, 0)
BY DEF StepCommand

(***************************************************************************)
(* What the steps of the carro write are two registers.                    *)
(***************************************************************************)
LEMMA CarroStepRegisters ==
  ASSUME NEW o, o.source \in Place, o.drop \in Place, NEW i \in {0, 2, 4}
  PROVE  Split(StepCommand(o, i)) \in Registers
<1>1. Split(StepCommand(o, 0)) \in Registers
  BY CommandsByStep, HomingRegisters
<1>2. Split(StepCommand(o, 2)) \in Registers
  BY CommandsByStep, CarroRegisters
<1>3. Split(StepCommand(o, 4)) \in Registers
  BY CommandsByStep, CarroRegisters
<1> QED
  BY <1>1, <1>2, <1>3

(***************************************************************************)
(* Before the first order nothing is sent and nothing done.                *)
(***************************************************************************)
LEMMA InitIInv == Init => IInv
<1> SUFFICES ASSUME Init PROVE IInv
  OBVIOUS
<1>1. TypeOK
  <2>1. carro \in [high : 0 .. 9, low : 0 .. 9999]
    BY DEF Init
  <2>2. robot \in [level : 0 .. 12, taken : Place \cup {NoPlace}, left : Place \cup {NoPlace}]
    BY DEF Init
  <2>3. idx \in 0 .. NumSteps /\ elevador \in 0 .. 112
    BY DEF Init, NumSteps
  <2>4. /\ free \subseteq PickSlots /\ sent \in BOOLEAN
        /\ order \in [type : {"PICK", "PUT"}, source : Place, drop : Place] \cup {NoOrder}
    BY DEF Init
  <2> QED
    BY <2>1, <2>2, <2>3, <2>4 DEF TypeOK
<1>2. PlacesAreNamed /\ CommandIsOut /\ StepsAreDone
  BY DEF Init, PlacesAreNamed, CommandIsOut, StepsAreDone, Busy
<1> QED
  BY <1>1, <1>2 DEF IInv

(***************************************************************************)
(* An order is taken with the first step ahead of it.                      *)
(***************************************************************************)
LEMMA TakeKeepsIInv ==
  ASSUME IInv, NEW type \in {"PICK", "PUT"}, NEW source \in Place, NEW drop \in Place,
         type = "PUT" => source \in PickSlots,
         Take(type, source, drop), free' \subseteq PickSlots
  PROVE  IInv'
BY DEF IInv, TypeOK, PlacesAreNamed, CommandIsOut, StepsAreDone, Busy, Take, NumSteps

(***************************************************************************)
(* The command of a step is written; it says which registers it is for.    *)
(***************************************************************************)
LEMMA SendStepKeepsIInv ==
  ASSUME IInv, SendStep
  PROVE  IInv'
<1>1. order \in [type : {"PICK", "PUT"}, source : Place, drop : Place] /\ idx \in 0 .. 4
  BY DEF IInv, TypeOK, PlacesAreNamed, SendStep, NumSteps
<1>2. order.source \in Place /\ order.drop \in Place
  BY <1>1
<1>3. CASE idx \in {1, 3}
  <2>1. StepCommand(order, idx) \in 0 .. 112
    BY <1>2, <1>3, CommandsByStep, ElevadorLevel
  <2>2. /\ elevador' = StepCommand(order, idx)
        /\ UNCHANGED <<free, order, idx, carro, robot>> /\ sent' = TRUE
    BY <1>3 DEF SendStep, ForElevador
  <2>3. TypeOK'
    BY <2>1, <2>2 DEF IInv, TypeOK
  <2>4. PlacesAreNamed' /\ StepsAreDone'
    BY <2>2 DEF IInv, PlacesAreNamed, StepsAreDone, Busy
  <2>5. CommandIsOut'
    BY <1>3, <2>2 DEF CommandIsOut, SendStep, Busy, ForElevador, NumSteps
  <2> QED
    BY <2>3, <2>4, <2>5 DEF IInv
<1>4. CASE idx \in {0, 2, 4}
  <2>1. Split(StepCommand(order, idx)) \in Registers
    BY <1>2, <1>4, CarroStepRegisters
  <2>2. /\ carro' = Split(StepCommand(order, idx))
        /\ UNCHANGED <<free, order, idx, elevador, robot>> /\ sent' = TRUE
    BY <1>4 DEF SendStep, ForElevador
  <2>3. TypeOK'
    <3>1. carro' \in [high : 0 .. 9, low : 0 .. 9999]
      BY <2>1, <2>2 DEF Registers
    <3>2. sent' \in BOOLEAN /\ UNCHANGED <<free, order, idx, elevador, robot>>
      BY <2>2
    <3> QED
      BY <3>1, <3>2 DEF IInv, TypeOK
  <2>4. PlacesAreNamed' /\ StepsAreDone'
    BY <2>2 DEF IInv, PlacesAreNamed, StepsAreDone, Busy
  <2>5. CommandIsOut'
    BY <1>4, <2>2 DEF CommandIsOut, SendStep, Busy, ForElevador, NumSteps
  <2> QED
    BY <2>3, <2>4, <2>5 DEF IInv
<1> QED
  BY <1>1, <1>3, <1>4

(***************************************************************************)
(* What the robot did when a step is acknowledged.                         *)
(***************************************************************************)
LEMMA WhatTheStepDoes ==
  ASSUME IInv, sent
  PROVE  /\ idx = 0 => Obeyed = robot
         /\ idx = 1 => Obeyed = [robot EXCEPT !.level = order.source.level]
         /\ idx = 2 => Obeyed = [robot EXCEPT !.taken = order.source]
         /\ idx = 3 => Obeyed = [robot EXCEPT !.level = order.drop.level]
         /\ idx = 4 => Obeyed = [robot EXCEPT !.left = order.drop]
<1>1. /\ order.source \in Place /\ order.drop \in Place
      /\ IF ForElevador(idx) THEN elevador = StepCommand(order, idx)
         ELSE carro = Split(StepCommand(order, idx))
  BY DEF IInv, PlacesAreNamed, CommandIsOut
<1>2. CASE idx = 0
  <2>1. ~ForElevador(idx)
    BY <1>2 DEF ForElevador
  <2>2. carro = Split(Init41000)
    BY <1>1, <1>2, <2>1, CommandsByStep
  <2> QED
    BY <1>2, <2>1, <2>2, HomingRegisters DEF Obeyed
<1>3. CASE idx = 1
  <2>1. ForElevador(idx)
    BY <1>3 DEF ForElevador
  <2>2. elevador = ElevadorCommand(order.source)
    BY <1>1, <1>3, <2>1, CommandsByStep
  <2> QED
    BY <1>1, <1>3, <2>1, <2>2, ElevadorLevel DEF Obeyed
<1>4. CASE idx = 2
  <2>1. /\ carro = Split(CarroCommand(order.source, 1)) /\ ~ForElevador(idx)
        /\ robot.level = order.source.level
    BY <1>1, <1>4, CommandsByStep DEF IInv, StepsAreDone, ForElevador
  <2>2. /\ Target(carro, robot.level) = order.source
        /\ Action(carro) = 1 /\ Value(carro) # Init41000
    BY <1>1, <2>1, CommandsSayTheirPlace
  <2> QED
    BY <1>4, <2>1, <2>2 DEF Obeyed
<1>5. CASE idx = 3
  <2>1. ForElevador(idx)
    BY <1>5 DEF ForElevador
  <2>2. elevador = ElevadorCommand(order.drop)
    BY <1>1, <1>5, <2>1, CommandsByStep
  <2> QED
    BY <1>1, <1>5, <2>1, <2>2, ElevadorLevel DEF Obeyed
<1>6. CASE idx = 4
  <2>1. /\ carro = Split(CarroCommand(order.drop, 0)) /\ ~ForElevador(idx)
        /\ robot.level = order.drop.level
    BY <1>1, <1>6, CommandsByStep DEF IInv, StepsAreDone, ForElevador
  <2>2. /\ Target(carro, robot.level) = order.drop
        /\ Action(carro) = 0 /\ Value(carro) # Init41000
    BY <1>1, <2>1, CommandsSayTheirPlace
  <2> QED
    BY <1>6, <2>1, <2>2 DEF Obeyed
<1> QED
  BY <1>2, <1>3, <1>4, <1>5, <1>6

(***************************************************************************)
(* An acknowledged step leaves the robot where the next one expects it.    *)
(***************************************************************************)
LEMMA StepDoneKeepsIInv ==
  ASSUME IInv, StepDone
  PROVE  IInv'
<1>1. /\ sent /\ Busy /\ idx \in 0 .. 4
      /\ order.source \in Place /\ order.drop \in Place
      /\ robot \in [level : 0 .. 12, taken : Place \cup {NoPlace}, left : Place \cup {NoPlace}]
  BY DEF IInv, TypeOK, PlacesAreNamed, CommandIsOut, StepDone, NumSteps
<1>2. order.source.level \in 0 .. 12 /\ order.drop.level \in 0 .. 12
  BY <1>1, Coordinates
<1>3. /\ robot' \in [level : 0 .. 12, taken : Place \cup {NoPlace}, left : Place \cup {NoPlace}]
      /\ StepsAreDone'
  BY <1>1, <1>2, WhatTheStepDoes DEF IInv, StepsAreDone, StepDone
<1>4. TypeOK'
  <2>1. idx' \in 0 .. NumSteps
    BY <1>1 DEF StepDone, NumSteps
  <2>2. sent' \in BOOLEAN
    BY DEF StepDone
  <2>3. UNCHANGED <<free, order, carro, elevador>>
    BY DEF StepDone
  <2> QED
    BY <1>3, <2>1, <2>2, <2>3 DEF IInv, TypeOK
<1>5. PlacesAreNamed' /\ CommandIsOut'
  BY DEF IInv, PlacesAreNamed, CommandIsOut, StepDone, Busy
<1> QED
  BY <1>3, <1>4, <1>5 DEF IInv

(***************************************************************************)
(* Only a PUT gives a slot back, and it names one.                         *)
(***************************************************************************)
LEMMA FinishKeepsIInv ==
  ASSUME IInv, Finish
  PROVE  IInv'
<1>1. free' \subseteq PickSlots
  BY DEF IInv, TypeOK, PlacesAreNamed, Finish
<1> QED
  BY <1>1
  DEF IInv, TypeOK, PlacesAreNamed, CommandIsOut, StepsAreDone, Finish, Busy, NumSteps

(***************************************************************************)
(* Every step of the server and of the robot keeps the invariant.          *)
(***************************************************************************)
LEMMA NextKeepsIInv == IInv /\ [Next]_vars => IInv'
<1> SUFFICES ASSUME IInv, [Next]_vars PROVE IInv'
  OBVIOUS
<1>1. ASSUME NEW home \in Place, StartPick(home) PROVE IInv'
  <2>1. PICK s \in PickSlots : Take("PICK", home, s) /\ free' = free \ {s}
    BY <1>1 DEF StartPick
  <2>2. s \in Place /\ free' \subseteq PickSlots
    BY <2>1, PickSlotsAssumption DEF IInv, TypeOK
  <2>3. "PICK" # "PUT"
    OBVIOUS
  <2> QED
    BY <1>1, <2>1, <2>2, <2>3, TakeKeepsIInv
<1>2. ASSUME NEW slot \in PickSlots, NEW target \in Place \cup {NoPlace},
             StartPut(slot, target)
      PROVE  IInv'
  <2> DEFINE drop == IF target = NoPlace THEN slot ELSE target
  <2>1. slot \in Place /\ drop \in Place
    BY PickSlotsAssumption
  <2>2. Take("PUT", slot, drop) /\ free' \subseteq PickSlots
    BY <1>2 DEF StartPut, IInv, TypeOK
  <2> HIDE DEF drop
  <2> QED
    BY <2>1, <2>2, TakeKeepsIInv
<1>3. CASE UNCHANGED vars
  BY <1>3 DEF vars, IInv, TypeOK, PlacesAreNamed, CommandIsOut, StepsAreDone, Busy
<1> QED
  BY <1>1, <1>2, <1>3, SendStepKeepsIInv, StepDoneKeepsIInv, FinishKeepsIInv DEF Next

(***************************************************************************)
(* The type invariant for every rack.                                      *)
(***************************************************************************)
THEOREM TypeCorrectness == Spec => []TypeOK
<1>1. IInv => TypeOK
  BY DEF IInv
<1> QED
  BY InitIInv, NextKeepsIInv, <1>1, PTL DEF Spec

(***************************************************************************)
(* The robot takes and leaves the box where the order says, on every rack. *)
(***************************************************************************)
THEOREM BoxesArriveWhereOrdered == Spec => []BoxesGoWhereOrdered
<1>1. IInv => BoxesGoWhereOrdered
  BY DEF IInv, StepsAreDone, BoxesGoWhereOrdered, NumSteps
<1> QED
  BY InitIInv, NextKeepsIInv, <1>1, PTL DEF Spec

(***************************************************************************)
(* A PICK gets a slot of its side that is nearest by level, on every rack. *)
(***************************************************************************)
THEOREM LiftsMoveLeast == Spec => LiftMovesLeast
<1> DEFINE Least ==
      ~Busy /\ order'.type = "PICK" =>
        \A s \in Candidates(order'.source) :
          /\ SideBit(order'.drop) = SideBit(s)
          /\ Distance(order'.drop.level, order'.source.level)
               <= Distance(s.level, order'.source.level)
<1>1. ASSUME IInv, [Next]_vars PROVE [Least]_vars
  <2>1. free \subseteq Place
    BY <1>1, PickSlotsAssumption DEF IInv, TypeOK
  <2>2. ASSUME NEW home \in Place, StartPick(home) PROVE Least
    <3>1. PICK s \in PickSlots : IsNearest(s, home) /\ Take("PICK", home, s)
      BY <2>2 DEF StartPick
    <3>2. order'.source = home /\ order'.drop = s
      BY <3>1 DEF Take
    <3> QED
      BY <2>1, <3>1, <3>2, NearestByLevel
  <2>3. ASSUME NEW slot \in PickSlots, NEW target \in Place \cup {NoPlace},
               StartPut(slot, target)
        PROVE  Least
    BY <2>3 DEF StartPut, Take
  <2>4. SendStep \/ StepDone => Least
    BY <1>1 DEF SendStep, StepDone, Busy, IInv, CommandIsOut
  <2>5. Finish => Least
    BY DEF Finish
  <2> HIDE DEF Least
  <2> QED
    BY <1>1, <2>2, <2>3, <2>4, <2>5 DEF Next
<1> QED
  BY InitIInv, NextKeepsIInv, <1>1, PTL DEF Spec, LiftMovesLeast
=============================================================================
