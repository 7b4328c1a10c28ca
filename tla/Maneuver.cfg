CONSTANTS
    Modules = {1, 2, 20}
    Levels = {3, 4, 5}
    Positions = {1, 3}
    PickSlots <- SlotsOfRack
    NoPlace = NoPlace
SPECIFICATION Spec
INVARIANTS
    TypeOK
    BoxesGoWhereOrdered
PROPERTIES
    LiftMovesLeast
