SPECIFICATION Spec
CONSTANTS
    a = a
    b = b
    c = c
    Machines = {a, b, c}
    Size <- MCSize
    Legacy = {a}
    Slots = {0, 1}
    Racks = {2, 3}
    Columns = 4
    Clients = {r1, r2}
    MaxMoves <- MCMaxMoves
SYMMETRY ClientSymmetry
INVARIANTS TypeOK OneRowPerMachine OwnedLocationAgrees NoDanglingRack
PROPERTY ImplementsPlaces
CHECK_DEADLOCK FALSE
