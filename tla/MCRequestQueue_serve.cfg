SPECIFICATION Spec
CONSTANTS
    Tasks = {t1, t2}
    Bios = {b1, b2}
    None = None
    ListHead = ListHead
    Poison = Poison
    Blank = Blank
    Mixed = Mixed
    Pages = 2
    SPP = 2
    Shapes <- MCShapes
INVARIANTS
    TypeOK
    TakenOnceApart
    NothingStranded
    WritesLand
PROPERTIES OnlyTouchedChange
SYMMETRY TaskSymmetry
\* A bio is submitted once, and a garbled chip is not followed: the model stops.
CHECK_DEADLOCK FALSE
