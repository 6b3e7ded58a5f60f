SPECIFICATION Spec
CONSTANTS
    Tasks = {t1}
    Bios = {b1}
    None = None
    ListHead = ListHead
    Poison = Poison
    Blank = Blank
    Mixed = Mixed
    Pages = 3
    SPP = 2
    Shapes <- MCPartial
INVARIANTS OthersKept
CHECK_DEADLOCK FALSE
