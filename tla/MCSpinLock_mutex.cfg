CONSTANTS
    Tasks = {t1, t2, t3}
    Free = Free
    Taken = Taken
    MaxDepth = 1
SPECIFICATION Spec
INVARIANTS
    MutualExclusion
