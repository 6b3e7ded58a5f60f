CONSTANTS
    Tasks = {t1, t2, t3}
    Free = Free
    Taken = Taken
    MaxDepth = 2
SPECIFICATION Spec
INVARIANTS
    TypeOK
    WordNamesHolder
    LockLeftFree
    OwnTestFails
