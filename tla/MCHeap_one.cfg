SPECIFICATION FairSpec
CONSTANTS
    Callers = {t1}
    Arena = 31
    Hdr = 5
    Min = 2
    Sizes <- MCSizes
    None = None
INVARIANTS TypeOK Tiled NoFreeNeighbours UsedIsHeld FitFound
PROPERTIES AllocatorSpec CallsReturn
