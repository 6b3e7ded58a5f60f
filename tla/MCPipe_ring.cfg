CONSTANTS
    writer = writer
    reader = reader
    Tasks = {writer, reader}
    Writers = {writer}
    Readers = {reader}
    Free = Free
    Taken = Taken
    MaxDepth = 1
    Byte = {0, 1}
    Nothing = Nothing
    Cap = 3
    WordMod = 6
    MaxCall = 2
    Fresh <- MCFresh
SPECIFICATION Spec
INVARIANTS
    TypeOK
PROPERTIES
    SlotsApart
CHECK_DEADLOCK FALSE
