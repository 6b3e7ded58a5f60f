CONSTANTS
    r1 = r1
    r2 = r2
    Readers = {r1, r2}
    Size = 3
    Byte = {0, 1}
    Nothing = Nothing
    MaxRead = 2
SPECIFICATION FairSpec
INVARIANT TypeOK
PROPERTIES
    ReceiveSpec
    WaitingByteStored
    ReadEnds
