CONSTANTS
    Names = {a, b}
    Devs = {tty}
    Nil = Nil
    MaxDepth = 2
    MaxFd = 2
    MaxIno = 5
SPECIFICATION Spec
INVARIANTS
    TypeOK
    FilesHeld
    InodesKept
    RefsExact
PROPERTIES
    CacheFollowsList
