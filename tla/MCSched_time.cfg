CONSTANTS
    idle = idle
    init = init
    worker = worker
    app = app
    NULL = NULL
    Default = idle
    Tasks = {idle, init, app}
    Prio <- MCPrio
    Delays = {1}
    TimerMod = 4
    Ways = {"kthread"}
    Mortal = {app}
    Faulty = {}
SPECIFICATION FairSpec
INVARIANTS
    TypeOK
    DelayStamped
    ReapedNeverRuns
PROPERTIES
    SwitchTarget
    HighestPriorityRuns
    TopDelayEnds
    
