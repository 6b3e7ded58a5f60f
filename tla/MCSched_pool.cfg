CONSTANTS
    idle = idle
    init = init
    worker = worker
    app = app
    NULL = NULL
    Default = idle
    Tasks = {idle, init, worker, app}
    Prio <- MCPrio
    Delays = {0}
    TimerMod = 1
    Ways = {"kthread"}
    Mortal = {init, worker, app}
    Faulty = {init, worker, app}
SPECIFICATION Spec
INVARIANTS
    PoolComplete
    PoolOrdered
    PlaceFound
    ReapedOnce
