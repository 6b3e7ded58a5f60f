CONSTANTS
    idle = idle
    init = init
    worker = worker
    app = app
    NULL = NULL
    Default = idle
    Tasks = {idle, init, worker, app}
    Prio <- MCPrio
    Delays = {0}
    TimerMod = 1
    Ways = {"task_run"}
    Mortal = {init, worker, app}
    Faulty = {}
SPECIFICATION Spec
INVARIANTS
    PoolComplete
