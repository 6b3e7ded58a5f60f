------------------------------- MODULE MCSched -------------------------------
(***************************************************************************)
(* Sched on small pools: idle is system_default_task, worker a task of the *)
(* same lowest priority, init ranks above them and app above init.         *)
(***************************************************************************)
EXTENDS Sched

CONSTANTS idle, init, worker, app

MCPrio == [t \in Tasks |-> CASE t = init -> 2 [] t = app -> 3 [] OTHER -> 1]
=============================================================================
