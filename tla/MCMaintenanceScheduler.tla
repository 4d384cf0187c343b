----------------------- MODULE MCMaintenanceScheduler -----------------------
(* Model-checking instance of MaintenanceScheduler: a job that changes its *)
(* zones page by page, and the catalogue job that only reads them.         *)
EXTENDS MaintenanceScheduler

CONSTANTS modifiers, tasks

MCRegistry == <<tasks, modifiers>>
MCPriority == [j \in Jobs |-> IF j = modifiers THEN 4 ELSE 5]
=============================================================================
