---------------------------- MODULE MCScheduler ----------------------------
EXTENDS Scheduler, TLC

CONSTANTS a, b, c

MCTasks == {Boot, Idle, a, b, c}
\* The idle level, the level of the boot task, and a level above it.
MCPrio == Idle :> 0 @@ Boot :> 1 @@ a :> 1 @@ b :> 1 @@ c :> 2

\* A flat system for the liveness properties.
MCFewTasks == {Boot, Idle, a, b}
MCFlatPrio == Idle :> 0 @@ Boot :> 1 @@ a :> 1 @@ b :> 1
=============================================================================
