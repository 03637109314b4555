-------------------------------- MODULE TaskPool --------------------------------
(***************************************************************************)
(* What an Executor promises to those who hand it tasks: one thread runs   *)
(* each submitted task, one at a time, once, in no particular order.  Only *)
(* a closed executor drops tasks that have not started.                    *)
(***************************************************************************)
CONSTANTS Task, NoTask

VARIABLES
    pending,   \* tasks that were submitted and have not started
    running,   \* the task under way, or NoTask
    open       \* close was not called

poolVars == <<pending, running, open>>

PoolInit == pending = {} /\ running = NoTask /\ open = TRUE

\* A call of run that began before close may end after it.
Submit(t) ==
    /\ t \notin pending /\ running # t
    /\ pending' = pending \cup {t}
    /\ UNCHANGED <<running, open>>

Start(t) ==
    /\ running = NoTask /\ t \in pending
    /\ running' = t
    /\ pending' = pending \ {t}
    /\ UNCHANGED open

Finish ==
    /\ running # NoTask
    /\ running' = NoTask
    /\ UNCHANGED <<pending, open>>

Shut ==
    /\ open' = FALSE
    /\ UNCHANGED <<pending, running>>

Drop ==
    /\ ~open
    /\ pending' \in SUBSET pending
    /\ UNCHANGED <<running, open>>

PoolNext == Finish \/ Shut \/ Drop \/ \E t \in Task : Submit(t) \/ Start(t)

PoolSpec == PoolInit /\ [][PoolNext]_poolVars
=============================================================================
