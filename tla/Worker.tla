------------------------------- MODULE Worker -------------------------------
(***************************************************************************)
(* What the engines may rely on of their worker thread (class Thread as    *)
(* WebQueue::stopThread and ClientEngine::stopThread use it): one task at  *)
(* a time is held, it is told to stop, and a stop that has waited long     *)
(* enough lets go of it.  A task that was let go works on until it ends    *)
(* by itself.  Module WorkerThread shows that the code keeps this.         *)
(***************************************************************************)
EXTENDS Naturals

CONSTANT MaxTasks     \* bound: the tasks ever started

VARIABLES
    started,    \* how many tasks have been started; they are numbered
    held,       \* the task at work that start() and stop() know of, or 0
    loose,      \* tasks at work that stop() has given up
    told        \* isReadyFinished: what the break functions of the tasks read

workerVars == <<started, held, loose, told>>

WorkerInit == started = 0 /\ held = 0 /\ loose = {} /\ told = TRUE

Start ==
    /\ held = 0
    /\ started < MaxTasks
    /\ started' = started + 1
    /\ held' = started'
    /\ told' = FALSE
    /\ UNCHANGED loose

Tell == told' = TRUE /\ UNCHANGED <<started, held, loose>>

End ==
    /\ \/ held' = 0 /\ UNCHANGED loose
       \/ \E t \in loose : loose' = loose \ {t} /\ UNCHANGED held
    /\ UNCHANGED <<started, told>>

\* The time of stop() is up.
LetGo ==
    /\ told /\ held # 0
    /\ held' = 0
    /\ loose' = loose \cup {held}
    /\ UNCHANGED <<started, told>>

WorkerNext == Start \/ Tell \/ End \/ LetGo

WorkerSpec == WorkerInit /\ [][WorkerNext]_workerVars
=============================================================================
