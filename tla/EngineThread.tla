---------------------------- MODULE EngineThread ----------------------------
(***************************************************************************)
(* The thread an engine or a web queue runs on, as a whole: the loop of    *)
(* its queue (EventQueue), whose handlers stop and start the worker        *)
(* (WorkerThread), and the tasks of the worker, which post their results   *)
(* into that queue.  While a handler waits in stop() the loop handles      *)
(* nothing else.                                                           *)
(***************************************************************************)
EXTENDS WorkerThread, Integers

CONSTANTS Posters, Posts, Limit, Timed, Spurious      \* as in EventQueue

VARIABLES
    loop, timed, nap, count, notified, poster, pushed, handled, full, quitter, owed,
    restarts      \* the handler at work is to start a task when stop() returns

Q == INSTANCE EventQueue

ASSUME EngineAssumption == Q!QueueAssumption /\ Tasks \subseteq Posters

threadVars == vars
queueVars ==
    <<loop, timed, nap, count, notified, poster, pushed, handled, full, quitter, owed>>
engineVars == <<threadVars, queueVars, restarts>>

EngineInit == Init /\ Q!Init /\ restarts = FALSE

-----------------------------------------------------------------------------
\* No handler is at work.
Free == pc = "idle" /\ ~restarts

\* An event whose handler leaves the worker alone.
HandlePlain == Free /\ Q!HandleEvent /\ UNCHANGED <<threadVars, restarts>>

\* stopThread() of an engine, which tells the task first, and for most events start().
HandleStop ==
    /\ Free /\ Q!HandleEvent /\ Stop(TRUE)
    /\ restarts' \in IF launched < MaxTasks THEN BOOLEAN ELSE {FALSE}

StartTask ==
    /\ restarts /\ restarts' = FALSE
    /\ Start
    /\ UNCHANGED queueVars

Handler == Owner /\ UNCHANGED <<queueVars, restarts>>
WakesUntold == WakeUntold /\ UNCHANGED <<queueVars, restarts>>

\* The rest of the loop.
LoopOn ==
    /\ Free
    /\ Q!NoMoreEvents \/ Q!PlanSleep \/ Q!AcquireNow \/ Q!Sleep \/ Q!Woken
    /\ UNCHANGED <<threadVars, restarts>>

Asleep ==
    /\ Q!TimedOut \/ Q!WokenSpuriously
    /\ UNCHANGED <<threadVars, restarts>>
SleepEnds == Q!TimedOut /\ UNCHANGED <<threadVars, restarts>>

\* A task posts while it runs; so do other threads.
Post(p) ==
    /\ p \in Tasks => Running(p)
    /\ Q!Push(p)
    /\ UNCHANGED <<threadVars, restarts>>
PostEnds(p) == Q!Signal(p) /\ UNCHANGED <<threadVars, restarts>>

TaskOn(t) ==
    /\ poster[t] = "out"
    /\ Task(t)
    /\ UNCHANGED <<queueVars, restarts>>

QuitStep == Q!Quit /\ UNCHANGED <<threadVars, restarts>>
QuitEnded == Q!QuitSignal /\ UNCHANGED <<threadVars, restarts>>

\* When the loop has ended, ~Thread stops the worker without a limit.
Destroy ==
    /\ Free /\ loop = "ended" /\ handle # "none"
    /\ Stop(FALSE)
    /\ UNCHANGED <<queueVars, restarts>>

EngineNext ==
    \/ HandlePlain \/ HandleStop \/ StartTask \/ Handler \/ WakesUntold
    \/ LoopOn \/ Asleep \/ QuitStep \/ QuitEnded \/ Destroy
    \/ \E p \in Posters : Post(p) \/ PostEnds(p)
    \/ \E t \in Tasks : TaskOn(t)

EngineSpec == EngineInit /\ [][EngineNext]_engineVars

\* Threads run, times come to their end, and so do tasks (there are finitely many
\* steps of tasks and posters, so one condition for all of them is enough).  Whether
\* anything is posted, and whether quit() is called, is open.
EngineFairness ==
    /\ WF_engineVars(HandlePlain \/ HandleStop \/ LoopOn)
    /\ WF_engineVars(StartTask \/ Handler) /\ WF_engineVars(limited /\ WakesUntold)
    /\ WF_engineVars(SleepEnds) /\ WF_engineVars(QuitEnded)
    /\ WF_engineVars(\E p \in Posters : PostEnds(p))
    /\ WF_engineVars(\E t \in Tasks : TaskOn(t))

EngineFairSpec == EngineSpec /\ EngineFairness

-----------------------------------------------------------------------------
(* Properties.                                                             *)

Over == full \/ loop = "ended"

(***************************************************************************)
(* While a timer is active no event is left lying, though a reset that     *)
(* comes before the sleep is lost and handlers wait for tasks that last    *)
(* (the posts are finitely many: the queue is empty at last); and a loop   *)
(* that is asked to quit ends.  Both but for the Gap of stop(), which      *)
(* stops the whole engine.                                                 *)
(***************************************************************************)
EventsHandled == timed /\ Q!Waiting > 0 ~> Q!Waiting = 0 \/ Over \/ Gap
QuitEnds == timed /\ Q!quitFlag ~> Over \/ Gap

(***************************************************************************)
(* Without any timer, as in the web queue before it is initialised, an     *)
(* event may lie; but the next post at least wakes the sleeper up, and all *)
(* that lay is handled.                                                    *)
(***************************************************************************)
NextPostRescues ==
    (loop = "asleep" /\ \E p \in Posters : poster[p] = "pushed") ~> Q!Waiting = 0 \/ Over \/ Gap

(***************************************************************************)
(* quit() loses nothing, and the semaphore does not collect.               *)
(***************************************************************************)
QuitHandlesAll == Q!QuitHandlesAll
AtMostOneSkip == Q!AtMostOneSkip

=============================================================================
