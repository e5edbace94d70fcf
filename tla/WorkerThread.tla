---------------------------- MODULE WorkerThread ----------------------------
(***************************************************************************)
(* Class Thread (src/base/thread.cpp): the queue's thread that owns the    *)
(* object calls start() and stop(), each task runs on a std::thread of its *)
(* own.  They meet in two atomic flags, a mutex and a condition that is    *)
(* waited for without a predicate, so every access to them is a step here. *)
(*                                                                         *)
(* stop() gives up after a while and detaches the std::thread.  That does  *)
(* not end the task: HAS_PTHREAD is defined nowhere.  The task shares the  *)
(* flags with the task that is started next.                               *)
(***************************************************************************)
EXTENDS Naturals

CONSTANT MaxTasks     \* bound: the tasks ever started
ASSUME MaxTasksAssumption == MaxTasks \in Nat

Tasks == 1..MaxTasks

VARIABLES
    pc,                \* where the owner is
    limited,           \* the stop() it is in has been given a time
    isRunning, isReadyFinished,
    handle,            \* ThreadHelper::thread: none, one to join, or spent
    launched,          \* the std::threads created; the last one is handle's
    task,              \* task[t]: where the t-th is
    abandoned          \* those stop() has detached

vars == <<pc, limited, isRunning, isReadyFinished, handle, launched, task, abandoned>>

Running(t) == task[t] = "running"

\* The owner holds the mutex for more than a step only while it joins in stop().
MutexFree == pc # "joining"

Init ==
    /\ pc = "idle" /\ limited = TRUE /\ isRunning = FALSE /\ isReadyFinished = TRUE
    /\ handle = "none" /\ launched = 0
    /\ task = [t \in Tasks |-> "none"] /\ abandoned = {}

-----------------------------------------------------------------------------
(* stop().                                                                 *)

\* Slip: the task is not told.
Stop_untold(limit) ==
    /\ pc = "idle" /\ pc' = "stop"
    /\ limited' = limit
    /\ UNCHANGED <<isRunning, isReadyFinished, handle, launched, task, abandoned>>

\* With a time, as the engines call it, or without, as quit() and ~Thread do.
Stop(limit) ==
    /\ pc = "idle" /\ pc' = "stop"
    /\ isReadyFinished' = TRUE
    /\ limited' = limit
    /\ UNCHANGED <<isRunning, handle, launched, task, abandoned>>

\* Nothing runs, by the flag: join without a limit what can be joined.
CheckRunning ==
    /\ pc = "stop"
    /\ pc' = IF handle # "joinable" THEN "idle" ELSE IF isRunning THEN "lock" ELSE "join"
    /\ UNCHANGED <<limited, isRunning, isReadyFinished, handle, launched, task, abandoned>>

Join ==
    /\ pc = "join" /\ task[launched] = "gone"
    /\ pc' = "idle" /\ handle' = "spent"
    /\ UNCHANGED <<limited, isRunning, isReadyFinished, launched, task, abandoned>>

\* Take the mutex and wait, which gives it back.
Wait ==
    /\ pc = "lock" /\ pc' = "waiting"
    /\ UNCHANGED <<limited, isRunning, isReadyFinished, handle, launched, task, abandoned>>

\* The time is up, or nothing has happened at all.
WakeUntold ==
    /\ pc = "waiting" /\ pc' = "woken"
    /\ UNCHANGED <<limited, isRunning, isReadyFinished, handle, launched, task, abandoned>>

\* Slip: the std::thread is given up and not detached.
Detach_drops ==
    /\ pc = "woken" /\ isRunning
    /\ pc' = "idle" /\ handle' = "spent" /\ isRunning' = FALSE
    /\ UNCHANGED <<limited, isReadyFinished, launched, task, abandoned>>

\* The wait has the mutex again: still running, by the flag, or joined under it.
Detach ==
    /\ pc = "woken" /\ isRunning
    /\ pc' = "idle" /\ handle' = "spent" /\ isRunning' = FALSE
    /\ abandoned' = abandoned \cup {launched}
    /\ UNCHANGED <<limited, isReadyFinished, launched, task>>

JoinLocked ==
    /\ pc = "woken" /\ ~isRunning /\ pc' = "joining"
    /\ UNCHANGED <<limited, isRunning, isReadyFinished, handle, launched, task, abandoned>>

Joined ==
    /\ pc = "joining" /\ task[launched] = "gone"
    /\ pc' = "idle" /\ handle' = "spent" /\ isRunning' = FALSE
    /\ UNCHANGED <<limited, isReadyFinished, launched, task, abandoned>>

-----------------------------------------------------------------------------
(* start().                                                                *)

\* A std::thread there was is stopped first; by the flag there is only to join.
Start ==
    /\ pc = "idle" /\ ~isRunning /\ launched < MaxTasks
    /\ pc' = "start"
    /\ isReadyFinished' = (handle # "none" \/ isReadyFinished)
    /\ UNCHANGED <<limited, isRunning, handle, launched, task, abandoned>>

Launch ==
    /\ pc = "start" /\ (handle = "joinable" => task[launched] = "gone")
    /\ pc' = "idle" /\ handle' = "joinable" /\ launched' = launched + 1
    /\ isReadyFinished' = FALSE /\ isRunning' = TRUE
    /\ task' = [task EXCEPT ![launched + 1] = "running"]
    /\ UNCHANGED <<limited, abandoned>>

-----------------------------------------------------------------------------
(* The tasks.                                                              *)

\* m_runFunction and endFunction return.
Return(t) ==
    /\ Running(t)
    /\ task' = [task EXCEPT ![t] = "returned"]
    /\ UNCHANGED <<limited, pc, isRunning, isReadyFinished, handle, launched, abandoned>>

\* Slip: the flag is left to stop().
ClearRunning_not(t) ==
    /\ task[t] = "returned"
    /\ task' = [task EXCEPT ![t] = "cleared"]
    /\ UNCHANGED <<limited, pc, isRunning, isReadyFinished, handle, launched, abandoned>>

ClearRunning(t) ==
    /\ task[t] = "returned"
    /\ isRunning' = FALSE
    /\ task' = [task EXCEPT ![t] = "cleared"]
    /\ UNCHANGED <<limited, pc, isReadyFinished, handle, launched, abandoned>>

\* Slip: notify_one is left out.
Notify_nobody(t) ==
    /\ task[t] = "cleared" /\ MutexFree
    /\ task' = [task EXCEPT ![t] = "gone"]
    /\ UNCHANGED <<limited, pc, isRunning, isReadyFinished, handle, launched, abandoned>>

\* Lock, notify_one, unlock, and the std::thread is over.
Notify(t) ==
    /\ task[t] = "cleared" /\ MutexFree
    /\ task' = [task EXCEPT ![t] = "gone"]
    /\ pc' = IF pc = "waiting" THEN "woken" ELSE pc
    /\ UNCHANGED <<limited, isRunning, isReadyFinished, handle, launched, abandoned>>

-----------------------------------------------------------------------------
Owner ==
    CheckRunning \/ Join \/ Wait \/ Detach \/ JoinLocked \/ Joined \/ Launch
Task(t) == Return(t) \/ ClearRunning(t) \/ Notify(t)

Next ==
    \/ \E limit \in BOOLEAN : Stop(limit)
    \/ Start \/ Owner \/ WakeUntold
    \/ \E t \in Tasks : Task(t)

Spec == Init /\ [][Next]_vars

\* The system runs every thread, a time comes to its end, and so does a task.
Fairness ==
    /\ WF_vars(Owner) /\ WF_vars(limited /\ WakeUntold)
    /\ \A t \in Tasks : WF_vars(Task(t))

-----------------------------------------------------------------------------
(* Properties.                                                             *)

(***************************************************************************)
(* The type of the thread's state.                                         *)
(***************************************************************************)
TypeOK ==
    /\ pc \in {"idle", "stop", "join", "lock", "waiting", "woken", "joining", "start"}
    /\ limited \in BOOLEAN /\ isRunning \in BOOLEAN /\ isReadyFinished \in BOOLEAN
    /\ handle \in {"none", "joinable", "spent"}
    /\ launched \in 0..MaxTasks
    /\ task \in [Tasks -> {"none", "running", "returned", "cleared", "gone"}]
    /\ abandoned \subseteq Tasks

(***************************************************************************)
(* No task is lost sight of: whichever has not ended is the last one, with *)
(* a handle to join it, or was detached on purpose.  (A std::thread that   *)
(* is replaced while it can be joined ends the process.)                   *)
(***************************************************************************)
NoneLost ==
    \A t \in Tasks : task[t] \notin {"none", "gone"} =>
        t \in abandoned \/ (t = launched /\ handle = "joinable")

(***************************************************************************)
(* isRunning may be wrong in one way only.  Set, the last task is at work; *)
(* not set while a task that can be joined works, a task detached earlier  *)
(* has ended since and has cleared the flag it shares with its successor.  *)
(***************************************************************************)
FlagIsRight ==
    /\ isRunning => handle = "joinable" /\ task[launched] \in {"running", "returned"}
    /\ handle = "joinable" /\ task[launched] \in {"running", "returned"} /\ ~isRunning
         => \E t \in abandoned : task[t] \in {"cleared", "gone"}

(***************************************************************************)
(* Every call of stop() and of start() comes back, with two exceptions     *)
(* that never do.  Gap: the wait ended untold between the task's           *)
(* isRunning = false and its lock, so stop() joins the task while it holds *)
(* the mutex the task wants.  Missed: the task has notified after stop()   *)
(* looked at isRunning and before it waits, and the wait will have no      *)
(* limit.  A task that ends once stop() waits has to wake it.              *)
(***************************************************************************)
Gap == pc = "joining" /\ task[launched] = "cleared"
Missed == pc = "lock" /\ ~limited /\ task[launched] = "gone"
StopReturns == pc \in {"stop", "start"} ~> pc = "idle" \/ Gap \/ Missed

(***************************************************************************)
(* The thread keeps what module Worker promises of it.                     *)
(***************************************************************************)
Abstract == INSTANCE Worker WITH
    started <- launched,
    held <- IF handle = "joinable" /\ Running(launched) THEN launched ELSE 0,
    loose <- {t \in abandoned : Running(t)},
    told <- isReadyFinished
KeepsWorker == Abstract!WorkerSpec
=============================================================================
