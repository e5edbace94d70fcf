-------------------------- MODULE EngineThreadProofs --------------------------
(***************************************************************************)
(* WorkerThread and EngineThread for any number of tasks, posts and        *)
(* posters.  The worker first: its type, that no task is lost, when        *)
(* isRunning may be wrong, and that it implements Worker.  All follow from *)
(* one inductive invariant, which adds to them where the owner's place in  *)
(* start() and stop() leaves the handle and the flags.                     *)
(* Then the thread: its worker is a WorkerThread and its queue an          *)
(* EventQueue, whatever the other does between their steps; so the worker  *)
(* keeps what is proved of it.  The queue's two invariants are proved from *)
(* a strengthening that says when the loop may be at its last events, and  *)
(* what the count is during a sleep.                                       *)
(***************************************************************************)
EXTENDS EngineThread, TLAPS

-----------------------------------------------------------------------------
(* The worker.                                                             *)


AtWork == {"running", "returned"}

\* The handle is the last task's, and that task is not a detached one.
HandleInv ==
    /\ \A t \in Tasks : task[t] = "none" <=> t > launched
    /\ handle = "none" <=> launched = 0
    /\ abandoned \subseteq 1..launched
    /\ handle = "joinable" => launched \notin abandoned

\* What the owner has found out on its way.
PlaceInv ==
    /\ pc \in {"join", "lock", "waiting", "woken", "joining"} => handle = "joinable"
    /\ pc \in {"stop", "join", "lock", "waiting", "woken", "joining"} => isReadyFinished
    /\ pc \in {"join", "joining", "start"} => ~isRunning
    /\ pc = "start" => launched < MaxTasks

IInv == TypeOK /\ HandleInv /\ PlaceInv /\ NoneLost /\ FlagIsRight

LEMMA InitIInv == Init => IInv
<1> SUFFICES ASSUME Init PROVE IInv
  OBVIOUS
<1> USE MaxTasksAssumption DEF MaxTasksAssumption, Init, Tasks
<1>1. TypeOK
  <2>1. launched \in 0..MaxTasks
    OBVIOUS
  <2>2. task \in [Tasks -> {"none", "running", "returned", "cleared", "gone"}]
    BY Zenon
  <2>3. QED
    BY <2>1, <2>2 DEF TypeOK
<1>2. HandleInv
  BY DEF HandleInv
<1>3. PlaceInv /\ NoneLost /\ FlagIsRight
  BY DEF PlaceInv, NoneLost, FlagIsRight
<1>4. QED
  BY <1>1, <1>2, <1>3 DEF IInv

\* A step of the owner that only moves on.
MovesOn ==
    \/ \E limit \in BOOLEAN : Stop(limit)
    \/ CheckRunning \/ Wait \/ WakeUntold \/ JoinLocked \/ Start

LEMMA MovesIInv == ASSUME IInv, MovesOn PROVE IInv'
<1> USE MaxTasksAssumption DEF MaxTasksAssumption, IInv, Tasks, MovesOn
<1>0. UNCHANGED <<isRunning, handle, launched, task, abandoned>>
  BY DEF Stop, CheckRunning, Wait, WakeUntold, JoinLocked, Start
<1>1. TypeOK'
  BY DEF TypeOK, Stop, CheckRunning, Wait, WakeUntold, JoinLocked, Start
<1>2. HandleInv' /\ NoneLost' /\ FlagIsRight'
  BY <1>0 DEF HandleInv, NoneLost, FlagIsRight
<1>3. PlaceInv'
  BY DEF PlaceInv, HandleInv, TypeOK, Stop, CheckRunning, Wait, WakeUntold, JoinLocked,
         Start
<1>4. QED
  BY <1>1, <1>2, <1>3

\* A step of stop() that is done with the handle.
LEMMA SpendsIInv ==
    ASSUME IInv, Join \/ Detach \/ Joined
    PROVE  IInv'
<1> USE MaxTasksAssumption DEF MaxTasksAssumption, IInv, Tasks
<1>1. TypeOK'
  <2>1. handle = "joinable" /\ launched \in Tasks
    BY DEF Join, Detach, Joined, PlaceInv, HandleInv, TypeOK
  <2>2. QED
    BY <2>1 DEF TypeOK, Join, Detach, Joined
<1>2. HandleInv'
  <2>1. handle = "joinable" /\ launched \in Tasks /\ launched # 0
    BY DEF Join, Detach, Joined, PlaceInv, HandleInv, TypeOK
  <2>2. handle' = "spent" /\ UNCHANGED <<launched, task>>
    BY DEF Join, Detach, Joined
  <2>3. abandoned' \subseteq 1..launched
    <3>1. abandoned \subseteq 1..launched /\ launched \in 1..launched
      BY <2>1 DEF HandleInv
    <3>2. abandoned' \subseteq abandoned \cup {launched}
      BY DEF Join, Detach, Joined
    <3>3. QED
      BY <3>1, <3>2
  <2>4. QED
    BY <2>1, <2>2, <2>3 DEF HandleInv
<1>3. PlaceInv'
  BY DEF PlaceInv, Join, Detach, Joined
<1>4. NoneLost'
  BY DEF NoneLost, HandleInv, PlaceInv, TypeOK, Join, Detach, Joined
<1>5. FlagIsRight'
  BY DEF FlagIsRight, PlaceInv, TypeOK, Join, Detach, Joined
<1>6. QED
  BY <1>1, <1>2, <1>3, <1>4, <1>5

LEMMA LaunchIInv == ASSUME IInv, Launch PROVE IInv'
<1> USE MaxTasksAssumption DEF MaxTasksAssumption, IInv, Tasks, Launch
<1>1. TypeOK'
  <2>1. launched' \in 0..MaxTasks /\ abandoned' \subseteq Tasks
    BY DEF TypeOK, PlaceInv
  <2>2. task' \in [Tasks -> {"none", "running", "returned", "cleared", "gone"}]
    BY DEF TypeOK
  <2>3. QED
    BY <2>1, <2>2 DEF TypeOK
<1>2. HandleInv'
  BY DEF HandleInv, TypeOK
<1>3. PlaceInv'
  BY DEF PlaceInv
<1>4. NoneLost'
  BY DEF NoneLost, HandleInv, TypeOK
<1>5. FlagIsRight'
  <2>1. launched' \in Tasks /\ task'[launched'] = "running"
    BY DEF TypeOK, PlaceInv
  <2>2. QED
    BY <2>1 DEF FlagIsRight
<1>6. QED
  BY <1>1, <1>2, <1>3, <1>4, <1>5

\* A step of the task t.
LEMMA TaskIInv ==
    ASSUME IInv, NEW t \in Tasks, Task(t)
    PROVE  IInv'
<1> USE MaxTasksAssumption DEF MaxTasksAssumption, IInv, Tasks
<1>1. task[t] \notin {"none", "gone"} /\ (t \in abandoned \/ (t = launched /\ handle = "joinable"))
  <2>1. task[t] \in {"running", "returned", "cleared"}
    BY DEF Task, Return, Running, ClearRunning, Notify
  <2>2. QED
    BY <2>1 DEF NoneLost
<1>2. UNCHANGED <<limited, isReadyFinished, handle, launched, abandoned>>
  BY DEF Task, Return, ClearRunning, Notify
<1>3. PICK to \in {"returned", "cleared", "gone"} : task' = [task EXCEPT ![t] = to]
  BY DEF Task, Return, ClearRunning, Notify
<1>4. TypeOK'
  <2>1. task' \in [Tasks -> {"none", "running", "returned", "cleared", "gone"}]
    BY <1>3 DEF TypeOK
  <2>2. pc' \in {pc, "woken"} /\ isRunning' \in BOOLEAN
    BY DEF TypeOK, Task, Return, Running, ClearRunning, Notify
  <2>3. QED
    BY <1>2, <2>1, <2>2 DEF TypeOK
<1>5. HandleInv'
  <2>1. \A u \in Tasks : task'[u] = "none" <=> task[u] = "none"
    BY <1>1, <1>3 DEF TypeOK
  <2>2. QED
    BY <1>2, <2>1 DEF HandleInv
<1>6. PlaceInv'
  BY <1>2 DEF PlaceInv, TypeOK, Task, Return, Running, ClearRunning, Notify
<1>7. NoneLost'
  BY <1>1, <1>2, <1>3 DEF NoneLost, TypeOK
<1>8. FlagIsRight'
  <2>1. CASE t = launched /\ handle = "joinable"
    <3>1. t \notin abandoned
      BY <2>1 DEF HandleInv
    <3>2. \A u \in Tasks \ {t} : task'[u] = task[u]
      BY <1>3 DEF TypeOK
    <3>3. task'[t] \in AtWork => task[t] \in AtWork /\ UNCHANGED isRunning
      BY <1>1 DEF AtWork, TypeOK, Task, Return, Running, ClearRunning, Notify
    <3>4. isRunning' => isRunning /\ task'[t] \in AtWork
      BY <2>1 DEF AtWork, FlagIsRight, TypeOK, Task, Return, Running, ClearRunning, Notify
    <3>5. abandoned \subseteq Tasks
      BY DEF TypeOK
    <3>6. QED
      BY <1>2, <2>1, <3>1, <3>2, <3>3, <3>4, <3>5 DEF AtWork, FlagIsRight
  <2>2. CASE ~(t = launched /\ handle = "joinable")
    <3>1. t \in abandoned /\ abandoned \subseteq Tasks
      BY <1>1, <2>2 DEF TypeOK
    <3>2. handle = "joinable" => t # launched
      BY <3>1 DEF HandleInv
    <3>3. isRunning' => isRunning
      BY DEF Task, Return, ClearRunning, Notify
    <3>4. isRunning /\ ~isRunning' => task'[t] \in {"cleared", "gone"}
      BY <1>3 DEF TypeOK, Task, Return, Running, ClearRunning, Notify
    <3>5. \A u \in Tasks : task[u] \in {"cleared", "gone"} => task'[u] \in {"cleared", "gone"}
      <4>1. task[t] \in {"cleared", "gone"} => task'[t] \in {"cleared", "gone"}
        BY DEF TypeOK, Task, Return, Running, ClearRunning, Notify
      <4>2. \A u \in Tasks \ {t} : task'[u] = task[u]
        BY <1>3 DEF TypeOK
      <4>3. QED
        BY <4>1, <4>2
    <3>6. handle = "joinable" => task'[launched] = task[launched]
      BY <1>3, <3>2 DEF TypeOK, HandleInv
    <3>7. QED
      BY <1>2, <3>1, <3>3, <3>4, <3>5, <3>6 DEF FlagIsRight
  <2>3. QED
    BY <2>1, <2>2
<1>9. QED
  BY <1>4, <1>5, <1>6, <1>7, <1>8

LEMMA StepIInv == IInv /\ [Next]_vars => IInv'
<1> SUFFICES ASSUME IInv, [Next]_vars PROVE IInv'
  OBVIOUS
<1>1. CASE MovesOn
  BY <1>1, MovesIInv
<1>2. CASE Join \/ Detach \/ Joined
  BY <1>2, SpendsIInv
<1>3. CASE Launch
  BY <1>3, LaunchIInv
<1>4. CASE \E t \in Tasks : Task(t)
  BY <1>4, TaskIInv
<1>5. CASE UNCHANGED vars
  BY <1>5 DEF vars, IInv, TypeOK, HandleInv, PlaceInv, NoneLost, FlagIsRight
<1>6. QED
  BY <1>1, <1>2, <1>3, <1>4, <1>5 DEF Next, Owner, MovesOn

(***************************************************************************)
(* The invariant holds of the thread, whatever its owner and tasks do.     *)
(***************************************************************************)
THEOREM Inductive == Spec => []IInv
  BY InitIInv, StepIInv, PTL DEF Spec

(***************************************************************************)
(* No task is lost sight of: start() never replaces a std::thread that can *)
(* still be joined, and stop() lets go of one only by detaching it.        *)
(***************************************************************************)
THEOREM NoTaskLost == Spec => []NoneLost
  BY Inductive, PTL DEF IInv

(***************************************************************************)
(* isRunning is wrong only after a detached task has ended since.          *)
(***************************************************************************)
THEOREM FlagRight == Spec => []FlagIsRight
  BY Inductive, PTL DEF IInv

-----------------------------------------------------------------------------
(* The refinement.                                                         *)

Held == IF handle = "joinable" /\ Running(launched) THEN launched ELSE 0
Loose == {t \in abandoned : Running(t)}

\* What the task t does to Held and Loose when it returns, and leaves when it does not.
LEMMA TaskRefines ==
    ASSUME IInv, NEW t \in Tasks, Task(t)
    PROVE  Abstract!End \/ UNCHANGED Abstract!workerVars
<1> USE MaxTasksAssumption DEF MaxTasksAssumption, Tasks
<1>1. UNCHANGED <<isReadyFinished, handle, launched, abandoned>>
  BY DEF Task, Return, ClearRunning, Notify
<1>2. task \in [Tasks -> {"none", "running", "returned", "cleared", "gone"}]
  BY DEF IInv, TypeOK
<1>3. CASE Return(t)
  <2>1. \A u \in Tasks : Running(u)' <=> Running(u) /\ u # t
    BY <1>2, <1>3 DEF Return, Running
  <2>2. CASE t \in abandoned
    <3>1. Loose' = Loose \ {t} /\ t \in Loose
      BY <1>1, <1>3, <2>1, <2>2 DEF Loose, IInv, TypeOK, Return
    <3>2. handle = "joinable" => t # launched /\ launched \in Tasks
      BY <2>2 DEF IInv, HandleInv, TypeOK
    <3>3. Held' = Held
      BY <1>1, <2>1, <3>2 DEF Held
    <3>4. QED
      BY <1>1, <3>1, <3>3 DEF Abstract!End, Held, Loose
  <2>3. CASE t \notin abandoned
    <3>1. t = launched
      BY <1>3, <2>3 DEF Return, Running, IInv, NoneLost
    <3>2. Held' = 0
      BY <1>1, <2>1, <3>1 DEF Held
    <3>3. Loose' = Loose
      BY <1>1, <2>1, <2>3 DEF Loose, IInv, TypeOK
    <3>4. QED
      BY <1>1, <3>2, <3>3 DEF Abstract!End, Held, Loose
  <2>4. QED
    BY <2>2, <2>3
<1>4. CASE ClearRunning(t) \/ Notify(t)
  <2>1. \A u \in Tasks : Running(u)' <=> Running(u)
    BY <1>2, <1>4 DEF ClearRunning, Notify, Running
  <2>2. Loose' = Loose
    BY <1>1, <2>1 DEF Loose, IInv, TypeOK
  <2>3. Held' = Held
    BY <1>1, <2>1 DEF Held, IInv, HandleInv, TypeOK
  <2>4. QED
    BY <1>1, <2>2, <2>3 DEF Abstract!workerVars, Held, Loose
<1>5. QED
  BY <1>3, <1>4 DEF Task

\* Steps of the owner: telling the task, giving it up, starting the next, or nothing.
LEMMA OwnerRefines ==
    ASSUME IInv, MovesOn \/ Owner
    PROVE  [Abstract!WorkerNext]_Abstract!workerVars
<1> USE MaxTasksAssumption DEF MaxTasksAssumption, Tasks
<1>0. task \in [Tasks -> {"none", "running", "returned", "cleared", "gone"}]
  BY DEF IInv, TypeOK
<1>1. CASE MovesOn
  <2>1. UNCHANGED <<handle, launched, task, abandoned>>
    BY <1>1 DEF MovesOn, Stop, CheckRunning, Wait, WakeUntold, JoinLocked, Start
  <2>2. UNCHANGED <<Held, Loose>>
    BY <2>1 DEF Held, Loose, Running
  <2>3. isReadyFinished' \in {TRUE, isReadyFinished}
    BY <1>1 DEF MovesOn, Stop, CheckRunning, Wait, WakeUntold, JoinLocked, Start, IInv,
                TypeOK
  <2>4. Abstract!Tell \/ UNCHANGED Abstract!workerVars
    BY <2>1, <2>2, <2>3 DEF Abstract!Tell, Abstract!workerVars, Held, Loose
  <2>5. QED
    BY <2>4 DEF Abstract!WorkerNext
<1>2. CASE Join \/ Joined
  <2>1. UNCHANGED <<isReadyFinished, launched, task, abandoned>> /\ ~Running(launched)
    BY <1>2 DEF Join, Joined, Running
  <2>2. handle' = "spent"
    BY <1>2 DEF Join, Joined
  <2>3. UNCHANGED <<Held, Loose>>
    BY <2>1, <2>2 DEF Held, Loose, Running
  <2>4. QED
    BY <2>1, <2>3 DEF Abstract!workerVars, Held, Loose
<1>3. CASE Detach
  <2>1. isReadyFinished /\ handle = "joinable" /\ launched \in Tasks
    BY <1>3 DEF Detach, IInv, PlaceInv, HandleInv, TypeOK
  <2>2. Held' = 0
    BY <1>3 DEF Detach, Held
  <2>3. CASE Running(launched)
    <3>1. Held = launched /\ Held # 0
      BY <2>1, <2>3 DEF Held
    <3>2. Loose' = Loose \cup {launched}
      BY <1>3, <2>3 DEF Detach, Loose, Running
    <3>3. Abstract!LetGo
      BY <1>3, <2>1, <2>2, <3>1, <3>2 DEF Abstract!LetGo, Held, Loose, Detach
    <3>4. QED
      BY <3>3 DEF Abstract!WorkerNext
  <2>4. CASE ~Running(launched)
    <3>1. Held = 0 /\ Loose' = Loose
      BY <1>3, <2>4 DEF Detach, Held, Loose, Running
    <3>2. QED
      BY <1>3, <2>2, <3>1 DEF Abstract!workerVars, Held, Loose, Detach
  <2>5. QED
    BY <2>3, <2>4
<1>4. CASE Launch
  <2>1. launched \in Nat /\ launched < MaxTasks /\ abandoned \subseteq 1..launched
    BY <1>4 DEF Launch, IInv, PlaceInv, HandleInv, TypeOK
  <2>2. Held = 0
    BY <1>4 DEF Launch, Held, Running
  <2>3. launched + 1 \in Tasks /\ launched' = launched + 1
    BY <1>4, <2>1 DEF Launch
  <2>4. Held' = launched + 1
    BY <1>0, <1>4, <2>3 DEF Launch, Held, Running
  <2>5. \A t \in abandoned : Running(t)' <=> Running(t)
    BY <1>0, <1>4, <2>1, <2>3 DEF Launch, Running
  <2>6. Loose' = Loose
    BY <1>4, <2>5 DEF Launch, Loose
  <2>7. Abstract!Start
    BY <1>4, <2>1, <2>2, <2>3, <2>4, <2>6 DEF Launch, Abstract!Start, Held, Loose
  <2>8. QED
    BY <2>7 DEF Abstract!WorkerNext
<1>5. QED
  BY <1>1, <1>2, <1>3, <1>4 DEF Owner, MovesOn

(***************************************************************************)
(* Class Thread implements Worker: one task is held at a time, a task is   *)
(* given up only after it has been told, and ends only by itself.          *)
(***************************************************************************)
THEOREM ImplementsWorker == Spec => KeepsWorker
<1>1. Init => Abstract!WorkerInit
  BY DEF Init, Abstract!WorkerInit
<1>2. IInv /\ [Next]_vars => [Abstract!WorkerNext]_Abstract!workerVars
  <2> SUFFICES ASSUME IInv, [Next]_vars
               PROVE  [Abstract!WorkerNext]_Abstract!workerVars
    OBVIOUS
  <2>1. CASE MovesOn \/ Owner
    BY <2>1, OwnerRefines
  <2>2. CASE \E t \in Tasks : Task(t)
    BY <2>2, TaskRefines DEF Abstract!WorkerNext
  <2>3. CASE UNCHANGED vars
    BY <2>3 DEF vars, Abstract!workerVars, Running
  <2>4. QED
    BY <2>1, <2>2, <2>3 DEF Next, MovesOn
<1>3. QED
  BY <1>1, <1>2, Inductive, PTL DEF Spec, KeepsWorker, Abstract!WorkerSpec

-----------------------------------------------------------------------------
(* The engine's thread.                                                    *)


\* A step of the whole is a step of the worker, or leaves it alone.
LEMMA WorkerSteps == [EngineNext]_engineVars => [Next]_vars
<1> SUFFICES ASSUME [EngineNext]_engineVars PROVE [Next]_vars
  OBVIOUS
<1>1. CASE HandlePlain \/ LoopOn \/ Asleep \/ QuitStep \/ QuitEnded
  BY <1>1 DEF HandlePlain, LoopOn, Asleep, QuitStep, QuitEnded, threadVars
<1>2. CASE \E p \in Posters : Post(p) \/ PostEnds(p)
  BY <1>2 DEF Post, PostEnds, threadVars
<1>3. CASE HandleStop \/ Destroy
  BY <1>3 DEF HandleStop, Destroy, Next
<1>4. CASE StartTask
  BY <1>4 DEF StartTask, Next
<1>5. CASE Handler \/ WakesUntold
  BY <1>5 DEF Handler, WakesUntold, Next
<1>6. CASE \E t \in Tasks : TaskOn(t)
  BY <1>6 DEF TaskOn, Next
<1>7. CASE UNCHANGED engineVars
  BY <1>7 DEF engineVars, threadVars
<1> QED
  BY <1>1, <1>2, <1>3, <1>4, <1>5, <1>6, <1>7 DEF EngineNext

\* A step of the whole is a step of the queue, or leaves it alone.
LEMMA QueueSteps == [EngineNext]_engineVars => [Q!Next]_queueVars
<1> SUFFICES ASSUME [EngineNext]_engineVars PROVE [Q!Next]_queueVars
  OBVIOUS
<1>1. CASE HandlePlain \/ HandleStop
  BY <1>1 DEF HandlePlain, HandleStop, Q!Next, Q!Loop
<1>2. CASE StartTask \/ Handler \/ WakesUntold \/ Destroy
  BY <1>2 DEF StartTask, Handler, WakesUntold, Destroy
<1>3. CASE LoopOn
  BY <1>3 DEF LoopOn, Q!Next, Q!Loop
<1>4. CASE Asleep \/ QuitStep \/ QuitEnded
  BY <1>4 DEF Asleep, QuitStep, QuitEnded, Q!Next
<1>5. CASE \E p \in Posters : Post(p) \/ PostEnds(p)
  BY <1>5 DEF Post, PostEnds, Q!Next
<1>6. CASE \E t \in Tasks : TaskOn(t)
  BY <1>6 DEF TaskOn
<1>7. CASE UNCHANGED engineVars
  BY <1>7 DEF engineVars
<1> QED
  BY <1>1, <1>2, <1>3, <1>4, <1>5, <1>6, <1>7 DEF EngineNext

(***************************************************************************)
(* Inside an engine's thread the worker is what WorkerThread says, and the *)
(* queue what EventQueue says: handlers, tasks and posters only take the   *)
(* steps of class Thread and of class Queue.                               *)
(***************************************************************************)
THEOREM Composed == EngineSpec => Spec /\ Q!Init /\ [][Q!Next]_queueVars
<1>1. EngineInit => Init /\ Q!Init
  BY DEF EngineInit
<1> QED
  BY <1>1, WorkerSteps, QueueSteps, PTL DEF EngineSpec, Spec

(***************************************************************************)
(* So no task is lost sight of, isRunning is right but for one case, and   *)
(* the worker implements the abstract one, in every engine.                *)
(***************************************************************************)
THEOREM EngineKeepsWorker == EngineSpec => []NoneLost /\ []FlagIsRight /\ KeepsWorker
  BY Composed, NoTaskLost, FlagRight, ImplementsWorker, PTL

-----------------------------------------------------------------------------
\* The invariant of the queue.  Only a loop that is asked to quit comes to its last
\* events; a sleep takes one from the count, which a reset gives back.
QInv ==
    /\ count \in Int /\ count <= 1
    /\ loop = "asleep" => count <= 0 /\ (notified \/ count < 0)
    /\ pushed \in Nat /\ handled \in Nat /\ owed \in Nat /\ owed <= pushed
    /\ loop \in {"final", "ended"} => Q!quitFlag
    /\ loop = "ended" => owed <= handled

\* The queue starts with it.
LEMMA QInit == Q!Init => QInv
  BY DEF Q!Init, QInv, Q!quitFlag

\* The loop keeps it.
LEMMA LoopQInv == ASSUME QInv, Q!Loop \/ Q!TimedOut \/ Q!WokenSpuriously PROVE QInv'
<1>1. CASE Q!HandleEvent
  BY <1>1 DEF Q!HandleEvent, QInv, Q!quitFlag
<1>2. CASE Q!NoMoreEvents
  BY <1>2 DEF Q!NoMoreEvents, QInv, Q!quitFlag, Q!Waiting
<1>3. CASE Q!PlanSleep
  BY <1>3 DEF Q!PlanSleep, QInv, Q!quitFlag
<1>4. CASE Q!AcquireNow
  BY <1>4 DEF Q!AcquireNow, QInv, Q!quitFlag, Q!Again
<1>5. CASE Q!Sleep
  BY <1>5 DEF Q!Sleep, QInv, Q!quitFlag
<1>6. CASE Q!Woken
  BY <1>6 DEF Q!Woken, QInv, Q!quitFlag, Q!Again
<1>7. CASE Q!TimedOut
  BY <1>7 DEF Q!TimedOut, QInv, Q!quitFlag, Q!Again
<1>8. CASE Q!WokenSpuriously
  BY <1>8 DEF Q!WokenSpuriously, QInv, Q!quitFlag, Q!Again
<1> QED
  BY <1>1, <1>2, <1>3, <1>4, <1>5, <1>6, <1>7, <1>8 DEF Q!Loop

\* A reset wakes the sleeper, if it has not been woken.
LEMMA ResetWakes ==
    ASSUME QInv, Q!Reset
    PROVE  count' = 0 /\ (loop = "asleep" => notified')
<1>1. loop = "asleep" => notified \/ count < 0
  BY DEF QInv
<1>2. count' = 0 /\ notified' = (notified \/ (count < 0 /\ loop = "asleep"))
  BY DEF Q!Reset
<1> QED
  BY <1>1, <1>2, Zenon

\* Those who post, and the one who quits, keep it.
LEMMA PostQInv ==
    ASSUME QInv,
           Q!Quit \/ Q!QuitSignal \/ \E p \in Posters : Q!Push(p) \/ Q!Signal(p)
    PROVE  QInv'
<1>1. CASE Q!Quit
  BY <1>1 DEF Q!Quit, QInv, Q!quitFlag
<1>2. CASE Q!QuitSignal
  BY <1>2, ResetWakes DEF Q!QuitSignal, QInv, Q!quitFlag
<1>3. ASSUME NEW p \in Posters, Q!Push(p)
      PROVE  QInv'
  BY <1>3 DEF Q!Push, QInv, Q!quitFlag
<1>4. ASSUME NEW p \in Posters, Q!Signal(p)
      PROVE  QInv'
  BY <1>4, ResetWakes DEF Q!Signal, QInv, Q!quitFlag
<1> QED
  BY <1>1, <1>2, <1>3, <1>4

\* Every step of the queue keeps it.
LEMMA StepQInv == QInv /\ [Q!Next]_queueVars => QInv'
<1> SUFFICES ASSUME QInv, [Q!Next]_queueVars PROVE QInv'
  OBVIOUS
<1>1. CASE Q!Next
  BY <1>1, LoopQInv, PostQInv DEF Q!Next
<1>2. CASE UNCHANGED queueVars
  BY <1>2 DEF queueVars, QInv, Q!quitFlag
<1> QED
  BY <1>1, <1>2

(***************************************************************************)
(* quit() loses nothing: the events pushed before it have been handled     *)
(* when the loop has ended, however many there are.                        *)
(***************************************************************************)
THEOREM QuitAlwaysHandlesAll == EngineSpec => []QuitHandlesAll
<1>1. QInv => QuitHandlesAll
  BY DEF QInv, QuitHandlesAll, Q!QuitHandlesAll
<1> QED
  BY <1>1, Composed, QInit, StepQInv, PTL

(***************************************************************************)
(* At most one sleep is skipped for nothing, however many resets, timeouts *)
(* and spurious wakeups come together.                                     *)
(***************************************************************************)
THEOREM SemaphoreNeverCollects == EngineSpec => []AtMostOneSkip
<1>1. QInv => AtMostOneSkip
  BY DEF QInv, AtMostOneSkip, Q!AtMostOneSkip
<1> QED
  BY <1>1, Composed, QInit, StepQInv, PTL
=============================================================================
