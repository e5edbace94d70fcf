----------------------------- MODULE EventQueue -----------------------------
(***************************************************************************)
(* Class Queue (src/base/queue.cpp) and the semaphore it sleeps on         *)
(* (src/base/semaphore.cpp).  One thread runs the loop: handle the events, *)
(* find out how long to sleep, sleep.  Others post events, and one asks    *)
(* the loop to quit.  Posting is two steps, the push under eventMutex and  *)
(* the reset of the semaphore; a reset wakes only who already sleeps.      *)
(*                                                                         *)
(* Events are told apart by the order they are pushed in.  What they do is *)
(* their engine's; the timers are here only as the reason not to sleep for *)
(* long (module Timers has them).                                          *)
(***************************************************************************)
EXTENDS Integers

CONSTANTS
    Posters,     \* threads that post events
    Posts,       \* bound: the events ever posted
    Limit,       \* QUEUE_MAX_NUM
    Timed,       \* whether timers may be active, so that no sleep is without end
    Spurious     \* bound: the spurious wakeups between two resets

QueueAssumption ==
    /\ Posts \in Nat /\ Limit \in Nat
    /\ Timed \subseteq BOOLEAN
    /\ Spurious \in Nat

VARIABLES
    loop,        \* where the loop is
    timed,       \* timers are active
    nap,         \* timeMethod.miniTime: none, timed or forever
    count,       \* Semaphore::m_count
    notified,    \* the sleeper has been notified
    poster,      \* poster[p]: posts nothing, or has pushed and not yet reset
    pushed,      \* events pushed so far
    handled,     \* and how many of them have been taken and handled
    full,        \* std::terminate has been called
    quitter,     \* quit(): not called, quitFlag is set, or the semaphore is reset
    owed         \* the events pushed before quitFlag was set

vars == <<loop, timed, nap, count, notified, poster, pushed, handled, full, quitter, owed>>

Init ==
    /\ loop = "process" /\ timed \in Timed /\ nap = "none" /\ count = 0 /\ notified = FALSE
    /\ poster = [p \in Posters |-> "out"] /\ pushed = 0 /\ handled = 0
    /\ full = FALSE /\ quitter = "out" /\ owed = 0

quitFlag == quitter # "out"
Waiting == pushed - handled

\* What std::terminate leaves of the other threads.
Alive == ~full

-----------------------------------------------------------------------------
(* The loop of runInBlock.                                                 *)

\* processEvent, in the loop or once more after it: one event.
HandleEvent ==
    /\ Alive /\ loop \in {"process", "final"} /\ Waiting > 0
    /\ handled' = handled + 1
    /\ UNCHANGED <<timed, loop, nap, count, notified, poster, pushed, full, quitter, owed>>

\* Slip: what is left when the loop ends is not handled.
NoMoreEvents_leaves ==
    /\ Alive /\ loop = "process" /\ (Waiting = 0 \/ quitFlag)
    /\ loop' = IF quitFlag THEN "ended" ELSE "plan"
    /\ UNCHANGED <<timed, nap, count, notified, poster, pushed, handled, full, quitter, owed>>

\* The queue is empty; quitFlag ends the loop.
NoMoreEvents ==
    /\ Alive /\ loop \in {"process", "final"} /\ Waiting = 0
    /\ loop' = IF loop = "final" THEN "ended" ELSE IF quitFlag THEN "final" ELSE "plan"
    /\ UNCHANGED <<timed, nap, count, notified, poster, pushed, handled, full, quitter, owed>>

\* Slip: the timers are not looked at.
PlanSleep_forever ==
    /\ Alive /\ loop = "plan" /\ loop' = "acquire" /\ nap' = "forever"
    /\ UNCHANGED <<timed, count, notified, poster, pushed, handled, full, quitter, owed>>

\* processNextSleepTime: nothing to sleep for if a timer is due.
PlanSleep ==
    /\ Alive /\ loop = "plan" /\ loop' = "acquire"
    /\ nap' \in IF timed THEN {"none", "timed"} ELSE {"forever"}
    /\ UNCHANGED <<timed, count, notified, poster, pushed, handled, full, quitter, owed>>

\* The head of the loop, after a sleep.
Again == IF quitFlag THEN "final" ELSE "process"

\* acquire_nano without a sleep: there is no time, or a count to take.
AcquireNow ==
    /\ Alive /\ loop = "acquire" /\ (nap = "none" \/ count > 0)
    /\ loop' = Again
    /\ count' = IF count > 0 THEN count - 1 ELSE count
    /\ UNCHANGED <<timed, nap, notified, poster, pushed, handled, full, quitter, owed>>

Sleep ==
    /\ Alive /\ loop = "acquire" /\ nap # "none" /\ count <= 0
    /\ loop' = "asleep" /\ count' = count - 1 /\ notified' = FALSE
    /\ UNCHANGED <<timed, nap, poster, pushed, handled, full, quitter, owed>>

Woken ==
    /\ Alive /\ loop = "asleep" /\ notified
    /\ loop' = Again
    /\ UNCHANGED <<timed, nap, count, notified, poster, pushed, handled, full, quitter, owed>>

\* The time is up, perhaps just after a reset has notified.
TimedOut ==
    /\ Alive /\ loop = "asleep" /\ nap = "timed"
    /\ loop' = Again /\ count' = count + 1
    /\ UNCHANGED <<timed, nap, notified, poster, pushed, handled, full, quitter, owed>>

\* A condition variable may wake for no reason; the count is not given back.
WokenSpuriously ==
    /\ Alive /\ loop = "asleep" /\ ~notified /\ count >= -Spurious
    /\ loop' = Again
    /\ UNCHANGED <<timed, nap, count, notified, poster, pushed, handled, full, quitter, owed>>

-----------------------------------------------------------------------------
(* postEvent and quit.                                                     *)

\* Slip: the count is set and nobody is notified.
Reset_quiet == count' = 0 /\ UNCHANGED notified

\* Semaphore::reset.
Reset == count' = 0 /\ notified' = (notified \/ (count < 0 /\ loop = "asleep"))

\* The size is compared with the limit before the push.
Push(p) ==
    /\ Alive /\ poster[p] = "out" /\ pushed < Posts
    /\ IF Waiting > Limit
       THEN full' = TRUE /\ UNCHANGED <<pushed, poster>>
       ELSE /\ pushed' = pushed + 1
            /\ poster' = [poster EXCEPT ![p] = "pushed"]
            /\ UNCHANGED full
    /\ UNCHANGED <<timed, loop, nap, count, notified, handled, quitter, owed>>

\* Slip: the semaphore is not reset.
Signal_silent(p) ==
    /\ Alive /\ poster[p] = "pushed"
    /\ poster' = [poster EXCEPT ![p] = "out"]
    /\ UNCHANGED <<timed, loop, nap, count, notified, pushed, handled, full, quitter, owed>>

Signal(p) ==
    /\ Alive /\ poster[p] = "pushed"
    /\ poster' = [poster EXCEPT ![p] = "out"]
    /\ Reset
    /\ UNCHANGED <<timed, loop, nap, pushed, handled, full, quitter, owed>>

Quit ==
    /\ Alive /\ quitter = "out" /\ quitter' = "flagged"
    /\ owed' = pushed
    /\ UNCHANGED <<timed, loop, nap, count, notified, poster, pushed, handled, full>>

QuitSignal ==
    /\ Alive /\ quitter = "flagged" /\ quitter' = "done"
    /\ Reset
    /\ UNCHANGED <<timed, loop, nap, poster, pushed, handled, full, owed>>

-----------------------------------------------------------------------------
Loop == HandleEvent \/ NoMoreEvents \/ PlanSleep \/ AcquireNow \/ Sleep \/ Woken
Next ==
    \/ Loop \/ TimedOut \/ WokenSpuriously \/ Quit \/ QuitSignal
    \/ \E p \in Posters : Push(p) \/ Signal(p)

Spec == Init /\ [][Next]_vars

-----------------------------------------------------------------------------
(* Properties.                                                             *)

(***************************************************************************)
(* The type of the queue's state.                                          *)
(***************************************************************************)
TypeOK ==
    /\ loop \in {"process", "final", "plan", "acquire", "asleep", "ended"}
    /\ timed \in BOOLEAN /\ nap \in {"none", "timed", "forever"}
    /\ count \in (-Spurious - 1)..1 /\ notified \in BOOLEAN
    /\ poster \in [Posters -> {"out", "pushed"}]
    /\ pushed \in 0..Posts /\ handled \in 0..pushed
    /\ full \in BOOLEAN /\ quitter \in {"out", "flagged", "done"} /\ owed \in 0..pushed

(***************************************************************************)
(* quit() loses nothing: when the loop has ended, every event that was     *)
(* pushed before has been handled, whenever the flag was seen.             *)
(***************************************************************************)
QuitHandlesAll == loop = "ended" => handled >= owed

(***************************************************************************)
(* The semaphore never collects: whatever resets, timeouts and spurious    *)
(* wakeups come together, at most one sleep is skipped for nothing, so the *)
(* loop does not spin.                                                     *)
(***************************************************************************)
AtMostOneSkip == count <= 1 /\ (loop = "asleep" /\ ~notified => count < 0)
=============================================================================
