------------------------------- MODULE Timers -------------------------------
(***************************************************************************)
(* The timers of a queue (src/base/timer.cpp and processNextSleepTime and  *)
(* processEvent of src/base/queue.cpp, with TIMER_USE_PRECISION): a timer  *)
(* counts its periods from its start and is called once for each period    *)
(* that has passed since the queue last looked, so that a busy queue       *)
(* catches up.  All of it happens on the queue's thread; time passes while *)
(* a function runs and while the queue sleeps.                             *)
(***************************************************************************)
EXTENDS Integers, Sequences, FiniteSets, FiniteSetsExt, SequencesExt

CONSTANTS
    List,        \* timerList: the timers in the order they were created
    Loop,        \* Loop[t]: t is called again and again
    Intervals,   \* those a timer may be given; 0 is what a missing one is read as
    Least,       \* what an interval of 0 is taken for (0.1 ms)
    Offset,      \* TIMER_ERROR_OFFSET: how early a call may be (1 ms)
    Now0,        \* the time at which the timers are started
    MaxTime      \* bound: the end of time

\* The timers.
Names == Range(List)

ASSUME TimersAssumption ==
    /\ List \in Seq(Names) /\ \A i, j \in DOMAIN List : List[i] = List[j] => i = j
    /\ Loop \in [Names -> BOOLEAN]
    /\ Intervals \subseteq Nat /\ Intervals # {}
    /\ Least \in Nat \ {0} /\ Offset \in Nat
    /\ Now0 \in Nat \ {0} /\ MaxTime \in Nat /\ Now0 <= MaxTime

VARIABLES
    now,       \* Utils::getNanoCurrent
    timer,     \* timer[t]: m_startTimer (0: not active), m_interval and m_loopCount
    due,       \* timerFunctionQueue, by the names of the timers
    pc,        \* the queue runs functions or sleeps
    until,     \* when the sleep is over by itself; 0: never
    calls,     \* calls[t]: how often t has been called since its start
    changed    \* changed[t]: when t was last given another interval

vars == <<now, timer, due, pc, until, calls, changed>>

Timer == [start: 0..MaxTime, interval: Intervals, loops: Nat]

active(t) == timer[t].start > 0

intervalTime(t) == IF timer[t].interval = 0 THEN Least ELSE timer[t].interval

Init ==
    /\ now = Now0
    /\ timer \in [Names -> {[start |-> Now0, interval |-> i, loops |-> 0] : i \in Intervals}]
    /\ due = <<>> /\ pc = "awake" /\ until = 0
    /\ calls = [t \in Names |-> 0] /\ changed = [t \in Names |-> FALSE]

-----------------------------------------------------------------------------
(* processNextSleepTime.                                                   *)

\* The periods that have passed since the start.
expactCount(t) == (now - timer[t].start + Offset) \div intervalTime(t)

\* Slip: one period more is one call, however many have passed.
Pushes_one(t) ==
    IF ~active(t) \/ expactCount(t) <= timer[t].loops THEN 0 ELSE 1

\* How often t is put into the queue of functions.
Pushes(t) ==
    IF ~active(t) \/ expactCount(t) <= timer[t].loops THEN 0
    ELSE IF Loop[t] THEN expactCount(t) - timer[t].loops ELSE 1

\* Slip: a timer that does not loop stays active.
Planned_active(t) ==
    IF Pushes(t) = 0 THEN timer[t]
    ELSE [timer[t] EXCEPT !.loops = expactCount(t)]

\* A timer that does not loop is stopped.
Planned(t) ==
    IF Pushes(t) = 0 THEN timer[t]
    ELSE IF Loop[t] THEN [timer[t] EXCEPT !.loops = expactCount(t)]
    ELSE [timer[t] EXCEPT !.start = 0, !.loops = 0]

\* Slip: a whole period is slept, wherever in it the queue is.
remainTime_whole(t) == intervalTime(t)

remainTime(t) == intervalTime(t) - ((now - timer[t].start) % intervalTime(t))

\* No sleep if anything was pushed, else until the next period of any timer ends.
Plan ==
    /\ pc = "awake" /\ due = <<>>
    /\ timer' = [t \in Names |-> Planned(t)]
    /\ due' = FlattenSeq([i \in DOMAIN List |-> [k \in 1..Pushes(List[i]) |-> List[i]]])
    /\ IF \E t \in Names : Pushes(t) > 0
       THEN UNCHANGED <<pc, until>>
       ELSE /\ pc' = "asleep"
            /\ until' = IF \E t \in Names : active(t)
                        THEN now + Min({remainTime(t) : t \in {u \in Names : active(u)}})
                        ELSE 0
    /\ UNCHANGED <<now, calls, changed>>

-----------------------------------------------------------------------------
(* processEvent calls the functions that are due.                          *)

\* Slip: milliseconds are stored where tenths are meant.
SetInterval_unit(t, interval) ==
    /\ timer' = [timer EXCEPT ![t].interval = 10 * interval]
    /\ changed' = [changed EXCEPT ![t] = @ \/ interval # timer[t].interval]

\* setInterval stores the interval and nothing else.
SetInterval(t, interval) ==
    /\ timer' = [timer EXCEPT ![t].interval = interval]
    /\ changed' = [changed EXCEPT ![t] = @ \/ interval # timer[t].interval]

\* The function of the first timer, which may give its timer another interval (as
\* detect() does) and takes its time.
Call ==
    /\ pc = "awake" /\ due # <<>>
    /\ \E time \in now..MaxTime, interval \in Intervals :
         /\ now' = time
         /\ SetInterval(Head(due), interval)
    /\ calls' = [calls EXCEPT ![Head(due)] = @ + 1]
    /\ due' = Tail(due)
    /\ UNCHANGED <<pc, until>>

\* The sleep ends: at its time, or before it because an event has come.
Wake ==
    /\ pc = "asleep" /\ pc' = "awake"
    /\ \E time \in now..MaxTime : (until = 0 \/ time <= until) /\ now' = time
    /\ UNCHANGED <<timer, due, until, calls, changed>>

Next == Plan \/ Call \/ Wake

Spec == Init /\ [][Next]_vars

-----------------------------------------------------------------------------
(* Properties.                                                             *)

(***************************************************************************)
(* The type of the timers.                                                 *)
(***************************************************************************)
TypeOK ==
    /\ now \in Now0..MaxTime
    /\ timer \in [Names -> Timer]
    /\ due \in Seq(Names) /\ pc \in {"awake", "asleep"} /\ until \in Nat
    /\ calls \in [Names -> Nat] /\ changed \in [Names -> BOOLEAN]

\* Pending(t): t's calls that are due and not done.
Pending(t) == Cardinality({i \in DOMAIN due : due[i] = t})

(***************************************************************************)
(* While its interval stays the same, a timer neither drifts nor loses a   *)
(* call: however long the functions before it take, it has been called, or *)
(* is due, once for every period the queue has seen end, and never earlier *)
(* than the offset allows.                                                 *)
(***************************************************************************)
NoDrift ==
    \A t \in Names : Loop[t] /\ ~changed[t] =>
        /\ calls[t] + Pending(t) = timer[t].loops
        /\ timer[t].start + timer[t].loops * intervalTime(t) <= now + Offset

(***************************************************************************)
(* The queue never sleeps past the end of a period: the remainder it plans *)
(* the sleep by agrees with the count it calls by.                         *)
(***************************************************************************)
NoOversleep ==
    pc = "asleep" => \A t \in Names : active(t) =>
        /\ until # 0
        /\ until <= timer[t].start + (timer[t].loops + 1) * intervalTime(t)

(***************************************************************************)
(* A timer that does not loop is called once, as often as the queue looks  *)
(* at it.                                                                  *)
(***************************************************************************)
OnceOnly == \A t \in Names : ~Loop[t] => calls[t] + Pending(t) <= 1
=============================================================================
