------------------------------ MODULE WebQueue ------------------------------
(***************************************************************************)
(* The web queue (src/server/web_queue.cpp, hawkbit_queue.cpp) beside the  *)
(* server engine: two threads with a FIFO of events each way, the queue's  *)
(* worker thread, and the update server (hawkBit) it polls and reports to. *)
(* The engine's handlers are those of module ServerEngine, which takes the *)
(* queue's answers in any order; here they come in the order the code      *)
(* gives them.                                                             *)
(*                                                                         *)
(* A task that stop() has given up (see Worker) works on, is told to stop  *)
(* no more once the next one has started, and posts what it would have     *)
(* posted.  Left out: the contents of the packages, the attributes sent to *)
(* the update server, REQ_CLEAR and REQ_CHECK (nothing posts them),        *)
(* RES_FEEDBACK_DONE and the progress of transfers (neither changes a      *)
(* state), and a restart, which ServerEngine has.                          *)
(***************************************************************************)
EXTENDS ServerEngine

CONSTANTS
    Checks,   \* bound: how often the update server is polled with an answer
    Mishaps,  \* bound: feeds that cannot be posted to the update server, tasks
              \* that fail, and tasks given up by stop(), in all
    Waiting   \* bound: events to the web queue with which the engine runs on

VARIABLES
    toWeb,      \* events the engine has posted to the web queue
    toEngine,   \* events the web queue and its tasks have posted to the engine
    mode,       \* WebHelper::state, which REQ_PULL asks for
    pulling,    \* the web queue waits for the handle of the distribution it started
    held,       \* the task the worker thread knows of
    loose,      \* tasks stop() has given up, until their threads end
    onDisk,     \* ids of the upgrades whose files a task has downloaded
    verified,   \* ids of those verified since they were last downloaded
    hub,        \* the update server's action: what it wants, and of which id
    told,       \* ids of the actions whose end the update server knows
    closed,     \* ids of the deployments the engine has closed
    used,       \* how much of the bounds is used up
    stale,      \* an answer or a request has been handled for an upgrade, or in a
                \* state, that the engine had left
    masked      \* an old task's end has set mode after the last request had set it,
                \* or ended the wait for its distribution's handle

queueVars == <<toWeb, toEngine>>
taskVars == <<mode, pulling, held, loose, onDisk, verified, masked>>
hubVars == <<hub, told>>
webVars == <<vars, queueVars, taskVars, hubVars, closed, used, stale>>

NoTask == [kind |-> "none", id |-> NoId, at |-> "over"]
Mode == {"WEB_IDLE", "WEB_DOWNLOAD", "WEB_VERIFY", "WEB_DISTRIBUTE"}
ModeOf(kind) == CASE kind = "REQ_DOWNLOAD" -> "WEB_DOWNLOAD"
                  [] kind = "REQ_VERIFY" -> "WEB_VERIFY"
                  [] kind = "REQ_DISTRIBUTE" -> "WEB_DISTRIBUTE"
                  [] OTHER -> "WEB_IDLE"

WebInit ==
    /\ Init
    /\ toWeb = <<>> /\ toEngine = <<>>
    /\ mode = "WEB_IDLE" /\ pulling = FALSE /\ held = NoTask /\ loose = {}
    /\ onDisk = {} /\ verified = {}
    /\ hub = [wants |-> "none", id |-> NoId] /\ told = {} /\ closed = {}
    /\ used = [checks |-> 0, losses |-> 0, faults |-> 0, loose |-> 0]
    /\ stale = FALSE /\ masked = FALSE

Use(what) == used' = [used EXCEPT ![what] = @ + 1]
Happens(what) == used.losses + used.faults + used.loose < Mishaps /\ Use(what)
-----------------------------------------------------------------------------
(* The engine's thread *)

Handled(s, e) ==
    CASE e.ev = "RES_INIT" -> OnInit(s, TRUE)
      [] e.ev = "REQ_ACTIVE" -> OnActive(s, e.active)
      [] e.ev = "REQ_IDLE" -> OnIdle(s)
      [] e.ev = "REQ_UPGRADE" -> OnUpgrade(s, e.upgrade)
      [] e.ev = "REQ_CANCEL" -> OnCancel(s, e.id)
      [] e.ev = "REQ_PULL" -> OnPull(s, mode = "WEB_DISTRIBUTE")
      [] e.ev = "RES_ERROR" -> OnError(s)
      [] e.ev = "REQ_DOWNLOAD" -> OnDownloadDone(s)
      [] e.ev = "REQ_VERIFY" -> OnVerifyDone(s)
      [] e.ev = "REQ_DISTRIBUTE" -> OnDistributeDone(s)

\* The request whose answer the engine waits for.
Awaited == CASE srv.state = "MR_DOWNLOAD" -> "REQ_DOWNLOAD"
             [] srv.state = "MR_VERIFY" -> "REQ_VERIFY"
             [] srv.state = "MR_DISTRIBUTE" -> "REQ_DISTRIBUTE"
             [] OTHER -> "none"

\* The engine's step to s: what it has posted goes to the web queue, and which
\* deployments it has closed is noted.
Step(s) ==
    /\ Len(toWeb) <= Waiting
    /\ srv' = Fresh(s)
    /\ toWeb' = toWeb \o s.posted
    /\ closed' = closed \cup
         {s.posted[i].id : i \in {i \in DOMAIN s.posted :
             Closed(s.posted[i]) /\ s.posted[i].type = "TP_DEPLOY"}}

IsTask(kind) == kind \in {"REQ_DOWNLOAD", "REQ_VERIFY", "REQ_DISTRIBUTE"}

\* A task's result, named after the request for it, crosses what the engine has
\* done since: it is in another state, has another upgrade or has asked anew.
Crosses(e) ==
    \/ /\ IsTask(e.ev)
       /\ \/ e.ev # Awaited
          \/ e.of # srv.upgrade.id
          \/ held.at = "work"
          \/ \E i \in DOMAIN toWeb : IsTask(toWeb[i].req)
          \/ \E i \in 2..Len(toEngine) : IsTask(toEngine[i].ev)
    \/ e.ev = "REQ_PULL" /\ mode = "WEB_DISTRIBUTE" /\ Awaited # "REQ_DISTRIBUTE"

EngineHandles ==
    /\ toEngine # <<>>
    /\ Step(Handled(srv, Head(toEngine)))
    /\ stale' = (stale \/ Crosses(Head(toEngine)))
    /\ toEngine' = Tail(toEngine)
    /\ UNCHANGED <<inited, taskVars, hubVars, used>>

EngineHears(msg) ==
    /\ inited
    /\ Step(OnDomain(srv, msg))
    /\ UNCHANGED <<inited, toEngine, taskVars, hubVars, used, stale>>

EngineTicks(late) ==
    /\ Watching(srv)
    /\ Step(processDomains(srv, late, {}, {}))
    /\ UNCHANGED <<inited, toEngine, taskVars, hubVars, used, stale>>
-----------------------------------------------------------------------------
(* The web queue's thread *)

\* postUpgrade and postCancel drop what the engine has already.
Offered ==
    CASE hub.wants = "deploy" ->
           {<<[ev |-> "REQ_UPGRADE", upgrade |-> u]>> :
               u \in {u \in Upgrades : u.id = hub.id /\ u # srv.upgrade}}
      [] hub.wants = "cancel" ->
           IF hub.id = srv.cancelId THEN {} ELSE {<<[ev |-> "REQ_CANCEL", id |-> hub.id]>>}
      [] OTHER -> {}

\* The answers of the update server: none, none that is well formed, one that
\* links to nothing at all (postIdle), and what it wants.
Detected ==
    [active: Active, events: {<<>>}]
    \cup (IF hub.wants = "none"
          THEN {[active |-> TRUE, events |-> <<[ev |-> "REQ_IDLE"]>>]} ELSE {})
    \cup {[active |-> TRUE, events |-> o] : o \in Offered}

checkUpgrade(before) ==
    \E d \in Detected :
        toEngine' = toEngine \o before \o d.events \o
                    (IF d.active # srv.active
                     THEN <<[ev |-> "REQ_ACTIVE", active |-> d.active]>> ELSE <<>>)

Inits ==
    /\ ~inited
    /\ inited' = TRUE
    /\ checkUpgrade(<<[ev |-> "RES_INIT"]>>)
    /\ UNCHANGED <<srv, toWeb, taskVars, hubVars, closed, used, stale>>

TimerChecks ==
    /\ inited
    /\ ~pulling
    /\ used.checks < Checks /\ Use("checks")
    /\ checkUpgrade(<<>>)
    /\ toEngine' # toEngine
    /\ UNCHANGED <<vars, toWeb, taskVars, hubVars, closed, stale>>

\* stopThread(): the task ends within the time, its end setting mode once more,
\* or it is given up.  mode has the request's value before.
Stopped(kind) ==
    \/ /\ held = NoTask
       /\ mode' = ModeOf(kind) /\ masked' = FALSE
       /\ UNCHANGED <<loose, used>>
    \/ /\ held # NoTask
       /\ mode' = "WEB_IDLE" /\ masked' = (kind = "REQ_DISTRIBUTE")
       /\ UNCHANGED <<loose, used>>
    \/ /\ held # NoTask
       /\ Happens("loose")
       /\ mode' = ModeOf(kind) /\ masked' = FALSE
       /\ loose' = loose \cup {held}

Takes(kind) ==
    /\ ~pulling
    /\ toWeb # <<>> /\ Head(toWeb).req = kind
    /\ toWeb' = Tail(toWeb)

\* Slip: what is waiting is dropped with the task.
WebStops_drops ==
    /\ ~pulling
    /\ toWeb # <<>> /\ Head(toWeb).req = "REQ_STOP"
    /\ toWeb' = <<>>
    /\ Stopped("REQ_STOP")
    /\ held' = NoTask
    /\ UNCHANGED <<vars, toEngine, pulling, onDisk, verified, hubVars, closed, stale>>

WebStops ==
    /\ Takes("REQ_STOP")
    /\ Stopped("REQ_STOP")
    /\ held' = NoTask
    /\ UNCHANGED <<vars, toEngine, pulling, onDisk, verified, hubVars, closed, stale>>

\* Slip: what is at work is left at work.
Starts_noStop(kind) ==
    /\ mode' = ModeOf(kind)
    /\ held' = IF held = NoTask THEN [kind |-> kind, id |-> srv.upgrade.id, at |-> "work"]
               ELSE held
    /\ UNCHANGED <<loose, used, masked>>

\* The task is given the files of the upgrade the engine has now.
Starts(kind) ==
    /\ Stopped(kind)
    /\ held' = [kind |-> kind, id |-> srv.upgrade.id, at |-> "work"]

Refetched(kind) == IF kind = "REQ_DOWNLOAD" THEN {srv.upgrade.id} ELSE {}

WebStarts(kind) ==
    /\ Takes(kind)
    /\ Starts(kind)
    /\ onDisk' = onDisk \ Refetched(kind)
    /\ verified' = verified \ Refetched(kind)
    /\ stale' = (stale \/ kind # Awaited)
    /\ UNCHANGED <<vars, toEngine, hubVars, closed>>

WebTransfers ==
    /\ \E kind \in {"REQ_DOWNLOAD", "REQ_VERIFY"} : WebStarts(kind)
    /\ UNCHANGED pulling

WebDistributes == WebStarts("REQ_DISTRIBUTE") /\ pulling' = TRUE

\* A distribution that has a handle lets the engine send the controllers for it;
\* one that is over has none.
WebPulls ==
    /\ pulling
    /\ pulling' = FALSE
    /\ \/ held # NoTask /\ held.id # NoId /\ toEngine' = Append(toEngine, [ev |-> "REQ_PULL"])
       \/ held = NoTask /\ UNCHANGED toEngine
    /\ UNCHANGED <<vars, toWeb, mode, held, loose, onDisk, verified, masked, hubVars,
                   closed, used, stale>>

\* What the update server makes of a feed: one for an action it has open.
Accepted(feed) ==
    /\ feed.id = hub.id
    /\ hub.wants # "none"
    /\ feed.type = "TP_CANCEL" => hub.wants = "cancel"

\* A closed deployment is over; so is a cancellation that succeeded, and one that
\* was rejected leaves the deployment wanted.
Settled(feed) ==
    IF ~Closed(feed) THEN UNCHANGED hubVars
    ELSE IF feed.type = "TP_CANCEL" /\ feed.result = "RS_FAILURE"
    THEN hub' = [hub EXCEPT !.wants = "deploy"] /\ UNCHANGED told
    ELSE hub' = [wants |-> "none", id |-> NoId] /\ told' = told \cup {feed.id}

WebFeeds ==
    /\ Takes("REQ_FEEDBACK")
    /\ LET feed == Head(toWeb)
           failed == toEngine' = Append(toEngine, [ev |-> "RES_ERROR"]) /\ UNCHANGED hubVars
       IN \/ Accepted(feed) /\ Settled(feed) /\ UNCHANGED <<toEngine, used>>
          \/ ~Accepted(feed) /\ failed /\ UNCHANGED used
          \/ Happens("losses") /\ failed
    /\ UNCHANGED <<vars, taskVars, closed, stale>>
-----------------------------------------------------------------------------
(* The worker's tasks, and the update server's users *)

\* given: whether stop() has given the task up.
Works(t) == t.at = "work"
Task(t, given) == t # NoTask /\ IF given THEN t \in loose ELSE t = held
Becomes(t, given, u) ==
    IF given THEN loose' = (loose \ {t}) \cup ({u} \ {NoTask}) /\ UNCHANGED held
    ELSE held' = u /\ UNCHANGED loose

\* A verification succeeds for files that were downloaded.
TaskDone(t, given) ==
    /\ Task(t, given) /\ Works(t)
    /\ t.id # NoId
    /\ t.kind # "REQ_DOWNLOAD" => t.id \in onDisk
    /\ Becomes(t, given, [t EXCEPT !.at = "posted"])
    /\ onDisk' = IF t.kind = "REQ_DOWNLOAD" THEN onDisk \cup {t.id} ELSE onDisk
    /\ verified' = IF t.kind = "REQ_VERIFY" THEN verified \cup {t.id} ELSE verified
    /\ toEngine' = Append(toEngine, [ev |-> t.kind, of |-> IF given THEN NoId ELSE t.id])
    /\ UNCHANGED <<vars, toWeb, mode, pulling, masked, hubVars, closed, used, stale>>

\* Without files it fails at once.
TaskFails(t, given) ==
    /\ Task(t, given) /\ Works(t)
    /\ IF t.id = NoId THEN UNCHANGED used ELSE Happens("faults")
    /\ Becomes(t, given, [t EXCEPT !.at = "posted"])
    /\ toEngine' = Append(toEngine, [ev |-> "RES_ERROR"])
    /\ UNCHANGED <<vars, toWeb, mode, pulling, onDisk, verified, masked, hubVars, closed,
                   stale>>

\* The end function.  A task given up may have seen that it was told to stop.
TaskEnds(t, given) ==
    /\ Task(t, given) /\ t.at # "ended"
    /\ Works(t) => given
    /\ Becomes(t, given, IF given THEN [t EXCEPT !.at = "ended"] ELSE NoTask)
    /\ mode' = "WEB_IDLE"
    /\ masked' = (masked \/ (given /\ mode = "WEB_DISTRIBUTE"))
    /\ UNCHANGED <<vars, queueVars, pulling, onDisk, verified, hubVars, closed, used, stale>>

\* Its thread clears isRunning, which by now is the next task's: the wait for a
\* distribution's handle may be over, and the controllers are not sent for it.
FlagCleared(t) ==
    /\ t \in loose /\ t.at = "ended"
    /\ loose' = loose \ {t}
    /\ pulling' \in {pulling, FALSE}
    /\ masked' = (masked \/ pulling' # pulling)
    /\ UNCHANGED <<vars, queueVars, mode, held, onDisk, verified, hubVars, closed, used,
                   stale>>

HubOffers(id) ==
    /\ hub.wants = "none" /\ id \notin told
    /\ hub' = [wants |-> "deploy", id |-> id]
    /\ UNCHANGED <<vars, queueVars, taskVars, told, closed, used, stale>>

HubCancels ==
    /\ hub.wants = "deploy"
    /\ hub' = [hub EXCEPT !.wants = "cancel"]
    /\ UNCHANGED <<vars, queueVars, taskVars, told, closed, used, stale>>
-----------------------------------------------------------------------------
WebNext ==
    \/ EngineHandles
    \/ \E msg \in Messages : EngineHears(msg)
    \/ \E late \in BOOLEAN : EngineTicks(late)
    \/ Inits \/ TimerChecks
    \/ WebStops \/ WebTransfers \/ WebDistributes \/ WebPulls \/ WebFeeds
    \/ \E t \in {held} \cup loose, given \in BOOLEAN :
          TaskDone(t, given) \/ TaskFails(t, given) \/ TaskEnds(t, given)
    \/ \E t \in loose : FlagCleared(t)
    \/ \E id \in Ids : HubOffers(id)
    \/ HubCancels

WebSpec == WebInit /\ [][WebNext]_webVars
-----------------------------------------------------------------------------
(* Properties *)

InFlight == toWeb # <<>> \/ toEngine # <<>> \/ pulling
Transferring == {"MR_DOWNLOAD", "MR_VERIFY", "MR_DISTRIBUTE"}

\* The engine waits for no answer that cannot come: with no event under way, the
\* task of the state it is in is at work, on its own upgrade, and the controllers
\* have been sent for the files.
AwaitsTask ==
    ~InFlight /\ srv.state \in Transferring /\ ~stale =>
        /\ held.kind = Awaited
        /\ held.id = srv.upgrade.id
        /\ srv.state = "MR_DISTRIBUTE" => srv.control = "CTL_DOWNLOAD" \/ masked

\* Only files that were verified since they were downloaded are distributed,
\* unless a result of an upgrade that was replaced came late.
ServedIsVerified ==
    held.kind = "REQ_DISTRIBUTE" => held.id \in verified \/ stale

\* What the engine has closed, the update server gets to know: once its feed is no
\* longer waiting, the action is over there, if no feed was lost.
Pending(id) == \E i \in DOMAIN toWeb : Closed(toWeb[i]) /\ toWeb[i].id = id
ClosedIsTold ==
    used.losses = 0 => \A id \in closed \cap Ids : id \in told \/ Pending(id)
=============================================================================
