---------------------------- MODULE ServerEngine ----------------------------
(***************************************************************************)
(* The upgrade master (src/server/server_engine.cpp).  It owns the life    *)
(* cycle of one upgrade: wait until every domain controller is online,     *)
(* download, verify, distribute, wait, deploy, report; and its             *)
(* cancellation.  It runs on one thread: every action below is one event   *)
(* of its queue or one tick of its one-second timer, handled to the end.   *)
(*                                                                         *)
(* The handlers are written as functions from one value of the record to   *)
(* the next, because they call one another (feedback calls idle, which     *)
(* calls setState, which posts a web event): the composition is the call.  *)
(*                                                                         *)
(* The web queue and the controllers are the environment here.  The web    *)
(* queue's results are taken in ANY order, since eventChanged does not     *)
(* tell a late result from an expected one; module Rollout has a web queue *)
(* that answers its current task only.                                     *)
(***************************************************************************)
EXTENDS Domain, Integers, Sequences, FiniteSets

CONSTANTS
    Names,      \* names under which controllers and viewers report
    Ids,        \* ids of the actions of the update server
    NoId,       \* the empty id
    Upgrades,   \* the upgrades the update server may offer
    Requires,   \* Requires[n]: the names in "depends" of n's package meta
    Position,   \* Position[n]: place of n in details after Details::sort
    Messages,   \* the heartbeats controllers and viewers may send
    Active,     \* results of WebQueue::detect a run lets checkUpgrade see
    RetryTimes  \* DCUS_RETRY_TIMES

\* Domain::state, last, error # 0 and version as a RES_DOMAIN event carries them.
Report == [state: ClientState, last: ClientState, error: BOOLEAN, version: Version]

NoName == ""    \* a name, or a domain, that was not given

\* A RES_DOMAIN event: a heartbeat of name, from a viewer if watcher.
Message == [name: Names, report: Report, discovery: BOOLEAN, watcher: BOOLEAN,
            answer: Answer]

\* An entry of details; deploy is Elapsed::active of the deployment clock.
Detail == [state: ClientState, last: ClientState, error: BOOLEAN, version: Version,
           deploy: BOOLEAN]

Upgrade == [id: Ids \cup {NoId}, download: Method, deploy: Method,
            packages: SUBSET Names]

NoUpgrade == [id |-> NoId, download |-> "MTHD_SKIP", deploy |-> "MTHD_SKIP",
              packages |-> {}]

\* What the server may be at work on.
Current == Upgrades \cup {NoUpgrade}

ASSUME ServerAssumption ==
    /\ IsFiniteSet(Names)
    /\ NoId \notin Ids
    /\ Upgrades \subseteq {u \in Upgrade : u.id \in Ids}
    /\ Requires \in [Names -> SUBSET Names]
    /\ Position \in [Names -> Nat]
    /\ \A m, n \in Names : Position[m] = Position[n] => m = n
    /\ Messages \subseteq Message
    /\ Active \subseteq BOOLEAN
    /\ RetryTimes \in Nat

FeedType == {"TP_UNKNOWN", "TP_DEPLOY", "TP_CANCEL"}

\* Events posted to the web queue: requests, and feeds for the update server.
WebRequest == [req: {"REQ_DOWNLOAD", "REQ_VERIFY", "REQ_DISTRIBUTE", "REQ_STOP"}]
WebFeed == [req: {"REQ_FEEDBACK"}, id: Ids \cup {NoId}, type: FeedType,
            execution: {"EXE_PROCEEDING", "EXE_SCHEDULED", "EXE_CLOSED"},
            result: {"RS_SUCCESS", "RS_FAILURE"}]
WebEvent == WebRequest \cup WebFeed

\* A ControlMessage for every controller; again, it has the id of the one before,
\* so those who have handled that one drop it.
Broadcast == [control: Control, upgrade: Current, depends: SUBSET Names, again: BOOLEAN]

Closed(event) == event.req = "REQ_FEEDBACK" /\ event.execution = "EXE_CLOSED"

(***************************************************************************)
(* dcus_status.json: the state and depends of the last setState, or one of *)
(* the two ways there is nothing to read.  "last" is read back too but     *)
(* reaches nothing: resume() assigns it to lastState, which deploy()       *)
(* overwrites at once.                                                     *)
(***************************************************************************)
StatusFile == [exists: BOOLEAN, state: ServerState, depends: SUBSET Names]
NoFile == [exists |-> FALSE, state |-> "MR_UNKNOWN", depends |-> {}]
TornFile == [exists |-> TRUE, state |-> "MR_UNKNOWN", depends |-> {}]

VARIABLES
    srv,     \* ServerHelper, with the status file and the step's outputs
    inited   \* WebHelper::hasInited: the web queue has handled REQ_INIT

vars == <<srv, inited>>

\* ServerHelper with details about the names in S.
Server(S) == [active: BOOLEAN, firstStart: BOOLEAN, hasFeed: BOOLEAN,
              detailSubscribed: BOOLEAN, hasDeployBreaked: BOOLEAN, hasNewId: BOOLEAN,
              cancelResume: BOOLEAN, state: ServerState, lastState: ServerState,
              cacheState: {"MR_UNKNOWN", "MR_DEPLOY"}, cacheDepends: SUBSET Names, control: Control,
              retryTimes: 0..RetryTimes,
              errorCode: {0, 1},          \* 1 stands for every code that is not 0
              feedType: FeedType,         \* webFeed.type
              cancelId: Ids \cup {NoId}, lastlId: Ids \cup {NoId},
              lastCancelId: Ids \cup {NoId},
              upgrade: Current, details: [S -> Detail], depends: SUBSET Names,
              file: StatusFile,           \* dcus_status.json
              posted: Seq(WebEvent),      \* given to the web queue by the last step
              sent: Seq(Broadcast)]       \* broadcast by the last step

\* A process that has just run begin(), on the status file it found.
Boot(file) ==
    [active |-> TRUE, firstStart |-> ~file.exists, hasFeed |-> FALSE,
     detailSubscribed |-> FALSE, hasDeployBreaked |-> FALSE, hasNewId |-> FALSE,
     cancelResume |-> FALSE, state |-> "MR_OFFLINE", lastState |-> "MR_OFFLINE",
     cacheState |-> "MR_UNKNOWN", cacheDepends |-> {}, control |-> "CTL_UNKNOWN",
     retryTimes |-> 0, errorCode |-> 0, feedType |-> "TP_UNKNOWN",
     cancelId |-> NoId, lastlId |-> NoId, lastCancelId |-> NoId,
     upgrade |-> NoUpgrade, details |-> [n \in {} |-> {}], depends |-> {},
     file |-> file, posted |-> <<>>, sent |-> <<>>]

Members(s) == DOMAIN s.details

\* A handler starts with nothing posted and nothing sent.
Fresh(s) == [s EXCEPT !.posted = <<>>, !.sent = <<>>]

Request(req) == [req |-> req]

Feed(s, type, execution, result) ==
    [req |-> "REQ_FEEDBACK", type |-> type, execution |-> execution, result |-> result,
     id |-> IF type = "TP_DEPLOY" THEN s.upgrade.id ELSE s.cancelId]

Post(s, event) == [s EXCEPT !.posted = Append(@, event)]

-----------------------------------------------------------------------------
(* The calls the handlers are made of.                                     *)

FinalAsk(s) == s.state \in {"MR_DONE_ASK", "MR_ERROR_ASK"}

ControlMessage(s, control, again) ==
    [control |-> control, upgrade |-> s.upgrade, depends |-> s.depends, again |-> again]

\* Slip: the control is broadcast and forgotten.
sendControlMessage_forgotten(s, control) ==
    IF control = "CTL_UNKNOWN" THEN s
    ELSE [s EXCEPT !.sent = Append(@, ControlMessage(s, control, FALSE))]

\* control is kept for the discoveries to come, then broadcast.
sendControlMessage(s, control) ==
    IF control = "CTL_UNKNOWN" THEN s
    ELSE [s EXCEPT !.control = control,
                   !.sent = Append(@, ControlMessage(s, control, FALSE))]

\* The same with "cache": the last control is repeated under its id.
resendControlMessage(s) ==
    IF s.control = "CTL_UNKNOWN" THEN s
    ELSE [s EXCEPT !.sent = Append(@, ControlMessage(s, s.control, TRUE))]

\* Enter a state: remember the last one, save the file, report progress.
setState(s, state) ==
    IF s.state = state THEN s
    ELSE LET entered == [s EXCEPT !.lastState = s.state, !.state = state,
                                  !.file = [exists |-> TRUE, state |-> state,
                                            depends |-> s.depends]]
             type == IF s.feedType = "TP_DEPLOY" THEN "TP_DEPLOY" ELSE "TP_CANCEL"
         IN IF mrStateIsBusy(state)
            THEN Post(entered, Feed(entered, type, "EXE_PROCEEDING", "RS_SUCCESS"))
            ELSE entered

\* Slip: the details outlive their upgrade.
idle_keepsDetails(s) ==
    IF s.state = "MR_IDLE" THEN s
    ELSE setState([s EXCEPT !.depends = {}, !.detailSubscribed = FALSE,
                            !.upgrade = NoUpgrade, !.cancelId = NoId], "MR_IDLE")

idle(s) ==
    IF s.state = "MR_IDLE" THEN s
    ELSE setState([s EXCEPT !.depends = {}, !.details = [n \in {} |-> {}],
                            !.detailSubscribed = FALSE, !.upgrade = NoUpgrade,
                            !.cancelId = NoId], "MR_IDLE")

NewDetail == [state |-> "WR_OFFLINE", last |-> "WR_OFFLINE", error |-> FALSE,
              version |-> "empty", deploy |-> FALSE]

\* Slip: the error of the last request is kept.
pending_keepsError(s) ==
    LET cleared == [s EXCEPT !.depends = s.upgrade.packages,
                             !.details = [n \in s.upgrade.packages |-> NewDetail]]
    IN setState(sendControlMessage(cleared, "CTL_RESET"), "MR_PENDING")

pending(s) ==
    LET cleared == [s EXCEPT !.errorCode = 0, !.depends = s.upgrade.packages,
                             !.details = [n \in s.upgrade.packages |-> NewDetail]]
    IN setState(sendControlMessage(cleared, "CTL_RESET"), "MR_PENDING")

download(s) == Post(setState(s, "MR_DOWNLOAD"), Request("REQ_DOWNLOAD"))

deploy(s) == setState(sendControlMessage(s, "CTL_DEPLOY"), "MR_DEPLOY")

resume(s) == [deploy([s EXCEPT !.depends = s.cacheDepends])
              EXCEPT !.cacheState = "MR_UNKNOWN"]

\* Slip: whether a feed was sent is not asked.
feedback_again(s, finished) ==
    IF s.feedType = "TP_UNKNOWN" THEN s
    ELSE LET result == IF finished THEN "RS_SUCCESS" ELSE "RS_FAILURE"
             closed == [s EXCEPT !.hasFeed = TRUE,
                                 !.errorCode = IF finished THEN 0 ELSE 1]
             told == Post(Post(sendControlMessage(closed, "CTL_CLEAR"),
                               Request("REQ_STOP")),
                          Feed(closed, s.feedType, "EXE_CLOSED", result))
         IN IF s.detailSubscribed
            THEN setState(told, IF finished THEN "MR_DONE_ASK" ELSE "MR_ERROR_ASK")
            ELSE idle(told)

\* Slip: the controllers are cleared, the update server is not told.
feedback_untold(s, finished) ==
    IF s.hasFeed \/ s.feedType = "TP_UNKNOWN" THEN s
    ELSE LET cleared == sendControlMessage(s, "CTL_CLEAR")
         IN IF s.detailSubscribed
            THEN setState(cleared, IF finished THEN "MR_DONE_ASK" ELSE "MR_ERROR_ASK")
            ELSE idle(cleared)

\* Close the action of the update server that is open, once.
feedback(s, finished) ==
    IF s.hasFeed \/ s.feedType = "TP_UNKNOWN" THEN s
    ELSE LET result == IF finished THEN "RS_SUCCESS" ELSE "RS_FAILURE"
             closed == [s EXCEPT !.hasFeed = TRUE,
                                 !.errorCode = IF finished THEN 0 ELSE 1]
             told == Post(Post(sendControlMessage(closed, "CTL_CLEAR"),
                               Request("REQ_STOP")),
                          Feed(closed, s.feedType, "EXE_CLOSED", result))
         IN IF s.detailSubscribed
            THEN setState(told, IF finished THEN "MR_DONE_ASK" ELSE "MR_ERROR_ASK")
            ELSE idle(told)

\* feedback's call here can never close anything: cancel() is called in
\* MR_CANCEL_ASK only, so lastState is MR_CANCEL_ASK and none of the states below.
cancel(s) ==
    LET cancelled == setState(sendControlMessage(s, "CTL_CANCEL"), "MR_CANCEL")
    IN IF cancelled.lastState \in {"MR_IDLE", "MR_PENDING", "MR_READY", "MR_DOWNLOAD",
                                   "MR_VERIFY"}
       THEN feedback(cancelled, TRUE) ELSE cancelled

\* The answer of the user to whatever is being asked when it arrives.
configAnswer(s, answer) ==
    LET yes == answer = "ANS_ACCEPT"
        no == answer = "ANS_REFUSE"
    IN CASE s.state = "MR_DOWNLOAD_ASK" ->
              IF yes THEN download(s) ELSE IF no THEN feedback(s, FALSE) ELSE s
         [] s.state = "MR_DEPLOY_ASK" ->
              IF yes THEN deploy(s) ELSE IF no THEN feedback(s, FALSE) ELSE s
         [] s.state = "MR_CANCEL_ASK" ->
              IF yes THEN cancel(s) ELSE IF no THEN feedback(s, FALSE) ELSE s
         [] s.state = "MR_RESUME_ASK" ->
              LET answered == IF yes THEN resume(s)
                              ELSE IF ~no THEN s
                              ELSE IF s.hasNewId /\ s.cacheState = "MR_DEPLOY"
                              THEN pending(s) ELSE idle(s)
              IN [answered EXCEPT !.hasDeployBreaked = FALSE]
         [] FinalAsk(s) -> IF yes THEN idle(s) ELSE s
         [] OTHER -> s

-----------------------------------------------------------------------------
(* eventChanged, one operator per case.                                    *)

OnActive(s, active) == [s EXCEPT !.active = active]

OnIdle(s) == IF FinalAsk(s) THEN s ELSE idle(s)

OnUpgrade(s, upgrade) ==
    IF FinalAsk(s) THEN s
    ELSE LET new == s.lastlId # upgrade.id
         IN pending([s EXCEPT !.hasFeed = FALSE, !.feedType = "TP_DEPLOY",
                              !.hasNewId = new, !.upgrade = upgrade,
                              !.cancelResume = ~new /\ s.lastCancelId = upgrade.id,
                              !.lastlId = upgrade.id,
                              !.hasDeployBreaked = @ /\ ~new])

\* Slip: the feed of a cancellation is still the deployment's.
OnCancel_ofDeploy(s, id) ==
    LET asked == [s EXCEPT !.hasFeed = FALSE, !.cancelId = id, !.lastCancelId = id]
    IN IF s.state = "MR_WAIT" \/ mrStateIsAsk(s.state) THEN feedback(asked, TRUE)
       ELSE IF mrStateIsBusy(s.state) THEN setState(asked, "MR_CANCEL_ASK")
       ELSE feedback(asked, FALSE)

\* A cancellation that finds nothing running closes the deployment of that id too.
OnCancel(s, id) ==
    LET asked == [s EXCEPT !.hasFeed = FALSE, !.feedType = "TP_CANCEL",
                           !.cancelId = id, !.lastCancelId = id,
                           !.hasDeployBreaked = @ \/ s.state = "MR_DEPLOY"]
        refused == feedback(asked, FALSE)
    IN IF s.state = "MR_WAIT" \/ mrStateIsAsk(s.state) THEN feedback(asked, TRUE)
       ELSE IF mrStateIsBusy(s.state) THEN setState(asked, "MR_CANCEL_ASK")
       ELSE Post(refused, [req |-> "REQ_FEEDBACK", type |-> "TP_DEPLOY",
                           execution |-> "EXE_CLOSED", result |-> "RS_FAILURE",
                           id |-> refused.cancelId])

\* Slip: whether the download is skipped is asked the wrong way round.
OnPull_skips(s, distributing) ==
    IF FinalAsk(s) \/ ~distributing THEN s
    ELSE setState(IF s.upgrade.download = "MTHD_SKIP"
                  THEN sendControlMessage(s, "CTL_DOWNLOAD") ELSE s,
                  "MR_DISTRIBUTE")

\* distributing: the web queue is in WEB_DISTRIBUTE when the event is handled.
OnPull(s, distributing) ==
    IF FinalAsk(s) \/ ~distributing THEN s
    ELSE setState(IF s.upgrade.download # "MTHD_SKIP"
                  THEN sendControlMessage(s, "CTL_DOWNLOAD") ELSE s,
                  "MR_DISTRIBUTE")

\* readState, then idle, whose setState overwrites the file that was read.  Of
\* cacheState the code tells only MR_DEPLOY apart.
OnInit(s, success) ==
    IF FinalAsk(s) \/ ~success THEN s
    ELSE idle([s EXCEPT !.cacheDepends = s.file.depends,
                        !.cacheState = IF s.file.state = "MR_DEPLOY" THEN "MR_DEPLOY"
                                       ELSE "MR_UNKNOWN"])

\* Slip: what was downloaded is distributed at once.
OnDownloadDone_unverified(s) ==
    IF FinalAsk(s) THEN s
    ELSE Post(setState(s, "MR_DISTRIBUTE"), Request("REQ_DISTRIBUTE"))

OnDownloadDone(s) ==
    IF FinalAsk(s) THEN s ELSE Post(setState(s, "MR_VERIFY"), Request("REQ_VERIFY"))

OnVerifyDone(s) ==
    IF FinalAsk(s) THEN s
    ELSE Post(setState(s, "MR_DISTRIBUTE"), Request("REQ_DISTRIBUTE"))

OnDistributeDone(s) == IF FinalAsk(s) THEN s ELSE setState(s, "MR_WAIT")

\* Slip: one retry too many.
OnError_onceMore(s) ==
    IF s.state \notin {"MR_DOWNLOAD", "MR_VERIFY", "MR_DISTRIBUTE"} THEN feedback(s, FALSE)
    ELSE IF s.retryTimes <= RetryTimes
    THEN [download(s) EXCEPT !.retryTimes = @ + 1]
    ELSE feedback([s EXCEPT !.retryTimes = 0], FALSE)

OnError(s) ==
    IF s.state \notin {"MR_DOWNLOAD", "MR_VERIFY", "MR_DISTRIBUTE"} THEN feedback(s, FALSE)
    ELSE IF s.retryTimes < RetryTimes
    THEN [download(s) EXCEPT !.retryTimes = @ + 1]
    ELSE feedback([s EXCEPT !.retryTimes = 0], FALSE)

Updated(detail, report) ==
    [state |-> report.state, last |-> report.last, error |-> report.error,
     version |-> report.version, deploy |-> detail.deploy]

\* A heartbeat is taken note of; a discovery asks for the last control again.
Heard(s, msg) ==
    LET known == msg.name \in Members(s)
        subscribed == [s EXCEPT !.detailSubscribed = @ \/ msg.watcher]
        resent == IF msg.discovery /\ (known \/ msg.watcher)
                  THEN resendControlMessage(subscribed) ELSE subscribed
    IN IF known THEN [resent EXCEPT !.details[msg.name] = Updated(@, msg.report)]
       ELSE resent

\* Who has no name is not heard; most heartbeats of a viewer hold no answer.
OnDomain(s, msg) ==
    IF msg.name = NoName THEN s
    ELSE IF msg.watcher /\ msg.answer # "ANS_UNKNOWN"
    THEN configAnswer(Heard(s, msg), msg.answer) ELSE Heard(s, msg)

-----------------------------------------------------------------------------
(* processDomains, the tick.  The clocks are inputs: late, the state has   *)
(* lasted longer than its limit; silent, the names whose last heartbeat is *)
(* older than the limit; overdue, the names whose deployment has lasted    *)
(* too long or which have been offline for too long during it.             *)

Timed == {"MR_PENDING", "MR_DOWNLOAD", "MR_DISTRIBUTE", "MR_VERIFY", "MR_DEPLOY",
          "MR_CANCEL"}
Gathering == {"MR_PENDING", "MR_READY", "MR_DOWNLOAD_ASK"}

Online(detail) ==
    detail.state \notin {"WR_UNKNOWN", "WR_OFFLINE"} /\ detail.version # "empty"

\* The second disjunct never holds: MR_CANCEL is entered from MR_CANCEL_ASK only.
Deploying(s) ==
    s.state = "MR_DEPLOY" \/ (s.state = "MR_CANCEL" /\ s.lastState = "MR_DEPLOY")

\* details with the silent names marked offline.
Seen(s, silent) ==
    [n \in Members(s) |->
        IF n \in silent /\ s.details[n].state # "WR_OFFLINE"
        THEN [s.details[n] EXCEPT !.last = s.details[n].state, !.state = "WR_OFFLINE"]
        ELSE s.details[n]]

\* Slip: a package that is installed does not make a cancellation fail.
Fails_notCancel(s, silent, overdue, n) ==
    \/ n = NoName
    \/ /\ s.state \in Gathering
       /\ Online(Seen(s, silent)[n])
       /\ ~detectVersionVaild(s.details[n].version)
    \/ Deploying(s) /\ s.details[n].deploy /\ n \in overdue

\* The loop body of n closes the action as failed and returns: a package without
\* a domain, a version it may not leave, installed all the same, too slow.
Fails(s, silent, overdue, n) ==
    \/ n = NoName
    \/ /\ s.state \in Gathering
       /\ Online(Seen(s, silent)[n])
       /\ ~detectVersionVaild(s.details[n].version)
    \/ s.state = "MR_CANCEL" /\ detectVersionEqual(s.details[n].version)
    \/ Deploying(s) /\ s.details[n].deploy /\ n \in overdue

Before(m, n) == Position[m] < Position[n]

\* The names whose loop body runs, and those it runs to the end for.
Visited(s, silent, overdue) ==
    {n \in Members(s) : \A m \in Members(s) : Before(m, n) => ~Fails(s, silent, overdue, m)}
Passed(s, silent, overdue) ==
    {n \in Visited(s, silent, overdue) : ~Fails(s, silent, overdue, n)}

\* The names whose deployment clock this tick stops: deployed, and idle again.
Finishing(s, silent, overdue) ==
    {n \in Passed(s, silent, overdue) :
        /\ Deploying(s)
        /\ s.details[n].deploy
        /\ Seen(s, silent)[n].state = "WR_IDLE"
        /\ detectVersionEqual(s.details[n].version)}

\* Slip: those who wait for another deployment are forgotten.
DependsAfter_deploying(s, silent, overdue, started, m) ==
    LET finished == {n \in Finishing(s, silent, overdue) : ~Before(m, n)}
    IN {n \in Members(s) : \/ s.details[n].deploy /\ n \notin finished
                           \/ Before(n, m) /\ started[n]}

\* depends as the loop body of m, which finishes, leaves it: who is deploying or
\* waiting at that point of the loop (started: whose clock the loop has started).
DependsAfter(s, silent, overdue, started, m) ==
    LET seen == Seen(s, silent)
        finished == {n \in Finishing(s, silent, overdue) : ~Before(m, n)}
    IN {n \in Members(s) :
          \/ s.details[n].deploy /\ n \notin finished
          \/ Before(n, m) /\ started[n]
          \/ (IF Before(m, n) THEN s.details[n] ELSE seen[n]).state = "WR_WAIT"}

\* depends at the end of the names in passed, the last of which to finish set it.
DependsAt(s, silent, overdue, started, passed) ==
    LET finished == Finishing(s, silent, overdue) \cap passed
    IN {n \in Names :
          IF finished = {} THEN n \in s.depends
          ELSE n \in DependsAfter(s, silent, overdue, started,
                       CHOOSE m \in finished : \A k \in finished : ~Before(m, k))}

\* The names whose deployment clock this tick starts: deploying, and nothing
\* they depend on is still waited for when the loop reaches them.
Started(s, silent, overdue) ==
    LET started[n \in Members(s)] ==
          /\ Deploying(s)
          /\ n \in Passed(s, silent, overdue)
          /\ ~s.details[n].deploy
          /\ Seen(s, silent)[n].state = "WR_DEPLOY"
          /\ ~hasDepends(Requires[n],
                DependsAt(s, silent, overdue, started, {m \in Members(s) : Before(m, n)}))
    IN started

\* The i-th domain of the loop to finish, and the broadcast it causes.
Nth(finishing, i) ==
    CHOOSE m \in finishing : Cardinality({k \in finishing : Before(k, m)}) = i - 1
Resent(s, silent, overdue, started, i) ==
    [ControlMessage(s, "CTL_DEPLOY", FALSE) EXCEPT !.depends =
        DependsAfter(s, silent, overdue, started, Nth(Finishing(s, silent, overdue), i))]

\* The loop: offline marks, clocks, depends, and one broadcast and one report to
\* the update server for every domain that finishes.
Looped(s, silent, overdue) ==
    LET started == Started(s, silent, overdue)
        finishing == Finishing(s, silent, overdue)
        visited == Visited(s, silent, overdue)
        resends == 1..(IF s.control = "CTL_DEPLOY" THEN Cardinality(finishing) ELSE 0)
        body(n) == IF n \in visited THEN Seen(s, silent)[n] ELSE s.details[n]
    IN [s EXCEPT
          !.details = [n \in Members(s) |->
              [body(n) EXCEPT !.deploy = (@ /\ n \notin finishing) \/ started[n]]],
          !.depends = DependsAt(s, silent, overdue, started, Members(s)),
          !.sent = @ \o [i \in resends |-> Resent(s, silent, overdue, started, i)],
          !.posted = @ \o [i \in resends |->
              Feed(s, "TP_DEPLOY", "EXE_SCHEDULED", "RS_SUCCESS")]]

\* After the loop, vaild: every domain is online with a version it may leave.
Gathered(s, vaild) ==
    CASE vaild /\ s.state = "MR_PENDING" ->
           setState(s, IF IF s.hasNewId THEN s.cacheState = "MR_DEPLOY"
                          ELSE s.cancelResume /\ s.hasDeployBreaked
                       THEN "MR_RESUME_ASK" ELSE "MR_READY")
      [] vaild /\ s.state \in {"MR_READY", "MR_DOWNLOAD_ASK"} ->
           IF s.upgrade.download = "MTHD_FORCED" THEN download(s)
           ELSE IF s.upgrade.download = "MTHD_ATTEMPT" /\ s.state = "MR_READY"
           THEN setState(s, "MR_DOWNLOAD_ASK") ELSE s
      [] ~vaild /\ s.state = "MR_DOWNLOAD_ASK" -> setState(s, "MR_PENDING")
      [] OTHER -> s

\* Slip: an upgrade that does not force its deployment is deployed.
Waited_unasked(s, waiting) ==
    IF waiting THEN deploy(s) ELSE s

\* waiting: every domain has its files and waits for the deployment.
Waited(s, waiting) ==
    CASE waiting /\ s.upgrade.deploy = "MTHD_FORCED" -> deploy(s)
      [] waiting /\ s.upgrade.deploy = "MTHD_ATTEMPT" -> setState(s, "MR_DEPLOY_ASK")
      [] ~waiting /\ s.state = "MR_DEPLOY_ASK" -> setState(s, "MR_WAIT")
      [] OTHER -> s

\* The guard at the head of processDomains.
Watching(s) ==
    /\ s.feedType # "TP_UNKNOWN"
    /\ s.state \notin {"MR_IDLE", "MR_UNKNOWN", "MR_OFFLINE"}
    /\ ~s.hasFeed
    /\ s.errorCode = 0

\* The counters of the loop, each compared with the number of details (the slips:
\* with none, or counting by another predicate; of AnyError, what fails before the
\* deployment is left to others).
AllEqual_some(s) == \E n \in Members(s) : detectVersionEqual(s.details[n].version)
AllEqual_vaild(s) ==
    Members(s) # {} /\ \A n \in Members(s) : detectVersionVaild(s.details[n].version)
AllEqual(s) ==
    Members(s) # {} /\ \A n \in Members(s) : detectVersionEqual(s.details[n].version)
AllVaild(s, silent) ==
    /\ s.state \in Gathering /\ Members(s) # {}
    /\ \A n \in Members(s) : Online(Seen(s, silent)[n])
AllWaiting_some(s, silent) ==
    /\ s.state \in {"MR_WAIT", "MR_DEPLOY_ASK"}
    /\ \E n \in Members(s) : Seen(s, silent)[n].state = "WR_WAIT"
AllWaiting(s, silent) ==
    /\ s.state \in {"MR_WAIT", "MR_DEPLOY_ASK"} /\ Members(s) # {}
    /\ \A n \in Members(s) : Seen(s, silent)[n].state = "WR_WAIT"
AllCancelled(s, silent) ==
    /\ s.state = "MR_CANCEL" /\ Members(s) # {}
    /\ \A n \in Members(s) :
         Seen(s, silent)[n].state = "WR_IDLE" /\ Seen(s, silent)[n].last = "WR_CANCEL"
AnyError_deploying(s) ==
    Deploying(s) /\ \E n \in Members(s) : s.details[n].error \/ s.details[n].state = "WR_ERROR"
AnyError(s) ==
    \E n \in Members(s) : s.details[n].error \/ s.details[n].state = "WR_ERROR"

processDomains(s, late, silent, overdue) ==
    LET looped == Looped(s, silent, overdue)
        gathered == Gathered(looped, AllVaild(s, silent))
        waited == Waited(gathered, AllWaiting(s, silent))
    IN IF late /\ s.state \in Timed THEN feedback(s, FALSE)
       ELSE IF \E n \in Members(s) : Fails(s, silent, overdue, n) THEN feedback(looped, FALSE)
       ELSE IF AllEqual(s) /\ (s.firstStart \/ gathered.state = "MR_DEPLOY")
       THEN feedback(gathered, TRUE)
       ELSE IF AllCancelled(s, silent) THEN feedback(waited, TRUE)
       ELSE IF AnyError(s) THEN feedback(waited, FALSE)
       ELSE waited

-----------------------------------------------------------------------------
Init == srv = Boot(NoFile) /\ inited = FALSE

\* The web queue answers REQ_INIT once, before anything else it posts.
ResInit(success) ==
    /\ ~inited
    /\ inited' = success
    /\ srv' = OnInit(Fresh(srv), success)

FromWeb(next) == inited /\ srv' = next /\ UNCHANGED inited

ReqActive(active) == FromWeb(OnActive(Fresh(srv), active))
ReqIdle == FromWeb(OnIdle(Fresh(srv)))
ReqUpgrade(upgrade) == FromWeb(OnUpgrade(Fresh(srv), upgrade))
ReqCancel(id) == FromWeb(OnCancel(Fresh(srv), id))
ReqPull(distributing) == FromWeb(OnPull(Fresh(srv), distributing))
ResDownloadDone == FromWeb(OnDownloadDone(Fresh(srv)))
ResVerifyDone == FromWeb(OnVerifyDone(Fresh(srv)))
ResDistributeDone == FromWeb(OnDistributeDone(Fresh(srv)))
ResError == FromWeb(OnError(Fresh(srv)))

ResDomain(msg) ==
    /\ srv' = OnDomain(Fresh(srv), msg)
    /\ UNCHANGED inited

Tick(late, silent, overdue) ==
    /\ Watching(srv)
    /\ srv' = processDomains(Fresh(srv), late, silent, overdue)
    /\ UNCHANGED inited

\* The process dies and starts again; torn, while it was writing the file.
Restart(torn) ==
    /\ srv' = Boot(IF torn THEN TornFile ELSE srv.file)
    /\ inited' = FALSE

Next ==
    \/ \E success \in BOOLEAN : ResInit(success)
    \/ \E active \in Active : ReqActive(active)
    \/ ReqIdle
    \/ \E upgrade \in Upgrades : ReqUpgrade(upgrade)
    \/ \E id \in Ids : ReqCancel(id)
    \/ \E distributing \in BOOLEAN : ReqPull(distributing)
    \/ ResDownloadDone
    \/ ResVerifyDone
    \/ ResDistributeDone
    \/ ResError
    \/ \E msg \in Messages : ResDomain(msg)
    \/ \E late \in BOOLEAN, silent, overdue \in SUBSET Members(srv) :
          Tick(late, silent, overdue)
    \/ \E torn \in BOOLEAN : Restart(torn)

Spec == Init /\ [][Next]_vars

-----------------------------------------------------------------------------
(* Properties.                                                             *)

(***************************************************************************)
(* The type of the server's state.                                         *)
(***************************************************************************)
TypeOK == (\E S \in SUBSET Names : srv \in Server(S)) /\ inited \in BOOLEAN

(***************************************************************************)
(* The watchdog is armed in every state only a taken request leads to: the *)
(* tick is not switched off (no feed sent, no error kept), so the timeouts *)
(* and error checks of processDomains still apply.  A cancellation does    *)
(* not clear errorCode, and late web results enter other states; neither   *)
(* may reach these.  Conversely a dialog that says the request is over is  *)
(* shown only when it has been closed.                                     *)
(***************************************************************************)
WatchdogArmed ==
    /\ srv.state \in Gathering \cup {"MR_RESUME_ASK", "MR_DEPLOY_ASK", "MR_DEPLOY"}
         => Watching(srv)
    /\ FinalAsk(srv) => srv.hasFeed

(***************************************************************************)
(* The details are those of the current upgrade: a request that replaces   *)
(* another, a late heartbeat or a restart leaves no entry of an upgrade    *)
(* that is gone; and an idle server keeps no upgrade, which is what lets   *)
(* postUpgrade offer the same one again.                                   *)
(***************************************************************************)
DetailsMatchUpgrade ==
    /\ Members(srv) = srv.upgrade.packages
    /\ srv.state \in {"MR_IDLE", "MR_OFFLINE"} => srv.upgrade = NoUpgrade

(***************************************************************************)
(* Deployment is always sanctioned: by the user's answer to MR_RESUME_ASK, *)
(* by the user's answer to MR_DEPLOY_ASK for an upgrade that asks, or by   *)
(* an upgrade that is forced.  One that skips deployment never deploys,    *)
(* whatever the order of web results, replacements and cancellations.      *)
(***************************************************************************)
DeploySanctioned ==
    srv.state = "MR_DEPLOY" =>
        \/ srv.lastState = "MR_RESUME_ASK"
        \/ srv.lastState = "MR_DEPLOY_ASK" /\ srv.upgrade.deploy = "MTHD_ATTEMPT"
        \/ srv.lastState = "MR_WAIT" /\ srv.upgrade.deploy = "MTHD_FORCED"

(***************************************************************************)
(* A controller that rejoins asks for the last control: it is told what    *)
(* the state means and never the order of another phase (to deploy while   *)
(* the server gathers domains, or to reset while it cancels).              *)
(***************************************************************************)
RejoinControl ==
    /\ srv.state \in Gathering \cup {"MR_RESUME_ASK"} => srv.control = "CTL_RESET"
    /\ srv.state = "MR_DEPLOY" => srv.control = "CTL_DEPLOY"
    /\ srv.state = "MR_CANCEL" => srv.control = "CTL_CANCEL"
    /\ FinalAsk(srv) => srv.control = "CTL_CLEAR"

(***************************************************************************)
(* A request does not fade away: when the server falls idle with its       *)
(* request still open, the update server has withdrawn it or the user has  *)
(* declined to resume it.  In every other case it has been closed first.   *)
(***************************************************************************)
NoSilentEnd ==
    [][/\ Watching(srv)
       /\ srv'.state = "MR_IDLE"
       => srv'.hasFeed \/ ReqIdle \/ srv.state = "MR_RESUME_ASK"]_vars

ClosedFeeds == {i \in DOMAIN srv.posted : Closed(srv.posted[i])}
Open == srv.feedType # "TP_UNKNOWN" /\ ~srv.hasFeed

(***************************************************************************)
(* The update server is answered once: a step sends a CLOSED feed only for *)
(* a request that is open, and only one, and the request is closed by it.  *)
(* The exception is a new cancellation, which may be answered at once      *)
(* (when nothing runs, together with the deployment of the same id).       *)
(***************************************************************************)
ClosesOnce ==
    [][ClosedFeeds' # {} =>
         \/ Open /\ ~Open' /\ \A i, j \in ClosedFeeds' : i = j
         \/ \E id \in Ids : ReqCancel(id) /\ ~Open']_vars

(***************************************************************************)
(* A deployment is reported as a success only when every domain has the    *)
(* version of its package, as far as the heartbeats tell: no cancellation, *)
(* dialog or replacement closes an upgrade as done that is not.            *)
(***************************************************************************)
SuccessIsDeployed ==
    [][\A i \in ClosedFeeds' :
         srv'.posted[i].type = "TP_DEPLOY" /\ srv'.posted[i].result = "RS_SUCCESS"
         => AllEqual(srv) /\ srv'.posted[i].id = srv.upgrade.id]_vars
=============================================================================
