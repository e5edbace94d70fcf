---------------------------- MODULE ClientEngine ----------------------------
(***************************************************************************)
(* The engine of one domain controller (src/client/client_engine.cpp): it  *)
(* obeys the controls the server broadcasts, downloads, verifies, patches  *)
(* and deploys its package on one worker thread, and reports to the        *)
(* server after every event and once a second.                             *)
(*                                                                         *)
(* Three threads meet here: the RPC thread posts controls, the worker      *)
(* posts the results of its task, and the engine takes both from one FIFO  *)
(* queue.  A result may therefore be handled after the control that made   *)
(* it obsolete.  Handlers that stop the worker have several outcomes, one  *)
(* for each way its task may end, so a step of a thread is written as the  *)
(* set of records it may leave.  Module Rollout runs one such record for   *)
(* each controller, against the server's engine.                           *)
(*                                                                         *)
(* Not here: what a viewer adds (REQ_DETAIL, RES_ANSWER) and progress,     *)
(* which reach no state but the viewer's.                                  *)
(***************************************************************************)
EXTENDS Domain, Integers, Sequences

CONSTANTS
    Others,        \* names the depends of a control may hold
    Needs,         \* those the packages of this controller depend on
    Ids,           \* upgrades
    NoId,          \* no upgrade
    Target,        \* Target[i]: the version the package of upgrade i installs
    Patched,       \* the upgrades whose package holds .patch files
    CancelEnable,  \* what setCancelEnable was told
    Lasting        \* tasks that may outlast the three seconds stop() gives them

Versions == {0} \cup {Target[i] : i \in Ids}

\* A ControlMessage: holds, its upgrade has a package for this controller.
ControlEvent == [type: {"REQ_CONTROL"}, control: Control, upgrade: Ids \cup {NoId},
                 holds: BOOLEAN, depends: SUBSET Others]
ResultEvent == [type: {"RES_ERROR", "RES_DOWNLOAD", "RES_VERIFY", "RES_PATCH",
                       "RES_DEPLOY_DONE", "RES_CANCEL_DONE"}]
ClientEvent == ControlEvent \cup ResultEvent

\* A heartbeat, as onSendDomainMessage hands it to the transport.
Heartbeat == [state: ClientState, last: ClientState, error: BOOLEAN, version: Versions,
              discovery: BOOLEAN]

\* The task of the worker thread, with the package it was started for and the upgrade
\* of the last control then (none, after the clearing of a server that was idle);
\* broken, the task has seen its break function return true.
NoWorker == [task |-> "none", upgrade |-> NoId, package |-> NoId, broken |-> FALSE]
Worker == {NoWorker} \cup [task: {"download", "verify", "patch", "deploy"},
                          upgrade: Ids \cup {NoId}, package: Ids, broken: BOOLEAN]

ClientHelper ==
    [state: ClientState, last: ClientState, error: BOOLEAN,   \* detail.domain
     version: Versions,
     package: Ids \cup {NoId},     \* detail.package, by the upgrade it came with
     upgrade: Ids \cup {NoId},     \* upgrade.id
     hasCancelAction: BOOLEAN, needDiscovery: BOOLEAN,
     patchNewFiles: BOOLEAN,       \* it is not empty
     online: BOOLEAN,              \* onSendDomainMessage would succeed
     heard: BOOLEAN,               \* controlMessageId is that of the last broadcast
     worker: Worker,
     loose: SUBSET Worker,         \* tasks stop() has let go, still at work
     queue: Seq(ClientEvent),
     files: SUBSET ((Ids \cup {NoId}) \X Ids),   \* downloadDir, packages below upgrades
     installed: Versions,          \* the version the device really runs
     sent: Seq(Heartbeat)]         \* heartbeats sent by the last step

\* begin() on a device that runs version and keeps files: its first heartbeat
\* finds no connection yet.
Started(version, files) ==
    [state |-> "WR_IDLE", last |-> "WR_OFFLINE", error |-> FALSE, version |-> version,
     package |-> NoId, upgrade |-> NoId, hasCancelAction |-> FALSE,
     needDiscovery |-> TRUE, patchNewFiles |-> FALSE, online |-> FALSE, heard |-> FALSE,
     worker |-> NoWorker, loose |-> {}, queue |-> <<>>, files |-> files, installed |-> version,
     sent |-> <<>>]

-----------------------------------------------------------------------------
(* The calls the handlers are made of.                                     *)

Quiet(c) == [c EXCEPT !.sent = <<>>]

postEvent(c, event) == [c EXCEPT !.queue = Append(@, event)]
postResult(c, type) == postEvent(c, [type |-> type])

setDomainState(c, state) ==
    IF c.state = state THEN c ELSE [c EXCEPT !.last = c.state, !.state = state]

\* detectVersionEqual and detectVersionVaild of the package held.
VersionEqual(c) == c.package # NoId /\ c.version = Target[c.package]
VersionVaild(c) == c.package # NoId /\ c.version < Target[c.package]

\* Report, or find that there is no connection: then the next connection starts
\* with a discovery, and whatever is broadcast then will be news.
sendDomainMessage(c) ==
    IF c.online
    THEN [c EXCEPT !.needDiscovery = FALSE,
                   !.sent = Append(@, [state |-> c.state, last |-> c.last,
                                       error |-> c.error, version |-> c.version,
                                       discovery |-> c.needDiscovery])]
    ELSE [c EXCEPT !.needDiscovery = TRUE, !.heard = FALSE]

start(c, task) ==
    [c EXCEPT !.worker = [task |-> task, upgrade |-> c.upgrade, package |-> c.package,
                          broken |-> FALSE]]

\* postDeployDone and postCancelDone, called by the application.
postDeployDone(c, success) ==
    IF c.state \notin {"WR_DEPLOY", "WR_CANCEL"} THEN c
    ELSE postResult(c, IF success THEN "RES_DEPLOY_DONE" ELSE "RES_ERROR")
postCancelDone(c, success) ==
    IF c.state # "WR_CANCEL" THEN c
    ELSE postResult(c, IF success THEN "RES_CANCEL_DONE" ELSE "RES_ERROR")

\* The files of the worker's package are below the directory of its upgrade.
HasFiles(c) == <<c.worker.upgrade, c.worker.package>> \in c.files

(***************************************************************************)
(* The ways the worker's task may end by itself.  download, verify: done,  *)
(* failed, or stopped, which is reported only if a cancellation asked for  *)
(* it.  patch: its status is kept without the break function, so what the  *)
(* patch library leaves when it stops comes out as a failure.  deploy: the *)
(* application's function returns when it has installed the package, has   *)
(* failed, or has seen that it is to cancel.                               *)
(***************************************************************************)
Success(c) ==
    LET fetched == <<c.worker.upgrade, c.worker.package>>
    IN CASE c.worker.task = "download" ->
              {postResult([c EXCEPT !.files = @ \cup {fetched}], "RES_DOWNLOAD")}
         [] c.worker.task = "verify" /\ HasFiles(c) -> {postResult(c, "RES_VERIFY")}
         [] c.worker.task = "patch" /\ HasFiles(c) ->
              {postResult([c EXCEPT !.patchNewFiles = TRUE], "RES_PATCH")}
         [] c.worker.task = "deploy" /\ HasFiles(c) ->
              {postDeployDone([c EXCEPT !.installed = Target[c.worker.package]], TRUE)}
         [] OTHER -> {}

Failure(c) ==
    CASE c.worker.task = "none" -> {}
      [] c.worker.task = "deploy" /\ HasFiles(c) -> {postDeployDone(c, FALSE)}
      [] OTHER -> {postResult(c, "RES_ERROR")}

\* A task that has been broken is told apart by the flag as it is then.
Stopped(c) ==
    IF c.worker.task \in {"download", "verify"}
    THEN {IF c.hasCancelAction THEN postResult(c, "RES_CANCEL_DONE") ELSE c}
    ELSE {}

\* The patch library or the application sees hasCancelAction.
Cancelled(c) ==
    CASE ~c.hasCancelAction -> {}
      [] c.hasCancelAction /\ c.worker.task = "patch" -> {postResult(c, "RES_ERROR")}
      [] c.hasCancelAction /\ c.worker.task = "deploy" /\ HasFiles(c) ->
           {postCancelDone(c, success) : success \in BOOLEAN}
      [] OTHER -> {}

Rest(c) == [c EXCEPT !.worker = NoWorker]

\* The thread of a task that lasts is detached; the task is none the wiser.
LetGo(c) == IF c.worker.task \in Lasting THEN {[c EXCEPT !.loose = @ \cup {c.worker}]} ELSE {}

\* stopThread: the task ends by itself within three seconds, or is let go.
stopThread(c) ==
    IF c.worker.task = "none" THEN {c}
    ELSE {Rest(d) : d \in LetGo(c) \cup Stopped(c) \cup Cancelled(c)
                          \cup (IF c.worker.broken THEN {} ELSE Success(c) \cup Failure(c))}

-----------------------------------------------------------------------------
(* The controls.                                                           *)

OnReset(c) ==
    LET reset == [c EXCEPT !.hasCancelAction = FALSE, !.error = FALSE]
    IN {IF c.state = "WR_OFFLINE" THEN setDomainState(reset, "WR_IDLE") ELSE reset}

OnDownload(c) ==
    LET told == [c EXCEPT !.hasCancelAction = FALSE]
        downloads == setDomainState([told EXCEPT !.error = FALSE], "WR_DOWNLOAD")
    IN IF c.package = NoId \/ c.state \in {"WR_DOWNLOAD", "WR_ERROR"} THEN {told}
       ELSE {start(d, "download") : d \in stopThread(downloads)}

\* Slip: the depends are not looked at.
OnDeploy_regardless(c, depends) ==
    LET told == [c EXCEPT !.hasCancelAction = FALSE]
        waits == IF c.state = "WR_IDLE" THEN setDomainState(told, "WR_WAIT") ELSE told
        deploys == setDomainState([waits EXCEPT !.error = FALSE], "WR_DEPLOY")
    IN IF \/ c.package = NoId
          \/ c.state \in {"WR_DEPLOY", "WR_ERROR"}
          \/ VersionEqual(c) /\ c.state = "WR_IDLE"
       THEN {told}
       ELSE {IF VersionEqual(d) THEN postResult(d, "RES_DEPLOY_DONE")
             ELSE IF ~VersionVaild(d) THEN postResult(d, "RES_ERROR")
             ELSE start(d, "deploy") : d \in stopThread(deploys)}

OnDeploy(c, depends) ==
    LET told == [c EXCEPT !.hasCancelAction = FALSE]
        waits == IF c.state = "WR_IDLE" THEN setDomainState(told, "WR_WAIT") ELSE told
        deploys == setDomainState([waits EXCEPT !.error = FALSE], "WR_DEPLOY")
    IN IF \/ c.package = NoId
          \/ c.state \in {"WR_DEPLOY", "WR_ERROR"}
          \/ VersionEqual(c) /\ c.state = "WR_IDLE"
       THEN {told}
       ELSE IF hasDepends(Needs, depends) THEN {waits}
       ELSE {IF VersionEqual(d) THEN postResult(d, "RES_DEPLOY_DONE")
             ELSE IF ~VersionVaild(d) THEN postResult(d, "RES_ERROR")
             ELSE start(d, "deploy") : d \in stopThread(deploys)}

\* The worker is not stopped: it has to see hasCancelAction.
OnCancel(c) ==
    LET told == [c EXCEPT !.hasCancelAction = TRUE]
        cancels == setDomainState([told EXCEPT !.error = FALSE], "WR_CANCEL")
    IN IF c.package = NoId \/ c.state \in {"WR_CANCEL", "WR_ERROR"} THEN {told}
       ELSE IF VersionEqual(c) THEN {postResult(cancels, "RES_ERROR")}
       ELSE IF c.state = "WR_IDLE" \/ (CancelEnable /\ c.state = "WR_WAIT")
       THEN {postResult(cancels, "RES_CANCEL_DONE")}
       ELSE IF ~CancelEnable /\ c.state = "WR_DEPLOY"
       THEN {postResult(cancels, "RES_ERROR")}
       ELSE {cancels}

\* Slip: the package is forgotten, a result of its task still to come.
OnClear_forgets(c) ==
    {[setDomainState(d, "WR_IDLE") EXCEPT !.package = NoId] :
       d \in stopThread([c EXCEPT !.hasCancelAction = FALSE])}

OnClear(c) ==
    {setDomainState(d, "WR_IDLE") : d \in stopThread([c EXCEPT !.hasCancelAction = FALSE])}

Obeyed(c, event) ==
    CASE event.control = "CTL_RESET" -> OnReset(c)
      [] event.control = "CTL_DOWNLOAD" -> OnDownload(c)
      [] event.control = "CTL_DEPLOY" -> OnDeploy(c, event.depends)
      [] event.control = "CTL_CANCEL" -> OnCancel(c)
      [] event.control = "CTL_CLEAR" -> OnClear(c)
      [] OTHER -> {c}

OnControl(c, event) ==
    LET taken == [c EXCEPT !.upgrade = event.upgrade,
                           !.package = IF event.holds THEN event.upgrade ELSE @]
    IN {sendDomainMessage(d) : d \in Obeyed(taken, event)}

-----------------------------------------------------------------------------
(* The results.                                                            *)

OnError(c) == {sendDomainMessage([setDomainState(c, "WR_ERROR") EXCEPT !.error = TRUE])}

\* RES_DOWNLOAD and RES_PATCH: verify what is there now.
OnVerifiable(c) ==
    {sendDomainMessage(start(d, "verify")) : d \in stopThread(setDomainState(c, "WR_VERIFY"))}

\* Slip: what is verified is deployed, and not waited for.
OnVerify_deploys(c) ==
    {sendDomainMessage(start(d, "deploy")) : d \in stopThread(setDomainState(c, "WR_DEPLOY"))}

OnVerify(c) ==
    IF c.package \notin Patched \/ c.patchNewFiles
    THEN {sendDomainMessage(setDomainState([c EXCEPT !.patchNewFiles = FALSE], "WR_WAIT"))}
    ELSE {sendDomainMessage([start(d, "patch") EXCEPT !.patchNewFiles = FALSE]) :
            d \in stopThread(setDomainState(c, "WR_PATCH"))}

OnDeployDone(c) ==
    {sendDomainMessage(setDomainState([c EXCEPT !.version = Target[c.package]], "WR_IDLE"))}

OnCancelDone(c) == {sendDomainMessage(setDomainState(c, "WR_IDLE"))}

\* eventChanged.
Handle(c, event) ==
    CASE event.type = "REQ_CONTROL" -> OnControl(c, event)
      [] event.type = "RES_ERROR" -> OnError(c)
      [] event.type \in {"RES_DOWNLOAD", "RES_PATCH"} -> OnVerifiable(c)
      [] event.type = "RES_VERIFY" -> OnVerify(c)
      [] event.type = "RES_DEPLOY_DONE" -> OnDeployDone(c)
      [] event.type = "RES_CANCEL_DONE" -> OnCancelDone(c)

-----------------------------------------------------------------------------
(* The threads: what each may make of the record in one step.              *)

\* The engine takes the next event of its queue.
Handled(c) ==
    IF c.queue = <<>> THEN {}
    ELSE Handle([Quiet(c) EXCEPT !.queue = Tail(@)], Head(c.queue))

\* The one second timer.
Beaten(c) == {sendDomainMessage(Quiet(c))}

\* The worker: its break function is true; or its task ends, and may fail if fails.
Broken(c) ==
    IF c.worker.task \in {"download", "verify"} /\ ~c.worker.broken /\ c.hasCancelAction
    THEN {[Quiet(c) EXCEPT !.worker.broken = TRUE]} ELSE {}
Ended(c, fails) ==
    {Quiet(Rest(d)) : d \in IF c.worker.broken THEN Stopped(c)
                            ELSE Success(c) \cup Cancelled(c)
                                 \cup (IF fails THEN Failure(c) ELSE {})}

\* A task let go ends as any other, and may have been broken before start() took the
\* request to stop back.  Its results are taken for those of the task at work.
LooseEnded(c, fails) ==
    UNION {LET at == [c EXCEPT !.worker = w]
           IN {[Quiet(d) EXCEPT !.worker = c.worker, !.loose = @ \ {w}] :
                 d \in Success(at) \cup Cancelled(at) \cup Stopped(at)
                       \cup (IF fails THEN Failure(at) ELSE {})} : w \in c.loose}

\* The transport's thread: a control is put into the queue unless its id is that of
\* the control before.  One broadcast while there is no connection is lost.
Received(c, event, again) ==
    IF ~c.online THEN [c EXCEPT !.heard = @ /\ again]
    ELSE IF again /\ c.heard THEN c
    ELSE postEvent([c EXCEPT !.heard = TRUE], event)

\* The controller restarts; a deployment that was running may have installed its
\* package.  The application tells the engine the version it finds.
Rebooted(c) ==
    {Started(version, c.files) :
       version \in {c.installed} \cup (IF c.worker.task = "deploy" /\ HasFiles(c)
                                      THEN {Target[c.worker.package]} ELSE {})}
=============================================================================
