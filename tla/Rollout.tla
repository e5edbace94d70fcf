------------------------------ MODULE Rollout ------------------------------
(***************************************************************************)
(* The server's engine and the controllers' engines together.  Both are    *)
(* the code's own handlers (ServerEngine, ClientEngine); this module adds  *)
(* what is between them: the transport (rpcs/fdbus), which delivers in     *)
(* order but loses what is broadcast while a controller is not connected,  *)
(* and a web queue that does one task at a time and answers while it is    *)
(* still the task (its late answers are explored in ServerEngine).         *)
(***************************************************************************)
EXTENDS ServerEngine

CONSTANTS
    Target,      \* Target[i]: the version the packages of upgrade i install
    Patched,     \* the upgrades with .patch files
    CanFail,     \* tasks may fail and time may run out
    CanCancel,   \* the update server may cancel the upgrade
    Answers,     \* what a viewer answers to a dialog; {} if there is no viewer
    Swift,       \* what may be over within a second: a "deployment", a "disconnection"
    Faulty,      \* what controllers may suffer: a lost "connection", a "restart"
    Faults,      \* bound: how often, all of them together
    Lasting      \* tasks that may last longer than stop() waits

\* Messages bounds what ServerEngine explores alone; here the controllers speak.
ASSUME RolloutAssumption ==
    /\ Messages = Message /\ NoName \notin Names
    /\ Target \in [Ids -> Nat \ {0}]
    /\ Patched \subseteq Ids
    /\ CanFail \in BOOLEAN /\ CanCancel \in BOOLEAN
    /\ Answers \subseteq Answer \ {"ANS_UNKNOWN"}
    /\ Swift \subseteq {"deployment", "disconnection"}
    /\ Faulty \subseteq {"connection", "restart"} /\ Faults \in Nat
    /\ Lasting \subseteq {"download", "verify", "patch", "deploy"}
    /\ Answers # {} => "viewer" \in Names \ UNION {u.packages : u \in Upgrades}

VARIABLES
    clients,     \* clients[n]: the engine of controller n
    wire,        \* wire[n]: heartbeats of n the server has not handled
    web,         \* the task of the web queue
    offered,     \* upgrades the update server has offered
    cancelled,   \* and those it has cancelled
    faults       \* how often a controller has lost its connection or restarted

rolloutVars == <<srv, inited, clients, wire, web, offered, cancelled, faults>>

Controllers == UNION {u.packages : u \in Upgrades}

Client(n) == INSTANCE ClientEngine WITH
                Others <- Names, Needs <- Requires[n], CancelEnable <- TRUE

WebTask == {"REQ_DOWNLOAD", "REQ_VERIFY", "REQ_DISTRIBUTE", "distributing", "REQ_STOP"}

-----------------------------------------------------------------------------
(* Messages.                                                               *)

\* A version as Detail::detectVersionEqual and detectVersionVaild will see it.
Class(version) ==
    CASE srv.upgrade.id = NoId \/ version < Target[srv.upgrade.id] -> "older"
      [] srv.upgrade.id # NoId /\ version = Target[srv.upgrade.id] -> "target"
      [] OTHER -> "newer"

DomainMessage(n, heartbeat) ==
    [name |-> n, watcher |-> FALSE, discovery |-> heartbeat.discovery,
     answer |-> "ANS_UNKNOWN",
     report |-> [state |-> heartbeat.state, last |-> heartbeat.last,
                 error |-> heartbeat.error, version |-> Class(heartbeat.version)]]

ControlEvent(n, broadcast) ==
    [type |-> "REQ_CONTROL", control |-> broadcast.control,
     upgrade |-> broadcast.upgrade.id, holds |-> n \in broadcast.upgrade.packages,
     depends |-> broadcast.depends]

\* What the broadcasts of a step make of n.
Delivered(n, broadcasts) ==
    LET after[i \in 0..Len(broadcasts)] ==
          IF i = 0 THEN clients[n]
          ELSE Client(n)!Received(after[i - 1], ControlEvent(n, broadcasts[i]),
                                  broadcasts[i].again)
    IN after[Len(broadcasts)]

\* The task that the requests of a step leave a web queue with that has this one.
Tasked(task, posted) ==
    LET requests == {i \in DOMAIN posted : posted[i].req # "REQ_FEEDBACK"}
    IN IF requests = {} THEN task
       ELSE posted[CHOOSE i \in requests : \A j \in requests : j <= i].req

-----------------------------------------------------------------------------
(* The server's engine.                                                    *)

ServerStep(next) ==
    /\ srv' = next
    /\ clients' = [n \in Controllers |-> Delivered(n, next.sent)]
    /\ UNCHANGED <<inited, faults>>

Offer(upgrade) ==
    /\ upgrade.id \notin offered
    /\ offered' = offered \cup {upgrade.id}
    /\ ServerStep(OnUpgrade(Fresh(srv), upgrade))
    /\ web' = Tasked(web, srv'.posted)
    /\ UNCHANGED <<wire, cancelled>>

Withdraw(id) ==
    /\ CanCancel /\ id \in offered \ cancelled
    /\ cancelled' = cancelled \cup {id}
    /\ ServerStep(OnCancel(Fresh(srv), id))
    /\ web' = Tasked(web, srv'.posted)
    /\ UNCHANGED <<wire, offered>>

\* The task ends with a result, and the web queue rests unless it causes another.
WebResult(task, next) ==
    /\ web = task
    /\ ServerStep(next)
    /\ web' = Tasked("REQ_STOP", next.posted)
    /\ UNCHANGED <<wire, offered, cancelled>>

Fetched(n) == <<srv.upgrade.id, srv.upgrade.id>> \in clients[n].files

Downloaded == WebResult("REQ_DOWNLOAD", OnDownloadDone(Fresh(srv)))
Verified == WebResult("REQ_VERIFY", OnVerifyDone(Fresh(srv)))

\* Core::distribute serves the files; its start makes the web queue post REQ_PULL.
Pull ==
    /\ web = "REQ_DISTRIBUTE" /\ web' = "distributing"
    /\ ServerStep(OnPull(Fresh(srv), TRUE))
    /\ UNCHANGED <<wire, offered, cancelled>>

\* Everyone has fetched everything.
Distributed ==
    /\ \A n \in Members(srv) : Fetched(n)
    /\ WebResult("distributing", OnDistributeDone(Fresh(srv)))

WebError ==
    /\ CanFail /\ web # "REQ_STOP"
    /\ WebResult(web, OnError(Fresh(srv)))

Hear(n) ==
    /\ wire[n] # <<>>
    /\ wire' = [wire EXCEPT ![n] = Tail(@)]
    /\ ServerStep(OnDomain(Fresh(srv), DomainMessage(n, Head(wire[n]))))
    /\ web' = Tasked(web, srv'.posted)
    /\ UNCHANGED <<offered, cancelled>>

\* A viewer answers what is being asked.
AnswerAsked(answer) ==
    /\ mrStateIsAsk(srv.state)
    /\ ServerStep(OnDomain(Fresh(srv),
          [name |-> "viewer", watcher |-> TRUE, discovery |-> FALSE, answer |-> answer,
           report |-> [state |-> "WR_IDLE", last |-> "WR_OFFLINE", error |-> FALSE,
                       version |-> "older"]]))
    /\ web' = Tasked(web, srv'.posted)
    /\ UNCHANGED <<wire, offered, cancelled>>

\* The tick.  A controller without connection may be silent for long enough.
ServerTick(late, silent, overdue) ==
    /\ Watching(srv)
    /\ late \/ overdue # {} => CanFail
    /\ \A n \in silent : ~clients[n].online
    /\ \E next \in {processDomains(Fresh(srv), late, silent, overdue)} : ServerStep(next)
    /\ web' = Tasked(web, srv'.posted)
    /\ UNCHANGED <<wire, offered, cancelled>>

-----------------------------------------------------------------------------
(* The controllers' engines.                                               *)

ClientStep(n, next) ==
    /\ clients' = [clients EXCEPT ![n] = [next EXCEPT !.sent = <<>>]]
    /\ wire' = [wire EXCEPT ![n] = @ \o next.sent]
    /\ UNCHANGED <<srv, inited, web, offered, cancelled>>

HandleNext(n) ==
    /\ \E next \in Client(n)!Handled(clients[n]) : ClientStep(n, next)
    /\ UNCHANGED faults

\* The server keeps up with the heartbeats.
Beat(n) ==
    /\ wire[n] = <<>>
    /\ \E next \in Client(n)!Beaten(clients[n]) : ClientStep(n, next)
    /\ UNCHANGED faults

\* A download ends well only while the server distributes, and a deployment, unless
\* it may be swift, only when the server has started its clock.
TaskEnds(n) ==
    {next \in Client(n)!Ended(clients[n], CanFail) :
       /\ next.files = clients[n].files \/ web = "distributing"
       /\ \/ "deployment" \in Swift \/ next.installed = clients[n].installed
          \/ n \in Members(srv) => srv.details[n].deploy}

Work(n) ==
    /\ \E next \in Client(n)!Broken(clients[n]) \cup TaskEnds(n) : ClientStep(n, next)
    /\ UNCHANGED faults

\* A task that stop() has let go ends, sooner or later.
WorkOn(n) ==
    /\ \E next \in Client(n)!LooseEnded(clients[n], CanFail) :
         /\ next.files = clients[n].files \/ web = "distributing"
         /\ ClientStep(n, next)
    /\ UNCHANGED faults

Connect(n) ==
    /\ ~clients[n].online /\ ("disconnection" \in Swift \/ clients[n].needDiscovery)
    /\ ClientStep(n, [clients[n] EXCEPT !.online = TRUE])
    /\ UNCHANGED faults

Disconnect(n) ==
    /\ "connection" \in Faulty /\ clients[n].online
    /\ faults < Faults /\ faults' = faults + 1
    /\ ClientStep(n, [clients[n] EXCEPT !.online = FALSE])

Reboot(n) ==
    /\ "restart" \in Faulty /\ faults < Faults /\ faults' = faults + 1
    /\ \E next \in Client(n)!Rebooted(clients[n]) : ClientStep(n, next)

-----------------------------------------------------------------------------
RolloutInit ==
    /\ srv = Fresh(OnInit(Boot(NoFile), TRUE)) /\ inited = TRUE
    /\ clients = [n \in Controllers |-> Client(n)!Started(0, {})]
    /\ wire = [n \in Controllers |-> <<>>]
    /\ web = "REQ_STOP" /\ offered = {} /\ cancelled = {} /\ faults = 0

RolloutNext ==
    \/ \E upgrade \in Upgrades : Offer(upgrade)
    \/ \E id \in Ids : Withdraw(id)
    \/ Downloaded \/ Verified \/ Pull \/ Distributed \/ WebError
    \/ \E answer \in Answers : AnswerAsked(answer)
    \/ \E late \in BOOLEAN, silent, overdue \in SUBSET Members(srv) :
          ServerTick(late, silent, overdue)
    \/ \E n \in Controllers :
          Hear(n) \/ HandleNext(n) \/ Beat(n) \/ Work(n) \/ WorkOn(n)
          \/ Connect(n) \/ Disconnect(n) \/ Reboot(n)

RolloutSpec == RolloutInit /\ [][RolloutNext]_rolloutVars

Reporting(n) == Hear(n) \/ Beat(n)
WebAnswer == Downloaded \/ Verified \/ Pull \/ Distributed

\* The threads run, the transport reconnects and delivers, tasks end; and a state
\* that lasts long enough times out.
RolloutFairness ==
    /\ WF_rolloutVars(WebAnswer)
    /\ WF_rolloutVars(ServerTick(FALSE, {}, {}))
    /\ \A n \in Controllers :
         /\ WF_rolloutVars(Reporting(n)) /\ WF_rolloutVars(HandleNext(n))
         /\ WF_rolloutVars(Connect(n)) /\ WF_rolloutVars(Work(n))
         /\ (Lasting # {} => WF_rolloutVars(WorkOn(n)))
TimeoutFairness ==
    \A state \in {"MR_PENDING", "MR_DISTRIBUTE", "MR_DEPLOY", "MR_CANCEL"} :
        WF_rolloutVars(srv.state = state /\ ServerTick(TRUE, {}, {}))

TimedSpec == RolloutSpec /\ RolloutFairness /\ TimeoutFairness
                         /\ WF_rolloutVars(\E answer \in Answers : AnswerAsked(answer))
FairRolloutSpec == RolloutSpec /\ RolloutFairness

-----------------------------------------------------------------------------
(* Properties.                                                             *)

(***************************************************************************)
(* The type of the whole.  In particular no task runs without a package:   *)
(* a result that is handled after a control finds the one it is about.     *)
(***************************************************************************)
RolloutTypeOK ==
    /\ TypeOK
    /\ DOMAIN clients = Controllers /\ DOMAIN wire = Controllers
    /\ \A n \in Controllers :
         /\ clients[n] \in Client(n)!ClientHelper
         /\ wire[n] \in Seq(Client(n)!Heartbeat)
    /\ web \in WebTask /\ offered \in SUBSET Ids /\ cancelled \in SUBSET offered
    /\ faults \in 0..Faults

\* The tasks of n at work, with those that stop() has let go.
AtWork(n) == {w \in {clients[n].worker} \cup clients[n].loose : w.task # "none"}
Deployments(n) == {w \in AtWork(n) : w.task = "deploy"}

(***************************************************************************)
(* A package is deployed only when what it depends on runs its new         *)
(* version, and not merely when a heartbeat said so: the depends in the    *)
(* server's broadcasts (server_engine.cpp:1101-1113) and the controllers'  *)
(* own waiting (client_engine.cpp:357) agree, whatever is lost or late.    *)
(***************************************************************************)
DependsRespected ==
    \A n \in Controllers : \A w \in Deployments(n) :
        \A m \in Requires[n] \cap Controllers : clients[m].installed = Target[w.upgrade]

(***************************************************************************)
(* Nobody deploys while somebody is still preparing: the server gives the  *)
(* order when every controller waits with files that are verified and      *)
(* patched (server_engine.cpp:1168-1180), so a bad download can no longer  *)
(* leave the controllers half upgraded.  One that prepares is one whose    *)
(* task is at work: a controller to which the work is only queued is not   *)
(* counted.                                                                *)
(***************************************************************************)
NoEarlyDeploy ==
    (\E n \in Controllers : Deployments(n) # {}) =>
        \A m \in Controllers : AtWork(m) = Deployments(m)

(***************************************************************************)
(* When the update server is told that the upgrade has succeeded, every    *)
(* controller really runs its new version: what the heartbeats have said   *)
(* was not of an older boot and has not been undone since.                 *)
(***************************************************************************)
SuccessIsReal ==
    \A i \in ClosedFeeds :
       srv.posted[i].type = "TP_DEPLOY" /\ srv.posted[i].result = "RS_SUCCESS"
       => \A n \in Controllers : clients[n].installed = Target[srv.posted[i].id]

(***************************************************************************)
(* A cancellation that the server has carried out (MR_CANCEL) and reports  *)
(* as done has left no controller upgraded: one whose deployment was past  *)
(* stopping makes it fail.                                                 *)
(***************************************************************************)
CancelIsReal ==
    [][\A i \in ClosedFeeds' :
         /\ srv.state = "MR_CANCEL"
         /\ srv'.posted[i].type = "TP_CANCEL" /\ srv'.posted[i].result = "RS_SUCCESS"
         => \A n \in Controllers :
              clients[n].installed # Target[srv'.posted[i].id]]_rolloutVars

(***************************************************************************)
(* Whatever fails, is lost or restarts, and whichever task outlasts its    *)
(* stop(), the update server gets its answer: a request that is open is    *)
(* closed at last.  This rests on the timeouts of the states that wait     *)
(* for controllers.                                                        *)
(***************************************************************************)
RequestCloses == Open ~> ~Open

(***************************************************************************)
(* So does a cancellation, whatever a viewer answers, with one exception:  *)
(* REQ_CANCEL leaves the web queue distributing, and its RES_DISTRUBUTE_   *)
(* DONE (server_engine.cpp:381-391), handled while the controllers are     *)
(* being cancelled or the viewer is asked, turns the state to MR_WAIT,     *)
(* which no tick leaves unless all controllers wait and no timeout ends.   *)
(***************************************************************************)
Forgotten == srv.state = "MR_WAIT" /\ srv.feedType = "TP_CANCEL"
CancelCloses == Open ~> ~Open \/ Forgotten

(***************************************************************************)
(* If nothing fails, every controller is upgraded, without the help of any *)
(* timeout: every wait of one engine for another ends because the other    *)
(* tells it.                                                               *)
(***************************************************************************)
RequestSucceeds == Open ~> \A n \in Controllers : clients[n].installed # 0
=============================================================================
