--------------------------- MODULE WebQueueProofs ---------------------------
(***************************************************************************)
(* What is proved of WebQueue: the server's invariant beside a queue that  *)
(* answers late, and the three properties of the run, for any ids,         *)
(* upgrades, messages and bounds.                                          *)
(*                                                                         *)
(* The argument follows an answer.  While the engine transfers, and takes  *)
(* no answer that crosses what it has done since (stale), the answer it    *)
(* waits for is at exactly one of three places: its request is the last of *)
(* the requests to the web queue; the request has been taken, and the task *)
(* is at work on the upgrade the engine has; or the task has posted        *)
(* (Expected).  What a task has verified stays so until its files are      *)
(* fetched anew (Checked), and the feed that closes a deployment waits, or *)
(* has arrived, because a feed is about an action that is, or was, open    *)
(* (AllNamed, Accounted).                                                  *)
(***************************************************************************)
EXTENDS WebQueue, ServerEngineProofs, Functions

-----------------------------------------------------------------------------
(* The invariant.                                                          *)

\* The events of the engine's queue, and the tasks the worker may be at.
EngineEvent ==
    [ev: {"RES_INIT", "REQ_IDLE", "REQ_PULL", "RES_ERROR"}]
    \cup [ev: {"REQ_ACTIVE"}, active: BOOLEAN]
    \cup [ev: {"REQ_UPGRADE"}, upgrade: Upgrades]
    \cup [ev: {"REQ_CANCEL"}, id: Ids]
    \cup [ev: {"REQ_DOWNLOAD", "REQ_VERIFY", "REQ_DISTRIBUTE"}, of: Ids \cup {NoId}]
TaskRecord == {NoTask} \cup [kind: {"REQ_DOWNLOAD", "REQ_VERIFY", "REQ_DISTRIBUTE"},
                             id: Ids \cup {NoId}, at: {"work", "posted", "ended"}]
Used == [checks: Nat, losses: Nat, faults: Nat, loose: Nat]
HubState == [wants: {"none"}, id: {NoId}] \cup [wants: {"deploy", "cancel"}, id: Ids]

\* The type of what WebQueue adds to the server engine.
WebTyped ==
    /\ toWeb \in Seq(WebEvent) /\ toEngine \in Seq(EngineEvent)
    /\ mode \in Mode /\ pulling \in BOOLEAN
    /\ held \in TaskRecord /\ loose \subseteq TaskRecord
    /\ hub \in HubState /\ used \in Used
    /\ stale \in BOOLEAN /\ masked \in BOOLEAN

\* The ids of the actions the update server has open or knows the end of.
Live == told \cup {id \in Ids : hub.wants # "none" /\ hub.id = id}
Named == Live \cup {NoId}

\* Events for the web queue, the feeds among which are about ids in L.
NamedEvent(L) == {e \in WebEvent : e.req = "REQ_FEEDBACK" => e.id \in L}

\* What the server knows, and has posted, is about ids in L.
Within(L, s) ==
    s.upgrade.id \in L /\ s.cancelId \in L /\ s.posted \in Seq(NamedEvent(L))

\* Requests of the update server that are Live.
LiveEvent(L) == {e \in EngineEvent :
    /\ e.ev = "REQ_UPGRADE" => e.upgrade.id \in L
    /\ e.ev = "REQ_CANCEL" => e.id \in L}

\* The engine, and what is under way, name no action that is not Live.
AllNamed ==
    /\ Within(Named, srv)
    /\ toWeb \in Seq(NamedEvent(Named))
    /\ toEngine \in Seq(LiveEvent(Live))

\* A feed that closes the deployment of id waits to be posted.
DeployWaits(p, id) ==
    \E i \in DOMAIN p : Closed(p[i]) /\ p[i].type = "TP_DEPLOY" /\ p[i].id = id
Accounted ==
    used.losses = 0 => \A id \in closed \cap Ids : id \in told \/ DeployWaits(toWeb, id)

\* A server that prepares an upgrade, or transfers it, has one; what it transfers
\* is not to be skipped, and the request for it is open.
Preparing == Gathering \cup Transferring \cup {"MR_RESUME_ASK"}
Ready(s) ==
    /\ s.state \in Preparing => s.upgrade.id \in Ids
    /\ s.state = "MR_DOWNLOAD_ASK" => s.upgrade.download # "MTHD_SKIP"
    /\ s.state \in Transferring => s.upgrade.download # "MTHD_SKIP" /\ OpenAt(s)

\* The request of a state in which the server waits for an answer.
RequestOf(state) == CASE state = "MR_DOWNLOAD" -> "REQ_DOWNLOAD"
                      [] state = "MR_VERIFY" -> "REQ_VERIFY"
                      [] state = "MR_DISTRIBUTE" -> "REQ_DISTRIBUTE"
                      [] OTHER -> "none"

\* All events of p are feeds; the last that is none is a request req.
OnlyFeeds(p) == \A i \in DOMAIN p : p[i].req = "REQ_FEEDBACK"
Asks(p, req) ==
    \E i \in DOMAIN p : p[i].req = req /\ \A j \in DOMAIN p : j > i => p[j].req = "REQ_FEEDBACK"

\* The answer to come: its request waits, the task is at work, or it is under way.
AtIt == OnlyFeeds(toWeb) /\ held.at = "work" /\ held.kind = Awaited
        /\ held.id = srv.upgrade.id
Expected == srv.state \in Transferring =>
    \/ Asks(toWeb, Awaited)
    \/ AtIt
    \/ /\ OnlyFeeds(toWeb) /\ held.at # "work"
       /\ \E e \in Range(toEngine) : e.ev = "RES_ERROR" \/ e.ev = Awaited

\* The controllers are sent for the files that are distributed.
SentFor == srv.state = "MR_DISTRIBUTE" /\ AtIt =>
    \/ srv.control = "CTL_DOWNLOAD"
    \/ masked
    \/ /\ mode = "WEB_DISTRIBUTE"
       /\ pulling \/ \E e \in Range(toEngine) : e.ev = "REQ_PULL"

\* What is distributed is verified, and what is to be: a verification that is
\* under way while it is waited for is one.
Checked ==
    /\ srv.state = "MR_DISTRIBUTE" => srv.upgrade.id \in verified
    /\ held.kind = "REQ_DISTRIBUTE" => held.id \in verified
    /\ srv.state = "MR_VERIFY" =>
         \A e \in Range(toEngine) : e.ev = "REQ_VERIFY" /\ e.of \in Ids => e.of \in verified

WInv ==
    /\ WebTyped
    /\ IInv /\ srv.posted = <<>>
    /\ AllNamed
    /\ Accounted
    /\ ~stale => Ready(srv) /\ Expected /\ SentFor /\ Checked

-----------------------------------------------------------------------------
(***************************************************************************)
(* What the engine names.  One lemma per call and per handler, as for the  *)
(* type: it names and posts ids in L when it is given such.                *)
(***************************************************************************)

\* Posting a feed about an id in L, or what is no feed.
LEMMA PostWithin ==
    ASSUME NEW L, NEW s, Typed(s), Within(L, s), NEW event \in NamedEvent(L)
    PROVE  Within(L, Post(s, event))
<1>1. PICK S \in SUBSET Names : s \in Server(S)
  BY DEF Typed
<1>2. Append(s.posted, event) \in Seq(NamedEvent(L))
  BY DEF Within
<1> DEFINE p == Append(s.posted, event)
<1>3. Post(s, event) = [s EXCEPT !.posted = p]
  BY <1>1 DEF Post, Server
<1> HIDE DEF p
<1>4. /\ Post(s, event).posted = p /\ Post(s, event).upgrade = s.upgrade
      /\ Post(s, event).cancelId = s.cancelId
  BY <1>1, <1>3 DEF Server
<1> QED
  BY <1>2, <1>4 DEF Within, p

\* A feed is about the upgrade or what is cancelled; a request is no feed.
LEMMA FeedNamed ==
    ASSUME NEW L, NEW s, Typed(s), Within(L, s), NEW type \in FeedType,
           NEW execution \in {"EXE_PROCEEDING", "EXE_SCHEDULED", "EXE_CLOSED"},
           NEW result \in {"RS_SUCCESS", "RS_FAILURE"}
    PROVE  Feed(s, type, execution, result) \in NamedEvent(L)
<1>1. Feed(s, type, execution, result) \in WebEvent
  BY FeedTyped
<1>2. Feed(s, type, execution, result).id \in L
  BY DEF Feed, Within
<1> QED
  BY <1>1, <1>2 DEF NamedEvent

\* A request names nothing.
LEMMA RequestNamed ==
    ASSUME NEW L,
           NEW req \in {"REQ_DOWNLOAD", "REQ_VERIFY", "REQ_DISTRIBUTE", "REQ_STOP"}
    PROVE  Request(req) \in NamedEvent(L)
  BY DEF Request, NamedEvent, WebEvent, WebRequest

\* setState reports about what the server knows.
LEMMA setStateWithin ==
    ASSUME NEW L, NEW s, Typed(s), Within(L, s), NEW state \in ServerState
    PROVE  Within(L, setState(s, state))
<1> DEFINE file == [exists |-> TRUE, state |-> state, depends |-> s.depends]
           entered == [s EXCEPT !.lastState = s.state, !.state = state, !.file = file]
           type == IF s.feedType = "TP_DEPLOY" THEN "TP_DEPLOY" ELSE "TP_CANCEL"
           report == Feed(entered, type, "EXE_PROCEEDING", "RS_SUCCESS")
<1>1. PICK S \in SUBSET Names : s \in Server(S)
  BY DEF Typed
<1>2. Typed(entered) /\ Within(L, entered)
  <2>1. file \in StatusFile
    BY <1>1 DEF Server, StatusFile
  <2> HIDE DEF file
  <2>2. entered \in Server(S)
    BY <1>1, <2>1 DEF Server
  <2>3. /\ entered.upgrade = s.upgrade /\ entered.cancelId = s.cancelId
        /\ entered.posted = s.posted
    BY <1>1 DEF Server
  <2> QED
    BY <2>2, <2>3 DEF Typed, Within
<1>3. setState(s, state) \in {s, entered, Post(entered, report)}
  BY DEF setState
<1>4. type \in FeedType
  BY DEF FeedType
<1> HIDE DEF entered, type
<1>5. Within(L, Post(entered, report))
  BY <1>2, <1>4, FeedNamed, PostWithin
<1> QED
  BY <1>2, <1>3, <1>5

\* A control names nothing.
LEMMA sendControlWithin ==
    ASSUME NEW L, NEW s, Typed(s), Within(L, s), NEW control \in Control
    PROVE  Within(L, sendControlMessage(s, control))
<1>1. sendControlMessage(s, control).cancelId = s.cancelId
  BY DEF Typed, Server, sendControlMessage
<1> QED
  BY <1>1, sendControlEffect, sendControlKeeps DEF Within

\* idle forgets, with or without its report.
LEMMA idleWithin ==
    ASSUME NEW L, NoId \in L, NEW s, Typed(s), Within(L, s)
    PROVE  Within(L, idle(s))
<1> DEFINE cleared == [s EXCEPT !.depends = {}, !.details = [n \in {} |-> {}],
                                !.detailSubscribed = FALSE, !.upgrade = NoUpgrade,
                                !.cancelId = NoId]
<1>1. PICK S \in SUBSET Names : s \in Server(S)
  BY DEF Typed
<1>2. Typed(cleared) /\ Within(L, cleared)
  <2>1. [n \in {} |-> {}] \in [{} -> Detail]
    OBVIOUS
  <2>2. cleared \in Server({})
    BY <1>1, <2>1, UpgradesTyped DEF Server
  <2>3. /\ cleared.posted = s.posted /\ cleared.upgrade = NoUpgrade
        /\ cleared.cancelId = NoId
    BY <1>1 DEF Server
  <2> QED
    BY <2>2, <2>3 DEF Typed, Within, NoUpgrade
<1>3. idle(s) \in {s, setState(cleared, "MR_IDLE")}
  BY DEF idle
<1> HIDE DEF cleared
<1> QED
  BY <1>2, <1>3, setStateWithin DEF ServerState

\* pending keeps the upgrade.
LEMMA pendingWithin ==
    ASSUME NEW L, NEW s, Typed(s), Within(L, s)
    PROVE  Within(L, pending(s))
<1> DEFINE packages == s.upgrade.packages
           details == [n \in packages |-> NewDetail]
           cleared == [s EXCEPT !.errorCode = 0, !.depends = packages, !.details = details]
           sends == sendControlMessage(cleared, "CTL_RESET")
<1>1. PICK S \in SUBSET Names : s \in Server(S)
  BY DEF Typed
<1>2. Typed(cleared) /\ Within(L, cleared)
  <2>1. packages \in SUBSET Names
    BY UpgradeTyped DEF Upgrade
  <2>2. details \in [packages -> Detail]
    <3>1. NewDetail \in Detail
      BY DEF NewDetail, Detail, ClientState, Version
    <3> QED
      BY <3>1
  <2> HIDE DEF packages, details
  <2>3. cleared \in Server(packages)
    BY <1>1, <2>1, <2>2 DEF Server
  <2>4. /\ cleared.posted = s.posted /\ cleared.upgrade = s.upgrade
        /\ cleared.cancelId = s.cancelId
    BY <1>1 DEF Server
  <2> QED
    BY <2>1, <2>3, <2>4 DEF Typed, Within
<1> HIDE DEF cleared
<1>3. Typed(sends) /\ Within(L, sends)
  BY <1>2, sendControlTyped, sendControlWithin DEF Control
<1>4. pending(s) = setState(sends, "MR_PENDING")
  BY DEF pending, sends, cleared
<1> HIDE DEF sends
<1> QED
  BY <1>3, <1>4, setStateWithin DEF ServerState

\* download, deploy and resume name nothing new: the upgrade stays.
LEMMA downloadWithin ==
    ASSUME NEW L, NEW s, Typed(s), Within(L, s)
    PROVE  Within(L, download(s))
<1>1. Typed(setState(s, "MR_DOWNLOAD")) /\ Within(L, setState(s, "MR_DOWNLOAD"))
  BY setStateTyped, setStateWithin DEF ServerState
<1> QED
  BY <1>1, PostWithin, RequestNamed DEF download

\* The same of deploy,
LEMMA deployWithin ==
    ASSUME NEW L, NEW s, Typed(s), Within(L, s)
    PROVE  Within(L, deploy(s))
<1>1. /\ Typed(sendControlMessage(s, "CTL_DEPLOY"))
      /\ Within(L, sendControlMessage(s, "CTL_DEPLOY"))
  BY sendControlTyped, sendControlWithin DEF Control
<1> QED
  BY <1>1, setStateWithin DEF deploy, ServerState

\* What else a handler changes names nothing.
LEMMA SameWithin ==
    ASSUME NEW L, NEW s, Within(L, s), NEW r,
           r.upgrade = s.upgrade, r.cancelId = s.cancelId, r.posted = s.posted
    PROVE  Within(L, r)
  BY DEF Within

\* of resume,
LEMMA resumeWithin ==
    ASSUME NEW L, NEW s, Typed(s), Within(L, s)
    PROVE  Within(L, resume(s))
<1> DEFINE kept == [s EXCEPT !.depends = s.cacheDepends]
           d == deploy(kept)
<1>1. PICK S \in SUBSET Names : s \in Server(S)
  BY DEF Typed
<1>2. Typed(kept) /\ Within(L, kept)
  <2>1. /\ kept \in Server(S) /\ kept.upgrade = s.upgrade
        /\ kept.cancelId = s.cancelId /\ kept.posted = s.posted
    BY <1>1 DEF Server
  <2> QED
    BY <2>1, SameWithin DEF Typed
<1>3. Typed(d) /\ Within(L, d)
  <2> HIDE DEF kept
  <2> QED
    BY <1>2, deployTyped, deployWithin
<1>4. resume(s) = [d EXCEPT !.cacheState = "MR_UNKNOWN"]
  BY DEF resume
<1> HIDE DEF d
<1>5. /\ resume(s).posted = d.posted /\ resume(s).upgrade = d.upgrade
      /\ resume(s).cancelId = d.cancelId
  BY <1>3, <1>4 DEF Typed, Server
<1> QED
  BY <1>3, <1>5, SameWithin

\* feedback closes what the server knows of.
LEMMA feedbackWithin ==
    ASSUME NEW L, NoId \in L, NEW s, Typed(s), Within(L, s), NEW finished \in BOOLEAN
    PROVE  Within(L, feedback(s, finished))
<1> DEFINE shut == [s EXCEPT !.hasFeed = TRUE, !.errorCode = IF finished THEN 0 ELSE 1]
           result == IF finished THEN "RS_SUCCESS" ELSE "RS_FAILURE"
           cleared == sendControlMessage(shut, "CTL_CLEAR")
           stopped == Post(cleared, Request("REQ_STOP"))
           feed == Feed(shut, s.feedType, "EXE_CLOSED", result)
           answered == Post(stopped, feed)
           state == IF finished THEN "MR_DONE_ASK" ELSE "MR_ERROR_ASK"
<1>1. PICK S \in SUBSET Names : s \in Server(S)
  BY DEF Typed
<1>2. Typed(shut) /\ Within(L, shut)
  <2>1. /\ shut \in Server(S) /\ shut.upgrade = s.upgrade
        /\ shut.cancelId = s.cancelId /\ shut.posted = s.posted
    BY <1>1, ZenonT(60) DEF Server
  <2> QED
    BY <2>1, SameWithin DEF Typed
<1>3. feed \in NamedEvent(L) /\ feed \in WebEvent
  <2>1. s.feedType \in FeedType /\ result \in {"RS_SUCCESS", "RS_FAILURE"}
    BY <1>1 DEF Server
  <2> HIDE DEF shut, result
  <2> QED
    BY <1>2, <2>1, FeedNamed, FeedTyped
<1>4. Typed(stopped) /\ Within(L, stopped)
  <2>1. Request("REQ_STOP") \in WebEvent /\ Request("REQ_STOP") \in NamedEvent(L)
    BY RequestNamed DEF Request, WebEvent, WebRequest
  <2>2. "CTL_CLEAR" \in Control
    BY DEF Control
  <2> HIDE DEF shut
  <2>3. Typed(cleared) /\ Within(L, cleared)
    BY <1>2, <2>2, sendControlTyped, sendControlWithin
  <2> HIDE DEF cleared
  <2> QED
    BY <2>1, <2>3, PostTyped, PostWithin
<1>5. Typed(answered) /\ Within(L, answered)
  <2> HIDE DEF stopped, feed
  <2> QED
    BY <1>3, <1>4, PostTyped, PostWithin
<1>6. feedback(s, finished) \in {s, setState(answered, state), idle(answered)}
  BY DEF feedback
<1>7. state \in ServerState
  BY DEF ServerState
<1> HIDE DEF answered, state
<1> QED
  BY <1>5, <1>6, <1>7, setStateWithin, idleWithin

\* of cancel,
LEMMA cancelWithin ==
    ASSUME NEW L, NoId \in L, NEW s, Typed(s), Within(L, s)
    PROVE  Within(L, cancel(s))
<1> DEFINE answered == sendControlMessage(s, "CTL_CANCEL")
           cancelled == setState(answered, "MR_CANCEL")
<1>1. Typed(answered) /\ Within(L, answered)
  BY sendControlTyped, sendControlWithin DEF Control
<1>2. Typed(cancelled) /\ Within(L, cancelled)
  <2> HIDE DEF answered
  <2> QED
    BY <1>1, setStateTyped, setStateWithin DEF ServerState
<1>3. cancel(s) \in {cancelled, feedback(cancelled, TRUE)}
  BY DEF cancel
<1> HIDE DEF cancelled
<1> QED
  BY <1>2, <1>3, feedbackWithin

\* and so of what an answer leads to.
LEMMA configAnswerWithin ==
    ASSUME NEW L, NoId \in L, NEW s, Typed(s), Within(L, s), NEW answer \in Answer
    PROVE  Within(L, configAnswer(s, answer))
<1>1. /\ Within(L, download(s)) /\ Within(L, deploy(s)) /\ Within(L, cancel(s))
      /\ Within(L, idle(s)) /\ Within(L, feedback(s, FALSE))
  BY downloadWithin, deployWithin, cancelWithin, idleWithin, feedbackWithin
<1>2. ASSUME NEW x \in {resume(s), s, pending(s), idle(s)}
      PROVE  Within(L, [x EXCEPT !.hasDeployBreaked = FALSE])
  <2>1. Typed(x) /\ Within(L, x)
    BY resumeTyped, pendingTyped, idleTyped, resumeWithin, pendingWithin, idleWithin
  <2> DEFINE r == [x EXCEPT !.hasDeployBreaked = FALSE]
  <2>2. r.upgrade = x.upgrade /\ r.cancelId = x.cancelId /\ r.posted = x.posted
    BY <2>1 DEF Typed, Server
  <2> HIDE DEF r
  <2>3. Within(L, r)
    BY <2>1, <2>2, SameWithin
  <2> QED
    BY <2>3 DEF r
<1>3. \/ configAnswer(s, answer)
           \in {s, download(s), deploy(s), cancel(s), idle(s), feedback(s, FALSE)}
      \/ \E x \in {resume(s), s, pending(s), idle(s)} :
           configAnswer(s, answer) = [x EXCEPT !.hasDeployBreaked = FALSE]
  BY DEF configAnswer, FinalAsk
<1> QED
  BY <1>1, <1>2, <1>3

-----------------------------------------------------------------------------
(***************************************************************************)
(* The same of the handlers; and what a handler leaves of the waiting: a   *)
(* server that transfers goes on waiting for what it waits for, or has     *)
(* just asked.                                                             *)
(***************************************************************************)

\* r waits for what s waits for, and has asked for nothing.
Stays(s, r) == /\ r.state = s.state /\ r.upgrade = s.upgrade /\ r.control = s.control
               /\ OnlyFeeds(r.posted)

\* The handlers but those of REQ_PULL and of the results go from s to such an r.
Orderly(s, r) ==
    /\ Ready(r)
    /\ r.state \in Transferring =>
         Stays(s, r) \/ (r.state = "MR_DOWNLOAD" /\ Asks(r.posted, "REQ_DOWNLOAD"))

\* A state in which nothing is prepared is always Orderly.
LEMMA RestingOrderly ==
    ASSUME NEW s, NEW r, r.state \notin Preparing
    PROVE  Orderly(s, r)
  BY DEF Orderly, Ready, Preparing, Gathering

\* So is a record with the same upgrade, request and control.
LEMMA StillOrderly ==
    ASSUME NEW s, Ready(s), NEW r, Stays(s, r), r.feedType = s.feedType,
           r.hasFeed = s.hasFeed
    PROVE  Orderly(s, r)
  BY DEF Orderly, Ready, Stays, OpenAt

\* What is posted last asks.
LEMMA AppendAsks ==
    ASSUME NEW p \in Seq(WebEvent), NEW req \in {"REQ_DOWNLOAD", "REQ_VERIFY", "REQ_DISTRIBUTE"}
    PROVE  Asks(Append(p, Request(req)), req)
<1> DEFINE q == Append(p, Request(req))
<1>1. /\ DOMAIN q = 1..Len(p) + 1 /\ Len(p) \in Nat /\ q[Len(p) + 1] = Request(req)
  OBVIOUS
<1> HIDE DEF q
<1>2. q[Len(p) + 1].req = req
  BY <1>1 DEF Request
<1> QED
  BY <1>1, <1>2 DEF Asks, q

\* A server that downloads has just asked for it.
LEMMA downloadOrderly ==
    ASSUME NEW s, Typed(s), OpenAt(s), s.upgrade.id \in Ids,
           s.upgrade.download # "MTHD_SKIP", NEW t
    PROVE  Orderly(t, download(s))
<1> DEFINE x == setState(s, "MR_DOWNLOAD")
<1>1. Typed(x)
  BY setStateTyped DEF ServerState
<1>2. /\ download(s).state = "MR_DOWNLOAD" /\ download(s).upgrade = s.upgrade
      /\ OpenAt(download(s))
  BY downloadEffect DEF Same, OpenAt
<1> HIDE DEF x
<1>3. x.posted \in Seq(WebEvent)
  BY <1>1 DEF Typed, Server
<1>4. download(s).posted = Append(x.posted, Request("REQ_DOWNLOAD"))
  BY <1>1 DEF download, x, Post, Typed, Server
<1>5. Asks(download(s).posted, "REQ_DOWNLOAD")
  BY <1>3, <1>4, AppendAsks
<1> QED
  BY <1>2, <1>5 DEF Orderly, Ready, Transferring

\* feedback ends an open request, and does nothing otherwise.
LEMMA feedbackOrderly ==
    ASSUME NEW s, Typed(s), Silent(s), NEW finished \in BOOLEAN, NEW t
    PROVE  /\ OpenAt(s) => Orderly(t, feedback(s, finished))
           /\ ~OpenAt(s) => feedback(s, finished) = s
<1>1. OpenAt(s) => feedback(s, finished).state \in {"MR_DONE_ASK", "MR_ERROR_ASK", "MR_IDLE"}
  BY feedbackCloses
<1>2. OpenAt(s) => feedback(s, finished).state \notin Preparing
  BY <1>1 DEF Preparing, Gathering, Transferring
<1> QED
  BY <1>2, RestingOrderly, feedbackCloses

\* Nothing posted: no feed but those there are, and nothing closed.
LEMMA NothingPosted ==
    ASSUME NEW s, s.posted = <<>>
    PROVE  Silent(s) /\ OnlyFeeds(s.posted) /\ Stays(s, s)
<1>1. DOMAIN s.posted = {}
  OBVIOUS
<1> QED
  BY <1>1 DEF Silent, OnlyFeeds, Stays

\* Doing nothing is Orderly,
LEMMA SelfOrderly ==
    ASSUME NEW s, Ready(s), s.posted = <<>>
    PROVE  Orderly(s, s)
  BY NothingPosted, StillOrderly

\* and so is feedback when nothing has been posted.
LEMMA feedbackOrderlyHere ==
    ASSUME NEW s, Typed(s), Ready(s), s.posted = <<>>, NEW finished \in BOOLEAN
    PROVE  Orderly(s, feedback(s, finished))
  BY feedbackOrderly, SelfOrderly, NothingPosted

\* An answer downloads what was asked for, or ends, or changes nothing.
LEMMA configAnswerOrderly ==
    ASSUME NEW s, Typed(s), Sound(s), Ready(s), s.posted = <<>>, NEW answer \in Answer
    PROVE  Orderly(s, configAnswer(s, answer))
<1>0. Orderly(s, s) /\ Orderly(s, feedback(s, FALSE)) /\ Silent(s)
  BY SelfOrderly, feedbackOrderlyHere, NothingPosted
<1>1. CASE s.state = "MR_DOWNLOAD_ASK"
  <2>1. OpenAt(s)
    BY <1>1 DEF Sound, Armed, ArmedStates, Gathering, OpenAt, Watching
  <2>2. s.upgrade.id \in Ids /\ s.upgrade.download # "MTHD_SKIP"
    BY <1>1 DEF Ready, Preparing, Gathering
  <2>3. Orderly(s, download(s))
    BY <2>1, <2>2, downloadOrderly
  <2>4. configAnswer(s, answer) \in {s, download(s), feedback(s, FALSE)}
    BY <1>1 DEF configAnswer, FinalAsk
  <2> QED
    BY <1>0, <2>3, <2>4
<1>2. CASE s.state = "MR_DEPLOY_ASK"
  <2>1. Orderly(s, deploy(s))
    BY deployEffect, RestingOrderly DEF Preparing, Gathering, Transferring
  <2>2. configAnswer(s, answer) \in {s, deploy(s), feedback(s, FALSE)}
    BY <1>2 DEF configAnswer, FinalAsk
  <2> QED
    BY <1>0, <2>1, <2>2
<1>3. CASE s.state = "MR_CANCEL_ASK"
  <2>1. Orderly(s, cancel(s))
    BY <1>0, <1>3, cancelSilent, RestingOrderly DEF Preparing, Gathering, Transferring
  <2>2. configAnswer(s, answer) \in {s, cancel(s), feedback(s, FALSE)}
    BY <1>3 DEF configAnswer, FinalAsk
  <2> QED
    BY <1>0, <2>1, <2>2
<1>4. CASE s.state = "MR_RESUME_ASK"
  <2>1. ASSUME NEW x \in {resume(s), s, pending(s), idle(s)}
        PROVE  Orderly(s, [x EXCEPT !.hasDeployBreaked = FALSE])
    <3> DEFINE r == [x EXCEPT !.hasDeployBreaked = FALSE]
    <3>1. Typed(x)
      BY resumeTyped, pendingTyped, idleTyped
    <3>2. x.state \in {"MR_DEPLOY", "MR_RESUME_ASK", "MR_PENDING", "MR_IDLE"}
      BY <1>0, <1>4, resumeSilent, pendingEffect, idleEffect
    <3>3. x.state \in {"MR_RESUME_ASK", "MR_PENDING"} => x.upgrade = s.upgrade
      BY <1>0, <1>4, resumeSilent, pendingEffect, idleEffect
    <3>4. r.state = x.state /\ r.upgrade = x.upgrade
      BY <3>1 DEF Typed, Server
    <3>5. s.upgrade.id \in Ids
      BY <1>4 DEF Ready, Preparing
    <3> HIDE DEF r
    <3>6. Orderly(s, r)
      BY <3>2, <3>3, <3>4, <3>5 DEF Orderly, Ready, Preparing, Gathering, Transferring
    <3> QED
      BY <3>6 DEF r
  <2>2. \E x \in {resume(s), s, pending(s), idle(s)} :
           configAnswer(s, answer) = [x EXCEPT !.hasDeployBreaked = FALSE]
    BY <1>4 DEF configAnswer, FinalAsk
  <2> QED
    BY <2>1, <2>2
<1>5. CASE FinalAsk(s)
  <2>1. Orderly(s, idle(s))
    BY idleEffect, RestingOrderly DEF Preparing, Gathering, Transferring
  <2>2. configAnswer(s, answer) \in {s, idle(s)}
    BY <1>5 DEF configAnswer, FinalAsk
  <2> QED
    BY <1>0, <2>1, <2>2
<1>6. CASE ~FinalAsk(s) /\ s.state \notin {"MR_DOWNLOAD_ASK", "MR_DEPLOY_ASK",
                                            "MR_CANCEL_ASK", "MR_RESUME_ASK"}
  BY <1>0, <1>6 DEF configAnswer
<1> QED
  BY <1>1, <1>2, <1>3, <1>4, <1>5, <1>6

\* case ServerReqUpgrade names the upgrade.
LEMMA OnUpgradeGood ==
    ASSUME NEW L, NEW s, Typed(s), Within(L, s), s.posted = <<>>,
           NEW upgrade \in Upgrades, upgrade.id \in L
    PROVE  /\ Within(L, OnUpgrade(s, upgrade))
           /\ Ready(s) => Orderly(s, OnUpgrade(s, upgrade))
<1>1. CASE FinalAsk(s)
  BY <1>1, SelfOrderly DEF OnUpgrade
<1>2. CASE ~FinalAsk(s)
  <2> DEFINE new == s.lastlId # upgrade.id
             again == ~new /\ s.lastCancelId = upgrade.id
             breaked == s.hasDeployBreaked /\ ~new
             taken == [s EXCEPT !.hasFeed = FALSE, !.feedType = "TP_DEPLOY",
                                !.hasNewId = new, !.upgrade = upgrade,
                                !.cancelResume = again, !.lastlId = upgrade.id,
                                !.hasDeployBreaked = breaked]
  <2>1. PICK S \in SUBSET Names : s \in Server(S)
    BY DEF Typed
  <2>2. upgrade \in Current /\ upgrade.id \in Ids
    BY ServerAssumption DEF Current
  <2>3. new \in BOOLEAN /\ again \in BOOLEAN /\ breaked \in BOOLEAN
    OBVIOUS
  <2>4. Typed(taken) /\ Within(L, taken) /\ taken.upgrade = upgrade
    <3> HIDE DEF new, again, breaked
    <3>1. taken \in Server(S)
      BY <2>1, <2>2, <2>3, ZenonT(60) DEF Server, FeedType
    <3>2. taken.posted = s.posted /\ taken.upgrade = upgrade /\ taken.cancelId = s.cancelId
      BY <2>1 DEF Server
    <3> QED
      BY <3>1, <3>2 DEF Typed, Within
  <2>5. OnUpgrade(s, upgrade) = pending(taken)
    BY <1>2 DEF OnUpgrade
  <2> HIDE DEF taken
  <2>6. /\ Within(L, pending(taken)) /\ pending(taken).state = "MR_PENDING"
        /\ pending(taken).upgrade = upgrade
    BY <2>4, pendingWithin, pendingEffect
  <2>7. Orderly(s, pending(taken))
    BY <2>2, <2>6 DEF Orderly, Ready, Transferring
  <2> QED
    BY <2>5, <2>6, <2>7
<1> QED
  BY <1>1, <1>2

\* case ServerReqCancel names what is cancelled.
LEMMA OnCancelGood ==
    ASSUME NEW L, NoId \in L, NEW s, Typed(s), Within(L, s), s.posted = <<>>,
           NEW id \in Ids, id \in L
    PROVE  Within(L, OnCancel(s, id)) /\ Orderly(s, OnCancel(s, id))
<1>1. PICK S \in SUBSET Names : s \in Server(S)
  BY DEF Typed
<1> DEFINE breaked == s.hasDeployBreaked \/ s.state = "MR_DEPLOY"
           asked == [s EXCEPT !.hasFeed = FALSE, !.feedType = "TP_CANCEL",
                              !.cancelId = id, !.lastCancelId = id,
                              !.hasDeployBreaked = breaked]
           refused == feedback(asked, FALSE)
           feed == [req |-> "REQ_FEEDBACK", type |-> "TP_DEPLOY",
                    execution |-> "EXE_CLOSED", result |-> "RS_FAILURE",
                    id |-> refused.cancelId]
<1>2. /\ Typed(asked) /\ Within(L, asked) /\ asked.posted = <<>>
      /\ asked.hasFeed = FALSE /\ asked.feedType = "TP_CANCEL"
  <2>1. breaked \in BOOLEAN
    OBVIOUS
  <2> HIDE DEF breaked
  <2>2. asked \in Server(S)
    BY <1>1, <2>1, AskedTyped
  <2>3. /\ asked.posted = s.posted /\ asked.upgrade = s.upgrade /\ asked.cancelId = id
        /\ asked.hasFeed = FALSE /\ asked.feedType = "TP_CANCEL"
    BY <1>1 DEF Server
  <2> QED
    BY <2>2, <2>3 DEF Typed, Within
<1>3. OnCancel(s, id)
        \in {feedback(asked, TRUE), setState(asked, "MR_CANCEL_ASK"), Post(refused, feed)}
  BY DEF OnCancel
<1> HIDE DEF asked
<1>4. Silent(asked) /\ OpenAt(asked)
  BY <1>2, NothingPosted DEF OpenAt
<1>5. ASSUME NEW finished \in BOOLEAN
      PROVE  LET r == feedback(asked, finished) IN
             Typed(r) /\ Within(L, r) /\ r.state \notin Preparing
  <2>1. feedback(asked, finished).state \in {"MR_DONE_ASK", "MR_ERROR_ASK", "MR_IDLE"}
    BY <1>2, <1>4, feedbackCloses
  <2> QED
    BY <1>2, <2>1, feedbackTyped, feedbackWithin DEF Preparing, Gathering, Transferring
<1>6. /\ Within(L, setState(asked, "MR_CANCEL_ASK"))
      /\ Orderly(s, setState(asked, "MR_CANCEL_ASK"))
  <2>1. "MR_CANCEL_ASK" \in ServerState
    BY DEF ServerState
  <2>2. setState(asked, "MR_CANCEL_ASK").state = "MR_CANCEL_ASK"
    BY <1>2, <2>1, setStateEffect
  <2> QED
    BY <1>2, <2>1, <2>2, setStateWithin, RestingOrderly
    DEF Preparing, Gathering, Transferring
<1>7. Within(L, Post(refused, feed)) /\ Orderly(s, Post(refused, feed))
  <2>1. Typed(refused) /\ Within(L, refused) /\ refused.state \notin Preparing
    BY <1>5
  <2> HIDE DEF refused
  <2>2. feed \in NamedEvent(L)
    BY <2>1 DEF NamedEvent, Within, Typed, Server, WebEvent, WebFeed, FeedType
  <2> HIDE DEF feed
  <2>3. Post(refused, feed).state \notin Preparing
    BY <2>1, PostEffect
  <2> QED
    BY <2>1, <2>2, <2>3, PostWithin, RestingOrderly
<1> QED
  BY <1>3, <1>5, <1>6, <1>7, RestingOrderly

\* The events that only idle, and the one that changes whether it is active.
LEMMA OnIdleGood ==
    ASSUME NEW L, NoId \in L, NEW s, Typed(s), Within(L, s), s.posted = <<>>
    PROVE  Within(L, OnIdle(s)) /\ (Ready(s) => Orderly(s, OnIdle(s)))
<1>1. Within(L, idle(s)) /\ Orderly(s, idle(s))
  BY idleWithin, idleEffect, RestingOrderly DEF Preparing, Gathering, Transferring
<1> QED
  BY <1>1, SelfOrderly DEF OnIdle

\* case ServerReqActive.
LEMMA OnActiveGood ==
    ASSUME NEW L, NEW s, Typed(s), Sound(s), Within(L, s), s.posted = <<>>,
           NEW active \in BOOLEAN
    PROVE  LET r == OnActive(s, active) IN
           Typed(r) /\ Sound(r) /\ Within(L, r) /\ (Ready(s) => Orderly(s, r))
<1> DEFINE r == OnActive(s, active)
<1>1. PICK S \in SUBSET Names : s \in Server(S)
  BY DEF Typed
<1>2. r \in Server(S)
  BY <1>1 DEF OnActive, Server
<1>3. /\ Near(r, s) /\ r.posted = s.posted /\ r.cancelId = s.cancelId
  BY <1>1 DEF OnActive, Server, Near
<1> HIDE DEF r
<1>4. Typed(r) /\ Sound(r) /\ Within(L, r)
  BY <1>2, <1>3, NearSound, SameWithin DEF Typed, Near
<1>5. Ready(s) => Orderly(s, r)
  BY <1>3, NothingPosted, StillOrderly DEF Near, Stays
<1> QED
  BY <1>4, <1>5 DEF r

\* case ServerResInit.
LEMMA OnInitGood ==
    ASSUME NEW L, NoId \in L, NEW s, Typed(s), Within(L, s), s.posted = <<>>
    PROVE  Within(L, OnInit(s, TRUE)) /\ (Ready(s) => Orderly(s, OnInit(s, TRUE)))
<1> DEFINE read == [s EXCEPT !.cacheDepends = s.file.depends,
                             !.cacheState = IF s.file.state = "MR_DEPLOY" THEN "MR_DEPLOY"
                                            ELSE "MR_UNKNOWN"]
<1>1. PICK S \in SUBSET Names : s \in Server(S)
  BY DEF Typed
<1>2. Typed(read) /\ Within(L, read)
  <2>1. s.file.depends \in SUBSET Names
    BY <1>1 DEF Server, StatusFile
  <2>2. read \in Server(S)
    BY <1>1, <2>1, ZenonT(60) DEF Server
  <2>3. read.posted = s.posted /\ read.upgrade = s.upgrade /\ read.cancelId = s.cancelId
    BY <1>1 DEF Server
  <2> QED
    BY <2>2, <2>3, SameWithin DEF Typed
<1>3. OnInit(s, TRUE) \in {s, idle(read)}
  BY DEF OnInit
<1> HIDE DEF read
<1>4. Within(L, idle(read)) /\ Orderly(s, idle(read))
  BY <1>2, idleWithin, idleEffect, RestingOrderly DEF Preparing, Gathering, Transferring
<1> QED
  BY <1>3, <1>4, SelfOrderly

\* REQ_PULL sends the controllers for the files, when it finds them distributed.
LEMMA OnPullGood ==
    ASSUME NEW L, NEW s, Typed(s), Within(L, s), s.posted = <<>>, NEW distributing \in BOOLEAN
    PROVE  LET r == OnPull(s, distributing) IN
           /\ Within(L, r)
           /\ Ready(s) /\ ~distributing => Orderly(s, r)
           /\ Ready(s) /\ distributing /\ s.state = "MR_DISTRIBUTE" =>
                /\ Ready(r) /\ r.state = s.state /\ r.upgrade = s.upgrade
                /\ r.control = "CTL_DOWNLOAD" /\ r.posted = <<>>
<1> DEFINE x == sendControlMessage(s, "CTL_DOWNLOAD")
           sending == IF s.upgrade.download # "MTHD_SKIP" THEN x ELSE s
           r == OnPull(s, distributing)
<1>1. "CTL_DOWNLOAD" \in Control /\ "MR_DISTRIBUTE" \in ServerState
  BY DEF Control, ServerState
<1>2. /\ Typed(x) /\ Within(L, x) /\ x.posted = <<>> /\ x.state = s.state
      /\ x.upgrade = s.upgrade /\ x.control = "CTL_DOWNLOAD"
      /\ x.hasFeed = s.hasFeed /\ x.feedType = s.feedType
  BY <1>1, sendControlTyped, sendControlWithin, sendControlKeeps, sendControlEffect
<1>3. Within(L, setState(s, "MR_DISTRIBUTE")) /\ Within(L, setState(x, "MR_DISTRIBUTE"))
  <2> HIDE DEF x
  <2> QED
    BY <1>1, <1>2, setStateWithin
<1>4. r \in {s, setState(s, "MR_DISTRIBUTE"), setState(x, "MR_DISTRIBUTE")}
  BY DEF OnPull
<1>5. ~distributing => r = s
  BY DEF OnPull
<1>6. ASSUME Ready(s), distributing, s.state = "MR_DISTRIBUTE" PROVE r = x
  <2>1. ~FinalAsk(s) /\ s.upgrade.download # "MTHD_SKIP"
    BY <1>6 DEF FinalAsk, Ready, Transferring
  <2>2. r = setState(x, "MR_DISTRIBUTE")
    BY <1>6, <2>1 DEF OnPull
  <2> HIDE DEF x, r
  <2> QED
    BY <1>2, <1>6, <2>2 DEF setState
<1>7. Ready(s) => Ready(x)
  <2> HIDE DEF x
  <2> QED
    BY <1>2 DEF Ready, OpenAt
<1> HIDE DEF x, r
<1>8. Ready(s) /\ ~distributing => Orderly(s, r)
  BY <1>5, SelfOrderly
<1>9. Within(L, r)
  BY <1>3, <1>4
<1> QED
  BY <1>2, <1>6, <1>7, <1>8, <1>9 DEF r

\* A result that is waited for leads on, to the next request or to MR_WAIT.
LEMMA OnDoneGood ==
    ASSUME NEW L, NEW s, Typed(s), Within(L, s), s.posted = <<>>
    PROVE  /\ Within(L, OnDownloadDone(s)) /\ Within(L, OnVerifyDone(s))
           /\ Within(L, OnDistributeDone(s))
           /\ Ready(s) /\ s.state = "MR_DOWNLOAD" =>
                LET r == OnDownloadDone(s) IN
                /\ Ready(r) /\ r.state = "MR_VERIFY" /\ r.upgrade = s.upgrade
                /\ Asks(r.posted, "REQ_VERIFY")
           /\ Ready(s) /\ s.state = "MR_VERIFY" =>
                LET r == OnVerifyDone(s) IN
                /\ Ready(r) /\ r.state = "MR_DISTRIBUTE" /\ r.upgrade = s.upgrade
                /\ Asks(r.posted, "REQ_DISTRIBUTE")
           /\ s.state = "MR_DISTRIBUTE" => OnDistributeDone(s).state = "MR_WAIT"
<1>1. ASSUME NEW state \in {"MR_VERIFY", "MR_DISTRIBUTE"},
             NEW req \in {"REQ_VERIFY", "REQ_DISTRIBUTE"}
      PROVE  LET r == Post(setState(s, state), Request(req)) IN
             /\ Within(L, r)
             /\ r.state = state /\ r.upgrade = s.upgrade
             /\ Asks(r.posted, req)
             /\ Ready(s) /\ s.state \in Transferring => Ready(r)
  <2> DEFINE x == setState(s, state)
             r == Post(x, Request(req))
  <2>0. state \in ServerState /\ Request(req) \in NamedEvent(L)
    BY RequestNamed DEF ServerState
  <2>1. Typed(x) /\ Within(L, x) /\ Same(x, s) /\ x.state = state
    BY <2>0, setStateTyped, setStateWithin, setStateEffect
  <2> HIDE DEF x
  <2>2. x.posted \in Seq(WebEvent) /\ r.posted = Append(x.posted, Request(req))
    BY <2>1 DEF Post, Typed, Server
  <2>3. Within(L, r) /\ Same(r, x) /\ r.state = state
    BY <2>0, <2>1, PostWithin, PostEffect
  <2> HIDE DEF r
  <2>4. Asks(r.posted, req)
    BY <2>2, AppendAsks
  <2>5. Ready(s) /\ s.state \in Transferring => Ready(r)
    BY <2>1, <2>3 DEF Ready, Same, OpenAt, Preparing, Transferring
  <2> QED
    BY <2>1, <2>3, <2>4, <2>5 DEF r, Same, x
<1>2. Within(L, setState(s, "MR_WAIT")) /\ setState(s, "MR_WAIT").state = "MR_WAIT"
  BY setStateWithin, setStateEffect DEF ServerState
<1>3. /\ OnDownloadDone(s) \in {s, Post(setState(s, "MR_VERIFY"), Request("REQ_VERIFY"))}
      /\ OnVerifyDone(s)
           \in {s, Post(setState(s, "MR_DISTRIBUTE"), Request("REQ_DISTRIBUTE"))}
      /\ OnDistributeDone(s) \in {s, setState(s, "MR_WAIT")}
      /\ ~FinalAsk(s) =>
           /\ OnDownloadDone(s) = Post(setState(s, "MR_VERIFY"), Request("REQ_VERIFY"))
           /\ OnVerifyDone(s)
                = Post(setState(s, "MR_DISTRIBUTE"), Request("REQ_DISTRIBUTE"))
           /\ OnDistributeDone(s) = setState(s, "MR_WAIT")
  BY DEF OnDownloadDone, OnVerifyDone, OnDistributeDone
<1>4. s.state \in Transferring => ~FinalAsk(s)
  BY DEF Transferring, FinalAsk
<1>5. Transferring = {"MR_DOWNLOAD", "MR_VERIFY", "MR_DISTRIBUTE"}
  BY DEF Transferring
<1> QED
  BY <1>1, <1>2, <1>3, <1>4, <1>5

\* An error is tried again from the download, or ends the request: the server does
\* not go on waiting.
LEMMA OnErrorGood ==
    ASSUME NEW L, NoId \in L, NEW s, Typed(s), Within(L, s), s.posted = <<>>
    PROVE  LET r == OnError(s) IN
           /\ Within(L, r)
           /\ Ready(s) => Orderly(s, r)
           /\ Ready(s) /\ s.state \in Transferring =>
                \/ r.state \notin Transferring
                \/ r.state = "MR_DOWNLOAD" /\ Asks(r.posted, "REQ_DOWNLOAD")
<1> DEFINE r == OnError(s)
<1>0. Silent(s)
  BY NothingPosted
<1>1. CASE s.state \notin Transferring
  <2>1. r = feedback(s, FALSE)
    BY <1>1 DEF OnError, Transferring
  <2>2. Within(L, r)
    BY <2>1, feedbackWithin
  <2>3. Ready(s) => Orderly(s, r)
    BY <2>1, feedbackOrderlyHere
  <2> QED
    BY <1>1, <2>2, <2>3
<1>2. CASE s.state \in Transferring /\ s.retryTimes < RetryTimes
  <2> DEFINE d == download(s)
             again == [d EXCEPT !.retryTimes = d.retryTimes + 1]
  <2>1. Typed(d) /\ Within(L, d) /\ Same(d, s) /\ d.state = "MR_DOWNLOAD"
    BY downloadTyped, downloadWithin, downloadEffect
  <2>2. Ready(s) => Orderly(s, d) /\ Asks(d.posted, "REQ_DOWNLOAD")
    <3> SUFFICES ASSUME Ready(s) PROVE Orderly(s, d) /\ Asks(d.posted, "REQ_DOWNLOAD")
      OBVIOUS
    <3>1. OpenAt(s) /\ s.upgrade.id \in Ids /\ s.upgrade.download # "MTHD_SKIP"
      BY <1>2 DEF Ready, Preparing
    <3>2. \A t : Orderly(t, d)
      BY <3>1, downloadOrderly
    <3> DEFINE t == [s EXCEPT !.state = "MR_IDLE"]
    <3>3. t.state = "MR_IDLE"
      BY DEF Typed, Server
    <3> HIDE DEF d, t
    <3> QED
      BY <2>1, <3>2, <3>3 DEF Orderly, Stays, Transferring
  <2>3. r = again
    BY <1>2 DEF OnError, Transferring
  <2> HIDE DEF d, r
  <2>4. /\ r.posted = d.posted /\ r.upgrade = d.upgrade /\ r.cancelId = d.cancelId
        /\ r.state = d.state /\ r.hasFeed = d.hasFeed /\ r.feedType = d.feedType
        /\ r.control = d.control
    BY <2>1, <2>3 DEF Typed, Server
  <2>5. Within(L, r)
    BY <2>1, <2>4, SameWithin
  <2>6. Ready(s) => Orderly(s, r) /\ Asks(r.posted, "REQ_DOWNLOAD")
    BY <2>2, <2>4 DEF Orderly, Ready, Stays, OpenAt
  <2> QED
    BY <2>1, <2>4, <2>5, <2>6 DEF r
<1>3. CASE s.state \in Transferring /\ ~(s.retryTimes < RetryTimes)
  <2> DEFINE x == [s EXCEPT !.retryTimes = 0]
  <2>1. PICK S \in SUBSET Names : s \in Server(S)
    BY DEF Typed
  <2>2. x \in Server(S)
    <3>1. 0 \in 0..RetryTimes
      BY ServerAssumption
    <3> QED
      BY <2>1, <3>1 DEF Server
  <2>3. /\ x.posted = s.posted /\ x.upgrade = s.upgrade /\ x.cancelId = s.cancelId
        /\ x.hasFeed = s.hasFeed /\ x.feedType = s.feedType
    BY <2>1 DEF Server
  <2>4. r = feedback(x, FALSE)
    BY <1>3 DEF OnError, Transferring
  <2> HIDE DEF x, r
  <2>5. Typed(x) /\ Within(L, x) /\ Silent(x)
    BY <1>0, <2>2, <2>3, SameWithin DEF Typed, Silent
  <2>6. Within(L, r)
    BY <2>4, <2>5, feedbackWithin
  <2>7. Ready(s) => r.state \in {"MR_DONE_ASK", "MR_ERROR_ASK", "MR_IDLE"}
    <3>1. Ready(s) => OpenAt(x)
      BY <1>3, <2>3 DEF Ready, OpenAt
    <3> QED
      BY <2>4, <2>5, <3>1, feedbackCloses
  <2>8. Ready(s) => Orderly(s, r) /\ r.state \notin Transferring
    BY <2>7, RestingOrderly DEF Preparing, Gathering, Transferring
  <2> QED
    BY <2>6, <2>8 DEF r
<1> QED
  BY <1>1, <1>2, <1>3

\* A heartbeat names nothing.
LEMMA HeardWithin ==
    ASSUME NEW L, NEW s, Typed(s), Within(L, s), NEW msg \in Messages
    PROVE  Within(L, Heard(s, msg))
<1> DEFINE known == msg.name \in Members(s)
           subscribed == [s EXCEPT !.detailSubscribed = @ \/ msg.watcher]
           resent == IF msg.discovery /\ (known \/ msg.watcher)
                     THEN resendControlMessage(subscribed) ELSE subscribed
           heard == IF known
                    THEN [resent EXCEPT !.details[msg.name] = Updated(@, msg.report)]
                    ELSE resent
<1>1. PICK S \in SUBSET Names : s \in Server(S)
  BY DEF Typed
<1>2. Typed(subscribed) /\ subscribed.cancelId = s.cancelId
  <2>1. (s.detailSubscribed \/ msg.watcher) \in BOOLEAN
    OBVIOUS
  <2>2. subscribed \in Server(S)
    BY <1>1, <2>1, ZenonT(60) DEF Server
  <2>3. subscribed.cancelId = s.cancelId
    BY <1>1 DEF Server
  <2> QED
    BY <2>2, <2>3 DEF Typed
<1>3. Typed(resent) /\ resent.cancelId = s.cancelId
  <2> HIDE DEF subscribed
  <2>1. Typed(resendControlMessage(subscribed))
    BY <1>2, resendControlTyped
  <2>2. resendControlMessage(subscribed).cancelId = subscribed.cancelId
    BY <1>2 DEF resendControlMessage, Typed, Server
  <2> QED
    BY <1>2, <2>1, <2>2
<1>4. heard.cancelId = s.cancelId
  <2> HIDE DEF resent
  <2> QED
    BY <1>3 DEF Typed, Server
<1>5. Heard(s, msg).cancelId = s.cancelId
  BY <1>4 DEF Heard
<1> QED
  BY <1>5, HeardNear, HeardKeeps, SameWithin DEF Near

\* A message is noted, and may answer.
LEMMA OnDomainGood ==
    ASSUME NEW L, NoId \in L, NEW s, Typed(s), Sound(s), Within(L, s), s.posted = <<>>,
           NEW msg \in Messages
    PROVE  Within(L, OnDomain(s, msg)) /\ (Ready(s) => Orderly(s, OnDomain(s, msg)))
<1> DEFINE h == Heard(s, msg)
<1>1. Typed(h) /\ Near(h, s) /\ Sound(h) /\ Within(L, h) /\ h.posted = <<>>
  BY HeardTyped, HeardNear, NearSound, HeardWithin, HeardKeeps
<1>2. msg.answer \in Answer
  BY ServerAssumption DEF Message
<1>3. OnDomain(s, msg) \in {s, h, configAnswer(h, msg.answer)}
  BY DEF OnDomain
<1> HIDE DEF h
<1>4. Within(L, configAnswer(h, msg.answer))
  BY <1>1, <1>2, configAnswerWithin
<1>5. ASSUME Ready(s)
      PROVE  Orderly(s, s) /\ Orderly(s, h) /\ Orderly(s, configAnswer(h, msg.answer))
  <2>0. Orderly(s, s)
    BY <1>5, NothingPosted, StillOrderly DEF Stays
  <2>1. Ready(h) /\ Orderly(s, h)
    BY <1>1, <1>5, NothingPosted, StillOrderly DEF Near, Stays, Ready, OpenAt
  <2>2. Orderly(h, configAnswer(h, msg.answer))
    BY <1>1, <1>2, <2>1, configAnswerOrderly
  <2> QED
    BY <1>1, <2>0, <2>1, <2>2 DEF Orderly, Stays, Near
<1> QED
  BY <1>1, <1>3, <1>4, <1>5

\* The loop of the tick posts reports only, about the upgrade.
LEMMA LoopedPosts ==
    ASSUME NEW L, NEW s, Typed(s), Within(L, s), s.posted = <<>>, NEW silent, NEW overdue
    PROVE  LET r == Looped(s, silent, overdue) IN Within(L, r) /\ OnlyFeeds(r.posted)
<1> DEFINE started == Started(s, silent, overdue)
           finishing == Finishing(s, silent, overdue)
           visited == Visited(s, silent, overdue)
           n == IF s.control = "CTL_DEPLOY" THEN Cardinality(finishing) ELSE 0
           body(m) == IF m \in visited THEN Seen(s, silent)[m] ELSE s.details[m]
           details == [m \in Members(s) |->
              [body(m) EXCEPT !.deploy = (@ /\ m \notin finishing) \/ started[m]]]
           depends == DependsAt(s, silent, overdue, started, Members(s))
           sent == s.sent \o [i \in 1..n |-> Resent(s, silent, overdue, started, i)]
           report == Feed(s, "TP_DEPLOY", "EXE_SCHEDULED", "RS_SUCCESS")
           reports == [i \in 1..n |-> report]
           posted == s.posted \o reports
           r == Looped(s, silent, overdue)
<1>1. r = [s EXCEPT !.details = details, !.depends = depends, !.sent = sent,
                    !.posted = posted]
  BY DEF Looped
<1>2. report \in NamedEvent(L) /\ report.req = "REQ_FEEDBACK"
  <2>1. report.req = "REQ_FEEDBACK"
    BY DEF Feed
  <2>2. "TP_DEPLOY" \in FeedType
    BY DEF FeedType
  <2> QED
    BY <2>1, <2>2, FeedNamed
<1>3. n \in Nat
  <2>1. PICK S \in SUBSET Names : s \in Server(S)
    BY DEF Typed
  <2> QED
    BY <2>1, FinishingFinite
<1> HIDE DEF n, report
<1>4. reports \in Seq(NamedEvent(L)) /\ DOMAIN reports = 1..n
  BY <1>2, <1>3
<1>5. posted = reports
  BY <1>4
<1>6. OnlyFeeds(posted)
  <2>1. \A i \in DOMAIN reports : reports[i] = report
    BY <1>4
  <2> HIDE DEF reports, posted
  <2> QED
    BY <1>2, <1>5, <2>1 DEF OnlyFeeds
<1> HIDE DEF details, depends, sent, posted, reports, r
<1>7. r.posted = posted /\ r.upgrade = s.upgrade /\ r.cancelId = s.cancelId
  BY <1>1 DEF Typed, Server
<1>8. Within(L, r) /\ OnlyFeeds(r.posted)
  BY <1>4, <1>5, <1>6, <1>7 DEF Within
<1> QED
  BY <1>8 DEF r

\* The gathering part asks for a download or moves among the states before it.
LEMMA GatheredGood ==
    ASSUME NEW L, NEW s, Typed(s), Within(L, s), OnlyFeeds(s.posted), NEW vaild \in BOOLEAN
    PROVE  LET r == Gathered(s, vaild) IN
           Within(L, r) /\ (Ready(s) /\ OpenAt(s) => Orderly(s, r))
<1> DEFINE Early == {"MR_RESUME_ASK", "MR_READY", "MR_DOWNLOAD_ASK", "MR_PENDING"}
           r == Gathered(s, vaild)
<1>1. ASSUME NEW state \in Early
      PROVE  /\ Within(L, setState(s, state))
             /\ setState(s, state).state = state /\ setState(s, state).upgrade = s.upgrade
  <2>1. state \in ServerState
    BY DEF ServerState
  <2> QED
    BY <2>1, setStateWithin, setStateEffect DEF Same
<1>2. Within(L, download(s))
  BY downloadWithin
<1>3. \/ r = s
      \/ /\ r = download(s) /\ s.state \in Gathering
         /\ s.upgrade.download # "MTHD_SKIP"
      \/ \E state \in Early :
           /\ r = setState(s, state) /\ s.state \in Gathering
           /\ state = "MR_DOWNLOAD_ASK" => s.upgrade.download = "MTHD_ATTEMPT"
  BY DEF Gathered, Gathering
<1> HIDE DEF r
<1>4. Within(L, r)
  BY <1>1, <1>2, <1>3
<1>5. ASSUME Ready(s), OpenAt(s) PROVE Orderly(s, r)
  <2>1. CASE r = s
    BY <1>5, <2>1, StillOrderly DEF Stays
  <2>2. CASE r = download(s) /\ s.state \in Gathering /\ s.upgrade.download # "MTHD_SKIP"
    <3>1. s.upgrade.id \in Ids
      BY <1>5, <2>2 DEF Ready, Preparing
    <3> QED
      BY <1>5, <2>2, <3>1, downloadOrderly
  <2>3. ASSUME NEW state \in Early, r = setState(s, state), s.state \in Gathering,
               state = "MR_DOWNLOAD_ASK" => s.upgrade.download = "MTHD_ATTEMPT"
        PROVE  Orderly(s, r)
    BY <1>1, <1>5, <2>3 DEF Orderly, Ready, Preparing, Transferring
  <2> QED
    BY <1>3, <2>1, <2>2, <2>3
<1> QED
  BY <1>4, <1>5 DEF r

\* The waiting part leaves the waiting to others.
LEMMA WaitedGood ==
    ASSUME NEW L, NEW s, Typed(s), Within(L, s), NEW waiting \in BOOLEAN
    PROVE  LET r == Waited(s, waiting) IN
           Within(L, r) /\ (r = s \/ r.state \notin Preparing)
<1>1. ASSUME NEW state \in {"MR_DEPLOY_ASK", "MR_WAIT"}
      PROVE  Within(L, setState(s, state)) /\ setState(s, state).state = state
  <2>1. state \in ServerState
    BY DEF ServerState
  <2> QED
    BY <2>1, setStateWithin, setStateEffect
<1>2. Within(L, deploy(s)) /\ deploy(s).state = "MR_DEPLOY"
  BY deployWithin, deployEffect
<1>3. Waited(s, waiting) \in {s, deploy(s), setState(s, "MR_DEPLOY_ASK"),
                              setState(s, "MR_WAIT")}
  BY DEF Waited
<1>4. {"MR_DEPLOY_ASK", "MR_WAIT", "MR_DEPLOY"} \cap Preparing = {}
  BY DEF Preparing, Gathering, Transferring
<1> QED
  BY <1>1, <1>2, <1>3, <1>4

\* The tick: reports, perhaps a download, perhaps the end.
LEMMA processDomainsGood ==
    ASSUME NEW L, NoId \in L, NEW s, Typed(s), Within(L, s), s.posted = <<>>, Watching(s),
           NEW late \in BOOLEAN, NEW silent \in SUBSET Members(s),
           NEW overdue \in SUBSET Members(s)
    PROVE  LET r == processDomains(s, late, silent, overdue) IN
           Within(L, r) /\ (Ready(s) => Orderly(s, r))
<1> DEFINE looped == Looped(s, silent, overdue)
           vaild == AllVaild(s, silent)
           waiting == AllWaiting(s, silent)
           gathered == Gathered(looped, vaild)
           waited == Waited(gathered, waiting)
           r == processDomains(s, late, silent, overdue)
<1>0. /\ vaild \in BOOLEAN /\ waiting \in BOOLEAN /\ Silent(s) /\ OpenAt(s)
  BY NothingPosted DEF AllVaild, AllWaiting, Watching, OpenAt
<1>1. r \in {feedback(s, FALSE), feedback(looped, FALSE), feedback(gathered, TRUE),
             feedback(waited, TRUE), feedback(waited, FALSE), waited}
  BY DEF processDomains
<1>2. /\ Typed(looped) /\ Within(L, looped) /\ OnlyFeeds(looped.posted)
      /\ Silent(looped) /\ Near(looped, s)
  <2>1. Typed(looped)
    BY MembersTyped, LoopedTyped DEF Typed
  <2> QED
    BY <1>0, <2>1, LoopedPosts, LoopedSilent, LoopedNear
<1> HIDE DEF looped, vaild, waiting, r
<1>3. OpenAt(looped) /\ (Ready(s) => Ready(looped))
  BY <1>0, <1>2 DEF Near, OpenAt, Ready
<1>4. /\ Typed(gathered) /\ Within(L, gathered) /\ Silent(gathered)
      /\ OpenAt(gathered) /\ (Ready(s) => Orderly(looped, gathered))
  <2>1. Typed(gathered) /\ Within(L, gathered) /\ Onward(looped, gathered)
    BY <1>0, <1>2, GatheredTyped, GatheredGood, GatheredOnward
  <2>2. Ready(s) => Orderly(looped, gathered)
    BY <1>0, <1>2, <1>3, GatheredGood
  <2> HIDE DEF gathered
  <2> QED
    BY <1>3, <2>1, <2>2 DEF Onward, OpenAt
<1> HIDE DEF gathered
<1>5. /\ Typed(waited) /\ Within(L, waited) /\ Silent(waited) /\ OpenAt(waited)
      /\ waited = gathered \/ waited.state \notin Preparing
  <2>1. /\ Typed(waited) /\ Within(L, waited) /\ Onward(gathered, waited)
        /\ waited = gathered \/ waited.state \notin Preparing
    BY <1>0, <1>4, WaitedTyped, WaitedGood, WaitedOnward
  <2> HIDE DEF waited
  <2> QED
    BY <1>4, <2>1 DEF Onward, OpenAt
<1> HIDE DEF waited
<1>6. Ready(s) => Orderly(s, waited)
  <2>1. Ready(s) => Orderly(looped, waited)
    BY <1>4, <1>5, RestingOrderly
  <2> QED
    BY <1>2, <2>1 DEF Orderly, Stays, Near
<1>7. ASSUME NEW x \in {s, looped, gathered, waited}, NEW finished \in BOOLEAN
      PROVE  Within(L, feedback(x, finished)) /\ Orderly(s, feedback(x, finished))
  <2>1. Typed(x) /\ Within(L, x) /\ Silent(x) /\ OpenAt(x)
    BY <1>0, <1>2, <1>3, <1>4, <1>5
  <2> QED
    BY <2>1, feedbackWithin, feedbackOrderly
<1>8. Within(L, r) /\ (Ready(s) => Orderly(s, r))
  BY <1>1, <1>5, <1>6, <1>7
<1> QED
  BY <1>8 DEF r

-----------------------------------------------------------------------------
(***************************************************************************)
(* Sequences of events.                                                    *)
(***************************************************************************)

\* A sequence over a set is one over a larger set.
LEMMA SeqSubset ==
    ASSUME NEW S, NEW T, S \subseteq T, NEW p \in Seq(S)
    PROVE  p \in Seq(T)
  OBVIOUS

\* Where the elements of p \o q, Append(p, e) and Tail(p) come from.
LEMMA ConcatElements ==
    ASSUME NEW S, NEW p \in Seq(S), NEW q \in Seq(S)
    PROVE  /\ \A i \in DOMAIN p : i \in DOMAIN (p \o q) /\ (p \o q)[i] = p[i]
           /\ \A i \in DOMAIN q :
                Len(p) + i \in DOMAIN (p \o q) /\ (p \o q)[Len(p) + i] = q[i]
           /\ \A i \in DOMAIN (p \o q) :
                \/ i \in DOMAIN p /\ (p \o q)[i] = p[i]
                \/ /\ i - Len(p) \in DOMAIN q /\ i > Len(p)
                   /\ (p \o q)[i] = q[i - Len(p)]
<1> DEFINE r == p \o q
<1>1. /\ DOMAIN p = 1..Len(p) /\ DOMAIN q = 1..Len(q) /\ Len(p) \in Nat /\ Len(q) \in Nat
      /\ DOMAIN r = 1..(Len(p) + Len(q))
  OBVIOUS
<1>2. \A i \in 1..(Len(p) + Len(q)) : r[i] = IF i <= Len(p) THEN p[i] ELSE q[i - Len(p)]
  OBVIOUS
<1> HIDE DEF r
<1>3. \A i \in DOMAIN p : i \in DOMAIN r /\ r[i] = p[i]
  BY <1>1, <1>2
<1>4. \A i \in DOMAIN q : Len(p) + i \in DOMAIN r /\ r[Len(p) + i] = q[i]
  BY <1>1, <1>2
<1>5. \A i \in DOMAIN r :
         \/ i \in DOMAIN p /\ r[i] = p[i]
         \/ (i - Len(p) \in DOMAIN q /\ i > Len(p) /\ r[i] = q[i - Len(p)])
  BY <1>1, <1>2
<1> QED
  BY <1>3, <1>4, <1>5 DEF r

\* The same of Append,
LEMMA AppendElements ==
    ASSUME NEW S, NEW p \in Seq(S), NEW e
    PROVE  /\ \A i \in DOMAIN p : i \in DOMAIN Append(p, e) /\ Append(p, e)[i] = p[i]
           /\ Len(p) + 1 \in DOMAIN Append(p, e) /\ Append(p, e)[Len(p) + 1] = e
           /\ \A i \in DOMAIN Append(p, e) :
                (i \in DOMAIN p /\ Append(p, e)[i] = p[i]) \/ Append(p, e)[i] = e
<1> DEFINE q == Append(p, e)
<1>1. /\ DOMAIN p = 1..Len(p) /\ Len(p) \in Nat /\ DOMAIN q = 1..(Len(p) + 1)
      /\ q[Len(p) + 1] = e /\ \A i \in 1..Len(p) : q[i] = p[i]
  OBVIOUS
<1> HIDE DEF q
<1>2. \A i \in DOMAIN q : (i \in DOMAIN p /\ q[i] = p[i]) \/ q[i] = e
  BY <1>1
<1> QED
  BY <1>1, <1>2 DEF q

\* and of Tail.
LEMMA TailElements ==
    ASSUME NEW S, NEW p \in Seq(S), p # <<>>
    PROVE  /\ 1 \in DOMAIN p /\ p[1] = Head(p) /\ Head(p) \in S
           /\ Tail(p) \in Seq(S)
           /\ \A i \in DOMAIN Tail(p) :
                i + 1 \in DOMAIN p /\ i + 1 \in 2..Len(p) /\ Tail(p)[i] = p[i + 1]
           /\ \A i \in DOMAIN p : i # 1 => i - 1 \in DOMAIN Tail(p) /\ Tail(p)[i - 1] = p[i]
<1> DEFINE q == Tail(p)
<1>1. /\ DOMAIN p = 1..Len(p) /\ Len(p) \in Nat /\ Len(p) >= 1
      /\ q \in Seq(S) /\ DOMAIN q = 1..(Len(p) - 1)
      /\ \A i \in 1..(Len(p) - 1) : q[i] = p[i + 1]
      /\ p[1] = Head(p) /\ Head(p) \in S
  OBVIOUS
<1> HIDE DEF q
<1>2. \A i \in DOMAIN q : i + 1 \in DOMAIN p /\ i + 1 \in 2..Len(p) /\ q[i] = p[i + 1]
  BY <1>1
<1>3. \A i \in DOMAIN p : i # 1 => i - 1 \in DOMAIN q /\ q[i - 1] = p[i]
  BY <1>1
<1> QED
  BY <1>1, <1>2, <1>3 DEF q

\* What p \o q asks for.
LEMMA ConcatAsks ==
    ASSUME NEW S, NEW p \in Seq(S), NEW q \in Seq(S), NEW req
    PROVE  /\ Asks(q, req) => Asks(p \o q, req)
           /\ Asks(p, req) /\ OnlyFeeds(q) => Asks(p \o q, req)
           /\ OnlyFeeds(p) /\ OnlyFeeds(q) => OnlyFeeds(p \o q)
<1> DEFINE r == p \o q
<1>1. /\ \A i \in DOMAIN p : i \in DOMAIN r /\ r[i] = p[i]
      /\ \A i \in DOMAIN q : Len(p) + i \in DOMAIN r /\ r[Len(p) + i] = q[i]
      /\ \A i \in DOMAIN r : \/ i \in DOMAIN p /\ r[i] = p[i]
                             \/ (i - Len(p) \in DOMAIN q /\ i > Len(p) /\ r[i] = q[i - Len(p)])
  BY ConcatElements
<1>2. /\ DOMAIN p = 1..Len(p) /\ DOMAIN q = 1..Len(q) /\ Len(p) \in Nat /\ Len(q) \in Nat
      /\ DOMAIN r = 1..(Len(p) + Len(q))
  OBVIOUS
<1> HIDE DEF r
<1>3. ASSUME Asks(q, req) PROVE Asks(r, req)
  <2>1. PICK i \in DOMAIN q : q[i].req = req
                              /\ \A j \in DOMAIN q : j > i => q[j].req = "REQ_FEEDBACK"
    BY <1>3 DEF Asks
  <2>2. Len(p) + i \in DOMAIN r /\ r[Len(p) + i].req = req
    BY <1>1, <2>1
  <2>3. ASSUME NEW j \in DOMAIN r, j > Len(p) + i PROVE r[j].req = "REQ_FEEDBACK"
    <3>1. j - Len(p) \in DOMAIN q /\ r[j] = q[j - Len(p)] /\ j - Len(p) > i
      BY <1>1, <1>2, <2>1, <2>3
    <3> QED
      BY <2>1, <3>1
  <2> QED
    BY <2>2, <2>3 DEF Asks
<1>4. ASSUME Asks(p, req), OnlyFeeds(q) PROVE Asks(r, req)
  <2>1. PICK i \in DOMAIN p : p[i].req = req
                              /\ \A j \in DOMAIN p : j > i => p[j].req = "REQ_FEEDBACK"
    BY <1>4 DEF Asks
  <2>2. i \in DOMAIN r /\ r[i].req = req
    BY <1>1, <2>1
  <2>3. ASSUME NEW j \in DOMAIN r, j > i PROVE r[j].req = "REQ_FEEDBACK"
    BY <1>1, <1>4, <2>1, <2>3 DEF OnlyFeeds
  <2> QED
    BY <2>2, <2>3 DEF Asks
<1>5. OnlyFeeds(p) /\ OnlyFeeds(q) => OnlyFeeds(r)
  BY <1>1 DEF OnlyFeeds
<1> QED
  BY <1>3, <1>4, <1>5 DEF r

\* What is left to ask for when the first event has been taken.
LEMMA TailAsks ==
    ASSUME NEW S, NEW p \in Seq(S), p # <<>>, NEW req
    PROVE  /\ Asks(p, req) =>
                Asks(Tail(p), req) \/ (Head(p).req = req /\ OnlyFeeds(Tail(p)))
           /\ OnlyFeeds(p) => OnlyFeeds(Tail(p)) /\ Head(p).req = "REQ_FEEDBACK"
<1> DEFINE q == Tail(p)
<1>1. /\ 1 \in DOMAIN p /\ p[1] = Head(p)
      /\ \A i \in DOMAIN q : i + 1 \in DOMAIN p /\ i + 1 \in 2..Len(p) /\ q[i] = p[i + 1]
      /\ \A i \in DOMAIN p : i # 1 => i - 1 \in DOMAIN q /\ q[i - 1] = p[i]
  BY TailElements
<1>2. DOMAIN p = 1..Len(p) /\ DOMAIN q \subseteq Int
  OBVIOUS
<1> HIDE DEF q
<1>3. ASSUME Asks(p, req) PROVE Asks(q, req) \/ (Head(p).req = req /\ OnlyFeeds(q))
  <2>1. PICK i \in DOMAIN p : p[i].req = req
                              /\ \A j \in DOMAIN p : j > i => p[j].req = "REQ_FEEDBACK"
    BY <1>3 DEF Asks
  <2>2. CASE i = 1
    <3>1. ASSUME NEW j \in DOMAIN q PROVE q[j].req = "REQ_FEEDBACK"
      <4>1. j + 1 \in DOMAIN p /\ j + 1 > i /\ q[j] = p[j + 1]
        BY <1>1, <2>2, <3>1
      <4> QED
        BY <2>1, <4>1
    <3> QED
      BY <1>1, <2>1, <2>2, <3>1 DEF OnlyFeeds
  <2>3. CASE i # 1
    <3>1. i - 1 \in DOMAIN q /\ q[i - 1].req = req
      BY <1>1, <2>1, <2>3
    <3>2. ASSUME NEW j \in DOMAIN q, j > i - 1 PROVE q[j].req = "REQ_FEEDBACK"
      <4>1. j + 1 \in DOMAIN p /\ j + 1 > i /\ q[j] = p[j + 1]
        BY <1>1, <1>2, <2>1, <3>2
      <4> QED
        BY <2>1, <4>1
    <3> QED
      BY <3>1, <3>2 DEF Asks
  <2> QED
    BY <2>2, <2>3
<1>4. OnlyFeeds(p) => OnlyFeeds(q) /\ Head(p).req = "REQ_FEEDBACK"
  BY <1>1 DEF OnlyFeeds
<1> QED
  BY <1>3, <1>4 DEF q

\* Who asks for something has posted more than feeds.
LEMMA AsksMore ==
    ASSUME NEW p, NEW req, req # "REQ_FEEDBACK", Asks(p, req)
    PROVE  ~OnlyFeeds(p) /\ p # <<>>
<1>1. PICK i \in DOMAIN p : p[i].req = req
  BY DEF Asks
<1>2. p # <<>>
  BY <1>1
<1> QED
  BY <1>1, <1>2 DEF OnlyFeeds

-----------------------------------------------------------------------------
(***************************************************************************)
(* The steps of the engine.                                                *)
(***************************************************************************)

\* The server again when its outputs have been taken.
LEMMA FreshKeeps ==
    ASSUME NEW r, Typed(r)
    PROVE  /\ Typed(Fresh(r)) /\ Fresh(r).posted = <<>>
           /\ Fresh(r).state = r.state /\ Fresh(r).upgrade = r.upgrade
           /\ Fresh(r).cancelId = r.cancelId /\ Fresh(r).control = r.control
           /\ Fresh(r).feedType = r.feedType /\ Fresh(r).hasFeed = r.hasFeed
           /\ Ready(r) => Ready(Fresh(r))
<1>1. /\ Typed(Fresh(r)) /\ Fresh(r).posted = <<>>
      /\ Fresh(r).state = r.state /\ Fresh(r).upgrade = r.upgrade
      /\ Fresh(r).cancelId = r.cancelId /\ Fresh(r).control = r.control
      /\ Fresh(r).feedType = r.feedType /\ Fresh(r).hasFeed = r.hasFeed
  BY FreshTyped, ZenonT(60) DEF Fresh, Typed, Server
<1>2. Ready(r) => Ready(Fresh(r))
  BY <1>1 DEF Ready, OpenAt
<1> QED
  BY <1>1, <1>2

\* What is left alone, or only read from, while the engine takes a step.
Calm == /\ UNCHANGED <<hubVars, used, inited>>
        /\ toEngine' \in Seq(EngineEvent) /\ toEngine' \in Seq(LiveEvent(Live))

\* An engine's step to r keeps the type, the server's invariant, what is named and
\* what is accounted for.
LEMMA StepSafe ==
    ASSUME WInv, NEW r, Typed(r), Sound(r), Within(Named, r), Step(r), Calm
    PROVE  /\ IInv' /\ srv'.posted = <<>>
           /\ toWeb' \in Seq(WebEvent) /\ AllNamed' /\ Accounted'
<1>1. Typed(srv') /\ Sound(srv') /\ srv'.posted = <<>>
  BY FreshKeeps, FreshSound DEF Step
<1>2. IInv'
  BY <1>1 DEF IInv, TypeOK, WInv, Calm, Typed
<1>3. r.posted \in Seq(WebEvent) /\ toWeb \in Seq(WebEvent) /\ toWeb' = toWeb \o r.posted
  BY DEF Step, WInv, WebTyped, Typed, Server
<1>4. Named' = Named /\ Live' = Live
  BY DEF Calm, Named, Live, hubVars
<1>5. AllNamed'
  <2>1. toWeb' \in Seq(NamedEvent(Named))
    BY <1>3 DEF WInv, AllNamed, Within
  <2>2. Within(Named, Fresh(r))
    <3>1. <<>> \in Seq(NamedEvent(Named))
      OBVIOUS
    <3>2. Fresh(r).posted \in Seq(NamedEvent(Named))
      BY <3>1, FreshKeeps
    <3> QED
      BY <3>2, FreshKeeps DEF Within
  <2> HIDE DEF Named
  <2> QED
    BY <1>4, <2>1, <2>2 DEF AllNamed, Calm, Step
<1>6. Accounted'
  <2> SUFFICES ASSUME used.losses = 0, NEW id \in Ids, id \in closed'
               PROVE  id \in told \/ DeployWaits(toWeb', id)
    BY DEF Accounted, Calm, hubVars
  <2>1. CASE id \in closed
    <3>1. id \in told \/ DeployWaits(toWeb, id)
      BY <2>1 DEF WInv, Accounted
    <3>2. DeployWaits(toWeb, id) => DeployWaits(toWeb', id)
      BY <1>3, ConcatElements DEF DeployWaits
    <3> QED
      BY <3>1, <3>2
  <2>2. CASE id \notin closed
    <3>1. DeployWaits(r.posted, id)
      BY <2>2 DEF Step, DeployWaits
    <3>2. DeployWaits(toWeb', id)
      <4>1. PICK i \in DOMAIN r.posted : /\ Closed(r.posted[i])
                                         /\ r.posted[i].type = "TP_DEPLOY" /\ r.posted[i].id = id
        BY <3>1 DEF DeployWaits
      <4>2. Len(toWeb) + i \in DOMAIN toWeb' /\ toWeb'[Len(toWeb) + i] = r.posted[i]
        BY <1>3, ConcatElements, SMTT(30)
      <4> QED
        BY <4>1, <4>2 DEF DeployWaits
    <3> QED
      BY <3>2
  <2> QED
    BY <2>1, <2>2
<1> QED
  BY <1>1, <1>2, <1>3, <1>5, <1>6

\* The events the engine handles keep its type and invariant, and name what is Live.
LEMMA HandledSafe ==
    ASSUME WInv, NEW e \in EngineEvent, e \in LiveEvent(Live)
    PROVE  LET r == Handled(srv, e) IN Typed(r) /\ Sound(r) /\ Within(Named, r)
<1>1. /\ Typed(srv) /\ Sound(srv) /\ Within(Named, srv) /\ srv.posted = <<>>
      /\ NoId \in Named /\ Live \subseteq Named
  BY DEF WInv, IInv, TypeOK, Typed, AllNamed, Named
<1>2. CASE e.ev = "RES_INIT"
  <2>1. Handled(srv, e) = OnInit(srv, TRUE)
    BY <1>2 DEF Handled
  <2> QED
    BY <1>1, <2>1, OnInitTyped, OnInitSound, OnInitGood
<1>3. CASE e.ev = "REQ_ACTIVE"
  <2>1. Handled(srv, e) = OnActive(srv, e.active) /\ e.active \in BOOLEAN
    BY <1>3 DEF Handled, EngineEvent
  <2> QED
    BY <1>1, <2>1, OnActiveGood
<1>4. CASE e.ev = "REQ_IDLE"
  <2>1. Handled(srv, e) = OnIdle(srv) /\ OnIdle(srv) \in {srv, idle(srv)}
    BY <1>4 DEF Handled, OnIdle
  <2> QED
    BY <1>1, <2>1, idleTyped, idleSound, OnIdleGood DEF Sound
<1>5. CASE e.ev = "REQ_UPGRADE"
  <2>1. /\ Handled(srv, e) = OnUpgrade(srv, e.upgrade) /\ e.upgrade \in Upgrades
        /\ e.upgrade.id \in Named
    BY <1>1, <1>5 DEF Handled, EngineEvent, LiveEvent
  <2> QED
    BY <1>1, <2>1, OnUpgradeTyped, OnUpgradeSound, OnUpgradeGood
<1>6. CASE e.ev = "REQ_CANCEL"
  <2>1. Handled(srv, e) = OnCancel(srv, e.id) /\ e.id \in Ids /\ e.id \in Named
    BY <1>1, <1>6 DEF Handled, EngineEvent, LiveEvent
  <2> QED
    BY <1>1, <2>1, OnCancelTyped, OnCancelSound, OnCancelGood
<1>7. CASE e.ev = "REQ_PULL"
  <2> DEFINE distributing == mode = "WEB_DISTRIBUTE"
  <2>1. Handled(srv, e) = OnPull(srv, distributing) /\ distributing \in BOOLEAN
    BY <1>7 DEF Handled
  <2> HIDE DEF distributing
  <2> QED
    BY <1>1, <2>1, OnPullTyped, OnPullSound, OnPullGood
<1>8. CASE e.ev = "RES_ERROR"
  <2>1. Handled(srv, e) = OnError(srv)
    BY <1>8 DEF Handled
  <2> QED
    BY <1>1, <2>1, OnErrorTyped, OnErrorSound, OnErrorGood
<1>9. CASE e.ev \in {"REQ_DOWNLOAD", "REQ_VERIFY", "REQ_DISTRIBUTE"}
  <2>1. Handled(srv, e) \in {OnDownloadDone(srv), OnVerifyDone(srv), OnDistributeDone(srv)}
    BY <1>9 DEF Handled
  <2> QED
    BY <1>1, <2>1, OnResultTyped, OnResultSound, OnDoneGood
<1>10. e.ev \in {"RES_INIT", "REQ_IDLE", "REQ_PULL", "RES_ERROR", "REQ_ACTIVE",
                 "REQ_UPGRADE", "REQ_CANCEL", "REQ_DOWNLOAD", "REQ_VERIFY", "REQ_DISTRIBUTE"}
  BY DEF EngineEvent
<1> QED
  BY <1>2, <1>3, <1>4, <1>5, <1>6, <1>7, <1>8, <1>9, <1>10


-----------------------------------------------------------------------------
(***************************************************************************)
(* What the engine waits for, over a step of its own.                      *)
(***************************************************************************)

\* The events of a queue that has been added to, or whose first has been taken.
LEMMA RangeConcat ==
    ASSUME NEW S, NEW p \in Seq(S), NEW q \in Seq(S)
    PROVE  Range(p \o q) = Range(p) \cup Range(q)
<1> DEFINE r == p \o q
<1>1. /\ \A i \in DOMAIN p : i \in DOMAIN r /\ r[i] = p[i]
      /\ \A i \in DOMAIN q : Len(p) + i \in DOMAIN r /\ r[Len(p) + i] = q[i]
      /\ \A i \in DOMAIN r : \/ i \in DOMAIN p /\ r[i] = p[i]
                             \/ (i - Len(p) \in DOMAIN q /\ r[i] = q[i - Len(p)])
  BY ConcatElements
<1> HIDE DEF r
<1>2. Range(r) \subseteq Range(p) \cup Range(q)
  BY <1>1 DEF Range
<1>3. Range(p) \subseteq Range(r) /\ Range(q) \subseteq Range(r)
  BY <1>1 DEF Range
<1> QED
  BY <1>2, <1>3 DEF r

\* The same of Append,
LEMMA RangeAppend ==
    ASSUME NEW S, NEW p \in Seq(S), NEW e
    PROVE  Range(Append(p, e)) = Range(p) \cup {e}
<1> DEFINE r == Append(p, e)
<1>1. /\ \A i \in DOMAIN p : i \in DOMAIN r /\ r[i] = p[i]
      /\ Len(p) + 1 \in DOMAIN r /\ r[Len(p) + 1] = e
      /\ \A i \in DOMAIN r : (i \in DOMAIN p /\ r[i] = p[i]) \/ r[i] = e
  BY AppendElements
<1> HIDE DEF r
<1>2. Range(r) \subseteq Range(p) \cup {e}
  BY <1>1 DEF Range
<1>3. Range(p) \subseteq Range(r) /\ e \in Range(r)
  BY <1>1 DEF Range
<1> QED
  BY <1>2, <1>3 DEF r

\* and of Tail: what is left is at the places after the first.
LEMMA RangeTail ==
    ASSUME NEW S, NEW p \in Seq(S), p # <<>>
    PROVE  /\ Range(p) = {Head(p)} \cup Range(Tail(p))
           /\ \A e \in Range(Tail(p)) : \E i \in 2..Len(p) : p[i] = e
<1> DEFINE q == Tail(p)
<1>1. /\ 1 \in DOMAIN p /\ p[1] = Head(p)
      /\ \A i \in DOMAIN q : i + 1 \in DOMAIN p /\ i + 1 \in 2..Len(p) /\ q[i] = p[i + 1]
      /\ \A i \in DOMAIN p : i # 1 => i - 1 \in DOMAIN q /\ q[i - 1] = p[i]
  BY TailElements
<1> HIDE DEF q
<1>2. Range(p) \subseteq {Head(p)} \cup Range(q)
  BY <1>1 DEF Range
<1>3. Range(q) \subseteq Range(p) /\ Head(p) \in Range(p)
  BY <1>1 DEF Range
<1>4. \A e \in Range(q) : \E i \in 2..Len(p) : p[i] = e
  BY <1>1 DEF Range
<1> QED
  BY <1>2, <1>3, <1>4 DEF q

\* The engine goes on waiting when it neither posts a request nor takes an answer.
LEMMA ContinuesWaits ==
    ASSUME WInv, ~stale, NEW r, Typed(r), Step(r), UNCHANGED taskVars,
           r.state = srv.state, r.upgrade = srv.upgrade, OnlyFeeds(r.posted),
           r.control \in {srv.control, "CTL_DOWNLOAD"},
           Range(toEngine') \subseteq Range(toEngine),
           \A e \in Range(toEngine) \ Range(toEngine') :
              /\ e.ev # "RES_ERROR" /\ e.ev # Awaited
              /\ (e.ev = "REQ_PULL" /\ mode = "WEB_DISTRIBUTE" => r.control = "CTL_DOWNLOAD")
    PROVE  Expected' /\ SentFor' /\ Checked'
<1>1. r.posted \in Seq(WebEvent) /\ toWeb \in Seq(WebEvent) /\ toWeb' = toWeb \o r.posted
  BY DEF Step, WInv, WebTyped, Typed, Server
<1>2. /\ srv'.state = srv.state /\ srv'.upgrade = srv.upgrade /\ srv'.control = r.control
      /\ Awaited' = Awaited
  BY FreshKeeps DEF Step, Awaited
<1>3. /\ held' = held /\ mode' = mode /\ pulling' = pulling /\ masked' = masked
      /\ verified' = verified
  BY DEF taskVars
<1>4. /\ Asks(toWeb, Awaited) => Asks(toWeb', Awaited)
      /\ OnlyFeeds(toWeb) => OnlyFeeds(toWeb')
  BY <1>1, ConcatAsks
<1>5. OnlyFeeds(toWeb') => OnlyFeeds(toWeb)
  BY <1>1, ConcatElements DEF OnlyFeeds
<1>6. AtIt' <=> AtIt
  BY <1>2, <1>3, <1>4, <1>5 DEF AtIt
<1>7. Expected'
  <2> SUFFICES ASSUME srv.state \in Transferring PROVE Expected'
    BY <1>2 DEF Expected
  <2>1. CASE Asks(toWeb, Awaited)
    BY <1>2, <1>4, <2>1 DEF Expected
  <2>2. CASE AtIt
    BY <1>6, <2>2 DEF Expected
  <2>3. CASE OnlyFeeds(toWeb) /\ held.at # "work"
             /\ \E e \in Range(toEngine) : e.ev = "RES_ERROR" \/ e.ev = Awaited
    <3>1. \E e \in Range(toEngine') : e.ev = "RES_ERROR" \/ e.ev = Awaited
      BY <2>3
    <3> QED
      BY <1>2, <1>3, <1>4, <2>3, <3>1 DEF Expected
  <2> QED
    BY <2>1, <2>2, <2>3 DEF WInv, Expected
<1>8. SentFor'
  <2> SUFFICES ASSUME srv.state = "MR_DISTRIBUTE", AtIt, r.control # "CTL_DOWNLOAD"
               PROVE  SentFor'
    BY <1>2, <1>6 DEF SentFor
  <2>1. SentFor /\ srv.control # "CTL_DOWNLOAD"
    BY DEF WInv
  <2>2. \/ masked
        \/ mode = "WEB_DISTRIBUTE" /\ pulling
        \/ mode = "WEB_DISTRIBUTE" /\ \E e \in Range(toEngine) : e.ev = "REQ_PULL"
    BY <2>1 DEF SentFor
  <2>3. \/ masked
        \/ mode = "WEB_DISTRIBUTE" /\ pulling
        \/ mode = "WEB_DISTRIBUTE" /\ \E e \in Range(toEngine') : e.ev = "REQ_PULL"
    BY <2>2
  <2> QED
    BY <1>3, <2>3 DEF SentFor
<1>9. Checked'
  BY <1>2, <1>3 DEF WInv, Checked
<1> QED
  BY <1>7, <1>8, <1>9

\* It waits anew when it has posted a request: for a verification, of which no result
\* is under way, or for the distribution of what was verified.
LEMMA AskedWaits ==
    ASSUME WInv, ~stale, NEW r, Typed(r), Step(r), UNCHANGED taskVars,
           Asks(r.posted, RequestOf(r.state)),
           \/ r.state = "MR_DOWNLOAD"
           \/ r.state = "MR_VERIFY" /\ \A e \in Range(toEngine') : e.ev # "REQ_VERIFY"
           \/ r.state = "MR_DISTRIBUTE" /\ r.upgrade.id \in verified
    PROVE  Expected' /\ SentFor' /\ Checked'
<1>1. r.posted \in Seq(WebEvent) /\ toWeb \in Seq(WebEvent) /\ toWeb' = toWeb \o r.posted
  BY DEF Step, WInv, WebTyped, Typed, Server
<1>2. /\ srv'.state = r.state /\ srv'.upgrade = r.upgrade
      /\ Awaited' = RequestOf(r.state)
  BY FreshKeeps DEF Step, Awaited, RequestOf
<1>3. held' = held /\ verified' = verified
  BY DEF taskVars
<1>4. Asks(toWeb', Awaited')
  BY <1>1, <1>2, ConcatAsks
<1>5. Awaited' # "REQ_FEEDBACK"
  BY <1>2 DEF RequestOf
<1>6. ~AtIt'
  BY <1>4, <1>5, AsksMore DEF AtIt
<1>7. Checked'
  BY <1>2, <1>3 DEF WInv, Checked
<1> QED
  BY <1>4, <1>6, <1>7 DEF Expected, SentFor

\* A server that does not transfer waits for nothing.
LEMMA RestsWaits ==
    ASSUME WInv, ~stale, NEW r, Typed(r), Step(r), UNCHANGED taskVars,
           r.state \notin Transferring
    PROVE  Expected' /\ SentFor' /\ Checked'
<1>1. srv'.state = r.state /\ held' = held /\ verified' = verified
  BY FreshKeeps DEF Step, taskVars
<1> QED
  BY <1>1 DEF Expected, SentFor, Checked, Transferring, WInv

\* The steps of the engine that take no event.
LEMMA OrderlyWaits ==
    ASSUME WInv, ~stale, NEW r, Typed(r), Step(r), Orderly(srv, r),
           UNCHANGED taskVars, UNCHANGED toEngine
    PROVE  Expected' /\ SentFor' /\ Checked'
<1>1. CASE r.state \notin Transferring
  BY <1>1, RestsWaits
<1>2. CASE Stays(srv, r)
  BY <1>2, ContinuesWaits DEF Stays
<1>3. CASE r.state = "MR_DOWNLOAD" /\ Asks(r.posted, "REQ_DOWNLOAD")
  <2>1. RequestOf(r.state) = "REQ_DOWNLOAD"
    BY <1>3 DEF RequestOf
  <2> QED
    BY <1>3, <2>1, AskedWaits
<1> QED
  BY <1>1, <1>2, <1>3 DEF Orderly

\* What the engine makes of an event that crosses nothing: it goes on waiting, or asks
\* for what follows the result that it waited for.
Continues(e, r) ==
    /\ r.state = srv.state /\ r.upgrade = srv.upgrade /\ OnlyFeeds(r.posted)
    /\ e.ev # "RES_ERROR" /\ e.ev # Awaited
    /\ r.control \in {srv.control, "CTL_DOWNLOAD"}
    /\ (e.ev = "REQ_PULL" /\ mode = "WEB_DISTRIBUTE" => r.control = "CTL_DOWNLOAD")
Asked(e, r) ==
    /\ Asks(r.posted, RequestOf(r.state))
    /\ \/ r.state = "MR_DOWNLOAD"
       \/ r.state = "MR_VERIFY" /\ e.ev = "REQ_DOWNLOAD"
       \/ /\ r.state = "MR_DISTRIBUTE" /\ e.ev = "REQ_VERIFY"
          /\ srv.state = "MR_VERIFY" /\ r.upgrade = srv.upgrade
Proceeds(e, r) ==
    Ready(r) /\ (r.state \in Transferring => Continues(e, r) \/ Asked(e, r))

\* An event whose handler is Orderly and takes no answer.
LEMMA OrderlyProceeds ==
    ASSUME NEW e, NEW r, Orderly(srv, r), e.ev # "RES_ERROR", e.ev # Awaited,
           ~(e.ev = "REQ_PULL" /\ mode = "WEB_DISTRIBUTE")
    PROVE  Proceeds(e, r)
<1>1. RequestOf("MR_DOWNLOAD") = "REQ_DOWNLOAD"
  BY DEF RequestOf
<1> QED
  BY <1>1 DEF Proceeds, Continues, Asked, Orderly, Stays

\* Every event the engine handles, when it crosses nothing, Proceeds.
LEMMA HandledProceeds ==
    ASSUME WInv, ~stale, NEW e \in EngineEvent, e \in LiveEvent(Live), ~Crosses(e)
    PROVE  Proceeds(e, Handled(srv, e))
<1>1. /\ Typed(srv) /\ Sound(srv) /\ Within(Named, srv) /\ srv.posted = <<>>
      /\ NoId \in Named /\ Live \subseteq Named /\ Ready(srv)
  BY DEF WInv, IInv, TypeOK, Typed, AllNamed, Named
<1>2. /\ RequestOf("MR_DOWNLOAD") = "REQ_DOWNLOAD" /\ RequestOf("MR_VERIFY") = "REQ_VERIFY"
      /\ RequestOf("MR_DISTRIBUTE") = "REQ_DISTRIBUTE"
      /\ Awaited \in {"REQ_DOWNLOAD", "REQ_VERIFY", "REQ_DISTRIBUTE", "none"}
      /\ Awaited = "REQ_DOWNLOAD" => srv.state = "MR_DOWNLOAD"
      /\ Awaited = "REQ_VERIFY" => srv.state = "MR_VERIFY"
      /\ Awaited = "REQ_DISTRIBUTE" => srv.state = "MR_DISTRIBUTE"
      /\ srv.state = "MR_DISTRIBUTE" => Awaited = "REQ_DISTRIBUTE"
  BY DEF Awaited, RequestOf
<1>3. CASE e.ev = "RES_INIT"
  <2>1. Handled(srv, e) = OnInit(srv, TRUE)
    BY <1>3 DEF Handled
  <2>2. Orderly(srv, Handled(srv, e))
    BY <1>1, <2>1, OnInitGood
  <2> QED
    BY <1>2, <1>3, <2>2, OrderlyProceeds
<1>4. CASE e.ev = "REQ_ACTIVE"
  <2>1. Handled(srv, e) = OnActive(srv, e.active) /\ e.active \in BOOLEAN
    BY <1>4 DEF Handled, EngineEvent
  <2>2. Orderly(srv, Handled(srv, e))
    BY <1>1, <2>1, OnActiveGood
  <2> QED
    BY <1>2, <1>4, <2>2, OrderlyProceeds
<1>5. CASE e.ev = "REQ_IDLE"
  <2>1. Handled(srv, e) = OnIdle(srv)
    BY <1>5 DEF Handled
  <2>2. Orderly(srv, Handled(srv, e))
    BY <1>1, <2>1, OnIdleGood
  <2> QED
    BY <1>2, <1>5, <2>2, OrderlyProceeds
<1>6. CASE e.ev = "REQ_UPGRADE"
  <2>1. /\ Handled(srv, e) = OnUpgrade(srv, e.upgrade) /\ e.upgrade \in Upgrades
        /\ e.upgrade.id \in Named
    BY <1>1, <1>6 DEF Handled, EngineEvent, LiveEvent
  <2>2. Orderly(srv, Handled(srv, e))
    BY <1>1, <2>1, OnUpgradeGood
  <2> QED
    BY <1>2, <1>6, <2>2, OrderlyProceeds
<1>7. CASE e.ev = "REQ_CANCEL"
  <2>1. Handled(srv, e) = OnCancel(srv, e.id) /\ e.id \in Ids /\ e.id \in Named
    BY <1>1, <1>7 DEF Handled, EngineEvent, LiveEvent
  <2>2. Orderly(srv, Handled(srv, e))
    BY <1>1, <2>1, OnCancelGood
  <2> QED
    BY <1>2, <1>7, <2>2, OrderlyProceeds
<1>8. CASE e.ev = "REQ_PULL"
  <2> DEFINE distributing == mode = "WEB_DISTRIBUTE"
             r == OnPull(srv, distributing)
  <2>1. Handled(srv, e) = r /\ distributing \in BOOLEAN
    BY <1>8 DEF Handled
  <2>2. distributing => srv.state = "MR_DISTRIBUTE"
    BY <1>2, <1>8 DEF Crosses
  <2>3. distributing <=> mode = "WEB_DISTRIBUTE"
    OBVIOUS
  <2> HIDE DEF distributing
  <2>4. /\ ~distributing => Orderly(srv, r)
        /\ distributing => /\ Ready(r) /\ r.state = srv.state /\ r.upgrade = srv.upgrade
                           /\ r.control = "CTL_DOWNLOAD" /\ r.posted = <<>>
    BY <1>1, <2>1, <2>2, OnPullGood
  <2> HIDE DEF r
  <2>5. CASE ~distributing
    <3>1. Proceeds(e, r)
      BY <1>2, <1>8, <2>3, <2>4, <2>5, OrderlyProceeds
    <3> QED
      BY <2>1, <3>1
  <2>6. CASE distributing
    <3>1. OnlyFeeds(r.posted)
      BY <2>4, <2>6, NothingPosted
    <3>2. Continues(e, r)
      BY <1>2, <1>8, <2>4, <2>6, <3>1 DEF Continues
    <3>3. Proceeds(e, r)
      BY <2>4, <2>6, <3>2 DEF Proceeds
    <3> QED
      BY <2>1, <3>3
  <2> QED
    BY <2>5, <2>6
<1>9. CASE e.ev = "RES_ERROR"
  <2> DEFINE r == OnError(srv)
  <2>1. Handled(srv, e) = r
    BY <1>9 DEF Handled
  <2>2. /\ Orderly(srv, r)
        /\ srv.state \in Transferring =>
             \/ r.state \notin Transferring
             \/ r.state = "MR_DOWNLOAD" /\ Asks(r.posted, "REQ_DOWNLOAD")
    BY <1>1, OnErrorGood
  <2> HIDE DEF r
  <2>3. r.state \in Transferring => r.state = "MR_DOWNLOAD" /\ Asks(r.posted, "REQ_DOWNLOAD")
    BY <2>2 DEF Orderly, Stays
  <2>4. Proceeds(e, r)
    BY <1>2, <2>2, <2>3 DEF Proceeds, Asked, Orderly
  <2> QED
    BY <2>1, <2>4
<1>10. CASE e.ev \in {"REQ_DOWNLOAD", "REQ_VERIFY", "REQ_DISTRIBUTE"}
  <2>1. e.ev = Awaited
    BY <1>10 DEF Crosses, IsTask
  <2>2. CASE e.ev = "REQ_DOWNLOAD"
    <3>1. Handled(srv, e) = OnDownloadDone(srv) /\ srv.state = "MR_DOWNLOAD"
      BY <1>2, <2>1, <2>2 DEF Handled
    <3>2. LET r == OnDownloadDone(srv) IN
          Ready(r) /\ r.state = "MR_VERIFY" /\ Asks(r.posted, "REQ_VERIFY")
      BY <1>1, <3>1, OnDoneGood
    <3> QED
      BY <1>2, <2>2, <3>1, <3>2 DEF Proceeds, Asked
  <2>3. CASE e.ev = "REQ_VERIFY"
    <3>1. Handled(srv, e) = OnVerifyDone(srv) /\ srv.state = "MR_VERIFY"
      BY <1>2, <2>1, <2>3 DEF Handled
    <3>2. LET r == OnVerifyDone(srv) IN
          /\ Ready(r) /\ r.state = "MR_DISTRIBUTE" /\ r.upgrade = srv.upgrade
          /\ Asks(r.posted, "REQ_DISTRIBUTE")
      BY <1>1, <3>1, OnDoneGood
    <3> QED
      BY <1>2, <2>3, <3>1, <3>2 DEF Proceeds, Asked
  <2>4. CASE e.ev = "REQ_DISTRIBUTE"
    <3>1. Handled(srv, e) = OnDistributeDone(srv) /\ srv.state = "MR_DISTRIBUTE"
      BY <1>2, <2>1, <2>4 DEF Handled
    <3>2. OnDistributeDone(srv).state = "MR_WAIT"
      BY <1>1, <3>1, OnDoneGood
    <3> QED
      BY <3>1, <3>2 DEF Proceeds, Ready, Transferring, Preparing, Gathering
  <2> QED
    BY <1>10, <2>2, <2>3, <2>4
<1>11. e.ev \in {"RES_INIT", "REQ_IDLE", "REQ_PULL", "RES_ERROR", "REQ_ACTIVE",
                 "REQ_UPGRADE", "REQ_CANCEL", "REQ_DOWNLOAD", "REQ_VERIFY", "REQ_DISTRIBUTE"}
  BY DEF EngineEvent
<1> QED
  BY <1>3, <1>4, <1>5, <1>6, <1>7, <1>8, <1>9, <1>10, <1>11

\* The step that takes such an event.
LEMMA ProceedsWaits ==
    ASSUME WInv, ~stale, NEW r, Typed(r), Step(r), UNCHANGED taskVars,
           toEngine # <<>>, toEngine' = Tail(toEngine), ~Crosses(Head(toEngine)),
           Proceeds(Head(toEngine), r)
    PROVE  Expected' /\ SentFor' /\ Checked'
<1> DEFINE e == Head(toEngine)
<1>1. /\ Range(toEngine) = {e} \cup Range(toEngine')
      /\ \A x \in Range(toEngine') : \E i \in 2..Len(toEngine) : toEngine[i] = x
  BY RangeTail DEF WInv, WebTyped
<1> HIDE DEF e
<1>2. CASE r.state \notin Transferring
  BY <1>2, RestsWaits
<1>3. CASE Continues(e, r)
  BY <1>1, <1>3, ContinuesWaits DEF Continues
<1>4. CASE Asked(e, r)
  <2>1. CASE r.state = "MR_DOWNLOAD"
    BY <1>4, <2>1, AskedWaits DEF Asked
  <2>2. CASE r.state = "MR_VERIFY" /\ e.ev = "REQ_DOWNLOAD"
    <3>1. \A i \in 2..Len(toEngine) : toEngine[i].ev # "REQ_VERIFY"
      BY <2>2 DEF Crosses, IsTask, e
    <3>2. \A x \in Range(toEngine') : x.ev # "REQ_VERIFY"
      BY <1>1, <3>1
    <3> QED
      BY <1>4, <2>2, <3>2, AskedWaits DEF Asked
  <2>3. CASE /\ r.state = "MR_DISTRIBUTE" /\ e.ev = "REQ_VERIFY"
             /\ srv.state = "MR_VERIFY" /\ r.upgrade = srv.upgrade
    <3>1. e.of = srv.upgrade.id
      BY <2>3 DEF Crosses, IsTask, e
    <3>2. srv.upgrade.id \in Ids
      BY <2>3 DEF WInv, Ready, Preparing, Transferring
    <3>3. Checked /\ e \in Range(toEngine)
      BY <1>1 DEF WInv
    <3>4. r.upgrade.id \in verified
      BY <2>3, <3>1, <3>2, <3>3 DEF Checked
    <3> QED
      BY <1>4, <2>3, <3>4, AskedWaits DEF Asked
  <2> QED
    BY <1>4, <2>1, <2>2, <2>3 DEF Asked
<1> QED
  BY <1>2, <1>3, <1>4 DEF Proceeds, e

-----------------------------------------------------------------------------
(***************************************************************************)
(* The actions of the engine keep the invariant.                           *)
(***************************************************************************)

\* What an engine's step leaves alone.
LEMMA CalmTyped ==
    ASSUME WInv, Calm, UNCHANGED taskVars, toWeb' \in Seq(WebEvent), stale' \in BOOLEAN
    PROVE  WebTyped'
  BY DEF WInv, WebTyped, Calm, taskVars, hubVars

\* The engine takes an event of its queue.
LEMMA EngineHandlesKeeps ==
    ASSUME WInv, EngineHandles
    PROVE  WInv'
<1> DEFINE e == Head(toEngine)
           r == Handled(srv, e)
<1>1. /\ toEngine \in Seq(EngineEvent) /\ toEngine \in Seq(LiveEvent(Live))
      /\ toEngine # <<>> /\ toEngine' = Tail(toEngine) /\ stale \in BOOLEAN
  BY DEF WInv, WebTyped, AllNamed, EngineHandles
<1>2. e \in EngineEvent /\ e \in LiveEvent(Live)
  BY <1>1, TailElements
<1>3. Tail(toEngine) \in Seq(EngineEvent) /\ Tail(toEngine) \in Seq(LiveEvent(Live))
  BY <1>1, TailElements
<1>4. Calm /\ Step(r) /\ UNCHANGED taskVars /\ stale' = (stale \/ Crosses(e))
  BY <1>1, <1>3 DEF EngineHandles, Calm
<1>5. Typed(r) /\ Sound(r) /\ Within(Named, r)
  BY <1>2, HandledSafe
<1>6. ~stale /\ ~Crosses(e) => Proceeds(e, r)
  BY <1>2, HandledProceeds
<1> HIDE DEF r
<1>7. /\ IInv' /\ srv'.posted = <<>>
      /\ toWeb' \in Seq(WebEvent) /\ AllNamed' /\ Accounted'
  BY <1>4, <1>5, StepSafe
<1>8. WebTyped'
  <2>1. stale' \in BOOLEAN
    BY <1>1, <1>4
  <2> QED
    BY <1>4, <1>7, <2>1, CalmTyped
<1>9. ASSUME ~stale, ~Crosses(e)
      PROVE  Ready(srv') /\ Expected' /\ SentFor' /\ Checked'
  <2>1. Ready(srv')
    BY <1>4, <1>5, <1>6, <1>9, FreshKeeps DEF Step, Proceeds
  <2>2. Expected' /\ SentFor' /\ Checked'
    BY <1>1, <1>4, <1>5, <1>6, <1>9, ProceedsWaits DEF e
  <2> QED
    BY <2>1, <2>2
<1> QED
  BY <1>4, <1>7, <1>8, <1>9 DEF WInv

\* The steps that take no event, which are Orderly.
LEMMA OrderlyKeeps ==
    ASSUME WInv, NEW r, Typed(r), Sound(r), Within(Named, r), Ready(srv) => Orderly(srv, r),
           Step(r), UNCHANGED <<inited, toEngine, taskVars, hubVars, used, stale>>
    PROVE  WInv'
<1>1. Calm /\ UNCHANGED taskVars /\ stale' = stale /\ stale \in BOOLEAN
  BY DEF Calm, WInv, WebTyped, AllNamed
<1>2. /\ IInv' /\ srv'.posted = <<>>
      /\ toWeb' \in Seq(WebEvent) /\ AllNamed' /\ Accounted'
  BY <1>1, StepSafe
<1>3. WebTyped'
  BY <1>1, <1>2, CalmTyped
<1>4. ASSUME ~stale
      PROVE  Ready(srv') /\ Expected' /\ SentFor' /\ Checked'
  <2>1. Orderly(srv, r)
    BY <1>4 DEF WInv
  <2>2. Ready(srv')
    BY <2>1, FreshKeeps DEF Step, Orderly
  <2>3. Expected' /\ SentFor' /\ Checked'
    BY <1>1, <1>4, <2>1, OrderlyWaits
  <2> QED
    BY <2>2, <2>3
<1> QED
  BY <1>1, <1>2, <1>3, <1>4 DEF WInv

\* What the engine's lemmas ask of the server.
LEMMA ServerGood ==
    ASSUME WInv
    PROVE  /\ Typed(srv) /\ Sound(srv) /\ Within(Named, srv) /\ srv.posted = <<>>
           /\ NoId \in Named
  BY DEF WInv, IInv, TypeOK, Typed, AllNamed, Named

\* It hears a controller.
LEMMA EngineHearsKeeps ==
    ASSUME WInv, NEW msg \in Messages, EngineHears(msg)
    PROVE  WInv'
<1> DEFINE r == OnDomain(srv, msg)
<1>1. Typed(r) /\ Sound(r) /\ Within(Named, r) /\ (Ready(srv) => Orderly(srv, r))
  BY ServerGood, OnDomainTyped, OnDomainSound, OnDomainGood
<1>2. Step(r) /\ UNCHANGED <<inited, toEngine, taskVars, hubVars, used, stale>>
  BY DEF EngineHears
<1> HIDE DEF r
<1> QED
  BY <1>1, <1>2, OrderlyKeeps

\* Its timer ticks.
LEMMA EngineTicksKeeps ==
    ASSUME WInv, NEW late \in BOOLEAN, EngineTicks(late)
    PROVE  WInv'
<1> DEFINE r == processDomains(srv, late, {}, {})
<1>1. Watching(srv) /\ {} \in SUBSET Members(srv)
  BY DEF EngineTicks
<1>2. Typed(r) /\ Sound(r)
  BY <1>1, ServerGood, processDomainsTyped, processDomainsSound
<1>3. Within(Named, r) /\ (Ready(srv) => Orderly(srv, r))
  BY <1>1, ServerGood, processDomainsGood
<1>4. Step(r) /\ UNCHANGED <<inited, toEngine, taskVars, hubVars, used, stale>>
  BY DEF EngineTicks
<1> HIDE DEF r
<1> QED
  BY <1>2, <1>3, <1>4, OrderlyKeeps

-----------------------------------------------------------------------------
(***************************************************************************)
(* The actions of the web queue and of its tasks leave the server alone.   *)
(***************************************************************************)

\* The server's part of the invariant.
LEMMA ServerKept ==
    ASSUME WInv, UNCHANGED srv, inited' \in BOOLEAN
    PROVE  IInv' /\ srv'.posted = <<>> /\ (~stale => Ready(srv'))
  BY DEF WInv, IInv, TypeOK, Sound

\* No id is forgotten, so that what is named stays so.
LEMMA NamedKept ==
    ASSUME WInv, UNCHANGED srv, Live \subseteq Live',
           toWeb' \in Seq(NamedEvent(Named)), toEngine' \in Seq(LiveEvent(Live))
    PROVE  AllNamed'
<1>1. Named \subseteq Named'
  BY DEF Named
<1>2. NamedEvent(Named) \subseteq NamedEvent(Named')
  BY <1>1 DEF NamedEvent
<1>3. LiveEvent(Live) \subseteq LiveEvent(Live')
  BY DEF LiveEvent
<1>4. toWeb' \in Seq(NamedEvent(Named')) /\ toEngine' \in Seq(LiveEvent(Live'))
  BY <1>2, <1>3, SeqSubset
<1>5. Within(Named', srv)
  <2>1. srv.posted \in Seq(NamedEvent(Named))
    BY DEF WInv, AllNamed, Within
  <2>2. srv.posted \in Seq(NamedEvent(Named'))
    BY <1>2, <2>1, SeqSubset
  <2>3. srv.upgrade.id \in Named /\ srv.cancelId \in Named
    BY DEF WInv, AllNamed, Within
  <2> HIDE DEF Named
  <2> QED
    BY <1>1, <2>2, <2>3 DEF Within
<1> HIDE DEF Named, Live
<1> QED
  BY <1>4, <1>5 DEF AllNamed

\* What the update server knows, and what waits for it, only grows.
LEMMA AccountedKept ==
    ASSUME WInv, UNCHANGED <<toWeb, closed>>, told \subseteq told', used'.losses = used.losses
    PROVE  Accounted'
  BY DEF WInv, Accounted, DeployWaits

\* The results that are posted are of files that have been verified.
Posted == \A e \in Range(toEngine') \ Range(toEngine) :
             e.ev = "REQ_VERIFY" /\ e.of \in Ids => e.of \in verified'

\* The engine goes on waiting for the task at work, whatever else is posted.
LEMMA AddsWaits ==
    ASSUME WInv, ~stale, UNCHANGED <<srv, toWeb, held>>,
           Range(toEngine) \subseteq Range(toEngine'), Posted, verified \subseteq verified',
           masked => masked', mode' = mode \/ masked' \/ mode # "WEB_DISTRIBUTE",
           pulling' = pulling \/ masked'
    PROVE  Expected' /\ SentFor' /\ Checked'
<1>1. Awaited' = Awaited
  BY DEF Awaited
<1>2. AtIt' <=> AtIt
  BY <1>1 DEF AtIt
<1>3. Expected'
  BY <1>1, <1>2 DEF WInv, Expected
<1>4. SentFor'
  BY <1>2 DEF WInv, SentFor
<1>5. Checked'
  BY DEF WInv, Checked, Posted
<1> QED
  BY <1>3, <1>4, <1>5

\* It waits for its answer when its task has posted it, or is at an end.
LEMMA AnswersWaits ==
    ASSUME WInv, ~stale, UNCHANGED <<srv, toWeb>>, held'.at # "work",
           held'.kind = "REQ_DISTRIBUTE" => held'.kind = held.kind /\ held'.id = held.id,
           Range(toEngine) \subseteq Range(toEngine'), Posted, verified \subseteq verified',
           held.at = "work" =>
              \E e \in Range(toEngine') : e.ev = "RES_ERROR" \/ e.ev = held.kind
    PROVE  Expected' /\ SentFor' /\ Checked'
<1>1. Awaited' = Awaited
  BY DEF Awaited
<1>2. ~AtIt'
  BY DEF AtIt
<1>3. Expected'
  <2>1. CASE AtIt
    BY <1>1, <2>1 DEF AtIt, Expected
  <2>2. CASE ~AtIt
    BY <1>1, <2>2 DEF WInv, Expected
  <2> QED
    BY <2>1, <2>2
<1>4. SentFor'
  BY <1>2 DEF SentFor
<1>5. Checked'
  BY DEF WInv, Checked, Posted
<1> QED
  BY <1>3, <1>4, <1>5

\* What the web queue posts of the update server's answer.
LEMMA CheckAdds ==
    ASSUME WInv, NEW before \in {<<>>, <<[ev |-> "RES_INIT"]>>}, checkUpgrade(before),
           UNCHANGED verified
    PROVE  /\ toEngine' \in Seq(EngineEvent) /\ toEngine' \in Seq(LiveEvent(Live))
           /\ Range(toEngine) \subseteq Range(toEngine') /\ Posted
<1> DEFINE New == {e \in EngineEvent : e \in LiveEvent(Live) /\ e.ev # "REQ_VERIFY"}
<1>1. toEngine \in Seq(EngineEvent) /\ toEngine \in Seq(LiveEvent(Live))
  BY DEF WInv, WebTyped, AllNamed
<1>2. PICK d \in Detected :
         toEngine' = toEngine \o before \o d.events \o
                     (IF d.active # srv.active
                      THEN <<[ev |-> "REQ_ACTIVE", active |-> d.active]>> ELSE <<>>)
  BY DEF checkUpgrade
<1>3. before \in Seq(New)
  <2>1. [ev |-> "RES_INIT"] \in New
    BY DEF EngineEvent, LiveEvent
  <2> HIDE DEF New
  <2>2. <<>> \in Seq(New) /\ <<[ev |-> "RES_INIT"]>> \in Seq(New)
    BY <2>1
  <2>3. CASE before = <<>>
    BY <2>2, <2>3
  <2>4. CASE before = <<[ev |-> "RES_INIT"]>>
    BY <2>2, <2>4
  <2> QED
    BY <2>3, <2>4
<1>4. d.active \in BOOLEAN /\ d.events \in Seq(New)
  <2>1. ASSUME NEW o \in Offered PROVE o \in Seq(New)
    <3>1. CASE hub.wants = "deploy"
      <4>1. PICK u \in Upgrades : u.id = hub.id /\ o = <<[ev |-> "REQ_UPGRADE", upgrade |-> u]>>
        BY <2>1, <3>1 DEF Offered
      <4>2. u.id \in Ids
        BY ServerAssumption
      <4>3. u.id \in Live
        BY <3>1, <4>1, <4>2 DEF Live
      <4>4. [ev |-> "REQ_UPGRADE", upgrade |-> u] \in New
        BY <4>3 DEF EngineEvent, LiveEvent
      <4> HIDE DEF New
      <4> QED
        BY <4>1, <4>4
    <3>2. CASE hub.wants = "cancel"
      <4>1. o = <<[ev |-> "REQ_CANCEL", id |-> hub.id]>>
        BY <2>1, <3>2 DEF Offered
      <4>2. hub.id \in Ids
        BY <3>2 DEF WInv, WebTyped, HubState
      <4>3. hub.id \in Live
        BY <3>2, <4>2 DEF Live
      <4>4. [ev |-> "REQ_CANCEL", id |-> hub.id] \in New
        BY <4>2, <4>3 DEF EngineEvent, LiveEvent
      <4> HIDE DEF New
      <4> QED
        BY <4>1, <4>4
    <3> QED
      BY <2>1, <3>1, <3>2 DEF Offered
  <2>2. [ev |-> "REQ_IDLE"] \in New
    BY DEF EngineEvent, LiveEvent
  <2>3. Active \subseteq BOOLEAN
    BY ServerAssumption
  <2> HIDE DEF New
  <2>4. <<>> \in Seq(New) /\ <<[ev |-> "REQ_IDLE"]>> \in Seq(New)
    BY <2>2
  <2>5. \/ d.active \in Active /\ d.events = <<>>
        \/ d.active = TRUE /\ d.events = <<[ev |-> "REQ_IDLE"]>>
        \/ d.active = TRUE /\ d.events \in Offered
    <3>1. \/ d \in [active: Active, events: {<<>>}]
          \/ d = [active |-> TRUE, events |-> <<[ev |-> "REQ_IDLE"]>>]
          \/ \E o \in Offered : d = [active |-> TRUE, events |-> o]
      BY DEF Detected
    <3> QED
      BY <3>1
  <2>6. CASE d.active \in Active /\ d.events = <<>>
    BY <2>3, <2>4, <2>6
  <2>7. CASE d.active = TRUE /\ d.events = <<[ev |-> "REQ_IDLE"]>>
    BY <2>4, <2>7
  <2>8. CASE d.active = TRUE /\ d.events \in Offered
    BY <2>1, <2>8
  <2> QED
    BY <2>5, <2>6, <2>7, <2>8
<1>5. (IF d.active # srv.active
       THEN <<[ev |-> "REQ_ACTIVE", active |-> d.active]>> ELSE <<>>) \in Seq(New)
  <2>1. [ev |-> "REQ_ACTIVE", active |-> d.active] \in New
    BY <1>4 DEF EngineEvent, LiveEvent
  <2> HIDE DEF New
  <2> QED
    BY <2>1
<1> DEFINE E == Range(toEngine)
           after == d.events
           last == IF d.active # srv.active
                   THEN <<[ev |-> "REQ_ACTIVE", active |-> d.active]>> ELSE <<>>
<1>6. New \subseteq EngineEvent /\ New \subseteq LiveEvent(Live)
  OBVIOUS
<1>7. /\ \A e \in New : e.ev # "REQ_VERIFY"
      /\ last \in Seq(New) /\ after \in Seq(New) /\ toEngine' = toEngine \o before \o after \o last
  BY <1>2, <1>4, <1>5
<1> HIDE DEF New, last, after
<1>8. ASSUME NEW S, New \subseteq S, toEngine \in Seq(S)
      PROVE  toEngine' \in Seq(S)
  <2>1. before \in Seq(S) /\ after \in Seq(S) /\ last \in Seq(S)
    BY <1>3, <1>7, <1>8, SeqSubset
  <2> QED
    BY <1>7, <1>8, <2>1
<1>9. toEngine' \in Seq(EngineEvent) /\ toEngine' \in Seq(LiveEvent(Live))
  BY <1>1, <1>6, <1>8
<1>10. Range(toEngine') = E \cup Range(before) \cup Range(after) \cup Range(last)
  <2>1. before \in Seq(EngineEvent) /\ after \in Seq(EngineEvent) /\ last \in Seq(EngineEvent)
    BY <1>3, <1>6, <1>7, SeqSubset
  <2> DEFINE p == toEngine \o before
             q == p \o after
  <2>2. p \in Seq(EngineEvent) /\ q \in Seq(EngineEvent)
    BY <1>1, <2>1
  <2>3. Range(p) = E \cup Range(before)
    BY <1>1, <2>1, RangeConcat
  <2>4. toEngine' = q \o last
    BY <1>7
  <2> HIDE DEF p
  <2>5. Range(q) = Range(p) \cup Range(after)
    BY <2>1, <2>2, RangeConcat
  <2> HIDE DEF q, E
  <2>6. Range(q \o last) = Range(q) \cup Range(last)
    BY <2>1, <2>2, RangeConcat
  <2> QED
    BY <2>3, <2>4, <2>5, <2>6
<1>11. Range(before) \subseteq New /\ Range(after) \subseteq New /\ Range(last) \subseteq New
  BY <1>3, <1>7 DEF Range
<1>12. Posted
  BY <1>7, <1>10, <1>11 DEF Posted
<1> QED
  BY <1>9, <1>10, <1>12

\* A step that does nothing but post for the engine.
LEMMA PostsKeeps ==
    ASSUME WInv, UNCHANGED <<srv, toWeb, taskVars, hubVars, closed, stale>>,
           inited' \in BOOLEAN, used' \in Used, used'.losses = used.losses,
           toEngine' \in Seq(EngineEvent), toEngine' \in Seq(LiveEvent(Live)),
           Range(toEngine) \subseteq Range(toEngine'), Posted
    PROVE  WInv'
<1>1. IInv' /\ srv'.posted = <<>> /\ (~stale => Ready(srv'))
  BY ServerKept
<1>2. Live' = Live /\ toWeb' \in Seq(NamedEvent(Named))
  BY DEF Live, hubVars, WInv, AllNamed
<1>3. AllNamed'
  BY <1>2, NamedKept
<1>4. Accounted'
  BY AccountedKept DEF hubVars
<1>5. WebTyped'
  BY DEF WInv, WebTyped, taskVars, hubVars
<1>6. ~stale => Expected' /\ SentFor' /\ Checked'
  BY AddsWaits DEF taskVars
<1> QED
  BY <1>1, <1>3, <1>4, <1>5, <1>6 DEF WInv

\* REQ_INIT is answered, and the update server polled with it.
LEMMA InitsKeeps ==
    ASSUME WInv, Inits
    PROVE  WInv'
<1>1. /\ UNCHANGED <<srv, toWeb, taskVars, hubVars, closed, used, stale>> /\ inited' = TRUE
      /\ checkUpgrade(<<[ev |-> "RES_INIT"]>>)
  BY DEF Inits
<1>2. /\ toEngine' \in Seq(EngineEvent) /\ toEngine' \in Seq(LiveEvent(Live))
      /\ Range(toEngine) \subseteq Range(toEngine') /\ Posted
  BY <1>1, CheckAdds DEF taskVars
<1>3. used' \in Used /\ used'.losses = used.losses
  BY <1>1 DEF WInv, WebTyped
<1> QED
  BY <1>1, <1>2, <1>3, PostsKeeps

\* The update server is polled.
LEMMA TimerChecksKeeps ==
    ASSUME WInv, TimerChecks
    PROVE  WInv'
<1>1. /\ UNCHANGED <<vars, toWeb, taskVars, hubVars, closed, stale>> /\ Use("checks")
      /\ checkUpgrade(<<>>)
  BY DEF TimerChecks
<1>2. /\ toEngine' \in Seq(EngineEvent) /\ toEngine' \in Seq(LiveEvent(Live))
      /\ Range(toEngine) \subseteq Range(toEngine') /\ Posted
  BY <1>1, CheckAdds DEF taskVars
<1>3. used' \in Used /\ used'.losses = used.losses
  BY <1>1 DEF Use, Used, WInv, WebTyped
<1>4. inited' \in BOOLEAN
  BY <1>1 DEF vars, WInv, IInv, TypeOK
<1> QED
  BY <1>1, <1>2, <1>3, <1>4, PostsKeeps DEF vars

\* What is left when the web queue has taken its next event.
LEMMA Taken ==
    ASSUME WInv, NEW kind, Takes(kind)
    PROVE  /\ toWeb # <<>> /\ Head(toWeb).req = kind /\ Head(toWeb) \in NamedEvent(Named)
           /\ toWeb' \in Seq(WebEvent) /\ toWeb' \in Seq(NamedEvent(Named))
           /\ \A req : Asks(toWeb, req)
                         => Asks(toWeb', req) \/ (kind = req /\ OnlyFeeds(toWeb'))
           /\ OnlyFeeds(toWeb) <=> kind = "REQ_FEEDBACK" /\ OnlyFeeds(toWeb')
           /\ \A id : DeployWaits(toWeb, id) =>
                \/ DeployWaits(toWeb', id)
                \/ /\ Closed(Head(toWeb)) /\ Head(toWeb).type = "TP_DEPLOY"
                   /\ Head(toWeb).id = id
<1>1. /\ toWeb # <<>> /\ Head(toWeb).req = kind /\ toWeb' = Tail(toWeb)
      /\ toWeb \in Seq(WebEvent) /\ toWeb \in Seq(NamedEvent(Named))
  BY DEF Takes, WInv, WebTyped, AllNamed
<1>2. /\ 1 \in DOMAIN toWeb /\ toWeb[1] = Head(toWeb) /\ Head(toWeb) \in NamedEvent(Named)
      /\ toWeb' \in Seq(NamedEvent(Named))
      /\ \A i \in DOMAIN toWeb : i # 1 => i - 1 \in DOMAIN toWeb' /\ toWeb'[i - 1] = toWeb[i]
  BY <1>1, TailElements
<1>3. toWeb' \in Seq(WebEvent)
  BY <1>1, TailElements
<1>4. \A req : Asks(toWeb, req) => Asks(toWeb', req) \/ (kind = req /\ OnlyFeeds(toWeb'))
  BY <1>1, TailAsks
<1>5. OnlyFeeds(toWeb) => kind = "REQ_FEEDBACK" /\ OnlyFeeds(toWeb')
  BY <1>1, TailAsks
<1>6. kind = "REQ_FEEDBACK" /\ OnlyFeeds(toWeb') => OnlyFeeds(toWeb)
  BY <1>1, <1>2 DEF OnlyFeeds
<1>7. ASSUME NEW id, DeployWaits(toWeb, id)
      PROVE  \/ DeployWaits(toWeb', id)
             \/ /\ Closed(Head(toWeb)) /\ Head(toWeb).type = "TP_DEPLOY"
                /\ Head(toWeb).id = id
  <2>1. PICK i \in DOMAIN toWeb : /\ Closed(toWeb[i]) /\ toWeb[i].type = "TP_DEPLOY"
                                  /\ toWeb[i].id = id
    BY <1>7 DEF DeployWaits
  <2> QED
    BY <1>2, <2>1 DEF DeployWaits
<1> QED
  BY <1>1, <1>2, <1>3, <1>4, <1>5, <1>6, <1>7

\* stopThread() before a request, whatever becomes of the task that was at work.
LEMMA StoppedTyped ==
    ASSUME WInv, NEW kind, Stopped(kind)
    PROVE  /\ mode' \in Mode /\ loose' \subseteq TaskRecord /\ masked' \in BOOLEAN
           /\ used' \in Used /\ used'.losses = used.losses
           /\ kind = "REQ_DISTRIBUTE" => mode' = "WEB_DISTRIBUTE" \/ masked'
<1>1. /\ mode \in Mode /\ loose \subseteq TaskRecord /\ masked \in BOOLEAN
      /\ used \in Used /\ held \in TaskRecord
  BY DEF WInv, WebTyped
<1>2. ModeOf(kind) \in Mode /\ "WEB_IDLE" \in Mode /\ ModeOf("REQ_DISTRIBUTE") = "WEB_DISTRIBUTE"
  BY DEF ModeOf, Mode
<1>3. Happens("loose") => used' \in Used /\ used'.losses = used.losses
  BY <1>1 DEF Happens, Use, Used
<1>4. CASE mode' = ModeOf(kind) /\ masked' = FALSE /\ UNCHANGED <<loose, used>>
  BY <1>1, <1>2, <1>4
<1>5. CASE /\ mode' = "WEB_IDLE" /\ masked' = (kind = "REQ_DISTRIBUTE")
           /\ UNCHANGED <<loose, used>>
  BY <1>1, <1>2, <1>5
<1>6. CASE /\ Happens("loose") /\ mode' = ModeOf(kind) /\ loose' = loose \cup {held}
           /\ masked' = FALSE
  BY <1>1, <1>2, <1>3, <1>6
<1> QED
  BY <1>4, <1>5, <1>6 DEF Stopped

\* A request taken leaves the feeds that wait.
LEMMA TakesAccounted ==
    ASSUME WInv, NEW kind, kind # "REQ_FEEDBACK", Takes(kind),
           UNCHANGED <<told, closed>>, used'.losses = used.losses
    PROVE  Accounted'
<1>1. ~Closed(Head(toWeb))
  BY Taken DEF Closed
<1>2. \A id : DeployWaits(toWeb, id) => DeployWaits(toWeb', id)
  BY <1>1, Taken
<1> QED
  BY <1>2 DEF WInv, Accounted

\* REQ_STOP leaves no task: the engine waits for none that a request behind it does not start.
LEMMA WebStopsKeeps ==
    ASSUME WInv, WebStops
    PROVE  WInv'
<1>1. /\ Takes("REQ_STOP") /\ Stopped("REQ_STOP") /\ held' = NoTask
      /\ UNCHANGED <<vars, toEngine, pulling, onDisk, verified, hubVars, closed, stale>>
  BY DEF WebStops
<1>2. /\ mode' \in Mode /\ loose' \subseteq TaskRecord /\ masked' \in BOOLEAN
      /\ used' \in Used /\ used'.losses = used.losses
  BY <1>1, StoppedTyped
<1>3. /\ toWeb' \in Seq(WebEvent) /\ toWeb' \in Seq(NamedEvent(Named)) /\ ~OnlyFeeds(toWeb)
      /\ \A req : Asks(toWeb, req) /\ req # "REQ_STOP" => Asks(toWeb', req)
  BY <1>1, Taken
<1>4. IInv' /\ srv'.posted = <<>> /\ (~stale => Ready(srv'))
  BY <1>1, ServerKept DEF vars, WInv, IInv, TypeOK
<1>5. AllNamed'
  <2>1. Live' = Live /\ toEngine' \in Seq(LiveEvent(Live)) /\ UNCHANGED srv
    BY <1>1 DEF Live, hubVars, WInv, AllNamed, vars
  <2> QED
    BY <1>3, <2>1, NamedKept
<1>6. Accounted'
  BY <1>1, <1>2, TakesAccounted DEF hubVars
<1>7. WebTyped'
  <2>1. NoTask \in TaskRecord
    BY DEF TaskRecord
  <2> QED
    BY <1>1, <1>2, <1>3, <2>1 DEF WInv, WebTyped, hubVars
<1>8. ASSUME ~stale PROVE Expected' /\ SentFor' /\ Checked'
  <2>1. Awaited' = Awaited /\ Awaited # "REQ_STOP" /\ srv' = srv
    BY <1>1 DEF Awaited, vars
  <2>2. held'.at # "work" /\ held'.kind # "REQ_DISTRIBUTE"
    BY <1>1 DEF NoTask
  <2>3. ~AtIt'
    BY <2>2 DEF AtIt
  <2>4. Expected'
    BY <1>3, <1>8, <2>1 DEF WInv, Expected, AtIt
  <2>5. Checked'
    BY <1>1, <1>8, <2>1, <2>2 DEF WInv, Checked
  <2> QED
    BY <2>3, <2>4, <2>5 DEF SentFor
<1> QED
  BY <1>1, <1>4, <1>5, <1>6, <1>7, <1>8 DEF WInv

\* A request for a task that is awaited is answered from now on.
LEMMA WebStartsKeeps ==
    ASSUME WInv, NEW kind \in {"REQ_DOWNLOAD", "REQ_VERIFY", "REQ_DISTRIBUTE"},
           WebStarts(kind), pulling' \in BOOLEAN, kind = "REQ_DISTRIBUTE" => pulling'
    PROVE  WInv'
<1>1. /\ Takes(kind) /\ Stopped(kind)
      /\ held' = [kind |-> kind, id |-> srv.upgrade.id, at |-> "work"]
      /\ verified' = verified \ Refetched(kind)
      /\ stale' = (stale \/ kind # Awaited)
      /\ UNCHANGED <<vars, toEngine, hubVars, closed>>
  BY DEF WebStarts, Starts
<1>2. /\ mode' \in Mode /\ loose' \subseteq TaskRecord /\ masked' \in BOOLEAN
      /\ used' \in Used /\ used'.losses = used.losses
      /\ kind = "REQ_DISTRIBUTE" => mode' = "WEB_DISTRIBUTE" \/ masked'
  BY <1>1, StoppedTyped
<1>3. /\ toWeb' \in Seq(WebEvent) /\ toWeb' \in Seq(NamedEvent(Named)) /\ ~OnlyFeeds(toWeb)
      /\ Asks(toWeb, kind) => Asks(toWeb', kind) \/ OnlyFeeds(toWeb')
  BY <1>1, Taken
<1>4. IInv' /\ srv'.posted = <<>> /\ (~stale => Ready(srv'))
  BY <1>1, ServerKept DEF vars, WInv, IInv, TypeOK
<1>5. AllNamed'
  <2>1. Live' = Live /\ toEngine' \in Seq(LiveEvent(Live)) /\ UNCHANGED srv
    BY <1>1 DEF Live, hubVars, WInv, AllNamed, vars
  <2> QED
    BY <1>3, <2>1, NamedKept
<1>6. Accounted'
  BY <1>1, <1>2, TakesAccounted DEF hubVars
<1>7. WebTyped'
  <2>1. srv.upgrade.id \in Ids \cup {NoId}
    BY ServerGood, UpgradeTyped DEF Upgrade
  <2>2. held' \in TaskRecord
    BY <1>1, <2>1 DEF TaskRecord
  <2>3. stale' \in BOOLEAN
    BY <1>1 DEF WInv, WebTyped
  <2> QED
    BY <1>1, <1>2, <1>3, <2>2, <2>3 DEF WInv, WebTyped, hubVars
<1>8. ASSUME ~stale, kind = Awaited PROVE Expected' /\ SentFor' /\ Checked'
  <2>1. Awaited' = kind /\ srv' = srv
    BY <1>1, <1>8 DEF Awaited, vars
  <2>2. /\ held'.at = "work" /\ held'.kind = kind /\ held'.id = srv.upgrade.id
    BY <1>1
  <2>3. srv.state \in Transferring
    BY <1>8 DEF Awaited, Transferring
  <2>4. Asks(toWeb, kind)
    BY <1>3, <1>8, <2>3 DEF WInv, Expected, AtIt
  <2>5. Asks(toWeb', Awaited') \/ AtIt'
    BY <1>3, <2>1, <2>2, <2>4 DEF AtIt
  <2>6. Expected'
    BY <2>5 DEF Expected
  <2>7. SentFor'
    <3>1. srv.state = "MR_DISTRIBUTE" => kind = "REQ_DISTRIBUTE"
      BY <1>8 DEF Awaited
    <3> QED
      BY <1>2, <2>1, <3>1 DEF SentFor
  <2>8. Checked'
    <3>1. kind = "REQ_DOWNLOAD" => srv.state = "MR_DOWNLOAD"
      BY <1>8 DEF Awaited
    <3>2. kind = "REQ_DISTRIBUTE" => srv.state = "MR_DISTRIBUTE"
      BY <1>8 DEF Awaited
    <3>3. kind # "REQ_DOWNLOAD" => verified' = verified
      BY <1>1 DEF Refetched
    <3>4. Checked
      BY <1>8 DEF WInv
    <3> QED
      BY <1>1, <2>1, <2>2, <3>1, <3>2, <3>3, <3>4 DEF Checked
  <2> QED
    BY <2>6, <2>7, <2>8
<1> QED
  BY <1>1, <1>4, <1>5, <1>6, <1>7, <1>8 DEF WInv

\* A distribution that has its handle lets the engine send for the files.
LEMMA WebPullsKeeps ==
    ASSUME WInv, WebPulls
    PROVE  WInv'
<1> DEFINE pull == [ev |-> "REQ_PULL"]
<1>1. /\ pulling /\ pulling' = FALSE
      /\ \/ toEngine' = Append(toEngine, pull)
         \/ held = NoTask /\ toEngine' = toEngine
      /\ UNCHANGED <<vars, toWeb, mode, held, loose, onDisk, verified, masked, hubVars,
                     closed, used, stale>>
  BY DEF WebPulls
<1>2. toEngine \in Seq(EngineEvent) /\ toEngine \in Seq(LiveEvent(Live))
  BY DEF WInv, WebTyped, AllNamed
<1>3. /\ pull \in EngineEvent /\ pull \in LiveEvent(Live) /\ pull.ev = "REQ_PULL"
  BY DEF EngineEvent, LiveEvent
<1> HIDE DEF pull
<1>4. /\ toEngine' \in Seq(EngineEvent) /\ toEngine' \in Seq(LiveEvent(Live))
      /\ Range(toEngine) \subseteq Range(toEngine')
      /\ held # NoTask => pull \in Range(toEngine')
      /\ \A e \in Range(toEngine') : e \in Range(toEngine) \/ e = pull
  <2>1. /\ Append(toEngine, pull) \in Seq(EngineEvent)
        /\ Append(toEngine, pull) \in Seq(LiveEvent(Live))
    BY <1>2, <1>3
  <2>2. Range(Append(toEngine, pull)) = Range(toEngine) \cup {pull}
    BY <1>2, RangeAppend
  <2> QED
    BY <1>1, <1>2, <2>1, <2>2
<1>5. IInv' /\ srv'.posted = <<>> /\ (~stale => Ready(srv'))
  BY <1>1, ServerKept DEF vars, WInv, IInv, TypeOK
<1>6. AllNamed'
  <2>1. Live' = Live /\ toWeb' \in Seq(NamedEvent(Named)) /\ UNCHANGED srv
    BY <1>1 DEF Live, hubVars, WInv, AllNamed, vars
  <2> QED
    BY <1>4, <2>1, NamedKept
<1>7. Accounted'
  BY <1>1, AccountedKept DEF hubVars
<1>8. WebTyped'
  BY <1>1, <1>4 DEF WInv, WebTyped, hubVars
<1>9. ASSUME ~stale PROVE Expected' /\ SentFor' /\ Checked'
  <2>1. Awaited' = Awaited /\ srv' = srv
    BY <1>1 DEF Awaited, vars
  <2>2. AtIt' <=> AtIt
    BY <1>1, <2>1 DEF AtIt
  <2>3. Expected'
    BY <1>1, <1>4, <1>9, <2>1, <2>2 DEF WInv, Expected
  <2>4. SentFor'
    <3>1. AtIt => held # NoTask
      BY DEF AtIt, NoTask
    <3> QED
      BY <1>1, <1>3, <1>4, <1>9, <2>1, <2>2, <3>1 DEF WInv, SentFor
  <2>5. Checked'
    BY <1>1, <1>3, <1>4, <1>9, <2>1 DEF WInv, Checked
  <2> QED
    BY <2>3, <2>4, <2>5
<1> QED
  BY <1>1, <1>5, <1>6, <1>7, <1>8, <1>9 DEF WInv

\* A feed is posted, or lost: the server is told either way, and a closed deployment
\* that is not lost is known to be over.
LEMMA WebFeedsKeeps ==
    ASSUME WInv, WebFeeds
    PROVE  WInv'
<1> DEFINE feed == Head(toWeb)
           error == [ev |-> "RES_ERROR"]
           failed == toEngine' = Append(toEngine, error) /\ UNCHANGED hubVars
<1>1. /\ Takes("REQ_FEEDBACK")
      /\ \/ Accepted(feed) /\ Settled(feed) /\ UNCHANGED <<toEngine, used>>
         \/ ~Accepted(feed) /\ failed /\ UNCHANGED used
         \/ Happens("losses") /\ failed
      /\ UNCHANGED <<vars, taskVars, closed, stale>>
  BY DEF WebFeeds
<1>2. /\ feed \in NamedEvent(Named) /\ feed.req = "REQ_FEEDBACK"
      /\ toWeb' \in Seq(WebEvent) /\ toWeb' \in Seq(NamedEvent(Named))
      /\ \A req : Asks(toWeb, req) /\ req # "REQ_FEEDBACK" => Asks(toWeb', req)
      /\ OnlyFeeds(toWeb) <=> OnlyFeeds(toWeb')
      /\ \A id : DeployWaits(toWeb, id) =>
           \/ DeployWaits(toWeb', id)
           \/ Closed(feed) /\ feed.type = "TP_DEPLOY" /\ feed.id = id
  BY <1>1, Taken
<1> HIDE DEF feed
<1>3. feed.id \in Named
  BY <1>2 DEF NamedEvent
<1>4. /\ hub' \in HubState /\ Live \subseteq Live' /\ told \subseteq told'
  <2>1. CASE UNCHANGED hubVars
    BY <2>1 DEF hubVars, Live, WInv, WebTyped
  <2>2. CASE Accepted(feed) /\ hub' = [hub EXCEPT !.wants = "deploy"] /\ UNCHANGED told
    BY <2>2 DEF Accepted, Live, WInv, WebTyped, HubState
  <2>3. CASE /\ Accepted(feed) /\ hub' = [wants |-> "none", id |-> NoId]
             /\ told' = told \cup {feed.id}
    BY <2>3 DEF Accepted, Live, HubState
  <2> QED
    BY <1>1, <2>1, <2>2, <2>3 DEF Settled
<1>5. used' \in Used /\ (used'.losses = 0 => ~Happens("losses") /\ used' = used)
  <2>1. used \in Used
    BY DEF WInv, WebTyped
  <2>2. Happens("losses") => used' \in Used /\ used'.losses = used.losses + 1
    BY <2>1 DEF Happens, Use, Used
  <2>3. Happens("losses") => used'.losses # 0
    BY <2>1, <2>2 DEF Used
  <2> QED
    BY <1>1, <2>1, <2>2, <2>3
<1>6. /\ toEngine' \in Seq(EngineEvent) /\ toEngine' \in Seq(LiveEvent(Live))
      /\ Range(toEngine) \subseteq Range(toEngine')
      /\ \A e \in Range(toEngine') : e \in Range(toEngine) \/ e.ev = "RES_ERROR"
  <2>1. toEngine \in Seq(EngineEvent) /\ toEngine \in Seq(LiveEvent(Live))
    BY DEF WInv, WebTyped, AllNamed
  <2>2. error \in EngineEvent /\ error \in LiveEvent(Live) /\ error.ev = "RES_ERROR"
    BY DEF EngineEvent, LiveEvent
  <2>3. toEngine' = toEngine \/ toEngine' = Append(toEngine, error)
    BY <1>1
  <2> HIDE DEF error
  <2>4. /\ Append(toEngine, error) \in Seq(EngineEvent)
        /\ Append(toEngine, error) \in Seq(LiveEvent(Live))
    BY <2>1, <2>2
  <2>5. Range(Append(toEngine, error)) = Range(toEngine) \cup {error}
    BY <2>1, RangeAppend
  <2> QED
    BY <2>1, <2>2, <2>3, <2>4, <2>5
<1>7. IInv' /\ srv'.posted = <<>> /\ (~stale => Ready(srv'))
  BY <1>1, ServerKept DEF vars, WInv, IInv, TypeOK
<1>8. AllNamed'
  BY <1>1, <1>2, <1>4, <1>6, NamedKept DEF vars
<1>9. Accounted'
  <2> SUFFICES ASSUME used'.losses = 0, NEW id \in Ids, id \in closed
               PROVE  id \in told' \/ DeployWaits(toWeb', id)
    BY <1>1 DEF Accounted
  <2>1. used' = used /\ ~Happens("losses")
    BY <1>5
  <2>2. id \in told \/ DeployWaits(toWeb, id)
    BY <2>1 DEF WInv, Accounted
  <2>3. CASE id \in told \/ DeployWaits(toWeb', id)
    BY <1>4, <2>3
  <2>4. CASE Closed(feed) /\ feed.type = "TP_DEPLOY" /\ feed.id = id
    <3>1. CASE Accepted(feed) /\ Settled(feed)
      BY <2>4, <3>1 DEF Settled
    <3>2. CASE ~Accepted(feed)
      <4>1. ~(hub.wants # "none" /\ hub.id = id)
        BY <2>4, <3>2 DEF Accepted
      <4>2. id \in Live
        BY <1>3, <2>4, ServerAssumption DEF Named
      <4> QED
        BY <1>4, <4>1, <4>2 DEF Live
    <3> QED
      BY <1>1, <2>1, <3>1, <3>2
  <2> QED
    BY <1>2, <2>2, <2>3, <2>4
<1>10. WebTyped'
  BY <1>1, <1>2, <1>4, <1>5, <1>6 DEF WInv, WebTyped, taskVars
<1>11. ASSUME ~stale PROVE Expected' /\ SentFor' /\ Checked'
  <2>1. Awaited' = Awaited /\ Awaited # "REQ_FEEDBACK" /\ srv' = srv
    BY <1>1 DEF Awaited, vars
  <2>2. AtIt' <=> AtIt
    BY <1>1, <1>2, <2>1 DEF AtIt, taskVars
  <2>3. Expected'
    BY <1>1, <1>2, <1>6, <1>11, <2>1, <2>2 DEF WInv, Expected, taskVars
  <2>4. SentFor'
    BY <1>1, <1>6, <1>11, <2>1, <2>2 DEF WInv, SentFor, taskVars
  <2>5. Checked'
    BY <1>1, <1>6, <1>11, <2>1 DEF WInv, Checked, taskVars
  <2> QED
    BY <2>3, <2>4, <2>5
<1> QED
  BY <1>1, <1>7, <1>8, <1>9, <1>10, <1>11 DEF WInv

\* The task that acts, and what becomes of it.
LEMMA BecomesTyped ==
    ASSUME WInv, NEW t, NEW given \in BOOLEAN, Task(t, given),
           NEW u \in TaskRecord, Becomes(t, given, u)
    PROVE  /\ t \in TaskRecord /\ t # NoTask
           /\ held' \in TaskRecord /\ loose' \subseteq TaskRecord
           /\ given => held' = held
           /\ ~given => t = held /\ held' = u
  BY DEF WInv, WebTyped, Task, Becomes

\* A task when it has posted its result.
LEMMA PostedTyped ==
    ASSUME NEW t \in TaskRecord, t # NoTask
    PROVE  LET u == [t EXCEPT !.at = "posted"] IN
           /\ u \in TaskRecord /\ u.at = "posted" /\ u.kind = t.kind /\ u.id = t.id
           /\ t.kind \in {"REQ_DOWNLOAD", "REQ_VERIFY", "REQ_DISTRIBUTE"}
           /\ t.id \in Ids \cup {NoId}
  BY DEF TaskRecord

\* What a task's step that posts e leaves of the rest.
LEMMA TaskKeeps ==
    ASSUME WInv, UNCHANGED <<vars, toWeb, hubVars, closed, stale, pulling>>,
           NEW e \in EngineEvent, e \in LiveEvent(Live), toEngine' = Append(toEngine, e),
           held' \in TaskRecord, loose' \subseteq TaskRecord, mode' \in Mode,
           masked' \in BOOLEAN, used' \in Used, used'.losses = used.losses,
           ~stale => Expected' /\ SentFor' /\ Checked'
    PROVE  WInv'
<1>1. toEngine \in Seq(EngineEvent) /\ toEngine \in Seq(LiveEvent(Live))
  BY DEF WInv, WebTyped, AllNamed
<1>2. toEngine' \in Seq(EngineEvent) /\ toEngine' \in Seq(LiveEvent(Live))
  BY <1>1
<1>3. IInv' /\ srv'.posted = <<>> /\ (~stale => Ready(srv'))
  BY ServerKept DEF vars, WInv, IInv, TypeOK
<1>4. AllNamed'
  <2>1. Live' = Live /\ toWeb' \in Seq(NamedEvent(Named)) /\ UNCHANGED srv
    BY DEF Live, hubVars, WInv, AllNamed, vars
  <2> QED
    BY <1>2, <2>1, NamedKept
<1>5. Accounted'
  BY AccountedKept DEF hubVars
<1>6. WebTyped'
  BY <1>2 DEF WInv, WebTyped, hubVars
<1> QED
  BY <1>3, <1>4, <1>5, <1>6 DEF WInv

\* A task succeeds.
LEMMA TaskDoneKeeps ==
    ASSUME WInv, NEW t, NEW given \in BOOLEAN, TaskDone(t, given)
    PROVE  WInv'
<1> DEFINE e == [ev |-> t.kind, of |-> IF given THEN NoId ELSE t.id]
           u == [t EXCEPT !.at = "posted"]
<1>1. /\ Task(t, given) /\ Works(t) /\ Becomes(t, given, u)
      /\ verified' = IF t.kind = "REQ_VERIFY" THEN verified \cup {t.id} ELSE verified
      /\ toEngine' = Append(toEngine, e)
      /\ UNCHANGED <<vars, toWeb, mode, pulling, masked, hubVars, closed, used, stale>>
  BY DEF TaskDone
<1>2. t \in TaskRecord /\ t # NoTask
  BY <1>1 DEF Task, WInv, WebTyped
<1>3. /\ u \in TaskRecord /\ u.at = "posted" /\ u.kind = t.kind /\ u.id = t.id
      /\ t.kind \in {"REQ_DOWNLOAD", "REQ_VERIFY", "REQ_DISTRIBUTE"} /\ t.id \in Ids \cup {NoId}
  BY <1>2, PostedTyped
<1> HIDE DEF u
<1>4. /\ held' \in TaskRecord /\ loose' \subseteq TaskRecord
      /\ given => held' = held
      /\ ~given => t = held /\ held' = u
  BY <1>1, <1>3, BecomesTyped
<1>5. e \in EngineEvent /\ e \in LiveEvent(Live) /\ e.ev = t.kind
      /\ (e.of \in Ids => ~given /\ e.of = t.id)
  <2>1. NoId \notin Ids
    BY ServerAssumption
  <2> QED
    BY <1>3, <2>1 DEF EngineEvent, LiveEvent
<1> HIDE DEF e
<1>6. Range(toEngine') = Range(toEngine) \cup {e}
  BY <1>1, RangeAppend DEF WInv, WebTyped
<1>7. verified \subseteq verified' /\ Posted
  BY <1>1, <1>5, <1>6 DEF Posted
<1>8. ASSUME ~stale PROVE Expected' /\ SentFor' /\ Checked'
  <2>1. CASE given
    BY <1>1, <1>4, <1>6, <1>7, <1>8, <2>1, AddsWaits DEF vars
  <2>2. CASE ~given
    BY <1>1, <1>3, <1>4, <1>5, <1>6, <1>7, <1>8, <2>2, AnswersWaits DEF vars
  <2> QED
    BY <2>1, <2>2
<1>9. mode' \in Mode /\ masked' \in BOOLEAN /\ used' \in Used /\ used'.losses = used.losses
  BY <1>1 DEF WInv, WebTyped
<1> QED
  BY <1>1, <1>4, <1>5, <1>8, <1>9, TaskKeeps

\* A task fails.
LEMMA TaskFailsKeeps ==
    ASSUME WInv, NEW t, NEW given \in BOOLEAN, TaskFails(t, given)
    PROVE  WInv'
<1> DEFINE e == [ev |-> "RES_ERROR"]
           u == [t EXCEPT !.at = "posted"]
<1>1. /\ Task(t, given) /\ Becomes(t, given, u)
      /\ used' = used \/ Happens("faults")
      /\ toEngine' = Append(toEngine, e)
      /\ UNCHANGED <<vars, toWeb, mode, pulling, verified, masked, hubVars, closed, stale>>
  BY DEF TaskFails
<1>2. t \in TaskRecord /\ t # NoTask
  BY <1>1 DEF Task, WInv, WebTyped
<1>3. u \in TaskRecord /\ u.at = "posted" /\ u.kind = t.kind /\ u.id = t.id
  BY <1>2, PostedTyped
<1> HIDE DEF u
<1>4. /\ held' \in TaskRecord /\ loose' \subseteq TaskRecord
      /\ given => held' = held
      /\ ~given => t = held /\ held' = u
  BY <1>1, <1>3, BecomesTyped
<1>5. e \in EngineEvent /\ e \in LiveEvent(Live) /\ e.ev = "RES_ERROR"
  BY DEF EngineEvent, LiveEvent
<1> HIDE DEF e
<1>6. Range(toEngine') = Range(toEngine) \cup {e}
  BY <1>1, RangeAppend DEF WInv, WebTyped
<1>7. Posted
  BY <1>5, <1>6 DEF Posted
<1>8. ASSUME ~stale PROVE Expected' /\ SentFor' /\ Checked'
  <2>1. CASE given
    BY <1>1, <1>4, <1>6, <1>7, <1>8, <2>1, AddsWaits DEF vars
  <2>2. CASE ~given
    BY <1>1, <1>3, <1>4, <1>5, <1>6, <1>7, <1>8, <2>2, AnswersWaits DEF vars
  <2> QED
    BY <2>1, <2>2
<1>9. used' \in Used /\ used'.losses = used.losses
  BY <1>1 DEF Happens, Use, Used, WInv, WebTyped
<1>10. mode' \in Mode /\ masked' \in BOOLEAN
  BY <1>1 DEF WInv, WebTyped
<1> QED
  BY <1>1, <1>4, <1>5, <1>8, <1>9, <1>10, TaskKeeps

\* A task that was given up, when its end function is over.
LEMMA EndedTyped ==
    ASSUME NEW t \in TaskRecord, t # NoTask
    PROVE  [t EXCEPT !.at = "ended"] \in TaskRecord
  BY DEF TaskRecord

\* What the end of a task leaves of the rest: it posts nothing.
LEMMA EndKeeps ==
    ASSUME WInv, UNCHANGED <<vars, queueVars, verified, hubVars, closed, used, stale>>,
           held' \in TaskRecord, loose' \subseteq TaskRecord, mode' \in Mode,
           pulling' \in BOOLEAN, masked' \in BOOLEAN,
           ~stale => Expected' /\ SentFor' /\ Checked'
    PROVE  WInv'
<1>1. UNCHANGED <<srv, toWeb, toEngine>> /\ inited' \in BOOLEAN
  BY DEF vars, queueVars, WInv, IInv, TypeOK
<1>2. IInv' /\ srv'.posted = <<>> /\ (~stale => Ready(srv'))
  BY <1>1, ServerKept
<1>3. AllNamed'
  BY <1>1 DEF WInv, AllNamed, Within, Named, Live, hubVars
<1>4. Accounted'
  BY <1>1, AccountedKept DEF hubVars
<1>5. WebTyped'
  BY <1>1 DEF WInv, WebTyped, hubVars
<1> QED
  BY <1>2, <1>3, <1>4, <1>5 DEF WInv

\* The end of a task, which sets the mode of the web queue.
LEMMA TaskEndsKeeps ==
    ASSUME WInv, NEW t, NEW given \in BOOLEAN, TaskEnds(t, given)
    PROVE  WInv'
<1> DEFINE u == IF given THEN [t EXCEPT !.at = "ended"] ELSE NoTask
<1>1. /\ Task(t, given) /\ (Works(t) => given) /\ Becomes(t, given, u)
      /\ mode' = "WEB_IDLE" /\ masked' = (masked \/ (given /\ mode = "WEB_DISTRIBUTE"))
      /\ UNCHANGED <<vars, queueVars, pulling, verified, hubVars, closed, used, stale>>
  BY DEF TaskEnds
<1>2. t \in TaskRecord /\ t # NoTask
  BY <1>1 DEF Task, WInv, WebTyped
<1>3. u \in TaskRecord /\ (~given => u = NoTask)
  BY <1>2, EndedTyped DEF TaskRecord
<1> HIDE DEF u
<1>4. /\ held' \in TaskRecord /\ loose' \subseteq TaskRecord
      /\ given => held' = held
      /\ ~given => t = held /\ held' = NoTask
  BY <1>1, <1>3, BecomesTyped
<1>5. UNCHANGED <<srv, toWeb, toEngine>>
  BY <1>1 DEF vars, queueVars
<1>6. mode' \in Mode /\ pulling' \in BOOLEAN /\ masked' \in BOOLEAN
  BY <1>1 DEF WInv, WebTyped, Mode
<1>7. ASSUME ~stale PROVE Expected' /\ SentFor' /\ Checked'
  <2>0. Posted
    BY <1>5 DEF Posted
  <2>1. CASE given
    BY <1>1, <1>4, <1>5, <1>7, <2>0, <2>1, AddsWaits
  <2>2. CASE ~given
    <3>1. held.at # "work"
      BY <1>1, <1>4, <2>2 DEF Works
    <3>2. held'.at # "work" /\ held'.kind # "REQ_DISTRIBUTE"
      BY <1>4, <2>2 DEF NoTask
    <3> QED
      BY <1>1, <1>5, <1>7, <2>0, <3>1, <3>2, AnswersWaits
  <2> QED
    BY <2>1, <2>2
<1> QED
  BY <1>1, <1>4, <1>6, <1>7, EndKeeps

\* The end of its thread, which may end the wait for a handle that is not its own.
LEMMA FlagClearedKeeps ==
    ASSUME WInv, NEW t, FlagCleared(t)
    PROVE  WInv'
<1>1. /\ loose' = loose \ {t} /\ pulling' \in {pulling, FALSE}
      /\ masked' = (masked \/ pulling' # pulling)
      /\ UNCHANGED <<vars, queueVars, mode, held, verified, hubVars, closed, used, stale>>
  BY DEF FlagCleared
<1>2. held' \in TaskRecord /\ loose' \subseteq TaskRecord /\ mode' \in Mode
  BY <1>1 DEF WInv, WebTyped
<1>3. pulling' \in BOOLEAN /\ masked' \in BOOLEAN
  BY <1>1 DEF WInv, WebTyped
<1>4. UNCHANGED <<srv, toWeb, toEngine>> /\ Posted
  BY <1>1 DEF vars, queueVars, Posted
<1>5. ASSUME ~stale PROVE Expected' /\ SentFor' /\ Checked'
  BY <1>1, <1>4, <1>5, AddsWaits
<1> QED
  BY <1>1, <1>2, <1>3, <1>5, EndKeeps

\* The users of the update server open actions and ask for their end.
LEMMA HubKeeps ==
    ASSUME WInv, UNCHANGED <<vars, queueVars, taskVars, told, closed, used, stale>>,
           hub' \in HubState, Live \subseteq Live'
    PROVE  WInv'
<1>1. UNCHANGED <<srv, toWeb, toEngine>> /\ inited' \in BOOLEAN
  BY DEF vars, queueVars, WInv, IInv, TypeOK
<1>2. IInv' /\ srv'.posted = <<>> /\ (~stale => Ready(srv'))
  BY <1>1, ServerKept
<1>3. AllNamed'
  BY <1>1, NamedKept DEF WInv, AllNamed
<1>4. Accounted'
  BY <1>1, AccountedKept
<1>5. WebTyped'
  BY <1>1 DEF WInv, WebTyped, taskVars
<1>6. ~stale => Expected' /\ SentFor' /\ Checked'
  BY <1>1, AddsWaits DEF Posted, taskVars
<1> QED
  BY <1>2, <1>3, <1>4, <1>5, <1>6 DEF WInv

\* An action is opened.
LEMMA HubOffersKeeps ==
    ASSUME WInv, NEW id \in Ids, HubOffers(id)
    PROVE  WInv'
<1>1. hub' \in HubState /\ Live \subseteq Live'
  BY DEF HubOffers, Live, HubState
<1> QED
  BY <1>1, HubKeeps DEF HubOffers

\* Its end is asked for.
LEMMA HubCancelsKeeps ==
    ASSUME WInv, HubCancels
    PROVE  WInv'
<1>1. hub' \in HubState /\ Live \subseteq Live'
  BY DEF HubCancels, Live, HubState, WInv, WebTyped
<1> QED
  BY <1>1, HubKeeps DEF HubCancels

-----------------------------------------------------------------------------
(***************************************************************************)
(* The theorems.                                                           *)
(***************************************************************************)

\* At the start nothing is under way.
LEMMA WebInitial == WebInit => WInv
<1> SUFFICES ASSUME WebInit PROVE WInv
  OBVIOUS
<1>1. srv = Boot(NoFile) /\ inited = FALSE
  BY DEF WebInit, Init
<1>2. Typed(srv) /\ Sound(srv)
  <2>1. NoFile \in StatusFile
    BY DEF NoFile, StatusFile, ServerState
  <2> QED
    BY <1>1, <2>1, BootTyped, BootSound
<1>3. IInv /\ srv.posted = <<>> /\ srv.state = "MR_OFFLINE"
      /\ srv.upgrade = NoUpgrade /\ srv.cancelId = NoId
  BY <1>1, <1>2 DEF IInv, TypeOK, Typed, Boot
<1>4. WebTyped
  <2>1. toWeb \in Seq(WebEvent) /\ toEngine \in Seq(EngineEvent)
    BY DEF WebInit
  <2>2. held \in TaskRecord /\ loose \subseteq TaskRecord
    BY DEF WebInit, TaskRecord
  <2>3. hub \in HubState /\ used \in Used
    BY DEF WebInit, HubState, Used
  <2> QED
    BY <2>1, <2>2, <2>3 DEF WebInit, WebTyped, Mode
<1>5. AllNamed
  <2>1. NoUpgrade.id = NoId /\ NoId \in Named
    BY DEF NoUpgrade, Named
  <2>2. <<>> \in Seq(NamedEvent(Named)) /\ <<>> \in Seq(LiveEvent(Live))
    OBVIOUS
  <2> HIDE DEF Named, Live
  <2> QED
    BY <1>3, <2>1, <2>2 DEF WebInit, AllNamed, Within
<1>6. Accounted
  BY DEF WebInit, Accounted
<1>7. srv.state \notin Preparing /\ srv.state \notin Transferring
  BY <1>3 DEF Preparing, Gathering, Transferring
<1>8. Ready(srv) /\ Expected /\ SentFor
  BY <1>3, <1>7 DEF Ready, Expected, SentFor, Preparing
<1>9. Checked
  BY <1>3 DEF WebInit, Checked, NoTask
<1> QED
  BY <1>3, <1>4, <1>5, <1>6, <1>8, <1>9 DEF WInv

\* Every step of the two threads, the tasks and the update server keeps the invariant.
LEMMA WebStep == WInv /\ [WebNext]_webVars => WInv'
<1> SUFFICES ASSUME WInv, [WebNext]_webVars PROVE WInv'
  OBVIOUS
<1>1. CASE EngineHandles
  BY <1>1, EngineHandlesKeeps
<1>2. ASSUME NEW msg \in Messages, EngineHears(msg) PROVE WInv'
  BY <1>2, EngineHearsKeeps
<1>3. ASSUME NEW late \in BOOLEAN, EngineTicks(late) PROVE WInv'
  BY <1>3, EngineTicksKeeps
<1>4. CASE Inits \/ TimerChecks
  BY <1>4, InitsKeeps, TimerChecksKeeps
<1>5. CASE WebStops
  BY <1>5, WebStopsKeeps
<1>6. CASE WebTransfers
  <2>1. PICK kind \in {"REQ_DOWNLOAD", "REQ_VERIFY"} : WebStarts(kind)
    BY <1>6 DEF WebTransfers
  <2>2. pulling' \in BOOLEAN
    BY <1>6 DEF WebTransfers, WInv, WebTyped
  <2> QED
    BY <2>1, <2>2, WebStartsKeeps
<1>7. CASE WebDistributes
  BY <1>7, WebStartsKeeps DEF WebDistributes
<1>8. CASE WebPulls \/ WebFeeds
  BY <1>8, WebPullsKeeps, WebFeedsKeeps
<1>9. ASSUME NEW t, NEW given \in BOOLEAN,
             TaskDone(t, given) \/ TaskFails(t, given) \/ TaskEnds(t, given)
      PROVE  WInv'
  BY <1>9, TaskDoneKeeps, TaskFailsKeeps, TaskEndsKeeps
<1>10. ASSUME NEW t \in loose, FlagCleared(t) PROVE WInv'
  BY <1>10, FlagClearedKeeps
<1>11. ASSUME NEW id \in Ids, HubOffers(id) PROVE WInv'
  BY <1>11, HubOffersKeeps
<1>12. CASE HubCancels
  BY <1>12, HubCancelsKeeps
<1>13. CASE UNCHANGED webVars
  <2>1. UNCHANGED <<vars, queueVars, taskVars, told, hub, closed, used, stale>>
    BY <1>13 DEF webVars, hubVars
  <2>2. hub' \in HubState /\ Live \subseteq Live'
    BY <2>1 DEF Live, WInv, WebTyped
  <2> QED
    BY <2>1, <2>2, HubKeeps
<1> QED
  BY <1>1, <1>2, <1>3, <1>4, <1>5, <1>6, <1>7, <1>8, <1>9, <1>10, <1>11, <1>12, <1>13
  DEF WebNext

(***************************************************************************)
(* The invariant of the server engine beside its web queue: whatever the   *)
(* order in which the two threads, the tasks and the update server act.    *)
(***************************************************************************)
THEOREM WebInductive == WebSpec => []WInv
  BY WebInitial, WebStep, PTL DEF WebSpec

(***************************************************************************)
(* The watchdog, the details, the sanction of a deployment and what a      *)
(* controller is told that rejoins: proved of the engine alone for answers *)
(* in any order, they hold for the answers its web queue can give.         *)
(***************************************************************************)
THEOREM WebServerSafe ==
    WebSpec => [](WatchdogArmed /\ DetailsMatchUpgrade /\ DeploySanctioned /\ RejoinControl)
<1>1. WInv => WatchdogArmed /\ DetailsMatchUpgrade /\ DeploySanctioned /\ RejoinControl
  BY Strengthening DEF WInv
<1> QED
  BY <1>1, WebInductive, PTL

(***************************************************************************)
(* A server that transfers has its task at work when nothing is under way: *)
(* it waits for no answer that was lost between the two threads.           *)
(***************************************************************************)
THEOREM AlwaysAwaitsTask == WebSpec => []AwaitsTask
<1>1. WInv => AwaitsTask
  <2> SUFFICES ASSUME WInv, ~InFlight, srv.state \in Transferring, ~stale
               PROVE  /\ held.kind = Awaited /\ held.id = srv.upgrade.id
                      /\ srv.state = "MR_DISTRIBUTE" => srv.control = "CTL_DOWNLOAD" \/ masked
    BY DEF AwaitsTask
  <2>1. toWeb = <<>> /\ toEngine = <<>> /\ ~pulling
    BY DEF InFlight
  <2>2. ~Asks(toWeb, Awaited)
    BY <2>1 DEF Asks
  <2>3. Range(toEngine) = {}
    BY <2>1 DEF Range
  <2>4. AtIt
    BY <2>2, <2>3 DEF WInv, Expected
  <2>5. srv.state = "MR_DISTRIBUTE" => srv.control = "CTL_DOWNLOAD" \/ masked
    BY <2>1, <2>3, <2>4 DEF WInv, SentFor
  <2> QED
    BY <2>4, <2>5 DEF AtIt
<1> QED
  BY <1>1, WebInductive, PTL

(***************************************************************************)
(* Nothing is distributed that was not verified since it was downloaded,   *)
(* unless a late result was taken for a new one.                           *)
(***************************************************************************)
THEOREM ServedAlwaysVerified == WebSpec => []ServedIsVerified
<1>1. WInv => ServedIsVerified
  BY DEF WInv, Checked, ServedIsVerified
<1> QED
  BY <1>1, WebInductive, PTL

(***************************************************************************)
(* When no feed is lost, the update server gets to know of every           *)
(* deployment that the engine has closed.                                  *)
(***************************************************************************)
THEOREM ClosedAlwaysTold == WebSpec => []ClosedIsTold
<1>1. WInv => ClosedIsTold
  BY DEF WInv, Accounted, ClosedIsTold, DeployWaits, Pending
<1> QED
  BY <1>1, WebInductive, PTL

=============================================================================
