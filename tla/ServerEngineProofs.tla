------------------------- MODULE ServerEngineProofs -------------------------
(***************************************************************************)
(* What is proved of ServerEngine: its type, its safety invariants and its *)
(* action properties, in this order.                                       *)
(***************************************************************************)
EXTENDS ServerEngine, FiniteSetTheorems, TLAPS

-----------------------------------------------------------------------------
(***************************************************************************)
(* Type correctness of ServerEngine. One lemma per call and per handler:   *)
(* the record it returns is typed when the one it takes is. The set S the  *)
(* details are about changes with idle and pending only, so Typed leaves   *)
(* it open.                                                                *)
(***************************************************************************)

\* A record of the type of srv.
Typed(s) == \E S \in SUBSET Names : s \in Server(S)

\* Posting an event to the web queue keeps the type.
LEMMA PostTyped ==
    ASSUME NEW s, Typed(s), NEW event \in WebEvent
    PROVE  Typed(Post(s, event))
<1>1. PICK S \in SUBSET Names : s \in Server(S)
  BY DEF Typed
<1>2. Append(s.posted, event) \in Seq(WebEvent)
  BY <1>1 DEF Server
<1>3. Post(s, event) \in Server(S)
  BY <1>1, <1>2 DEF Server, Post
<1> QED
  BY <1>3 DEF Typed

\* The upgrades the server may have are upgrades, and the empty one is.
LEMMA UpgradesTyped == Current \subseteq Upgrade /\ NoUpgrade \in Current
<1>1. NoUpgrade \in Upgrade
  BY DEF NoUpgrade, Upgrade, Method
<1> QED
  BY <1>1, ServerAssumption DEF Current

LEMMA UpgradeTyped == ASSUME NEW s, Typed(s) PROVE s.upgrade \in Upgrade
  BY UpgradesTyped DEF Typed, Server

\* A feed of any type, with the id the code gives it, is an event of the web queue.
LEMMA FeedTyped ==
    ASSUME NEW s, Typed(s), NEW type \in FeedType,
           NEW execution \in {"EXE_PROCEEDING", "EXE_SCHEDULED", "EXE_CLOSED"},
           NEW result \in {"RS_SUCCESS", "RS_FAILURE"}
    PROVE  Feed(s, type, execution, result) \in WebEvent
  BY UpgradeTyped DEF Typed, Server, Feed, WebEvent, WebFeed, Upgrade

\* What is broadcast about the server's upgrade is a broadcast.
LEMMA ControlMessageTyped ==
    ASSUME NEW s, Typed(s), NEW control \in Control, NEW again \in BOOLEAN
    PROVE  ControlMessage(s, control, again) \in Broadcast
  BY DEF Typed, Server, ControlMessage, Broadcast

\* sendControlMessage and resendControlMessage keep the type.
LEMMA SentTyped ==
    ASSUME NEW s, NEW S \in SUBSET Names, s \in Server(S),
           NEW control \in Control, NEW again \in BOOLEAN
    PROVE  [s EXCEPT !.control = control,
                     !.sent = Append(@, ControlMessage(s, control, again))] \in Server(S)
<1> DEFINE sent == Append(s.sent, ControlMessage(s, control, again))
<1>1. sent \in Seq(Broadcast)
  BY ControlMessageTyped DEF Server, Typed
<1> HIDE DEF sent
<1>2. [s EXCEPT !.control = control, !.sent = sent] \in Server(S)
  BY <1>1 DEF Server
<1> QED
  BY <1>2 DEF sent

LEMMA sendControlTyped ==
    ASSUME NEW s, Typed(s), NEW control \in Control
    PROVE  Typed(sendControlMessage(s, control))
<1>1. PICK S \in SUBSET Names : s \in Server(S)
  BY DEF Typed
<1> QED
  BY <1>1, SentTyped DEF Typed, sendControlMessage

LEMMA resendControlTyped ==
    ASSUME NEW s, Typed(s)
    PROVE  Typed(resendControlMessage(s))
<1>1. PICK S \in SUBSET Names : s \in Server(S)
  BY DEF Typed
<1>2. s.control \in Control
  BY <1>1 DEF Server
<1>3. [s EXCEPT !.sent = Append(@, ControlMessage(s, s.control, TRUE))]
        = [s EXCEPT !.control = s.control,
                    !.sent = Append(@, ControlMessage(s, s.control, TRUE))]
  BY <1>1 DEF Server
<1> QED
  BY <1>1, <1>2, <1>3, SentTyped DEF Typed, resendControlMessage

\* setState keeps the type: file, report and state are what they should be.
LEMMA setStateTyped ==
    ASSUME NEW s, Typed(s), NEW state \in ServerState
    PROVE  Typed(setState(s, state))
<1>1. PICK S \in SUBSET Names : s \in Server(S)
  BY DEF Typed
<1> DEFINE file == [exists |-> TRUE, state |-> state, depends |-> s.depends]
<1> DEFINE entered == [s EXCEPT !.lastState = s.state, !.state = state, !.file = file]
<1> DEFINE type == IF s.feedType = "TP_DEPLOY" THEN "TP_DEPLOY" ELSE "TP_CANCEL"
<1>2. file \in StatusFile
  BY <1>1 DEF Server, StatusFile
<1>3. Typed(entered)
  <2> HIDE DEF file
  <2>1. entered \in Server(S)
    BY <1>1, <1>2 DEF Server
  <2> QED
    BY <2>1 DEF Typed
<1>4. Typed(Post(entered, Feed(entered, type, "EXE_PROCEEDING", "RS_SUCCESS")))
  <2>1. type \in FeedType
    BY DEF FeedType
  <2> HIDE DEF entered, type
  <2> QED
    BY <1>3, <2>1, PostTyped, FeedTyped
<1> QED
  BY <1>3, <1>4 DEF setState

\* idle keeps the type, whatever was known of the upgrade it clears.
LEMMA idleTyped ==
    ASSUME NEW s, Typed(s)
    PROVE  Typed(idle(s))
<1>1. PICK S \in SUBSET Names : s \in Server(S)
  BY DEF Typed
<1> DEFINE cleared == [s EXCEPT !.depends = {}, !.details = [n \in {} |-> {}],
                                !.detailSubscribed = FALSE, !.upgrade = NoUpgrade,
                                !.cancelId = NoId]
<1>2. cleared \in Server({})
  <2>1. [n \in {} |-> {}] \in [{} -> Detail]
    OBVIOUS
  <2> QED
    BY <1>1, <2>1, UpgradesTyped DEF Server
<1>3. Typed(setState(cleared, "MR_IDLE"))
  <2> HIDE DEF cleared
  <2> QED
    BY <1>2, setStateTyped DEF Typed, ServerState
<1> QED
  BY <1>3 DEF idle

\* pending keeps the type; the details it makes are those of the packages.
LEMMA pendingTyped ==
    ASSUME NEW s, Typed(s)
    PROVE  Typed(pending(s))
<1>1. PICK S \in SUBSET Names : s \in Server(S)
  BY DEF Typed
<1> DEFINE packages == s.upgrade.packages
<1> DEFINE cleared == [s EXCEPT !.errorCode = 0, !.depends = packages,
                                !.details = [n \in packages |-> NewDetail]]
<1>2. packages \in SUBSET Names
  BY UpgradeTyped DEF Upgrade
<1>3. cleared \in Server(packages)
  <2>1. NewDetail \in Detail
    BY DEF NewDetail, Detail, ClientState, Version
  <2>2. [n \in packages |-> NewDetail] \in [packages -> Detail]
    BY <2>1
  <2> HIDE DEF packages
  <2> QED
    BY <1>1, <1>2, <2>2 DEF Server
<1>4. Typed(setState(sendControlMessage(cleared, "CTL_RESET"), "MR_PENDING"))
  <2>1. Typed(cleared)
    BY <1>2, <1>3 DEF Typed
  <2> HIDE DEF cleared
  <2> QED
    BY <2>1, sendControlTyped, setStateTyped DEF Control, ServerState
<1> QED
  BY <1>4 DEF pending

\* download keeps the type.
LEMMA downloadTyped ==
    ASSUME NEW s, Typed(s)
    PROVE  Typed(download(s))
<1>1. Request("REQ_DOWNLOAD") \in WebEvent
  BY DEF Request, WebEvent, WebRequest
<1> QED
  BY <1>1, setStateTyped, PostTyped DEF download, ServerState

\* deploy keeps the type.
LEMMA deployTyped ==
    ASSUME NEW s, Typed(s)
    PROVE  Typed(deploy(s))
  BY sendControlTyped, setStateTyped DEF deploy, Control, ServerState

\* resume keeps the type, with the depends read from the file.
LEMMA resumeTyped ==
    ASSUME NEW s, Typed(s)
    PROVE  Typed(resume(s))
<1>1. PICK S \in SUBSET Names : s \in Server(S)
  BY DEF Typed
<1>2. Typed([s EXCEPT !.depends = s.cacheDepends])
  <2>1. [s EXCEPT !.depends = s.cacheDepends] \in Server(S)
    BY <1>1 DEF Server
  <2> QED
    BY <2>1 DEF Typed
<1>3. PICK T \in SUBSET Names : deploy([s EXCEPT !.depends = s.cacheDepends]) \in Server(T)
  BY <1>2, deployTyped DEF Typed
<1>4. resume(s) \in Server(T)
  BY <1>3 DEF Server, resume
<1> QED
  BY <1>4 DEF Typed

\* feedback keeps the type, through every call it makes.
LEMMA feedbackTyped ==
    ASSUME NEW s, Typed(s), NEW finished \in BOOLEAN
    PROVE  Typed(feedback(s, finished))
<1> DEFINE closed == [s EXCEPT !.hasFeed = TRUE, !.errorCode = IF finished THEN 0 ELSE 1]
<1> DEFINE result == IF finished THEN "RS_SUCCESS" ELSE "RS_FAILURE"
<1> DEFINE told == Post(Post(sendControlMessage(closed, "CTL_CLEAR"), Request("REQ_STOP")),
                        Feed(closed, s.feedType, "EXE_CLOSED", result))
<1>1. PICK S \in SUBSET Names : s \in Server(S)
  BY DEF Typed
<1>2. Typed(closed)
  <2>1. closed \in Server(S)
    BY <1>1, ZenonT(60) DEF Server
  <2> QED
    BY <2>1 DEF Typed
<1>3. Typed(told)
  <2>1. Request("REQ_STOP") \in WebEvent
    BY DEF Request, WebEvent, WebRequest
  <2>2. s.feedType \in FeedType /\ result \in {"RS_SUCCESS", "RS_FAILURE"}
    BY <1>1 DEF Server
  <2> HIDE DEF closed, result
  <2> QED
    BY <1>2, <2>1, <2>2, sendControlTyped, PostTyped, FeedTyped DEF Control
<1>4. /\ Typed(setState(told, IF finished THEN "MR_DONE_ASK" ELSE "MR_ERROR_ASK"))
      /\ Typed(idle(told))
  <2> HIDE DEF told
  <2> QED
    BY <1>3, setStateTyped, idleTyped DEF ServerState
<1> QED
  BY <1>4 DEF feedback

\* cancel keeps the type.
LEMMA cancelTyped ==
    ASSUME NEW s, Typed(s)
    PROVE  Typed(cancel(s))
<1>1. Typed(setState(sendControlMessage(s, "CTL_CANCEL"), "MR_CANCEL"))
  BY sendControlTyped, setStateTyped DEF Control, ServerState
<1> QED
  BY <1>1, feedbackTyped DEF cancel

\* configAnswer keeps the type, in every state and for every answer.
LEMMA configAnswerTyped ==
    ASSUME NEW s, Typed(s), NEW answer \in Answer
    PROVE  Typed(configAnswer(s, answer))
<1> DEFINE yes == answer = "ANS_ACCEPT"
           no == answer = "ANS_REFUSE"
           answered == IF yes THEN resume(s)
                       ELSE IF ~no THEN s
                       ELSE IF s.hasNewId /\ s.cacheState = "MR_DEPLOY"
                       THEN pending(s) ELSE idle(s)
<1>1. Typed([answered EXCEPT !.hasDeployBreaked = FALSE])
  <2>1. Typed(answered)
    BY resumeTyped, pendingTyped, idleTyped
  <2> HIDE DEF answered
  <2>2. PICK S \in SUBSET Names : answered \in Server(S)
    BY <2>1 DEF Typed
  <2>3. [answered EXCEPT !.hasDeployBreaked = FALSE] \in Server(S)
    BY <2>2 DEF Server
  <2> QED
    BY <2>3 DEF Typed
<1>2. /\ Typed(download(s))
      /\ Typed(deploy(s))
      /\ Typed(cancel(s))
      /\ Typed(idle(s))
      /\ Typed(feedback(s, FALSE))
  BY downloadTyped, deployTyped, cancelTyped, idleTyped, feedbackTyped
<1> QED
  BY <1>1, <1>2 DEF configAnswer, FinalAsk

\* case ServerReqUpgrade keeps the type.
LEMMA OnUpgradeTyped ==
    ASSUME NEW s, Typed(s), NEW upgrade \in Upgrades
    PROVE  Typed(OnUpgrade(s, upgrade))
<1>1. PICK S \in SUBSET Names : s \in Server(S)
  BY DEF Typed
<1> DEFINE new == s.lastlId # upgrade.id
           again == ~new /\ s.lastCancelId = upgrade.id
           breaked == s.hasDeployBreaked /\ ~new
           taken == [s EXCEPT !.hasFeed = FALSE, !.feedType = "TP_DEPLOY",
                              !.hasNewId = new, !.upgrade = upgrade,
                              !.cancelResume = again, !.lastlId = upgrade.id,
                              !.hasDeployBreaked = breaked]
<1>2. upgrade \in Current /\ upgrade.id \in Ids
  BY ServerAssumption DEF Current
<1>3. new \in BOOLEAN /\ again \in BOOLEAN /\ breaked \in BOOLEAN
  OBVIOUS
<1>4. Typed(taken)
  <2>1. taken \in Server(S)
    <3> HIDE DEF new, again, breaked
    <3> QED
      BY <1>1, <1>2, <1>3, ZenonT(60) DEF Server, FeedType
  <2> QED
    BY <2>1 DEF Typed
<1>5. Typed(pending(taken))
  <2> HIDE DEF taken
  <2> QED
    BY <1>4, pendingTyped
<1> QED
  BY <1>5 DEF OnUpgrade

\* What a cancellation writes before it looks at the state keeps the type.
LEMMA AskedTyped ==
    ASSUME NEW S, NEW s \in Server(S), NEW id \in Ids, NEW breaked \in BOOLEAN
    PROVE  [s EXCEPT !.hasFeed = FALSE, !.feedType = "TP_CANCEL",
                     !.cancelId = id, !.lastCancelId = id,
                     !.hasDeployBreaked = breaked] \in Server(S)
  BY DEF Server, FeedType

\* case ServerReqCancel keeps the type.
LEMMA OnCancelTyped ==
    ASSUME NEW s, Typed(s), NEW id \in Ids
    PROVE  Typed(OnCancel(s, id))
<1>1. PICK S \in SUBSET Names : s \in Server(S)
  BY DEF Typed
<1> DEFINE breaked == s.hasDeployBreaked \/ s.state = "MR_DEPLOY"
           asked == [s EXCEPT !.hasFeed = FALSE, !.feedType = "TP_CANCEL",
                              !.cancelId = id, !.lastCancelId = id,
                              !.hasDeployBreaked = breaked]
           refused == feedback(asked, FALSE)
           closed == [req |-> "REQ_FEEDBACK", type |-> "TP_DEPLOY",
                      execution |-> "EXE_CLOSED", result |-> "RS_FAILURE",
                      id |-> refused.cancelId]
<1>2. Typed(asked)
  <2>1. breaked \in BOOLEAN
    OBVIOUS
  <2>2. asked \in Server(S)
    <3> HIDE DEF breaked
    <3> QED
      BY <1>1, <2>1, AskedTyped
  <2> QED
    BY <2>2 DEF Typed
<1>3. /\ Typed(feedback(asked, TRUE))
      /\ Typed(setState(asked, "MR_CANCEL_ASK"))
      /\ Typed(refused)
  <2> HIDE DEF asked
  <2> QED
    BY <1>2, feedbackTyped, setStateTyped DEF ServerState
<1>4. closed \in WebEvent
  <2> HIDE DEF refused
  <2> QED
    BY <1>3 DEF Typed, Server, WebEvent, WebFeed, FeedType
<1>5. Typed(Post(refused, closed))
  <2> HIDE DEF refused, closed
  <2> QED
    BY <1>3, <1>4, PostTyped
<1> QED
  BY <1>3, <1>5 DEF OnCancel

\* case ServerResInit keeps the type, with what the file says.
LEMMA OnInitTyped ==
    ASSUME NEW s, Typed(s), NEW success \in BOOLEAN
    PROVE  Typed(OnInit(s, success))
<1>1. PICK S \in SUBSET Names : s \in Server(S)
  BY DEF Typed
<1> DEFINE read == [s EXCEPT !.cacheDepends = s.file.depends,
                             !.cacheState = IF s.file.state = "MR_DEPLOY" THEN "MR_DEPLOY"
                                            ELSE "MR_UNKNOWN"]
<1>2. Typed(read)
  <2>1. s.file.depends \in SUBSET Names
    BY <1>1 DEF Server, StatusFile
  <2>2. read \in Server(S)
    BY <1>1, <2>1, ZenonT(60) DEF Server
  <2> QED
    BY <2>2 DEF Typed
<1>3. Typed(idle(read))
  <2> HIDE DEF read
  <2> QED
    BY <1>2, idleTyped
<1> QED
  BY <1>3 DEF OnInit

\* case ServerReqPull keeps the type.
LEMMA OnPullTyped ==
    ASSUME NEW s, Typed(s), NEW distributing \in BOOLEAN
    PROVE  Typed(OnPull(s, distributing))
  BY sendControlTyped, setStateTyped DEF OnPull, Control, ServerState

\* The cases of the three results of the web queue keep the type.
LEMMA OnResultTyped ==
    ASSUME NEW s, Typed(s)
    PROVE  /\ Typed(OnDownloadDone(s))
           /\ Typed(OnVerifyDone(s))
           /\ Typed(OnDistributeDone(s))
<1>1. Request("REQ_VERIFY") \in WebEvent /\ Request("REQ_DISTRIBUTE") \in WebEvent
  BY DEF Request, WebEvent, WebRequest
<1> QED
  BY <1>1, setStateTyped, PostTyped
  DEF OnDownloadDone, OnVerifyDone, OnDistributeDone, ServerState

\* case ServerResError keeps the type: retryTimes stays within RetryTimes.
LEMMA OnErrorTyped ==
    ASSUME NEW s, Typed(s)
    PROVE  Typed(OnError(s))
<1>1. ASSUME s.retryTimes < RetryTimes
      PROVE  Typed([download(s) EXCEPT !.retryTimes = @ + 1])
  <2>1. PICK S \in SUBSET Names : download(s) \in Server(S)
    BY downloadTyped DEF Typed
  <2>2. download(s).retryTimes = s.retryTimes
    BY DEF download, setState, Post
  <2>3. s.retryTimes + 1 \in 0..RetryTimes
    BY <1>1, ServerAssumption DEF Typed, Server
  <2> DEFINE d == download(s)
  <2>4. [d EXCEPT !.retryTimes = d.retryTimes + 1] \in Server(S)
    <3> HIDE DEF d
    <3>1. d.retryTimes + 1 \in 0..RetryTimes
      BY <2>2, <2>3 DEF d
    <3>2. d \in Server(S)
      BY <2>1 DEF d
    <3> QED
      BY <3>1, <3>2 DEF Server
  <2> QED
    BY <2>4 DEF Typed
<1>2. Typed(feedback([s EXCEPT !.retryTimes = 0], FALSE))
  <2>1. PICK S \in SUBSET Names : s \in Server(S)
    BY DEF Typed
  <2>2. 0 \in 0..RetryTimes
    BY ServerAssumption
  <2>3. [s EXCEPT !.retryTimes = 0] \in Server(S)
    BY <2>1, <2>2 DEF Server
  <2> QED
    BY <2>3, feedbackTyped DEF Typed
<1> QED
  BY <1>1, <1>2, feedbackTyped DEF OnError

\* A heartbeat keeps the type, known or not.
LEMMA HeardTyped ==
    ASSUME NEW s, Typed(s), NEW msg \in Messages
    PROVE  Typed(Heard(s, msg))
<1>1. PICK S \in SUBSET Names : s \in Server(S)
  BY DEF Typed
<1>2. msg \in Message
  BY ServerAssumption
<1> DEFINE known == msg.name \in Members(s)
           subscribed == [s EXCEPT !.detailSubscribed = @ \/ msg.watcher]
           resent == IF msg.discovery /\ (known \/ msg.watcher)
                     THEN resendControlMessage(subscribed) ELSE subscribed
           heard == IF known
                    THEN [resent EXCEPT !.details[msg.name] = Updated(@, msg.report)]
                    ELSE resent
<1>3. Typed(subscribed) /\ subscribed \in Server(S)
  <2>1. (s.detailSubscribed \/ msg.watcher) \in BOOLEAN
    OBVIOUS
  <2>2. subscribed \in Server(S)
    BY <1>1, <2>1, ZenonT(60) DEF Server
  <2> QED
    BY <2>2 DEF Typed
<1>4. Typed(resent) /\ resent.details = s.details
  <2>1. s.control \in Control /\ subscribed.details = s.details
    BY <1>1 DEF Server
  <2>2. Typed(resendControlMessage(subscribed))
    <3> HIDE DEF subscribed
    <3> QED
      BY <1>3, <2>1, resendControlTyped
  <2>3. resendControlMessage(subscribed).details = subscribed.details
    <3> HIDE DEF subscribed
    <3> QED
      BY <1>3 DEF resendControlMessage, Server
  <2> QED
    BY <1>3, <2>1, <2>2, <2>3
<1>5. Typed(heard)
  <2> HIDE DEF subscribed, resent
  <2>1. PICK T \in SUBSET Names : resent \in Server(T)
    BY <1>4 DEF Typed
  <2>2. ASSUME known
        PROVE  Typed([resent EXCEPT !.details[msg.name] = Updated(@, msg.report)])
    <3>1. msg.name \in T /\ resent.details \in [T -> Detail]
      BY <1>4, <2>1, <2>2 DEF Members, Server
    <3>2. Updated(resent.details[msg.name], msg.report) \in Detail
      BY <1>2, <3>1 DEF Updated, Detail, Message, Report
    <3>3. [resent.details EXCEPT ![msg.name] = Updated(@, msg.report)] \in [T -> Detail]
      BY <3>1, <3>2
    <3>4. [resent EXCEPT !.details[msg.name] = Updated(@, msg.report)] \in Server(T)
      BY <2>1, <3>3 DEF Server
    <3> QED
      BY <3>4 DEF Typed
  <2> QED
    BY <1>4, <2>2
<1> QED
  BY <1>5 DEF Heard

\* case ServerResDomain keeps the type.
LEMMA OnDomainTyped ==
    ASSUME NEW s, Typed(s), NEW msg \in Messages
    PROVE  Typed(OnDomain(s, msg))
<1>1. msg.answer \in Answer
  BY ServerAssumption DEF Message
<1> QED
  BY <1>1, HeardTyped, configAnswerTyped DEF OnDomain

\* The members of a typed record are the set its type names.
LEMMA MembersTyped ==
    ASSUME NEW S, NEW s \in Server(S)
    PROVE  Members(s) = S
  BY DEF Server, Members

\* Marking silent domains offline keeps the details typed.
LEMMA SeenTyped ==
    ASSUME NEW S \in SUBSET Names, NEW s \in Server(S), NEW silent
    PROVE  Seen(s, silent) \in [S -> Detail]
<1>1. s.details \in [S -> Detail] /\ Members(s) = S
  BY MembersTyped DEF Server
<1>2. ASSUME NEW n \in S
      PROVE  [s.details[n] EXCEPT !.last = s.details[n].state, !.state = "WR_OFFLINE"]
               \in Detail
  BY <1>1 DEF Detail, ClientState
<1> QED
  BY <1>1, <1>2 DEF Seen

\* The domains that finish in a tick can be counted.
LEMMA FinishingFinite ==
    ASSUME NEW S \in SUBSET Names, NEW s \in Server(S), NEW silent, NEW overdue
    PROVE  Cardinality(Finishing(s, silent, overdue)) \in Nat
<1>1. Finishing(s, silent, overdue) \subseteq Names
  BY MembersTyped DEF Finishing, Passed, Visited
<1> QED
  BY <1>1, ServerAssumption, FS_Subset, FS_CardinalityType

\* The fields the loop of processDomains writes, each with its type, keep the type.
LEMMA RewrittenTyped ==
    ASSUME NEW S, NEW s \in Server(S), NEW details \in [S -> Detail],
           NEW depends \in SUBSET Names, NEW sent \in Seq(Broadcast),
           NEW posted \in Seq(WebEvent)
    PROVE  [s EXCEPT !.details = details, !.depends = depends, !.sent = sent,
                     !.posted = posted] \in Server(S)
  BY DEF Server

\* The loop of processDomains keeps the type and the set of details.
LEMMA LoopedTyped ==
    ASSUME NEW S \in SUBSET Names, NEW s \in Server(S),
           NEW silent \in SUBSET S, NEW overdue \in SUBSET S
    PROVE  Looped(s, silent, overdue) \in Server(S)
<1> DEFINE started == Started(s, silent, overdue)
           finishing == Finishing(s, silent, overdue)
           visited == Visited(s, silent, overdue)
           count == IF s.control = "CTL_DEPLOY" THEN Cardinality(finishing) ELSE 0
           resends == 1..count
           body(n) == IF n \in visited THEN Seen(s, silent)[n] ELSE s.details[n]
           details == [n \in Members(s) |->
              [body(n) EXCEPT !.deploy = (@ /\ n \notin finishing) \/ started[n]]]
           depends == DependsAt(s, silent, overdue, started, Members(s))
           sent == s.sent \o [i \in resends |-> Resent(s, silent, overdue, started, i)]
           posted == s.posted \o [i \in resends |->
                       Feed(s, "TP_DEPLOY", "EXE_SCHEDULED", "RS_SUCCESS")]
<1>1. details \in [S -> Detail]
  <2>1. Members(s) = S /\ s.details \in [S -> Detail] /\ Seen(s, silent) \in [S -> Detail]
    BY MembersTyped, SeenTyped DEF Server
  <2>2. ASSUME NEW n \in S
        PROVE  [body(n) EXCEPT !.deploy = (@ /\ n \notin finishing) \/ started[n]] \in Detail
    <3>1. body(n) \in Detail
      BY <2>1
    <3>2. ((body(n).deploy /\ n \notin finishing) \/ started[n]) \in BOOLEAN
      OBVIOUS
    <3> HIDE DEF body, finishing, started
    <3> QED
      BY <3>1, <3>2 DEF Detail
  <2> QED
    BY <2>1, <2>2
<1>2. depends \in SUBSET Names
  BY DEF DependsAt
<1>3. count \in Nat
  BY FinishingFinite
<1>4. sent \in Seq(Broadcast)
  <2>1. ASSUME NEW i \in resends
        PROVE  Resent(s, silent, overdue, started, i) \in Broadcast
    <3>1. ControlMessage(s, "CTL_DEPLOY", FALSE) \in Broadcast
      BY ControlMessageTyped DEF Typed, Control
    <3>2. DependsAfter(s, silent, overdue, started, Nth(Finishing(s, silent, overdue), i))
            \in SUBSET Names
      BY MembersTyped DEF DependsAfter
    <3> QED
      BY <3>1, <3>2 DEF Resent, Broadcast
  <2>2. [i \in resends |-> Resent(s, silent, overdue, started, i)] \in Seq(Broadcast)
    <3> HIDE DEF count
    <3> QED
      BY <1>3, <2>1
  <2> HIDE DEF resends
  <2> QED
    BY <2>2 DEF Server
<1>5. posted \in Seq(WebEvent)
  <2>1. Feed(s, "TP_DEPLOY", "EXE_SCHEDULED", "RS_SUCCESS") \in WebEvent
    BY FeedTyped DEF Typed, FeedType
  <2>2. [i \in resends |-> Feed(s, "TP_DEPLOY", "EXE_SCHEDULED", "RS_SUCCESS")]
          \in Seq(WebEvent)
    <3> HIDE DEF count
    <3> QED
      BY <1>3, <2>1
  <2> HIDE DEF resends
  <2> QED
    BY <2>2 DEF Server
<1>6. Looped(s, silent, overdue)
        = [s EXCEPT !.details = details, !.depends = depends, !.sent = sent,
                    !.posted = posted]
  BY DEF Looped
<1> QED
  <2> HIDE DEF details, depends, sent, posted
  <2>1. [s EXCEPT !.details = details, !.depends = depends, !.sent = sent,
                  !.posted = posted] \in Server(S)
    BY <1>1, <1>2, <1>4, <1>5, RewrittenTyped
  <2> QED
    BY <1>6, <2>1

\* The gathering part of processDomains keeps the type.
LEMMA GatheredTyped ==
    ASSUME NEW s, Typed(s), NEW vaild \in BOOLEAN
    PROVE  Typed(Gathered(s, vaild))
<1>1. /\ Typed(setState(s, "MR_RESUME_ASK"))
      /\ Typed(setState(s, "MR_READY"))
      /\ Typed(setState(s, "MR_DOWNLOAD_ASK"))
      /\ Typed(setState(s, "MR_PENDING"))
      /\ Typed(download(s))
  BY setStateTyped, downloadTyped DEF ServerState
<1> QED
  BY <1>1 DEF Gathered

\* The waiting part of processDomains keeps the type.
LEMMA WaitedTyped ==
    ASSUME NEW s, Typed(s), NEW waiting \in BOOLEAN
    PROVE  Typed(Waited(s, waiting))
<1>1. /\ Typed(deploy(s))
      /\ Typed(setState(s, "MR_DEPLOY_ASK"))
      /\ Typed(setState(s, "MR_WAIT"))
  BY setStateTyped, deployTyped DEF ServerState
<1> QED
  BY <1>1 DEF Waited

\* processDomains keeps the type, whichever of its exits it takes.
LEMMA processDomainsTyped ==
    ASSUME NEW s, Typed(s), NEW late \in BOOLEAN,
           NEW silent \in SUBSET Members(s), NEW overdue \in SUBSET Members(s)
    PROVE  Typed(processDomains(s, late, silent, overdue))
<1> DEFINE looped == Looped(s, silent, overdue)
           gathered == Gathered(looped, AllVaild(s, silent))
           waited == Waited(gathered, AllWaiting(s, silent))
<1>1. Typed(looped)
  <2>1. PICK S \in SUBSET Names : s \in Server(S)
    BY DEF Typed
  <2> QED
    BY <2>1, MembersTyped, LoopedTyped DEF Typed
<1>2. Typed(gathered)
  <2>1. AllVaild(s, silent) \in BOOLEAN
    BY DEF AllVaild
  <2> HIDE DEF looped
  <2> QED
    BY <1>1, <2>1, GatheredTyped
<1>3. Typed(waited)
  <2>1. AllWaiting(s, silent) \in BOOLEAN
    BY DEF AllWaiting
  <2> HIDE DEF gathered
  <2> QED
    BY <1>2, <2>1, WaitedTyped
<1>4. /\ Typed(feedback(s, FALSE)) /\ Typed(feedback(looped, FALSE))
      /\ Typed(feedback(gathered, TRUE))
      /\ Typed(feedback(waited, TRUE)) /\ Typed(feedback(waited, FALSE))
  <2> HIDE DEF looped, gathered, waited
  <2> QED
    BY <1>1, <1>2, <1>3, feedbackTyped
<1> QED
  <2> HIDE DEF looped, gathered, waited
  <2>1. processDomains(s, late, silent, overdue) \in
          {feedback(s, FALSE), feedback(looped, FALSE), feedback(gathered, TRUE),
           feedback(waited, TRUE), feedback(waited, FALSE), waited}
    BY DEF processDomains, looped, gathered, waited
  <2> QED
    BY <1>3, <1>4, <2>1

\* A process that starts is typed, whatever it finds in the file.
LEMMA BootTyped ==
    ASSUME NEW file \in StatusFile
    PROVE  Typed(Boot(file))
<1>1. [n \in {} |-> {}] \in [{} -> Detail] /\ <<>> \in Seq(WebEvent) /\ <<>> \in Seq(Broadcast)
  OBVIOUS
<1>2. 0 \in 0..RetryTimes
  BY ServerAssumption
<1>3. file.exists \in BOOLEAN /\ (~file.exists) \in BOOLEAN
  BY DEF StatusFile
<1>4. Boot(file) \in Server({})
  BY <1>1, <1>2, <1>3, UpgradesTyped DEF Boot, Server, ServerState, Control, FeedType
<1> QED
  BY <1>4 DEF Typed

\* Emptying the outputs of the last step keeps the type.
LEMMA FreshTyped ==
    ASSUME NEW s, Typed(s)
    PROVE  Typed(Fresh(s))
<1>1. PICK S \in SUBSET Names : s \in Server(S)
  BY DEF Typed
<1>2. Fresh(s) \in Server(S)
  <2>1. <<>> \in Seq(WebEvent) /\ <<>> \in Seq(Broadcast)
    OBVIOUS
  <2> QED
    BY <1>1, <2>1 DEF Server, Fresh
<1> QED
  BY <1>2 DEF Typed

\* Every step keeps the type.
LEMMA TypeStep == TypeOK /\ [Next]_vars => TypeOK'
<1> SUFFICES ASSUME Typed(srv), inited \in BOOLEAN, [Next]_vars
             PROVE  Typed(srv)' /\ inited' \in BOOLEAN
  BY DEF TypeOK, Typed
<1> DEFINE s == Fresh(srv)
<1>0. Typed(s) /\ Members(s) = Members(srv)
  BY FreshTyped DEF Fresh, Members, Typed, Server
<1> HIDE DEF s
<1>1. ASSUME NEW success \in BOOLEAN, ResInit(success)
      PROVE  Typed(srv') /\ inited' \in BOOLEAN
  BY <1>0, <1>1, OnInitTyped DEF ResInit, s
<1>2. ASSUME NEW active \in Active, ReqActive(active)
      PROVE  Typed(srv')
  <2>1. PICK S \in SUBSET Names : s \in Server(S)
    BY <1>0 DEF Typed
  <2>2. OnActive(s, active) \in Server(S)
    BY <2>1, ServerAssumption DEF OnActive, Server
  <2> QED
    BY <1>2, <2>2 DEF ReqActive, FromWeb, Typed, s
<1>3. ReqIdle => Typed(srv')
  BY <1>0, idleTyped DEF ReqIdle, FromWeb, OnIdle, s
<1>4. ASSUME NEW upgrade \in Upgrades, ReqUpgrade(upgrade)
      PROVE  Typed(srv')
  BY <1>0, <1>4, OnUpgradeTyped DEF ReqUpgrade, FromWeb, s
<1>5. ASSUME NEW id \in Ids, ReqCancel(id)
      PROVE  Typed(srv')
  BY <1>0, <1>5, OnCancelTyped DEF ReqCancel, FromWeb, s
<1>6. ASSUME NEW distributing \in BOOLEAN, ReqPull(distributing)
      PROVE  Typed(srv')
  BY <1>0, <1>6, OnPullTyped DEF ReqPull, FromWeb, s
<1>7. ResDownloadDone \/ ResVerifyDone \/ ResDistributeDone => Typed(srv')
  BY <1>0, OnResultTyped
  DEF ResDownloadDone, ResVerifyDone, ResDistributeDone, FromWeb, s
<1>8. ResError => Typed(srv')
  BY <1>0, OnErrorTyped DEF ResError, FromWeb, s
<1>9. ASSUME NEW msg \in Messages, ResDomain(msg)
      PROVE  Typed(srv') /\ inited' \in BOOLEAN
  BY <1>0, <1>9, OnDomainTyped DEF ResDomain, s
<1>10. ASSUME NEW late \in BOOLEAN, NEW silent \in SUBSET Members(srv),
              NEW overdue \in SUBSET Members(srv), Tick(late, silent, overdue)
       PROVE  Typed(srv') /\ inited' \in BOOLEAN
  BY <1>0, <1>10, processDomainsTyped DEF Tick, s
<1>11. ASSUME NEW torn \in BOOLEAN, Restart(torn)
       PROVE  Typed(srv') /\ inited' \in BOOLEAN
  <2>1. TornFile \in StatusFile /\ srv.file \in StatusFile
    BY DEF TornFile, StatusFile, ServerState, Typed, Server
  <2> QED
    BY <1>11, <2>1, BootTyped DEF Restart
<1>12. ReqIdle \/ ResDownloadDone \/ ResVerifyDone \/ ResDistributeDone \/ ResError
         => inited' \in BOOLEAN
  BY DEF ReqIdle, ResDownloadDone, ResVerifyDone, ResDistributeDone, ResError, FromWeb
<1>13. /\ \A active : ReqActive(active) => inited' \in BOOLEAN
       /\ \A upgrade : ReqUpgrade(upgrade) => inited' \in BOOLEAN
       /\ \A id : ReqCancel(id) => inited' \in BOOLEAN
       /\ \A distributing : ReqPull(distributing) => inited' \in BOOLEAN
  BY DEF ReqActive, ReqUpgrade, ReqCancel, ReqPull, FromWeb
<1>14. UNCHANGED vars => Typed(srv') /\ inited' \in BOOLEAN
  BY DEF vars
<1> QED
  BY <1>1, <1>2, <1>3, <1>4, <1>5, <1>6, <1>7, <1>8, <1>9, <1>10, <1>11, <1>12, <1>13,
     <1>14
  DEF Next

(***************************************************************************)
(* The server's state keeps its type: every call and handler of the        *)
(* engine, composed as the code composes them, for any set of names, ids,  *)
(* upgrades and messages.                                                  *)
(***************************************************************************)
THEOREM TypeCorrect == Spec => []TypeOK
<1>1. TypeOK <=> Typed(srv) /\ inited \in BOOLEAN
  BY DEF TypeOK, Typed
<1>2. Init => TypeOK
  <2>1. NoFile \in StatusFile
    BY DEF NoFile, StatusFile, ServerState
  <2> QED
    BY <1>1, <2>1, BootTyped DEF Init
<1> QED
  BY <1>2, TypeStep, PTL DEF Spec

-----------------------------------------------------------------------------
(***************************************************************************)
(* The safety invariants of ServerEngine. Sound is their conjunction as a  *)
(* predicate of the record, strengthened by what MR_DEPLOY_ASK says of its *)
(* upgrade: without it an answer in that state might deploy an upgrade     *)
(* that does not ask. The effect of each call is stated first, on the      *)
(* fields that the invariant reads; then each call and handler is shown to *)
(* keep it.                                                                *)
(***************************************************************************)

\* r and s agree on what the invariant reads beside state and lastState.
Same(r, s) == /\ r.hasFeed = s.hasFeed /\ r.feedType = s.feedType
              /\ r.errorCode = s.errorCode /\ r.control = s.control
              /\ r.upgrade = s.upgrade /\ r.details = s.details

\* DetailsMatchUpgrade, of a record.
Matched(s) == /\ DOMAIN s.details = s.upgrade.packages
              /\ s.state \in {"MR_IDLE", "MR_OFFLINE"} => s.upgrade = NoUpgrade

\* The states WatchdogArmed is about.
ArmedStates == Gathering \cup {"MR_RESUME_ASK", "MR_DEPLOY_ASK", "MR_DEPLOY"}

\* WatchdogArmed, of a record.
Armed(s) == /\ s.state \in ArmedStates =>
                 s.feedType # "TP_UNKNOWN" /\ ~s.hasFeed /\ s.errorCode = 0
            /\ FinalAsk(s) => s.hasFeed

\* DeploySanctioned, of a record; the second conjunct strengthens it.
Sanctioned(s) ==
    /\ s.state = "MR_DEPLOY" =>
         \/ s.lastState = "MR_RESUME_ASK"
         \/ s.lastState = "MR_DEPLOY_ASK" /\ s.upgrade.deploy = "MTHD_ATTEMPT"
         \/ s.lastState = "MR_WAIT" /\ s.upgrade.deploy = "MTHD_FORCED"
    /\ s.state = "MR_DEPLOY_ASK" => s.upgrade.deploy = "MTHD_ATTEMPT"

\* RejoinControl, of a record.
Rejoins(s) ==
    /\ s.state \in Gathering \cup {"MR_RESUME_ASK"} => s.control = "CTL_RESET"
    /\ s.state = "MR_DEPLOY" => s.control = "CTL_DEPLOY"
    /\ s.state = "MR_CANCEL" => s.control = "CTL_CANCEL"
    /\ FinalAsk(s) => s.control = "CTL_CLEAR"

\* The invariant of the life cycle.
Sound(s) == Matched(s) /\ Armed(s) /\ Sanctioned(s) /\ Rejoins(s)

\* Post changes nothing but the events posted.
LEMMA PostEffect ==
    ASSUME NEW s, Typed(s), NEW event
    PROVE  /\ Same(Post(s, event), s)
           /\ Post(s, event).state = s.state /\ Post(s, event).lastState = s.lastState
  BY DEF Typed, Server, Post, Same

\* setState changes state and lastState, and nothing else the invariant reads.
LEMMA setStateEffect ==
    ASSUME NEW s, Typed(s), NEW state \in ServerState
    PROVE  /\ Same(setState(s, state), s)
           /\ setState(s, state).state = state
           /\ setState(s, state).lastState
                = IF s.state = state THEN s.lastState ELSE s.state
  BY DEF Typed, Server, setState, Post, Same

\* sendControlMessage changes control, and nothing else the invariant reads.
LEMMA sendControlEffect ==
    ASSUME NEW s, Typed(s), NEW control \in Control
    PROVE  LET r == sendControlMessage(s, control) IN
           /\ r.state = s.state /\ r.lastState = s.lastState
           /\ r.hasFeed = s.hasFeed /\ r.feedType = s.feedType
           /\ r.errorCode = s.errorCode
           /\ r.upgrade = s.upgrade /\ r.details = s.details
           /\ r.control = IF control = "CTL_UNKNOWN" THEN s.control ELSE control
  BY DEF Typed, Server, sendControlMessage

\* To repeat the last control changes nothing but what is sent.
LEMMA resendControlEffect ==
    ASSUME NEW s, Typed(s)
    PROVE  LET r == resendControlMessage(s) IN
           /\ r.state = s.state /\ r.lastState = s.lastState
           /\ r.hasFeed = s.hasFeed /\ r.feedType = s.feedType
           /\ r.errorCode = s.errorCode
           /\ r.upgrade = s.upgrade /\ r.details = s.details
           /\ r.control = s.control
  BY DEF Typed, Server, resendControlMessage

\* idle enters MR_IDLE and, unless it was there, forgets the upgrade.
LEMMA idleEffect ==
    ASSUME NEW s, Typed(s)
    PROVE  LET r == idle(s) IN
           /\ r.state = "MR_IDLE"
           /\ r.hasFeed = s.hasFeed /\ r.control = s.control
           /\ s.state = "MR_IDLE" => r = s
           /\ s.state # "MR_IDLE" => r.upgrade = NoUpgrade /\ DOMAIN r.details = {}
<1>1. PICK S \in SUBSET Names : s \in Server(S)
  BY DEF Typed
<1> DEFINE cleared == [s EXCEPT !.depends = {}, !.details = [n \in {} |-> {}],
                                !.detailSubscribed = FALSE, !.upgrade = NoUpgrade,
                                !.cancelId = NoId]
<1>2. Typed(cleared)
  <2>1. [n \in {} |-> {}] \in [{} -> Detail]
    OBVIOUS
  <2>2. cleared \in Server({})
    BY <1>1, <2>1, UpgradesTyped DEF Server
  <2> QED
    BY <2>2 DEF Typed
<1>3. /\ cleared.hasFeed = s.hasFeed /\ cleared.control = s.control
      /\ cleared.upgrade = NoUpgrade /\ DOMAIN cleared.details = {}
  BY <1>1 DEF Server
<1>4. /\ setState(cleared, "MR_IDLE").state = "MR_IDLE"
      /\ Same(setState(cleared, "MR_IDLE"), cleared)
  <2> HIDE DEF cleared
  <2> QED
    BY <1>2, setStateEffect DEF ServerState
<1>5. s.state # "MR_IDLE" => idle(s) = setState(cleared, "MR_IDLE")
  BY DEF idle
<1> QED
  <2> HIDE DEF cleared
  <2> QED
    BY <1>3, <1>4, <1>5 DEF idle, Same

\* pending arms the watchdog again and makes the details of the upgrade.
LEMMA pendingEffect ==
    ASSUME NEW s, Typed(s)
    PROVE  LET r == pending(s) IN
           /\ r.state = "MR_PENDING" /\ r.control = "CTL_RESET" /\ r.errorCode = 0
           /\ r.hasFeed = s.hasFeed /\ r.feedType = s.feedType
           /\ r.upgrade = s.upgrade /\ DOMAIN r.details = r.upgrade.packages
<1>1. PICK S \in SUBSET Names : s \in Server(S)
  BY DEF Typed
<1> DEFINE packages == s.upgrade.packages
           details == [n \in packages |-> NewDetail]
           cleared == [s EXCEPT !.errorCode = 0, !.depends = packages, !.details = details]
           told == sendControlMessage(cleared, "CTL_RESET")
<1>2. packages \in SUBSET Names
  BY UpgradeTyped DEF Upgrade
<1>3. details \in [packages -> Detail]
  <2>1. NewDetail \in Detail
    BY DEF NewDetail, Detail, ClientState, Version
  <2> QED
    BY <2>1
<1>4. cleared \in Server(packages)
  <2> HIDE DEF packages, details
  <2> QED
    BY <1>1, <1>2, <1>3 DEF Server
<1>5. /\ cleared.errorCode = 0 /\ cleared.hasFeed = s.hasFeed
      /\ cleared.feedType = s.feedType /\ cleared.upgrade = s.upgrade
      /\ DOMAIN cleared.details = packages
  <2> HIDE DEF packages
  <2> QED
    BY <1>1 DEF Server
<1>6. /\ Typed(told) /\ told.control = "CTL_RESET"
      /\ told.errorCode = cleared.errorCode /\ told.hasFeed = cleared.hasFeed
      /\ told.feedType = cleared.feedType
      /\ told.upgrade = cleared.upgrade /\ told.details = cleared.details
  <2> HIDE DEF cleared
  <2> QED
    BY <1>2, <1>4, sendControlEffect, sendControlTyped DEF Typed, Control
<1>7. Same(setState(told, "MR_PENDING"), told)
      /\ setState(told, "MR_PENDING").state = "MR_PENDING"
  <2> HIDE DEF told
  <2> QED
    BY <1>6, setStateEffect DEF ServerState
<1>8. pending(s) = setState(told, "MR_PENDING")
  BY DEF pending
<1> QED
  <2> HIDE DEF told, cleared
  <2> QED
    BY <1>5, <1>6, <1>7, <1>8 DEF Same

\* download changes the state alone.
LEMMA downloadEffect ==
    ASSUME NEW s, Typed(s)
    PROVE  Same(download(s), s) /\ download(s).state = "MR_DOWNLOAD"
<1>1. Typed(setState(s, "MR_DOWNLOAD")) /\ Same(setState(s, "MR_DOWNLOAD"), s)
      /\ setState(s, "MR_DOWNLOAD").state = "MR_DOWNLOAD"
  BY setStateTyped, setStateEffect DEF ServerState
<1> QED
  BY <1>1, PostEffect DEF download, Same

\* deploy enters MR_DEPLOY with its control, and remembers where from.
LEMMA deployEffect ==
    ASSUME NEW s, Typed(s)
    PROVE  LET r == deploy(s) IN
           /\ r.state = "MR_DEPLOY" /\ r.control = "CTL_DEPLOY"
           /\ r.lastState = IF s.state = "MR_DEPLOY" THEN s.lastState ELSE s.state
           /\ r.hasFeed = s.hasFeed /\ r.feedType = s.feedType
           /\ r.errorCode = s.errorCode
           /\ r.upgrade = s.upgrade /\ r.details = s.details
<1> DEFINE told == sendControlMessage(s, "CTL_DEPLOY")
<1>1. /\ Typed(told) /\ told.control = "CTL_DEPLOY"
      /\ told.state = s.state /\ told.lastState = s.lastState
      /\ told.hasFeed = s.hasFeed /\ told.feedType = s.feedType
      /\ told.errorCode = s.errorCode
      /\ told.upgrade = s.upgrade /\ told.details = s.details
  BY sendControlEffect, sendControlTyped DEF Control
<1> HIDE DEF told
<1>2. /\ Same(setState(told, "MR_DEPLOY"), told)
      /\ setState(told, "MR_DEPLOY").state = "MR_DEPLOY"
      /\ setState(told, "MR_DEPLOY").lastState
           = IF told.state = "MR_DEPLOY" THEN told.lastState ELSE told.state
  BY <1>1, setStateEffect DEF ServerState
<1>3. deploy(s) = setState(told, "MR_DEPLOY")
  BY DEF deploy, told
<1> QED
  BY <1>1, <1>2, <1>3 DEF Same

\* feedback restores the invariant after hasFeed has been reset: the only use of it
\* in a state that is not Sound is for a request that is open, which it closes.
LEMMA feedbackSound ==
    ASSUME NEW s, Typed(s), NEW finished \in BOOLEAN, Matched(s),
           s.hasFeed \/ s.feedType = "TP_UNKNOWN" => Sound(s)
    PROVE  Sound(feedback(s, finished))
<1>1. CASE s.hasFeed \/ s.feedType = "TP_UNKNOWN"
  BY <1>1 DEF feedback
<1>2. CASE ~(s.hasFeed \/ s.feedType = "TP_UNKNOWN")
  <2> DEFINE closed == [s EXCEPT !.hasFeed = TRUE,
                                 !.errorCode = IF finished THEN 0 ELSE 1]
             cleared == sendControlMessage(closed, "CTL_CLEAR")
             stopped == Post(cleared, Request("REQ_STOP"))
             result == IF finished THEN "RS_SUCCESS" ELSE "RS_FAILURE"
             feed == Feed(closed, s.feedType, "EXE_CLOSED", result)
             told == Post(stopped, feed)
             asked == setState(told, IF finished THEN "MR_DONE_ASK" ELSE "MR_ERROR_ASK")
  <2>1. PICK S \in SUBSET Names : s \in Server(S)
    BY DEF Typed
  <2>2. /\ Typed(closed) /\ closed.hasFeed = TRUE /\ closed.state = s.state
        /\ closed.upgrade = s.upgrade /\ closed.details = s.details
    <3>1. closed \in Server(S)
      BY <2>1, ZenonT(60) DEF Server
    <3> QED
      BY <2>1, <3>1 DEF Server, Typed
  <2>3. feed \in WebEvent
    <3>1. s.feedType \in FeedType /\ result \in {"RS_SUCCESS", "RS_FAILURE"}
      BY <2>1 DEF Server
    <3> HIDE DEF closed, result
    <3> QED
      BY <2>2, <3>1, FeedTyped
  <2>4. /\ Typed(cleared) /\ cleared.hasFeed = TRUE /\ cleared.state = s.state
        /\ cleared.upgrade = s.upgrade /\ cleared.details = s.details
        /\ cleared.control = "CTL_CLEAR"
    <3> HIDE DEF closed
    <3>1. "CTL_CLEAR" \in Control
      BY DEF Control
    <3>2. Typed(cleared)
      BY <2>2, <3>1, sendControlTyped
    <3>3. /\ cleared.hasFeed = closed.hasFeed /\ cleared.state = closed.state
          /\ cleared.upgrade = closed.upgrade /\ cleared.details = closed.details
          /\ cleared.control = "CTL_CLEAR"
      BY <2>2, <3>1, sendControlEffect
    <3> QED
      BY <2>2, <3>2, <3>3
  <2>5. /\ Typed(told) /\ told.hasFeed = TRUE /\ told.state = s.state
        /\ told.upgrade = s.upgrade /\ told.details = s.details
        /\ told.control = "CTL_CLEAR"
    <3>1. Request("REQ_STOP") \in WebEvent
      BY DEF Request, WebEvent, WebRequest
    <3>2. Typed(stopped) /\ Same(stopped, cleared) /\ stopped.state = cleared.state
      <4> HIDE DEF cleared
      <4> QED
        BY <2>4, <3>1, PostTyped, PostEffect
    <3>3. Typed(told) /\ Same(told, stopped) /\ told.state = stopped.state
      <4> HIDE DEF stopped, feed
      <4> QED
        BY <2>3, <3>2, PostTyped, PostEffect
    <3> HIDE DEF cleared, stopped, told
    <3> QED
      BY <2>4, <3>2, <3>3 DEF Same
  <2>6. feedback(s, finished) = IF s.detailSubscribed THEN asked ELSE idle(told)
    BY <1>2 DEF feedback
  <2>7. Sound(asked)
    <3> HIDE DEF told
    <3>1. /\ Same(asked, told)
          /\ asked.state = IF finished THEN "MR_DONE_ASK" ELSE "MR_ERROR_ASK"
      BY <2>5, setStateEffect DEF ServerState
    <3> HIDE DEF asked
    <3> QED
      BY <2>5, <3>1
      DEF Sound, Matched, Armed, Sanctioned, Rejoins, FinalAsk, Same, ArmedStates, Gathering
  <2>8. Sound(idle(told))
    <3> HIDE DEF told
    <3>1. /\ idle(told).state = "MR_IDLE"
          /\ told.state = "MR_IDLE" => idle(told) = told
          /\ told.state # "MR_IDLE" =>
               idle(told).upgrade = NoUpgrade /\ DOMAIN idle(told).details = {}
      BY <2>5, idleEffect
    <3>2. NoUpgrade.packages = {}
      BY DEF NoUpgrade
    <3> QED
      BY <2>5, <3>1, <3>2
      DEF Sound, Matched, Armed, Sanctioned, Rejoins, FinalAsk, ArmedStates, Gathering
  <2> HIDE DEF asked, told
  <2> QED
    BY <2>6, <2>7, <2>8
<1> QED
  BY <1>1, <1>2

\* States the invariant asks nothing of.
Quiet == {"MR_DOWNLOAD", "MR_VERIFY", "MR_DISTRIBUTE", "MR_WAIT", "MR_CANCEL_ASK"}

\* A state without an obligation of its own is sound once the details match.
LEMMA QuietSound ==
    ASSUME NEW s, NEW r, Matched(s), r.state \in Quiet,
           r.upgrade = s.upgrade, r.details = s.details
    PROVE  Sound(r)
  BY DEF Quiet, Sound, Matched, Armed, Sanctioned, Rejoins, FinalAsk, ArmedStates, Gathering

\* The invariant reads nothing but these fields.
LEMMA SameSound ==
    ASSUME NEW s, NEW r, Sound(s), Same(r, s), r.state = s.state, r.lastState = s.lastState
    PROVE  Sound(r)
  BY DEF Sound, Matched, Armed, Sanctioned, Rejoins, FinalAsk, Same

\* Entering a quiet state keeps the invariant.
LEMMA setStateSound ==
    ASSUME NEW s, Typed(s), Matched(s), NEW state \in Quiet
    PROVE  Sound(setState(s, state))
  BY setStateEffect, QuietSound DEF Same, Quiet, ServerState

\* download keeps the invariant.
LEMMA downloadSound ==
    ASSUME NEW s, Typed(s), Matched(s)
    PROVE  Sound(download(s))
  BY downloadEffect, QuietSound DEF Same, Quiet

\* idle keeps the invariant.
LEMMA idleSound ==
    ASSUME NEW s, Typed(s), Matched(s)
    PROVE  Sound(idle(s))
<1>1. NoUpgrade.packages = {}
  BY DEF NoUpgrade
<1>2. /\ idle(s).state = "MR_IDLE"
      /\ s.state = "MR_IDLE" => idle(s) = s
      /\ s.state # "MR_IDLE" =>
           idle(s).upgrade = NoUpgrade /\ DOMAIN idle(s).details = {}
  BY idleEffect
<1> QED
  BY <1>1, <1>2
  DEF Sound, Matched, Armed, Sanctioned, Rejoins, FinalAsk, ArmedStates, Gathering

\* pending establishes the invariant for a request that is open.
LEMMA pendingSound ==
    ASSUME NEW s, Typed(s), s.feedType # "TP_UNKNOWN", ~s.hasFeed
    PROVE  Sound(pending(s))
<1>1. /\ pending(s).state = "MR_PENDING" /\ pending(s).control = "CTL_RESET"
      /\ pending(s).errorCode = 0
      /\ pending(s).hasFeed = s.hasFeed /\ pending(s).feedType = s.feedType
      /\ DOMAIN pending(s).details = pending(s).upgrade.packages
  BY pendingEffect
<1> QED
  BY <1>1
  DEF Sound, Matched, Armed, Sanctioned, Rejoins, FinalAsk, ArmedStates, Gathering

\* deploy keeps the invariant where the deployment has been sanctioned.
LEMMA deploySound ==
    ASSUME NEW s, Typed(s), Sound(s), s.state # "MR_DEPLOY",
           s.feedType # "TP_UNKNOWN", ~s.hasFeed, s.errorCode = 0,
           \/ s.state = "MR_RESUME_ASK"
           \/ s.state = "MR_DEPLOY_ASK" /\ s.upgrade.deploy = "MTHD_ATTEMPT"
           \/ s.state = "MR_WAIT" /\ s.upgrade.deploy = "MTHD_FORCED"
    PROVE  Sound(deploy(s))
<1>1. /\ deploy(s).state = "MR_DEPLOY" /\ deploy(s).control = "CTL_DEPLOY"
      /\ deploy(s).lastState = s.state
      /\ deploy(s).hasFeed = s.hasFeed /\ deploy(s).feedType = s.feedType
      /\ deploy(s).errorCode = s.errorCode
      /\ deploy(s).upgrade = s.upgrade /\ deploy(s).details = s.details
  BY deployEffect
<1> QED
  BY <1>1
  DEF Sound, Matched, Armed, Sanctioned, Rejoins, FinalAsk, ArmedStates, Gathering

\* cancel keeps the invariant; the feedback in it is out of reach.
LEMMA cancelSound ==
    ASSUME NEW s, Typed(s), Sound(s), s.state = "MR_CANCEL_ASK"
    PROVE  Sound(cancel(s))
<1> DEFINE told == sendControlMessage(s, "CTL_CANCEL")
           cancelled == setState(told, "MR_CANCEL")
<1>1. /\ Typed(told) /\ told.state = s.state /\ told.control = "CTL_CANCEL"
      /\ told.upgrade = s.upgrade /\ told.details = s.details
  BY sendControlTyped, sendControlEffect DEF Control
<1>2. /\ Same(cancelled, told) /\ cancelled.state = "MR_CANCEL"
      /\ cancelled.lastState = "MR_CANCEL_ASK"
  <2> HIDE DEF told
  <2> QED
    BY <1>1, setStateEffect DEF ServerState
<1>3. cancel(s) = cancelled
  <2> HIDE DEF told
  <2>1. cancelled.lastState \notin
          {"MR_IDLE", "MR_PENDING", "MR_READY", "MR_DOWNLOAD", "MR_VERIFY"}
    <3> HIDE DEF cancelled
    <3> QED
      BY <1>2
  <2> QED
    BY <2>1 DEF cancel, told
<1> HIDE DEF told, cancelled
<1> QED
  BY <1>1, <1>2, <1>3
  DEF Sound, Matched, Armed, Sanctioned, Rejoins, FinalAsk, ArmedStates, Gathering, Same

\* resume keeps the invariant.
LEMMA resumeSound ==
    ASSUME NEW s, Typed(s), Sound(s), s.state = "MR_RESUME_ASK"
    PROVE  Sound(resume(s)) /\ Typed(resume(s))
<1> DEFINE kept == [s EXCEPT !.depends = s.cacheDepends]
<1>1. PICK S \in SUBSET Names : s \in Server(S)
  BY DEF Typed
<1>2. Typed(kept)
  <2>1. kept \in Server(S)
    BY <1>1 DEF Server
  <2> QED
    BY <2>1 DEF Typed
<1>3. Same(kept, s) /\ kept.state = s.state /\ kept.lastState = s.lastState
  BY <1>1 DEF Server, Same
<1>4. Sound(deploy(kept)) /\ Typed(deploy(kept))
  <2> HIDE DEF kept
  <2>1. Sound(kept)
    BY <1>3, SameSound
  <2>2. kept.feedType # "TP_UNKNOWN" /\ ~kept.hasFeed /\ kept.errorCode = 0
    BY <1>3, <2>1 DEF Sound, Armed, ArmedStates
  <2> QED
    BY <1>2, <1>3, <2>1, <2>2, deploySound, deployTyped
<1>5. /\ Same(resume(s), deploy(kept)) /\ resume(s).state = deploy(kept).state
      /\ resume(s).lastState = deploy(kept).lastState
  <2> DEFINE d == deploy(kept)
  <2>1. resume(s) = [d EXCEPT !.cacheState = "MR_UNKNOWN"]
    BY DEF resume
  <2>2. PICK T \in SUBSET Names : d \in Server(T)
    BY <1>4 DEF Typed
  <2> HIDE DEF d
  <2>3. /\ Same(resume(s), d) /\ resume(s).state = d.state
        /\ resume(s).lastState = d.lastState
    BY <2>1, <2>2 DEF Same, Server
  <2> QED
    BY <2>3 DEF d
<1> QED
  <2> HIDE DEF kept
  <2> QED
    BY <1>4, <1>5, SameSound, resumeTyped

\* configAnswer keeps the invariant: the answer meets the question of the state.
LEMMA configAnswerSound ==
    ASSUME NEW s, Typed(s), Sound(s), NEW answer \in Answer
    PROVE  Sound(configAnswer(s, answer))
<1>1. Matched(s) /\ Armed(s)
  BY DEF Sound
<1>2. Sound(feedback(s, FALSE)) /\ Sound(idle(s))
  BY <1>1, feedbackSound, idleSound
<1>3. CASE s.state = "MR_DOWNLOAD_ASK"
  BY <1>1, <1>2, <1>3, downloadSound DEF configAnswer
<1>4. CASE s.state = "MR_DEPLOY_ASK"
  <2>1. Sound(deploy(s))
    BY <1>4, deploySound DEF Sound, Armed, ArmedStates, Sanctioned
  <2> QED
    BY <1>2, <1>4, <2>1 DEF configAnswer
<1>5. CASE s.state = "MR_CANCEL_ASK"
  BY <1>2, <1>5, cancelSound DEF configAnswer
<1>6. CASE s.state = "MR_RESUME_ASK"
  <2> DEFINE yes == answer = "ANS_ACCEPT"
             no == answer = "ANS_REFUSE"
             answered == IF yes THEN resume(s)
                         ELSE IF ~no THEN s
                         ELSE IF s.hasNewId /\ s.cacheState = "MR_DEPLOY"
                         THEN pending(s) ELSE idle(s)
  <2>1. s.feedType # "TP_UNKNOWN" /\ ~s.hasFeed
    BY <1>1, <1>6 DEF Armed, ArmedStates
  <2>2. Sound(answered) /\ Typed(answered)
    BY <1>2, <1>6, <2>1, resumeSound, pendingSound, pendingTyped, idleTyped
  <2>3. configAnswer(s, answer) = [answered EXCEPT !.hasDeployBreaked = FALSE]
    BY <1>6 DEF configAnswer, FinalAsk
  <2> HIDE DEF answered
  <2>4. PICK S \in SUBSET Names : answered \in Server(S)
    BY <2>2 DEF Typed
  <2> DEFINE r == [answered EXCEPT !.hasDeployBreaked = FALSE]
  <2>5. Same(r, answered) /\ r.state = answered.state /\ r.lastState = answered.lastState
    BY <2>4 DEF Same, Server
  <2> HIDE DEF r
  <2>6. Sound(r)
    BY <2>2, <2>5, SameSound
  <2> QED
    BY <2>3, <2>6 DEF r
<1>7. CASE FinalAsk(s)
  BY <1>2, <1>7 DEF configAnswer, FinalAsk
<1>8. CASE ~FinalAsk(s) /\ s.state \notin {"MR_DOWNLOAD_ASK", "MR_DEPLOY_ASK",
                                            "MR_CANCEL_ASK", "MR_RESUME_ASK"}
  BY <1>8 DEF configAnswer
<1> QED
  BY <1>3, <1>4, <1>5, <1>6, <1>7, <1>8

\* case ServerReqUpgrade keeps the invariant, whatever it replaces.
LEMMA OnUpgradeSound ==
    ASSUME NEW s, Typed(s), Sound(s), NEW upgrade \in Upgrades
    PROVE  Sound(OnUpgrade(s, upgrade))
<1>1. CASE FinalAsk(s)
  BY <1>1 DEF OnUpgrade
<1>2. CASE ~FinalAsk(s)
  <2> DEFINE new == s.lastlId # upgrade.id
             again == ~new /\ s.lastCancelId = upgrade.id
             breaked == s.hasDeployBreaked /\ ~new
             taken == [s EXCEPT !.hasFeed = FALSE, !.feedType = "TP_DEPLOY",
                                !.hasNewId = new, !.upgrade = upgrade,
                                !.cancelResume = again, !.lastlId = upgrade.id,
                                !.hasDeployBreaked = breaked]
  <2>1. PICK S \in SUBSET Names : s \in Server(S)
    BY DEF Typed
  <2>2. upgrade \in Current /\ upgrade.id \in Ids
    BY ServerAssumption DEF Current
  <2>3. new \in BOOLEAN /\ again \in BOOLEAN /\ breaked \in BOOLEAN
    OBVIOUS
  <2>4. Typed(taken) /\ ~taken.hasFeed /\ taken.feedType = "TP_DEPLOY"
    <3> HIDE DEF new, again, breaked
    <3>1. taken \in Server(S)
      BY <2>1, <2>2, <2>3, ZenonT(60) DEF Server, FeedType
    <3>2. ~taken.hasFeed /\ taken.feedType = "TP_DEPLOY"
      BY <2>1 DEF Server
    <3> QED
      BY <3>1, <3>2 DEF Typed
  <2>5. OnUpgrade(s, upgrade) = pending(taken)
    BY <1>2 DEF OnUpgrade
  <2> HIDE DEF taken
  <2> QED
    BY <2>4, <2>5, pendingSound
<1> QED
  BY <1>1, <1>2

\* case ServerReqCancel keeps the invariant: in the dialogs it closes at once.
LEMMA OnCancelSound ==
    ASSUME NEW s, Typed(s), Sound(s), NEW id \in Ids
    PROVE  Sound(OnCancel(s, id))
<1> DEFINE breaked == s.hasDeployBreaked \/ s.state = "MR_DEPLOY"
           asked == [s EXCEPT !.hasFeed = FALSE, !.feedType = "TP_CANCEL",
                              !.cancelId = id, !.lastCancelId = id,
                              !.hasDeployBreaked = breaked]
           refused == feedback(asked, FALSE)
           closed == [req |-> "REQ_FEEDBACK", type |-> "TP_DEPLOY",
                      execution |-> "EXE_CLOSED", result |-> "RS_FAILURE",
                      id |-> refused.cancelId]
<1>1. PICK S \in SUBSET Names : s \in Server(S)
  BY DEF Typed
<1>2. /\ Typed(asked) /\ ~asked.hasFeed /\ asked.feedType = "TP_CANCEL"
      /\ asked.state = s.state /\ asked.upgrade = s.upgrade /\ asked.details = s.details
  <2>1. breaked \in BOOLEAN
    OBVIOUS
  <2>2. asked \in Server(S)
    <3> HIDE DEF breaked
    <3> QED
      BY <1>1, <2>1, AskedTyped
  <2>3. /\ ~asked.hasFeed /\ asked.feedType = "TP_CANCEL"
        /\ asked.state = s.state /\ asked.upgrade = s.upgrade
        /\ asked.details = s.details
    BY <1>1 DEF Server
  <2> QED
    BY <2>2, <2>3 DEF Typed
<1>3. Matched(asked)
  BY <1>2 DEF Sound, Matched
<1>4. /\ Sound(feedback(asked, TRUE)) /\ Sound(refused) /\ Typed(refused)
      /\ Sound(setState(asked, "MR_CANCEL_ASK"))
  <2> HIDE DEF asked
  <2> QED
    BY <1>2, <1>3, feedbackSound, feedbackTyped, setStateSound DEF Quiet
<1>5. Sound(Post(refused, closed))
  <2> HIDE DEF refused, closed
  <2> QED
    BY <1>4, PostEffect, SameSound
<1>6. OnCancel(s, id) \in {feedback(asked, TRUE), setState(asked, "MR_CANCEL_ASK"),
                           Post(refused, closed)}
  BY DEF OnCancel
<1> QED
  BY <1>4, <1>5, <1>6

\* case ServerResInit keeps the invariant.
LEMMA OnInitSound ==
    ASSUME NEW s, Typed(s), Sound(s), NEW success \in BOOLEAN
    PROVE  Sound(OnInit(s, success))
<1> DEFINE read == [s EXCEPT !.cacheDepends = s.file.depends,
                             !.cacheState = IF s.file.state = "MR_DEPLOY" THEN "MR_DEPLOY"
                                            ELSE "MR_UNKNOWN"]
<1>1. PICK S \in SUBSET Names : s \in Server(S)
  BY DEF Typed
<1>2. Typed(read)
  <2>1. s.file.depends \in SUBSET Names
    BY <1>1 DEF Server, StatusFile
  <2>2. read \in Server(S)
    BY <1>1, <2>1, ZenonT(60) DEF Server
  <2> QED
    BY <2>2 DEF Typed
<1>3. read.state = s.state /\ read.upgrade = s.upgrade /\ read.details = s.details
  BY <1>1 DEF Server
<1>4. Sound(idle(read))
  <2> HIDE DEF read
  <2>1. Matched(read)
    BY <1>3 DEF Sound, Matched
  <2> QED
    BY <1>2, <2>1, idleSound
<1> QED
  BY <1>4 DEF OnInit

\* case ServerReqPull keeps the invariant.
LEMMA OnPullSound ==
    ASSUME NEW s, Typed(s), Sound(s), NEW distributing \in BOOLEAN
    PROVE  Sound(OnPull(s, distributing))
<1> DEFINE told == IF s.upgrade.download # "MTHD_SKIP"
                   THEN sendControlMessage(s, "CTL_DOWNLOAD") ELSE s
<1>1. Typed(told) /\ Matched(told)
  <2>1. /\ Typed(sendControlMessage(s, "CTL_DOWNLOAD"))
        /\ Matched(sendControlMessage(s, "CTL_DOWNLOAD"))
    <3>1. "CTL_DOWNLOAD" \in Control
      BY DEF Control
    <3> DEFINE r == sendControlMessage(s, "CTL_DOWNLOAD")
    <3>2. r.state = s.state /\ r.upgrade = s.upgrade /\ r.details = s.details
      BY <3>1, sendControlEffect
    <3> QED
      BY <3>1, <3>2, sendControlTyped DEF Sound, Matched
  <2> QED
    BY <2>1 DEF Sound
<1>2. Sound(setState(told, "MR_DISTRIBUTE"))
  <2> HIDE DEF told
  <2> QED
    BY <1>1, setStateSound DEF Quiet
<1> QED
  BY <1>2 DEF OnPull

\* A result of the web queue keeps the invariant in every state it finds.
LEMMA OnResultSound ==
    ASSUME NEW s, Typed(s), Sound(s)
    PROVE  /\ Sound(OnDownloadDone(s))
           /\ Sound(OnVerifyDone(s))
           /\ Sound(OnDistributeDone(s))
<1>1. ASSUME NEW state \in Quiet, NEW event
      PROVE  Sound(setState(s, state)) /\ Sound(Post(setState(s, state), event))
  <2>1. Sound(setState(s, state)) /\ Typed(setState(s, state))
    BY setStateSound, setStateTyped DEF Sound, Quiet, ServerState
  <2> QED
    BY <2>1, PostEffect, SameSound
<1> QED
  BY <1>1 DEF OnDownloadDone, OnVerifyDone, OnDistributeDone, Quiet

\* case ServerResError keeps the invariant, retried or not.
LEMMA OnErrorSound ==
    ASSUME NEW s, Typed(s), Sound(s)
    PROVE  Sound(OnError(s))
<1>1. PICK S \in SUBSET Names : s \in Server(S)
  BY DEF Typed
<1>2. Sound(feedback(s, FALSE))
  BY feedbackSound DEF Sound
<1>3. Sound([download(s) EXCEPT !.retryTimes = @ + 1])
  <2> DEFINE d == download(s)
             r == [d EXCEPT !.retryTimes = d.retryTimes + 1]
  <2>1. Typed(d) /\ Sound(d)
    BY downloadTyped, downloadSound DEF Sound
  <2> HIDE DEF d
  <2>2. Same(r, d) /\ r.state = d.state /\ r.lastState = d.lastState
    BY <2>1 DEF Same, Typed, Server
  <2>3. [download(s) EXCEPT !.retryTimes = @ + 1] = r
    BY DEF d
  <2> HIDE DEF r
  <2> QED
    BY <2>1, <2>2, <2>3, SameSound
<1>4. Sound(feedback([s EXCEPT !.retryTimes = 0], FALSE))
  <2> DEFINE r == [s EXCEPT !.retryTimes = 0]
  <2>1. 0 \in 0..RetryTimes
    BY ServerAssumption
  <2>2. r \in Server(S)
    BY <1>1, <2>1 DEF Server
  <2>3. Same(r, s) /\ r.state = s.state /\ r.lastState = s.lastState
    BY <1>1 DEF Same, Server
  <2> HIDE DEF r
  <2>4. Sound(r)
    BY <2>3, SameSound
  <2>5. Sound(feedback(r, FALSE))
    BY <2>2, <2>4, feedbackSound DEF Typed, Sound
  <2> QED
    BY <2>5 DEF r
<1> QED
  BY <1>2, <1>3, <1>4 DEF OnError

\* r and s differ in what is known of the domains alone.
Near(r, s) == /\ r.state = s.state /\ r.lastState = s.lastState
              /\ r.hasFeed = s.hasFeed /\ r.feedType = s.feedType
              /\ r.errorCode = s.errorCode /\ r.control = s.control
              /\ r.upgrade = s.upgrade /\ DOMAIN r.details = DOMAIN s.details

\* The invariant does not read the details themselves, only whose they are.
LEMMA NearSound ==
    ASSUME NEW s, NEW r, Sound(s), Near(r, s)
    PROVE  Sound(r)
  BY DEF Sound, Matched, Armed, Sanctioned, Rejoins, FinalAsk, Near

\* A heartbeat changes what is known of a domain, never the life cycle.
LEMMA HeardNear ==
    ASSUME NEW s, Typed(s), NEW msg \in Messages
    PROVE  Near(Heard(s, msg), s)
<1> DEFINE known == msg.name \in Members(s)
           subscribed == [s EXCEPT !.detailSubscribed = @ \/ msg.watcher]
           resent == IF msg.discovery /\ (known \/ msg.watcher)
                     THEN resendControlMessage(subscribed) ELSE subscribed
           heard == IF known
                    THEN [resent EXCEPT !.details[msg.name] = Updated(@, msg.report)]
                    ELSE resent
<1>1. PICK S \in SUBSET Names : s \in Server(S)
  BY DEF Typed
<1>2. subscribed \in Server(S) /\ Near(subscribed, s)
  <2>1. (s.detailSubscribed \/ msg.watcher) \in BOOLEAN
    OBVIOUS
  <2>2. subscribed \in Server(S)
    BY <1>1, <2>1, ZenonT(60) DEF Server
  <2>3. Near(subscribed, s)
    BY <1>1 DEF Server, Near
  <2> QED
    BY <2>2, <2>3
<1>3. Typed(resent) /\ Near(resent, s)
  <2> DEFINE r == resendControlMessage(subscribed)
  <2>2. Typed(r) /\ Near(r, s)
    <3> HIDE DEF subscribed
    <3>1. Typed(subscribed)
      BY <1>2 DEF Typed
    <3>2. Typed(r)
      BY <3>1, resendControlTyped
    <3>3. /\ r.state = subscribed.state /\ r.lastState = subscribed.lastState
          /\ r.hasFeed = subscribed.hasFeed /\ r.feedType = subscribed.feedType
          /\ r.errorCode = subscribed.errorCode
          /\ r.upgrade = subscribed.upgrade /\ r.details = subscribed.details
          /\ r.control = subscribed.control
      BY <3>1, resendControlEffect
    <3> HIDE DEF r
    <3> QED
      BY <1>2, <3>2, <3>3 DEF Near
  <2> QED
    BY <1>2, <2>2 DEF Typed
<1>4. Near(heard, s)
  <2> HIDE DEF resent
  <2>1. PICK T \in SUBSET Names : resent \in Server(T)
    BY <1>3 DEF Typed
  <2> DEFINE r == [resent EXCEPT !.details[msg.name] = Updated(@, msg.report)]
  <2>2. Near(r, resent)
    BY <2>1 DEF Server, Near
  <2> HIDE DEF r
  <2>3. Near(r, s)
    BY <1>3, <2>2 DEF Near
  <2> QED
    BY <1>3, <2>3 DEF r
<1> QED
  BY <1>4 DEF Heard

\* case ServerResDomain keeps the invariant.
LEMMA OnDomainSound ==
    ASSUME NEW s, Typed(s), Sound(s), NEW msg \in Messages
    PROVE  Sound(OnDomain(s, msg))
<1>1. Typed(Heard(s, msg)) /\ Sound(Heard(s, msg))
  BY HeardTyped, HeardNear, NearSound
<1>2. msg.answer \in Answer
  BY ServerAssumption DEF Message
<1> QED
  BY <1>1, <1>2, configAnswerSound DEF OnDomain

\* The loop of processDomains changes details and depends, never the life cycle.
LEMMA LoopedNear ==
    ASSUME NEW s, Typed(s), NEW silent, NEW overdue
    PROVE  Near(Looped(s, silent, overdue), s)
<1> DEFINE started == Started(s, silent, overdue)
           finishing == Finishing(s, silent, overdue)
           visited == Visited(s, silent, overdue)
           resends == 1..(IF s.control = "CTL_DEPLOY" THEN Cardinality(finishing) ELSE 0)
           body(n) == IF n \in visited THEN Seen(s, silent)[n] ELSE s.details[n]
           details == [n \in Members(s) |->
              [body(n) EXCEPT !.deploy = (@ /\ n \notin finishing) \/ started[n]]]
           depends == DependsAt(s, silent, overdue, started, Members(s))
           sent == s.sent \o [i \in resends |-> Resent(s, silent, overdue, started, i)]
           posted == s.posted \o [i \in resends |->
                       Feed(s, "TP_DEPLOY", "EXE_SCHEDULED", "RS_SUCCESS")]
<1>1. DOMAIN details = DOMAIN s.details
  BY DEF Members
<1>2. Looped(s, silent, overdue)
        = [s EXCEPT !.details = details, !.depends = depends, !.sent = sent,
                    !.posted = posted]
  BY DEF Looped
<1> HIDE DEF details, depends, sent, posted
<1> QED
  BY <1>1, <1>2 DEF Typed, Server, Near

\* The gathering part of the tick keeps the invariant and the request open.
LEMMA GatheredSound ==
    ASSUME NEW s, Typed(s), Sound(s), Watching(s), NEW vaild \in BOOLEAN
    PROVE  LET r == Gathered(s, vaild) IN
           /\ Sound(r) /\ r.hasFeed = s.hasFeed /\ r.feedType = s.feedType
           /\ r.errorCode = s.errorCode
           /\ s.state \notin Gathering => r = s
<1>1. ASSUME NEW state \in {"MR_RESUME_ASK", "MR_READY", "MR_DOWNLOAD_ASK", "MR_PENDING"},
             s.state \in Gathering
      PROVE  /\ Sound(setState(s, state)) /\ Same(setState(s, state), s)
  <2>1. Same(setState(s, state), s) /\ setState(s, state).state = state
    BY setStateEffect DEF ServerState
  <2> QED
    BY <1>1, <2>1
    DEF Sound, Matched, Armed, Sanctioned, Rejoins, FinalAsk, ArmedStates, Gathering,
        Same, Watching
<1>2. Sound(download(s)) /\ Same(download(s), s)
  BY downloadSound, downloadEffect DEF Sound
<1>3. \/ Gathered(s, vaild) = s
      \/ /\ s.state \in Gathering
         /\ \/ Gathered(s, vaild) = download(s)
            \/ \E state \in {"MR_RESUME_ASK", "MR_READY", "MR_DOWNLOAD_ASK", "MR_PENDING"} :
                 Gathered(s, vaild) = setState(s, state)
  BY DEF Gathered, Gathering
<1> QED
  BY <1>1, <1>2, <1>3 DEF Same

\* The waiting part of the tick keeps the invariant: it deploys only from MR_WAIT
\* what is forced.
LEMMA WaitedSound ==
    ASSUME NEW s, Typed(s), Sound(s), NEW waiting \in BOOLEAN,
           ~s.hasFeed, s.feedType # "TP_UNKNOWN", s.errorCode = 0,
           waiting => s.state \in {"MR_WAIT", "MR_DEPLOY_ASK"}
    PROVE  LET r == Waited(s, waiting) IN
           Sound(r) /\ ~r.hasFeed /\ r.feedType # "TP_UNKNOWN"
<1>1. CASE waiting /\ s.upgrade.deploy = "MTHD_FORCED"
  <2>1. s.state = "MR_WAIT"
    BY <1>1 DEF Sound, Sanctioned
  <2> QED
    BY <1>1, <2>1, deploySound, deployEffect DEF Waited
<1>2. CASE waiting /\ s.upgrade.deploy = "MTHD_ATTEMPT"
  <2> DEFINE r == setState(s, "MR_DEPLOY_ASK")
  <2>1. Same(r, s) /\ r.state = "MR_DEPLOY_ASK"
    BY setStateEffect DEF ServerState
  <2>2. Waited(s, waiting) = r
    BY <1>2 DEF Waited
  <2> HIDE DEF r
  <2> QED
    BY <1>2, <2>1, <2>2
    DEF Sound, Matched, Armed, Sanctioned, Rejoins, FinalAsk, ArmedStates, Gathering, Same
<1>3. CASE ~waiting /\ s.state = "MR_DEPLOY_ASK"
  <2>1. Same(setState(s, "MR_WAIT"), s) /\ Sound(setState(s, "MR_WAIT"))
    BY setStateEffect, setStateSound DEF Quiet, ServerState, Sound
  <2> QED
    BY <1>3, <2>1 DEF Waited, Same
<1>4. CASE ~(\/ waiting /\ s.upgrade.deploy = "MTHD_FORCED"
             \/ waiting /\ s.upgrade.deploy = "MTHD_ATTEMPT"
             \/ ~waiting /\ s.state = "MR_DEPLOY_ASK")
  BY <1>4 DEF Waited
<1> QED
  BY <1>1, <1>2, <1>3, <1>4

\* processDomains keeps the invariant, whichever of its exits it takes.
LEMMA processDomainsSound ==
    ASSUME NEW s, Typed(s), Sound(s), Watching(s), NEW late \in BOOLEAN,
           NEW silent \in SUBSET Members(s), NEW overdue \in SUBSET Members(s)
    PROVE  Sound(processDomains(s, late, silent, overdue))
<1> DEFINE looped == Looped(s, silent, overdue)
           vaild == AllVaild(s, silent)
           waiting == AllWaiting(s, silent)
           gathered == Gathered(looped, vaild)
           waited == Waited(gathered, waiting)
<1>0. vaild \in BOOLEAN /\ waiting \in BOOLEAN
  BY DEF AllVaild, AllWaiting
<1>1. Typed(looped) /\ Sound(looped) /\ Near(looped, s) /\ Watching(looped)
  <2>1. Typed(looped)
    BY MembersTyped, LoopedTyped DEF Typed
  <2>2. Near(looped, s)
    BY LoopedNear
  <2> HIDE DEF looped
  <2> QED
    BY <2>1, <2>2, NearSound DEF Watching, Near
<1>2. /\ Typed(gathered) /\ Sound(gathered) /\ gathered.hasFeed = s.hasFeed
      /\ gathered.feedType = s.feedType /\ gathered.errorCode = s.errorCode
      /\ s.state \notin Gathering => gathered.state = s.state
  <2> HIDE DEF looped, vaild
  <2> QED
    BY <1>0, <1>1, GatheredTyped, GatheredSound DEF Near
<1>3. Typed(waited) /\ Sound(waited)
  <2>1. waiting => gathered.state \in {"MR_WAIT", "MR_DEPLOY_ASK"}
    <3> HIDE DEF gathered
    <3> QED
      BY <1>2 DEF AllWaiting, Gathering
  <2>2. ~gathered.hasFeed /\ gathered.feedType # "TP_UNKNOWN" /\ gathered.errorCode = 0
    <3> HIDE DEF gathered
    <3> QED
      BY <1>2 DEF Watching
  <2> HIDE DEF gathered, waiting
  <2> QED
    BY <1>0, <1>2, <2>1, <2>2, WaitedTyped, WaitedSound
<1>4. /\ Sound(feedback(s, FALSE)) /\ Sound(feedback(looped, FALSE))
      /\ Sound(feedback(gathered, TRUE))
      /\ Sound(feedback(waited, TRUE)) /\ Sound(feedback(waited, FALSE))
  <2> HIDE DEF looped, gathered, waited
  <2> QED
    BY <1>1, <1>2, <1>3, feedbackSound DEF Sound
<1>5. processDomains(s, late, silent, overdue) \in
        {feedback(s, FALSE), feedback(looped, FALSE), feedback(gathered, TRUE),
         feedback(waited, TRUE), feedback(waited, FALSE), waited}
  <2> HIDE DEF looped, gathered, waited
  <2> QED
    BY DEF processDomains, looped, gathered, waited
<1> HIDE DEF looped, gathered, waited
<1> QED
  BY <1>3, <1>4, <1>5

\* Emptying the outputs of the last step changes nothing the invariant reads.
LEMMA FreshSound ==
    ASSUME NEW s, Typed(s), Sound(s)
    PROVE  Sound(Fresh(s)) /\ Watching(s) = Watching(Fresh(s)) /\ Members(Fresh(s)) = Members(s)
<1>1. Near(Fresh(s), s)
  BY DEF Typed, Server, Fresh, Near
<1> QED
  BY <1>1, NearSound DEF Near, Watching, Members

\* A process that starts is sound.
LEMMA BootSound ==
    ASSUME NEW file
    PROVE  Sound(Boot(file))
  BY DEF Boot, NoUpgrade, Sound, Matched, Armed, Sanctioned, Rejoins, FinalAsk, ArmedStates,
         Gathering

\* The inductive invariant.
IInv == TypeOK /\ Sound(srv)

\* Every step keeps it.
LEMMA SoundStep == TypeOK /\ Sound(srv) /\ [Next]_vars => Sound(srv')
<1> SUFFICES ASSUME Typed(srv), Sound(srv), [Next]_vars
             PROVE  Sound(srv')
  BY DEF TypeOK, Typed
<1> DEFINE s == Fresh(srv)
<1>0. Typed(s) /\ Sound(s) /\ Members(s) = Members(srv) /\ (Watching(srv) => Watching(s))
  BY FreshTyped, FreshSound
<1> HIDE DEF s
<1>1. ASSUME NEW success \in BOOLEAN, ResInit(success)
      PROVE  Sound(srv')
  BY <1>0, <1>1, OnInitSound DEF ResInit, s
<1>2. ASSUME NEW active \in Active, ReqActive(active)
      PROVE  Sound(srv')
  <2>1. Near(OnActive(s, active), s)
    BY <1>0 DEF OnActive, Typed, Server, Near
  <2> QED
    BY <1>0, <1>2, <2>1, NearSound DEF ReqActive, FromWeb, s
<1>3. ReqIdle => Sound(srv')
  BY <1>0, idleSound DEF ReqIdle, FromWeb, OnIdle, Sound, s
<1>4. ASSUME NEW upgrade \in Upgrades, ReqUpgrade(upgrade)
      PROVE  Sound(srv')
  BY <1>0, <1>4, OnUpgradeSound DEF ReqUpgrade, FromWeb, s
<1>5. ASSUME NEW id \in Ids, ReqCancel(id)
      PROVE  Sound(srv')
  BY <1>0, <1>5, OnCancelSound DEF ReqCancel, FromWeb, s
<1>6. ASSUME NEW distributing \in BOOLEAN, ReqPull(distributing)
      PROVE  Sound(srv')
  BY <1>0, <1>6, OnPullSound DEF ReqPull, FromWeb, s
<1>7. ResDownloadDone \/ ResVerifyDone \/ ResDistributeDone => Sound(srv')
  BY <1>0, OnResultSound
  DEF ResDownloadDone, ResVerifyDone, ResDistributeDone, FromWeb, s
<1>8. ResError => Sound(srv')
  BY <1>0, OnErrorSound DEF ResError, FromWeb, s
<1>9. ASSUME NEW msg \in Messages, ResDomain(msg)
      PROVE  Sound(srv')
  BY <1>0, <1>9, OnDomainSound DEF ResDomain, s
<1>10. ASSUME NEW late \in BOOLEAN, NEW silent \in SUBSET Members(srv),
              NEW overdue \in SUBSET Members(srv), Tick(late, silent, overdue)
       PROVE  Sound(srv')
  BY <1>0, <1>10, processDomainsSound DEF Tick, s
<1>11. ASSUME NEW torn \in BOOLEAN, Restart(torn)
       PROVE  Sound(srv')
  BY <1>11, BootSound DEF Restart
<1>12. UNCHANGED vars => Sound(srv')
  BY DEF vars
<1> QED
  BY <1>1, <1>2, <1>3, <1>4, <1>5, <1>6, <1>7, <1>8, <1>9, <1>10, <1>11, <1>12 DEF Next

(***************************************************************************)
(* The inductive invariant holds in every reachable state.                 *)
(***************************************************************************)
THEOREM Inductive == Spec => []IInv
<1>1. TypeOK => Typed(srv)
  BY DEF TypeOK, Typed
<1>2. Init => Sound(srv)
  BY BootSound DEF Init
<1>4. Spec => []TypeOK
  BY TypeCorrect
<1>5. Init /\ [][Next]_vars /\ []TypeOK => []Sound(srv)
  <2>1. Init => Sound(srv)
    BY <1>2
  <2>2. TypeOK /\ Sound(srv) /\ [Next]_vars => Sound(srv)'
    BY SoundStep
  <2> QED
    BY <2>1, <2>2, PTL
<1> QED
  BY <1>4, <1>5, PTL DEF Spec, IInv

\* The inductive invariant implies the four properties.
LEMMA Strengthening ==
    ASSUME IInv
    PROVE  WatchdogArmed /\ DetailsMatchUpgrade /\ DeploySanctioned /\ RejoinControl
<1>1. WatchdogArmed
  BY DEF IInv, Sound, Armed, ArmedStates, WatchdogArmed, Watching, Gathering
<1>2. DetailsMatchUpgrade
  BY DEF IInv, Sound, Matched, DetailsMatchUpgrade, Members
<1>3. DeploySanctioned
  BY DEF IInv, Sound, Sanctioned, DeploySanctioned
<1>4. RejoinControl
  BY DEF IInv, Sound, Rejoins, RejoinControl
<1> QED
  BY <1>1, <1>2, <1>3, <1>4

(***************************************************************************)
(* No sequence of requests, late results, answers and restarts leaves a    *)
(* dialog or a deployment without its watchdog, nor a final dialog without *)
(* a closed request.                                                       *)
(***************************************************************************)
THEOREM WatchdogAlwaysArmed == Spec => []WatchdogArmed
  BY Inductive, Strengthening, PTL

(***************************************************************************)
(* The details are always those of the upgrade at hand, across             *)
(* replacements, heartbeats and restarts.                                  *)
(***************************************************************************)
THEOREM DetailsAlwaysMatch == Spec => []DetailsMatchUpgrade
  BY Inductive, Strengthening, PTL

(***************************************************************************)
(* Every deployment was answered for by the user or forced by its upgrade. *)
(***************************************************************************)
THEOREM DeployAlwaysSanctioned == Spec => []DeploySanctioned
  BY Inductive, Strengthening, PTL

(***************************************************************************)
(* What a controller that rejoins is told always fits the state.           *)
(***************************************************************************)
THEOREM RejoinAlwaysControlled == Spec => []RejoinControl
  BY Inductive, Strengthening, PTL

-----------------------------------------------------------------------------
(***************************************************************************)
(* The action properties of ServerEngine: a request is closed once,        *)
(* truthfully, and never fades away. For each call it is stated what it    *)
(* posts: nothing that closes (Silent), or one feed that does. A handler   *)
(* then answers for the record it takes (Answered) and ends its request    *)
(* with a feed or not at all (Ends). Beside Sound this needs that a        *)
(* cancellation under way is the open request, and that a server without   *)
(* its web queue is offline.                                               *)
(***************************************************************************)

\* Open, of a record.
OpenAt(s) == s.feedType # "TP_UNKNOWN" /\ ~s.hasFeed

\* The step has closed nothing.
Silent(s) == \A i \in DOMAIN s.posted : ~Closed(s.posted[i])

\* Among the events p only feed closes.
OnlyCloses(p, feed) ==
    \E i \in DOMAIN p : p[i] = feed /\ \A j \in DOMAIN p : Closed(p[j]) => j = i

\* What is being cancelled is the open request.
Cancelling(s) == s.state \in {"MR_CANCEL_ASK", "MR_CANCEL"} => s.feedType = "TP_CANCEL"

\* A success of a deployment, told of s, is one.
Truthful(s, feed) ==
    feed.type = "TP_DEPLOY" /\ feed.result = "RS_SUCCESS"
        => AllEqual(s) /\ feed.id = s.upgrade.id

\* A handler given s that returns r closes an open request once, and truthfully.
Answered(s, r) ==
    \/ Silent(r)
    \/ /\ OpenAt(s) /\ ~OpenAt(r)
       /\ \E feed : OnlyCloses(r.posted, feed) /\ Truthful(s, feed)

\* And falls idle with it open only as NoSilentEnd allows.
Ends(s, r) ==
    Watching(s) /\ r.state = "MR_IDLE" => r.hasFeed \/ s.state = "MR_RESUME_ASK"

Fine(s, r) == Answered(s, r) /\ Ends(s, r) /\ Cancelling(r)

-----------------------------------------------------------------------------
(* What the calls post.                                                    *)

\* Posting what does not close keeps Silent and OnlyCloses.
LEMMA PostKeeps ==
    ASSUME NEW s, Typed(s), NEW event, ~Closed(event), NEW feed
    PROVE  /\ Silent(s) => Silent(Post(s, event))
           /\ OnlyCloses(s.posted, feed) => OnlyCloses(Post(s, event).posted, feed)
<1> DEFINE p == s.posted
           q == Append(p, event)
<1>1. s.posted \in Seq(WebEvent) /\ Post(s, event).posted = q
  BY DEF Typed, Server, Post
<1>2. /\ DOMAIN p = 1..Len(p) /\ Len(p) \in Nat /\ DOMAIN q = 1..Len(p) + 1
      /\ q[Len(p) + 1] = event /\ \A i \in 1..Len(p) : q[i] = p[i]
  BY <1>1
<1>3. \A j \in DOMAIN q : Closed(q[j]) => j \in DOMAIN p /\ q[j] = p[j]
  <2> HIDE DEF p, q
  <2> QED
    BY <1>2
<1>4. \A j \in DOMAIN p : j \in DOMAIN q /\ q[j] = p[j]
  <2> HIDE DEF p, q
  <2> QED
    BY <1>2
<1> HIDE DEF q
<1> QED
  BY <1>1, <1>3, <1>4 DEF Silent, OnlyCloses

\* Posting a feed after nothing that closes leaves it the only one.
LEMMA PostCloses ==
    ASSUME NEW s, Typed(s), Silent(s), NEW feed
    PROVE  OnlyCloses(Post(s, feed).posted, feed)
<1> DEFINE p == s.posted
           q == Append(p, feed)
<1>1. s.posted \in Seq(WebEvent) /\ Post(s, feed).posted = q
  BY DEF Typed, Server, Post
<1>2. /\ DOMAIN p = 1..Len(p) /\ Len(p) \in Nat /\ DOMAIN q = 1..Len(p) + 1
      /\ q[Len(p) + 1] = feed /\ \A i \in 1..Len(p) : q[i] = p[i]
  BY <1>1
<1>3. /\ Len(p) + 1 \in DOMAIN q
      /\ \A j \in DOMAIN q : Closed(q[j]) => j = Len(p) + 1
  <2> HIDE DEF q
  <2> QED
    BY <1>2 DEF Silent
<1> HIDE DEF q
<1> QED
  BY <1>1, <1>2, <1>3 DEF OnlyCloses

\* A request does not close, nor does a feed of another execution.
LEMMA NotClosed ==
    /\ \A req : req # "REQ_FEEDBACK" => ~Closed(Request(req))
    /\ \A s, type, execution, result :
         execution # "EXE_CLOSED" => ~Closed(Feed(s, type, execution, result))
  BY DEF Closed, Request, Feed

\* setState posts at most a report.
LEMMA setStateKeeps ==
    ASSUME NEW s, Typed(s), NEW state \in ServerState, NEW feed
    PROVE  LET r == setState(s, state) IN
           /\ Silent(s) => Silent(r)
           /\ OnlyCloses(s.posted, feed) => OnlyCloses(r.posted, feed)
<1> DEFINE entered == [s EXCEPT !.lastState = s.state, !.state = state,
                                !.file = [exists |-> TRUE, state |-> state,
                                          depends |-> s.depends]]
           type == IF s.feedType = "TP_DEPLOY" THEN "TP_DEPLOY" ELSE "TP_CANCEL"
           report == Feed(entered, type, "EXE_PROCEEDING", "RS_SUCCESS")
<1>1. Typed(entered) /\ entered.posted = s.posted
  <2>1. PICK S \in SUBSET Names : s \in Server(S)
    BY DEF Typed
  <2>2. entered \in Server(S)
    BY <2>1 DEF Server, StatusFile
  <2>3. entered.posted = s.posted
    BY <2>1 DEF Server
  <2> QED
    BY <2>2, <2>3 DEF Typed
<1>2. ~Closed(report)
  <2> HIDE DEF entered, type
  <2> QED
    BY NotClosed
<1>3. setState(s, state) \in {s, entered, Post(entered, report)}
  BY DEF setState
<1> HIDE DEF entered, report
<1> QED
  BY <1>1, <1>2, <1>3, PostKeeps DEF Silent

\* sendControlMessage posts nothing.
LEMMA sendControlKeeps ==
    ASSUME NEW s, Typed(s), NEW control \in Control
    PROVE  sendControlMessage(s, control).posted = s.posted
  BY DEF Typed, Server, sendControlMessage

\* idle posts at most a report.
LEMMA idleKeeps ==
    ASSUME NEW s, Typed(s), NEW feed
    PROVE  /\ Silent(s) => Silent(idle(s))
           /\ OnlyCloses(s.posted, feed) => OnlyCloses(idle(s).posted, feed)
<1> DEFINE cleared == [s EXCEPT !.depends = {}, !.details = [n \in {} |-> {}],
                                !.detailSubscribed = FALSE, !.upgrade = NoUpgrade,
                                !.cancelId = NoId]
<1>1. PICK S \in SUBSET Names : s \in Server(S)
  BY DEF Typed
<1>2. Typed(cleared) /\ cleared.posted = s.posted
  <2>1. [n \in {} |-> {}] \in [{} -> Detail]
    OBVIOUS
  <2>2. cleared \in Server({})
    BY <1>1, <2>1, UpgradesTyped DEF Server
  <2>3. cleared.posted = s.posted
    BY <1>1 DEF Server
  <2> QED
    BY <2>2, <2>3 DEF Typed
<1>3. idle(s) \in {s, setState(cleared, "MR_IDLE")}
  BY DEF idle
<1> HIDE DEF cleared
<1>4. /\ Silent(cleared) => Silent(setState(cleared, "MR_IDLE"))
      /\ OnlyCloses(cleared.posted, feed) =>
           OnlyCloses(setState(cleared, "MR_IDLE").posted, feed)
  BY <1>2, setStateKeeps DEF ServerState
<1> QED
  BY <1>2, <1>3, <1>4 DEF Silent

\* pending closes nothing.
LEMMA pendingSilent ==
    ASSUME NEW s, Typed(s), Silent(s)
    PROVE  Silent(pending(s))
<1> DEFINE packages == s.upgrade.packages
           details == [n \in packages |-> NewDetail]
           cleared == [s EXCEPT !.errorCode = 0, !.depends = packages, !.details = details]
           told == sendControlMessage(cleared, "CTL_RESET")
<1>1. PICK S \in SUBSET Names : s \in Server(S)
  BY DEF Typed
<1>2. Typed(cleared) /\ cleared.posted = s.posted
  <2>1. packages \in SUBSET Names
    BY UpgradeTyped DEF Upgrade
  <2>2. details \in [packages -> Detail]
    <3>1. NewDetail \in Detail
      BY DEF NewDetail, Detail, ClientState, Version
    <3> QED
      BY <3>1
  <2> HIDE DEF packages, details
  <2>3. cleared \in Server(packages)
    BY <1>1, <2>1, <2>2 DEF Server
  <2>4. cleared.posted = s.posted
    BY <1>1 DEF Server
  <2> QED
    BY <2>1, <2>3, <2>4 DEF Typed
<1> HIDE DEF cleared
<1>3. Typed(told) /\ told.posted = s.posted
  BY <1>2, sendControlTyped, sendControlKeeps DEF Control
<1>4. pending(s) = setState(told, "MR_PENDING")
  BY DEF pending, told, cleared
<1> HIDE DEF told
<1> QED
  BY <1>3, <1>4, setStateKeeps DEF Silent, ServerState

\* Nor do download and deploy.
LEMMA downloadSilent ==
    ASSUME NEW s, Typed(s), Silent(s)
    PROVE  Silent(download(s))
<1>1. Typed(setState(s, "MR_DOWNLOAD")) /\ Silent(setState(s, "MR_DOWNLOAD"))
  BY setStateTyped, setStateKeeps DEF ServerState
<1> QED
  BY <1>1, PostKeeps, NotClosed DEF download

LEMMA deploySilent ==
    ASSUME NEW s, Typed(s), Silent(s)
    PROVE  Silent(deploy(s))
<1> DEFINE told == sendControlMessage(s, "CTL_DEPLOY")
<1>1. Typed(told) /\ told.posted = s.posted
  BY sendControlTyped, sendControlKeeps DEF Control
<1> HIDE DEF told
<1>2. Silent(setState(told, "MR_DEPLOY"))
  BY <1>1, setStateKeeps DEF ServerState, Silent
<1> QED
  BY <1>2 DEF deploy, told

\* resume deploys.
LEMMA resumeSilent ==
    ASSUME NEW s, Typed(s), Silent(s)
    PROVE  Silent(resume(s)) /\ resume(s).state = "MR_DEPLOY"
<1> DEFINE kept == [s EXCEPT !.depends = s.cacheDepends]
           d == deploy(kept)
<1>1. PICK S \in SUBSET Names : s \in Server(S)
  BY DEF Typed
<1>2. Typed(kept) /\ Silent(kept)
  <2>1. kept \in Server(S) /\ kept.posted = s.posted
    BY <1>1 DEF Server
  <2> QED
    BY <2>1 DEF Typed, Silent
<1>3. Typed(d) /\ Silent(d) /\ d.state = "MR_DEPLOY"
  <2> HIDE DEF kept
  <2> QED
    BY <1>2, deployTyped, deploySilent, deployEffect
<1>4. resume(s) = [d EXCEPT !.cacheState = "MR_UNKNOWN"]
  BY DEF resume
<1> HIDE DEF d
<1>5. resume(s).posted = d.posted /\ resume(s).state = d.state
  BY <1>3, <1>4 DEF Typed, Server
<1> QED
  BY <1>3, <1>5 DEF Silent

\* cancel enters MR_CANCEL and closes nothing: the feedback in it is out of reach.
LEMMA cancelSilent ==
    ASSUME NEW s, Typed(s), Silent(s), s.state = "MR_CANCEL_ASK"
    PROVE  Silent(cancel(s)) /\ cancel(s).state = "MR_CANCEL" /\ cancel(s).feedType = s.feedType
<1> DEFINE told == sendControlMessage(s, "CTL_CANCEL")
           cancelled == setState(told, "MR_CANCEL")
<1>1. /\ Typed(told) /\ told.state = s.state /\ told.posted = s.posted
      /\ told.feedType = s.feedType
  BY sendControlTyped, sendControlEffect, sendControlKeeps DEF Control
<1>2. /\ Same(cancelled, told) /\ cancelled.state = "MR_CANCEL"
      /\ cancelled.lastState = "MR_CANCEL_ASK" /\ Silent(cancelled)
  <2> HIDE DEF told
  <2>1. Silent(told)
    BY <1>1 DEF Silent
  <2>2. Silent(cancelled)
    BY <1>1, <2>1, setStateKeeps DEF ServerState
  <2>3. /\ Same(cancelled, told) /\ cancelled.state = "MR_CANCEL"
        /\ cancelled.lastState = "MR_CANCEL_ASK"
    BY <1>1, setStateEffect DEF ServerState
  <2> QED
    BY <2>2, <2>3
<1>3. cancel(s) = cancelled
  <2>1. cancelled.lastState \notin
          {"MR_IDLE", "MR_PENDING", "MR_READY", "MR_DOWNLOAD", "MR_VERIFY"}
    <3> HIDE DEF cancelled
    <3> QED
      BY <1>2
  <2> HIDE DEF told
  <2> QED
    BY <2>1 DEF cancel, told
<1> HIDE DEF told, cancelled
<1> QED
  BY <1>1, <1>2, <1>3 DEF Same

\* feedback closes the request that is open with one feed, and nothing otherwise.
LEMMA feedbackCloses ==
    ASSUME NEW s, Typed(s), Silent(s), NEW finished \in BOOLEAN
    PROVE  LET r == feedback(s, finished) IN
           /\ ~OpenAt(s) => r = s
           /\ OpenAt(s) =>
                /\ r.hasFeed /\ r.state \in {"MR_DONE_ASK", "MR_ERROR_ASK", "MR_IDLE"}
                /\ \E feed :
                     /\ OnlyCloses(r.posted, feed)
                     /\ feed.type = s.feedType
                     /\ feed.result = IF finished THEN "RS_SUCCESS" ELSE "RS_FAILURE"
                     /\ s.feedType = "TP_DEPLOY" => feed.id = s.upgrade.id
<1>1. ~OpenAt(s) => feedback(s, finished) = s
  BY DEF feedback, OpenAt
<1>2. ASSUME OpenAt(s)
      PROVE  LET r == feedback(s, finished) IN
             /\ r.hasFeed /\ r.state \in {"MR_DONE_ASK", "MR_ERROR_ASK", "MR_IDLE"}
             /\ \E feed :
                  /\ OnlyCloses(r.posted, feed)
                  /\ feed.type = s.feedType
                  /\ feed.result = IF finished THEN "RS_SUCCESS" ELSE "RS_FAILURE"
                  /\ s.feedType = "TP_DEPLOY" => feed.id = s.upgrade.id
  <2> DEFINE closed == [s EXCEPT !.hasFeed = TRUE,
                                 !.errorCode = IF finished THEN 0 ELSE 1]
             cleared == sendControlMessage(closed, "CTL_CLEAR")
             stopped == Post(cleared, Request("REQ_STOP"))
             result == IF finished THEN "RS_SUCCESS" ELSE "RS_FAILURE"
             feed == Feed(closed, s.feedType, "EXE_CLOSED", result)
             told == Post(stopped, feed)
             asked == setState(told, IF finished THEN "MR_DONE_ASK" ELSE "MR_ERROR_ASK")
  <2>1. PICK S \in SUBSET Names : s \in Server(S)
    BY DEF Typed
  <2>2. /\ Typed(closed) /\ closed.hasFeed = TRUE /\ closed.upgrade = s.upgrade
        /\ closed.posted = s.posted
    <3>1. closed \in Server(S)
      BY <2>1, ZenonT(60) DEF Server
    <3> QED
      BY <2>1, <3>1 DEF Server, Typed
  <2>3. feed \in WebEvent
    <3>1. s.feedType \in FeedType /\ result \in {"RS_SUCCESS", "RS_FAILURE"}
      BY <2>1 DEF Server
    <3> HIDE DEF closed, result
    <3> QED
      BY <2>2, <3>1, FeedTyped
  <2>4. /\ feed.type = s.feedType /\ feed.result = result
        /\ s.feedType = "TP_DEPLOY" => feed.id = s.upgrade.id
    <3> HIDE DEF closed, result
    <3> QED
      BY <2>2 DEF Feed
  <2>5. Typed(cleared) /\ cleared.hasFeed = TRUE /\ Silent(cleared)
    <3> HIDE DEF closed
    <3>1. "CTL_CLEAR" \in Control
      BY DEF Control
    <3>2. Typed(cleared) /\ cleared.posted = s.posted
      BY <2>2, <3>1, sendControlTyped, sendControlKeeps
    <3>3. cleared.hasFeed = TRUE
      BY <2>2, <3>1, sendControlEffect
    <3> QED
      BY <3>2, <3>3 DEF Silent
  <2>6. Typed(stopped) /\ stopped.hasFeed = TRUE /\ Silent(stopped)
    <3>1. Request("REQ_STOP") \in WebEvent /\ ~Closed(Request("REQ_STOP"))
      BY NotClosed DEF Request, WebEvent, WebRequest
    <3> HIDE DEF cleared
    <3> QED
      BY <2>5, <3>1, PostTyped, PostEffect, PostKeeps DEF Same
  <2>7. Typed(told) /\ told.hasFeed = TRUE /\ OnlyCloses(told.posted, feed)
    <3> HIDE DEF stopped, feed
    <3> QED
      BY <2>3, <2>6, PostTyped, PostEffect, PostCloses DEF Same
  <2>8. /\ asked.hasFeed = TRUE /\ asked.state \in {"MR_DONE_ASK", "MR_ERROR_ASK"}
        /\ OnlyCloses(asked.posted, feed)
    <3> HIDE DEF told, feed
    <3> DEFINE state == IF finished THEN "MR_DONE_ASK" ELSE "MR_ERROR_ASK"
    <3>1. state \in ServerState /\ state \in {"MR_DONE_ASK", "MR_ERROR_ASK"}
      BY DEF ServerState
    <3> HIDE DEF state
    <3>2. Same(setState(told, state), told) /\ setState(told, state).state = state
      BY <2>7, <3>1, setStateEffect
    <3>3. OnlyCloses(setState(told, state).posted, feed)
      BY <2>7, <3>1, setStateKeeps
    <3>4. asked = setState(told, state)
      BY DEF state
    <3> HIDE DEF asked
    <3> QED
      BY <2>7, <3>1, <3>2, <3>3, <3>4 DEF Same
  <2>9. idle(told).hasFeed = TRUE /\ idle(told).state = "MR_IDLE"
        /\ OnlyCloses(idle(told).posted, feed)
    <3> HIDE DEF told, feed
    <3> QED
      BY <2>7, idleEffect, idleKeeps
  <2>10. feedback(s, finished) = IF s.detailSubscribed THEN asked ELSE idle(told)
    BY <1>2 DEF feedback, OpenAt
  <2> HIDE DEF asked, told, feed
  <2> QED
    BY <2>4, <2>8, <2>9, <2>10
<1> QED
  BY <1>1, <1>2

-----------------------------------------------------------------------------
(* What the handlers answer for.                                           *)

\* A handler that closes nothing, and falls idle only if it was.
LEMMA SilentFine ==
    ASSUME NEW s, NEW r, Silent(r), Cancelling(r),
           r.state # "MR_IDLE" \/ r.state = s.state
    PROVE  Fine(s, r)
  BY DEF Fine, Answered, Ends, Watching

\* One that ends in feedback, of a record x with the same request as s.
LEMMA feedbackFine ==
    ASSUME NEW s, NEW x, Typed(x), Silent(x), Cancelling(x), NEW finished \in BOOLEAN,
           (OpenAt(x) <=> OpenAt(s)), x.upgrade = s.upgrade,
           finished /\ x.feedType = "TP_DEPLOY" => AllEqual(s)
    PROVE  Fine(s, feedback(x, finished))
<1> DEFINE r == feedback(x, finished)
<1>1. CASE ~OpenAt(x)
  <2>1. r = x /\ ~Watching(s)
    BY <1>1, feedbackCloses DEF OpenAt, Watching
  <2> HIDE DEF r
  <2>2. Fine(s, r)
    BY <2>1 DEF Fine, Answered, Ends
  <2> QED
    BY <2>2 DEF r
<1>2. CASE OpenAt(x)
  <2>1. PICK feed : /\ OnlyCloses(r.posted, feed)
                    /\ feed.type = x.feedType
                    /\ feed.result = IF finished THEN "RS_SUCCESS" ELSE "RS_FAILURE"
                    /\ x.feedType = "TP_DEPLOY" => feed.id = x.upgrade.id
    BY <1>2, feedbackCloses
  <2>2. r.hasFeed /\ r.state \in {"MR_DONE_ASK", "MR_ERROR_ASK", "MR_IDLE"}
    BY <1>2, feedbackCloses
  <2> HIDE DEF r
  <2>3. Truthful(s, feed)
    BY <2>1 DEF Truthful
  <2>4. Answered(s, r) /\ Ends(s, r) /\ Cancelling(r)
    BY <1>2, <2>1, <2>2, <2>3 DEF Answered, Ends, Cancelling, OpenAt
  <2> QED
    BY <2>4 DEF Fine, r
<1> QED
  BY <1>1, <1>2

\* A failure is truthful of every s.
LEMMA failureFine ==
    ASSUME NEW s, Typed(s), Silent(s), Cancelling(s)
    PROVE  Fine(s, feedback(s, FALSE))
  BY feedbackFine

\* setState of a state that is neither idle nor of a cancellation.
LEMMA setStateFine ==
    ASSUME NEW s, NEW x, Typed(x), Silent(x),
           NEW state \in ServerState \ {"MR_IDLE", "MR_CANCEL_ASK", "MR_CANCEL"}
    PROVE  Fine(s, setState(x, state))
<1>1. Silent(setState(x, state)) /\ setState(x, state).state = state
  BY setStateKeeps, setStateEffect
<1> QED
  BY <1>1, SilentFine DEF Cancelling

\* idle closes nothing.
LEMMA idleAnswers ==
    ASSUME NEW s, Typed(s), Silent(s)
    PROVE  Silent(idle(s)) /\ Cancelling(idle(s))
  BY idleKeeps, idleEffect DEF Cancelling

\* An answer closes what it refuses; it falls idle from MR_RESUME_ASK and from the
\* dialogs of a request that is closed.  t is the record before the heartbeat.
LEMMA configAnswerFine ==
    ASSUME NEW s, Typed(s), Sound(s), Silent(s), Cancelling(s), NEW answer \in Answer,
           NEW t, Near(s, t)
    PROVE  Fine(t, configAnswer(s, answer))
<1>1. Fine(t, s) /\ Fine(t, feedback(s, FALSE))
  <2>1. OpenAt(s) <=> OpenAt(t)
    BY DEF Near, OpenAt
  <2> QED
    BY <2>1, SilentFine, feedbackFine DEF Near
<1>2. CASE s.state = "MR_DOWNLOAD_ASK"
  <2>1. Fine(t, download(s))
    BY downloadSilent, downloadEffect, SilentFine DEF Cancelling
  <2>2. configAnswer(s, answer) \in {s, download(s), feedback(s, FALSE)}
    BY <1>2 DEF configAnswer, FinalAsk
  <2> QED
    BY <1>1, <2>1, <2>2
<1>3. CASE s.state = "MR_DEPLOY_ASK"
  <2>1. Fine(t, deploy(s))
    BY deploySilent, deployEffect, SilentFine DEF Cancelling
  <2>2. configAnswer(s, answer) \in {s, deploy(s), feedback(s, FALSE)}
    BY <1>3 DEF configAnswer, FinalAsk
  <2> QED
    BY <1>1, <2>1, <2>2
<1>4. CASE s.state = "MR_CANCEL_ASK"
  <2>1. Fine(t, cancel(s))
    BY <1>4, cancelSilent, SilentFine DEF Cancelling
  <2>2. configAnswer(s, answer) \in {s, cancel(s), feedback(s, FALSE)}
    BY <1>4 DEF configAnswer, FinalAsk
  <2> QED
    BY <1>1, <2>1, <2>2
<1>5. CASE s.state = "MR_RESUME_ASK"
  <2> DEFINE yes == answer = "ANS_ACCEPT"
             no == answer = "ANS_REFUSE"
             answered == IF yes THEN resume(s)
                         ELSE IF ~no THEN s
                         ELSE IF s.hasNewId /\ s.cacheState = "MR_DEPLOY"
                         THEN pending(s) ELSE idle(s)
  <2>1. Silent(answered) /\ Cancelling(answered) /\ Typed(answered)
    <3>1. Silent(resume(s)) /\ Cancelling(resume(s)) /\ Typed(resume(s))
      BY resumeSilent, resumeTyped DEF Cancelling
    <3>2. Silent(pending(s)) /\ Cancelling(pending(s)) /\ Typed(pending(s))
      BY pendingSilent, pendingEffect, pendingTyped DEF Cancelling
    <3>3. Silent(idle(s)) /\ Cancelling(idle(s)) /\ Typed(idle(s))
      BY idleAnswers, idleTyped
    <3> QED
      BY <3>1, <3>2, <3>3
  <2>2. configAnswer(s, answer) = [answered EXCEPT !.hasDeployBreaked = FALSE]
    BY <1>5 DEF configAnswer, FinalAsk
  <2> HIDE DEF answered
  <2> DEFINE r == [answered EXCEPT !.hasDeployBreaked = FALSE]
  <2>3. /\ r.posted = answered.posted /\ r.state = answered.state
        /\ r.feedType = answered.feedType
    BY <2>1 DEF Typed, Server
  <2> HIDE DEF r
  <2>4. Fine(t, r)
    BY <1>5, <2>1, <2>3 DEF Fine, Answered, Ends, Silent, Cancelling, Near
  <2> QED
    BY <2>2, <2>4 DEF r
<1>6. CASE FinalAsk(s)
  <2>1. Fine(t, idle(s))
    BY <1>6, idleAnswers DEF Fine, Answered, Ends, Watching, Sound, Armed, Near
  <2> QED
    BY <1>1, <1>6, <2>1 DEF configAnswer, FinalAsk
<1>7. CASE ~FinalAsk(s) /\ s.state \notin {"MR_DOWNLOAD_ASK", "MR_DEPLOY_ASK",
                                            "MR_CANCEL_ASK", "MR_RESUME_ASK"}
  BY <1>1, <1>7 DEF configAnswer
<1> QED
  BY <1>2, <1>3, <1>4, <1>5, <1>6, <1>7

\* A new upgrade closes nothing and does not idle.
LEMMA OnUpgradeFine ==
    ASSUME NEW s, Typed(s), Silent(s), Cancelling(s), NEW upgrade \in Upgrades
    PROVE  Fine(s, OnUpgrade(s, upgrade))
<1>1. CASE FinalAsk(s)
  BY <1>1, SilentFine DEF OnUpgrade
<1>2. CASE ~FinalAsk(s)
  <2> DEFINE new == s.lastlId # upgrade.id
             again == ~new /\ s.lastCancelId = upgrade.id
             breaked == s.hasDeployBreaked /\ ~new
             taken == [s EXCEPT !.hasFeed = FALSE, !.feedType = "TP_DEPLOY",
                                !.hasNewId = new, !.upgrade = upgrade,
                                !.cancelResume = again, !.lastlId = upgrade.id,
                                !.hasDeployBreaked = breaked]
  <2>1. PICK S \in SUBSET Names : s \in Server(S)
    BY DEF Typed
  <2>2. upgrade \in Current /\ upgrade.id \in Ids
    BY ServerAssumption DEF Current
  <2>3. new \in BOOLEAN /\ again \in BOOLEAN /\ breaked \in BOOLEAN
    OBVIOUS
  <2>4. Typed(taken) /\ taken.posted = s.posted
    <3> HIDE DEF new, again, breaked
    <3>1. taken \in Server(S)
      BY <2>1, <2>2, <2>3, ZenonT(60) DEF Server, FeedType
    <3>2. taken.posted = s.posted
      BY <2>1 DEF Server
    <3> QED
      BY <3>1, <3>2 DEF Typed
  <2>5. OnUpgrade(s, upgrade) = pending(taken)
    BY <1>2 DEF OnUpgrade
  <2> HIDE DEF taken
  <2>6. Silent(pending(taken)) /\ pending(taken).state = "MR_PENDING"
    BY <2>4, pendingSilent, pendingEffect DEF Silent
  <2> QED
    BY <2>5, <2>6, SilentFine DEF Cancelling
<1> QED
  BY <1>1, <1>2

\* A cancellation may be answered at once, itself with a feed of its own type, and
\* then as the failure of the deployment; the request is closed by it.
LEMMA OnCancelAnswers ==
    ASSUME NEW s, Typed(s), Silent(s), NEW id \in Ids
    PROVE  LET r == OnCancel(s, id) IN
           /\ Silent(r) \/ ~OpenAt(r)
           /\ \A i \in DOMAIN r.posted : Closed(r.posted[i]) =>
                ~(r.posted[i].type = "TP_DEPLOY" /\ r.posted[i].result = "RS_SUCCESS")
           /\ r.state = "MR_IDLE" => r.hasFeed
           /\ Cancelling(r)
<1> DEFINE breaked == s.hasDeployBreaked \/ s.state = "MR_DEPLOY"
           asked == [s EXCEPT !.hasFeed = FALSE, !.feedType = "TP_CANCEL",
                              !.cancelId = id, !.lastCancelId = id,
                              !.hasDeployBreaked = breaked]
           refused == feedback(asked, FALSE)
           closed == [req |-> "REQ_FEEDBACK", type |-> "TP_DEPLOY",
                      execution |-> "EXE_CLOSED", result |-> "RS_FAILURE",
                      id |-> refused.cancelId]
           Good(r) == /\ Silent(r) \/ ~OpenAt(r)
                      /\ \A i \in DOMAIN r.posted : Closed(r.posted[i]) =>
                           ~(r.posted[i].type = "TP_DEPLOY"
                             /\ r.posted[i].result = "RS_SUCCESS")
                      /\ r.state = "MR_IDLE" => r.hasFeed
                      /\ Cancelling(r)
<1>1. PICK S \in SUBSET Names : s \in Server(S)
  BY DEF Typed
<1>2. /\ Typed(asked) /\ OpenAt(asked) /\ asked.feedType = "TP_CANCEL"
      /\ Silent(asked)
  <2>1. breaked \in BOOLEAN
    OBVIOUS
  <2>2. asked \in Server(S)
    <3> HIDE DEF breaked
    <3> QED
      BY <1>1, <2>1, AskedTyped
  <2>3. ~asked.hasFeed /\ asked.feedType = "TP_CANCEL" /\ asked.posted = s.posted
    BY <1>1 DEF Server
  <2> HIDE DEF asked
  <2> QED
    BY <2>2, <2>3 DEF Typed, Silent, OpenAt
<1> HIDE DEF asked
<1>3. ASSUME NEW finished \in BOOLEAN
      PROVE  Good(feedback(asked, finished)) /\ feedback(asked, finished).hasFeed
  <2> DEFINE r == feedback(asked, finished)
  <2>1. PICK feed : OnlyCloses(r.posted, feed) /\ feed.type = "TP_CANCEL"
    BY <1>2, feedbackCloses
  <2>2. r.hasFeed /\ r.state \in {"MR_DONE_ASK", "MR_ERROR_ASK", "MR_IDLE"}
    BY <1>2, feedbackCloses
  <2> HIDE DEF r
  <2>3. \A i \in DOMAIN r.posted : Closed(r.posted[i]) => r.posted[i].type = "TP_CANCEL"
    BY <2>1 DEF OnlyCloses
  <2>4. Good(r)
    BY <2>2, <2>3 DEF OpenAt, Cancelling
  <2> QED
    BY <2>2, <2>4 DEF r
<1>4. Good(setState(asked, "MR_CANCEL_ASK"))
  <2> DEFINE r == setState(asked, "MR_CANCEL_ASK")
  <2>1. Silent(r) /\ r.state = "MR_CANCEL_ASK" /\ Same(r, asked)
    BY <1>2, setStateKeeps, setStateEffect DEF ServerState
  <2> HIDE DEF r
  <2>2. Good(r)
    BY <1>2, <2>1 DEF Silent, Same, Cancelling
  <2> QED
    BY <2>2 DEF r
<1>5. Good(Post(refused, closed))
  <2>1. Typed(refused) /\ Good(refused) /\ refused.hasFeed
    BY <1>2, <1>3, feedbackTyped
  <2> HIDE DEF refused
  <2> DEFINE p == refused.posted
             r == Post(refused, closed)
             q == r.posted
  <2>2. p \in Seq(WebEvent) /\ q = Append(p, closed) /\ closed.result = "RS_FAILURE"
    BY <2>1 DEF Typed, Server, Post
  <2>3. Same(r, refused) /\ r.state = refused.state
    BY <2>1, PostEffect
  <2> HIDE DEF closed
  <2>4. \A i \in DOMAIN q : (i \in DOMAIN p /\ q[i] = p[i]) \/ q[i] = closed
    BY <2>2
  <2> HIDE DEF r
  <2>5. Good(r)
    BY <2>1, <2>2, <2>3, <2>4 DEF Same, OpenAt, Cancelling
  <2> QED
    BY <2>5 DEF r
<1>6. OnCancel(s, id) \in {feedback(asked, TRUE), setState(asked, "MR_CANCEL_ASK"),
                           Post(refused, closed)}
  BY DEF OnCancel, asked
<1>7. Good(OnCancel(s, id))
  <2> HIDE DEF Good, refused, closed
  <2> QED
    BY <1>3, <1>4, <1>5, <1>6 DEF refused
<1> QED
  BY <1>7

\* REQ_PULL and the results of the web queue close nothing.
LEMMA OnWebFine ==
    ASSUME NEW s, Typed(s), Silent(s), Cancelling(s), NEW distributing \in BOOLEAN
    PROVE  /\ Fine(s, OnPull(s, distributing))
           /\ Fine(s, OnDownloadDone(s)) /\ Fine(s, OnVerifyDone(s))
           /\ Fine(s, OnDistributeDone(s))
<1>1. Fine(s, s)
  BY SilentFine
<1>2. ASSUME NEW state \in {"MR_VERIFY", "MR_DISTRIBUTE", "MR_WAIT"},
             NEW req \in {"REQ_VERIFY", "REQ_DISTRIBUTE"}
      PROVE  Fine(s, setState(s, state)) /\ Fine(s, Post(setState(s, state), Request(req)))
  <2> DEFINE x == setState(s, state)
  <2>1. Typed(x) /\ Silent(x) /\ x.state = state
    <3>1. state \in ServerState
      BY DEF ServerState
    <3> QED
      BY <3>1, setStateTyped, setStateKeeps, setStateEffect
  <2> HIDE DEF x
  <2>2. Silent(Post(x, Request(req))) /\ Post(x, Request(req)).state = state
    BY <2>1, PostKeeps, PostEffect, NotClosed
  <2> QED
    BY <2>1, <2>2, SilentFine DEF Cancelling, x
<1>3. Fine(s, setState(sendControlMessage(s, "CTL_DOWNLOAD"), "MR_DISTRIBUTE"))
  <2> DEFINE x == sendControlMessage(s, "CTL_DOWNLOAD")
  <2>1. Typed(x) /\ x.posted = s.posted
    BY sendControlTyped, sendControlKeeps DEF Control
  <2> HIDE DEF x
  <2>2. Fine(s, setState(x, "MR_DISTRIBUTE"))
    BY <2>1, setStateFine DEF ServerState, Silent
  <2> QED
    BY <2>2 DEF x
<1>4. OnPull(s, distributing)
        \in {s, setState(s, "MR_DISTRIBUTE"),
             setState(sendControlMessage(s, "CTL_DOWNLOAD"), "MR_DISTRIBUTE")}
  BY DEF OnPull
<1>5. /\ OnDownloadDone(s) \in {s, Post(setState(s, "MR_VERIFY"), Request("REQ_VERIFY"))}
      /\ OnVerifyDone(s)
           \in {s, Post(setState(s, "MR_DISTRIBUTE"), Request("REQ_DISTRIBUTE"))}
      /\ OnDistributeDone(s) \in {s, setState(s, "MR_WAIT")}
  BY DEF OnDownloadDone, OnVerifyDone, OnDistributeDone
<1> QED
  BY <1>1, <1>2, <1>3, <1>4, <1>5

\* An error closes the request, unless it is tried again.
LEMMA OnErrorFine ==
    ASSUME NEW s, Typed(s), Silent(s), Cancelling(s)
    PROVE  Fine(s, OnError(s))
<1>1. PICK S \in SUBSET Names : s \in Server(S)
  BY DEF Typed
<1>2. Fine(s, feedback(s, FALSE))
  BY failureFine
<1>3. Fine(s, [download(s) EXCEPT !.retryTimes = @ + 1])
  <2> DEFINE d == download(s)
             r == [d EXCEPT !.retryTimes = d.retryTimes + 1]
  <2>1. Typed(d) /\ Silent(d) /\ d.state = "MR_DOWNLOAD"
    BY downloadTyped, downloadSilent, downloadEffect
  <2> HIDE DEF d
  <2>2. r.posted = d.posted /\ r.state = d.state
    BY <2>1 DEF Typed, Server
  <2>3. [download(s) EXCEPT !.retryTimes = @ + 1] = r
    BY DEF d
  <2> HIDE DEF r
  <2>4. Fine(s, r)
    BY <2>1, <2>2, SilentFine DEF Silent, Cancelling
  <2> QED
    BY <2>3, <2>4
<1>4. Fine(s, feedback([s EXCEPT !.retryTimes = 0], FALSE))
  <2> DEFINE x == [s EXCEPT !.retryTimes = 0]
  <2>1. 0 \in 0..RetryTimes
    BY ServerAssumption
  <2>2. x \in Server(S)
    BY <1>1, <2>1 DEF Server
  <2>3. /\ x.posted = s.posted /\ x.state = s.state /\ x.feedType = s.feedType
        /\ x.hasFeed = s.hasFeed /\ x.upgrade = s.upgrade
    BY <1>1 DEF Server
  <2> HIDE DEF x
  <2>4. Typed(x) /\ Silent(x) /\ Cancelling(x) /\ (OpenAt(x) <=> OpenAt(s))
    BY <2>2, <2>3 DEF Typed, Silent, Cancelling, OpenAt
  <2>5. Fine(s, feedback(x, FALSE))
    BY <2>3, <2>4, feedbackFine
  <2> QED
    BY <2>5 DEF x
<1>5. OnError(s) \in {feedback(s, FALSE), [download(s) EXCEPT !.retryTimes = @ + 1],
                      feedback([s EXCEPT !.retryTimes = 0], FALSE)}
  BY DEF OnError
<1> QED
  BY <1>2, <1>3, <1>4, <1>5

\* A heartbeat posts nothing.
LEMMA HeardKeeps ==
    ASSUME NEW s, Typed(s), NEW msg \in Messages
    PROVE  Heard(s, msg).posted = s.posted
<1> DEFINE known == msg.name \in Members(s)
           subscribed == [s EXCEPT !.detailSubscribed = @ \/ msg.watcher]
           resent == IF msg.discovery /\ (known \/ msg.watcher)
                     THEN resendControlMessage(subscribed) ELSE subscribed
           heard == IF known
                    THEN [resent EXCEPT !.details[msg.name] = Updated(@, msg.report)]
                    ELSE resent
<1>1. PICK S \in SUBSET Names : s \in Server(S)
  BY DEF Typed
<1>2. subscribed \in Server(S) /\ subscribed.posted = s.posted
  <2>1. (s.detailSubscribed \/ msg.watcher) \in BOOLEAN
    OBVIOUS
  <2>2. subscribed \in Server(S)
    BY <1>1, <2>1, ZenonT(60) DEF Server
  <2>3. subscribed.posted = s.posted
    BY <1>1 DEF Server
  <2> QED
    BY <2>2, <2>3
<1>3. Typed(resent) /\ resent.posted = s.posted
  <2> HIDE DEF subscribed
  <2>1. Typed(subscribed)
    BY <1>2 DEF Typed
  <2>2. Typed(resendControlMessage(subscribed))
    BY <2>1, resendControlTyped
  <2>3. resendControlMessage(subscribed).posted = subscribed.posted
    BY <1>2 DEF resendControlMessage, Server
  <2> QED
    BY <1>2, <2>1, <2>2, <2>3
<1>4. heard.posted = s.posted
  <2> HIDE DEF resent
  <2>1. PICK T \in SUBSET Names : resent \in Server(T)
    BY <1>3 DEF Typed
  <2> QED
    BY <1>3, <2>1 DEF Server
<1> QED
  BY <1>4 DEF Heard

\* A message may answer a dialog; what it reports closes nothing.
LEMMA OnDomainFine ==
    ASSUME NEW s, Typed(s), Sound(s), Silent(s), Cancelling(s), NEW msg \in Messages
    PROVE  Fine(s, OnDomain(s, msg))
<1> DEFINE h == Heard(s, msg)
<1>1. Typed(h) /\ Near(h, s) /\ Sound(h)
  BY HeardTyped, HeardNear, NearSound
<1>2. h.posted = s.posted
  BY HeardKeeps
<1>3. msg.answer \in Answer
  BY ServerAssumption DEF Message
<1> HIDE DEF h
<1>4. Silent(h) /\ Cancelling(h)
  BY <1>1, <1>2 DEF Silent, Cancelling, Near
<1>5. Fine(s, configAnswer(h, msg.answer)) /\ Fine(s, h) /\ Fine(s, s)
  BY <1>1, <1>3, <1>4, configAnswerFine, SilentFine DEF Near
<1> QED
  BY <1>5 DEF OnDomain, h

\* Where nothing closes in p and in q, nothing does in both.
LEMMA ConcatSilent ==
    ASSUME NEW S, NEW p \in Seq(S), NEW q \in Seq(S),
           \A i \in DOMAIN p : ~Closed(p[i]), \A i \in DOMAIN q : ~Closed(q[i])
    PROVE  \A i \in DOMAIN (p \o q) : ~Closed((p \o q)[i])
<1> SUFFICES ASSUME NEW i \in DOMAIN (p \o q)
             PROVE  ~Closed((p \o q)[i])
  OBVIOUS
<1>1. i \in 1..(Len(p) + Len(q)) /\ Len(p) \in Nat /\ Len(q) \in Nat
  OBVIOUS
<1>2. CASE i <= Len(p)
  <2>1. (p \o q)[i] = p[i] /\ i \in DOMAIN p
    BY <1>1, <1>2
  <2> QED
    BY <2>1
<1>3. CASE i > Len(p)
  <2>1. (p \o q)[i] = q[i - Len(p)] /\ i - Len(p) \in DOMAIN q
    BY <1>1, <1>3
  <2> QED
    BY <2>1
<1> QED
  BY <1>1, <1>2, <1>3

\* The loop of the tick closes nothing: its reports are of EXE_SCHEDULED.
LEMMA LoopedSilent ==
    ASSUME NEW s, Typed(s), Silent(s), NEW silent, NEW overdue
    PROVE  Silent(Looped(s, silent, overdue))
<1> DEFINE started == Started(s, silent, overdue)
           finishing == Finishing(s, silent, overdue)
           visited == Visited(s, silent, overdue)
           n == IF s.control = "CTL_DEPLOY" THEN Cardinality(finishing) ELSE 0
           body(m) == IF m \in visited THEN Seen(s, silent)[m] ELSE s.details[m]
           details == [m \in Members(s) |->
              [body(m) EXCEPT !.deploy = (@ /\ m \notin finishing) \/ started[m]]]
           depends == DependsAt(s, silent, overdue, started, Members(s))
           sent == s.sent \o [i \in 1..n |-> Resent(s, silent, overdue, started, i)]
           report == Feed(s, "TP_DEPLOY", "EXE_SCHEDULED", "RS_SUCCESS")
           reports == [i \in 1..n |-> report]
           posted == s.posted \o reports
<1>1. Looped(s, silent, overdue)
        = [s EXCEPT !.details = details, !.depends = depends, !.sent = sent,
                    !.posted = posted]
  BY DEF Looped
<1>2. ~Closed(report) /\ report \in WebEvent
  BY NotClosed, FeedTyped DEF FeedType
<1>3. n \in Nat
  <2>1. PICK S \in SUBSET Names : s \in Server(S)
    BY DEF Typed
  <2> QED
    BY <2>1, FinishingFinite
<1> HIDE DEF n, report
<1>4. reports \in Seq(WebEvent) /\ Len(reports) = n
  BY <1>2, <1>3
<1>5. s.posted \in Seq(WebEvent)
  BY DEF Typed, Server
<1>6. \A i \in DOMAIN posted : ~Closed(posted[i])
  <2>1. \A i \in DOMAIN reports : ~Closed(reports[i])
    BY <1>2
  <2> HIDE DEF reports
  <2> QED
    BY <1>4, <1>5, <2>1, ConcatSilent DEF Silent
<1> HIDE DEF details, depends, sent, posted
<1> QED
  BY <1>1, <1>6 DEF Typed, Server, Silent

\* r has the request of s, closes nothing, and is in a state of its own or that of s.
Onward(s, r) ==
    /\ r.feedType = s.feedType /\ r.hasFeed = s.hasFeed /\ r.upgrade = s.upgrade
    /\ Silent(r)
    /\ r.state = s.state \/ r.state \notin {"MR_IDLE", "MR_CANCEL_ASK", "MR_CANCEL"}

\* The two parts of the tick after the loop go onward.
LEMMA GatheredOnward ==
    ASSUME NEW s, Typed(s), Silent(s), NEW vaild \in BOOLEAN
    PROVE  Onward(s, Gathered(s, vaild))
<1>1. ASSUME NEW state \in {"MR_RESUME_ASK", "MR_READY", "MR_DOWNLOAD_ASK", "MR_PENDING"}
      PROVE  Onward(s, setState(s, state))
  <2>1. state \in ServerState
    BY DEF ServerState
  <2>2. /\ Same(setState(s, state), s) /\ setState(s, state).state = state
        /\ Silent(setState(s, state))
    BY <2>1, setStateEffect, setStateKeeps
  <2> QED
    BY <2>2 DEF Onward, Same
<1>2. Onward(s, download(s)) /\ Onward(s, s)
  BY downloadEffect, downloadSilent DEF Onward, Same
<1>3. \/ Gathered(s, vaild) \in {s, download(s)}
      \/ \E state \in {"MR_RESUME_ASK", "MR_READY", "MR_DOWNLOAD_ASK", "MR_PENDING"} :
           Gathered(s, vaild) = setState(s, state)
  BY DEF Gathered
<1> QED
  BY <1>1, <1>2, <1>3

LEMMA WaitedOnward ==
    ASSUME NEW s, Typed(s), Silent(s), NEW waiting \in BOOLEAN
    PROVE  Onward(s, Waited(s, waiting))
<1>1. ASSUME NEW state \in {"MR_DEPLOY_ASK", "MR_WAIT"}
      PROVE  Onward(s, setState(s, state))
  <2>1. state \in ServerState
    BY DEF ServerState
  <2>2. /\ Same(setState(s, state), s) /\ setState(s, state).state = state
        /\ Silent(setState(s, state))
    BY <2>1, setStateEffect, setStateKeeps
  <2> QED
    BY <2>2 DEF Onward, Same
<1>2. Onward(s, deploy(s)) /\ Onward(s, s)
  BY deployEffect, deploySilent DEF Onward
<1>3. Waited(s, waiting) \in {s, deploy(s), setState(s, "MR_DEPLOY_ASK"),
                              setState(s, "MR_WAIT")}
  BY DEF Waited
<1> QED
  BY <1>1, <1>2, <1>3

\* A tick answers: a success of the deployment only when all versions are equal.
LEMMA processDomainsFine ==
    ASSUME NEW s, Typed(s), Silent(s), Cancelling(s), Watching(s), NEW late \in BOOLEAN,
           NEW silent \in SUBSET Members(s), NEW overdue \in SUBSET Members(s)
    PROVE  Fine(s, processDomains(s, late, silent, overdue))
<1> DEFINE looped == Looped(s, silent, overdue)
           vaild == AllVaild(s, silent)
           waiting == AllWaiting(s, silent)
           gathered == Gathered(looped, vaild)
           waited == Waited(gathered, waiting)
<1>0. vaild \in BOOLEAN /\ waiting \in BOOLEAN
  BY DEF AllVaild, AllWaiting
<1>1. Typed(looped) /\ Onward(s, looped)
  <2>1. Typed(looped)
    BY MembersTyped, LoopedTyped DEF Typed
  <2>2. Near(looped, s) /\ Silent(looped)
    BY LoopedNear, LoopedSilent
  <2> HIDE DEF looped
  <2> QED
    BY <2>1, <2>2 DEF Near, Onward
<1> HIDE DEF looped, vaild, waiting
<1>2. Typed(gathered) /\ Onward(s, gathered)
  <2>1. Typed(gathered) /\ Onward(looped, gathered)
    BY <1>0, <1>1, GatheredTyped, GatheredOnward DEF Onward
  <2> HIDE DEF gathered
  <2> QED
    BY <1>1, <2>1 DEF Onward
<1> HIDE DEF gathered
<1>3. Typed(waited) /\ Onward(s, waited)
  <2>1. Typed(waited) /\ Onward(gathered, waited)
    BY <1>0, <1>2, WaitedTyped, WaitedOnward DEF Onward
  <2> HIDE DEF waited
  <2> QED
    BY <1>2, <2>1 DEF Onward
<1> HIDE DEF waited
<1>4. ASSUME NEW x, Typed(x), Onward(s, x), NEW finished \in BOOLEAN,
             finished /\ s.feedType = "TP_DEPLOY" => AllEqual(s)
      PROVE  Fine(s, feedback(x, finished))
  <2>1. Silent(x) /\ Cancelling(x) /\ (OpenAt(x) <=> OpenAt(s)) /\ x.upgrade = s.upgrade
    BY <1>4 DEF Onward, Cancelling, OpenAt
  <2> QED
    BY <1>4, <2>1, feedbackFine DEF Onward
<1>5. /\ Fine(s, feedback(s, FALSE)) /\ Fine(s, feedback(looped, FALSE))
      /\ Fine(s, feedback(waited, FALSE)) /\ Fine(s, waited)
  <2>1. Fine(s, waited)
    BY <1>3, SilentFine DEF Onward, Cancelling
  <2> QED
    BY <1>1, <1>3, <1>4, <2>1, failureFine
<1>6. AllEqual(s) => Fine(s, feedback(gathered, TRUE))
  BY <1>2, <1>4
<1>7. AllCancelled(s, silent) => Fine(s, feedback(waited, TRUE))
  <2>1. AllCancelled(s, silent) => s.feedType # "TP_DEPLOY"
    BY DEF AllCancelled, Cancelling
  <2> QED
    BY <1>3, <1>4, <2>1
<1>8. \/ processDomains(s, late, silent, overdue)
           \in {feedback(s, FALSE), feedback(looped, FALSE), feedback(waited, FALSE), waited}
      \/ AllEqual(s) /\ processDomains(s, late, silent, overdue) = feedback(gathered, TRUE)
      \/ /\ AllCancelled(s, silent)
         /\ processDomains(s, late, silent, overdue) = feedback(waited, TRUE)
  BY DEF processDomains, looped, gathered, waited, vaild, waiting
<1> QED
  BY <1>5, <1>6, <1>7, <1>8

\* What becomes of the request a cancellation is taken in place of.
Cancelled(r) ==
    /\ Silent(r) \/ ~OpenAt(r)
    /\ \A i \in DOMAIN r.posted : Closed(r.posted[i]) =>
         ~(r.posted[i].type = "TP_DEPLOY" /\ r.posted[i].result = "RS_SUCCESS")
    /\ r.state = "MR_IDLE" => r.hasFeed
    /\ Cancelling(r)

\* The web queue's REQ_IDLE falls idle, silently.
LEMMA OnIdleAnswers ==
    ASSUME NEW s, Typed(s), Silent(s), Cancelling(s)
    PROVE  Silent(OnIdle(s)) /\ Cancelling(OnIdle(s))
  BY idleAnswers DEF OnIdle

\* A server that starts has no request to fall idle with.
LEMMA OnInitFine ==
    ASSUME NEW s, Typed(s), Silent(s), Cancelling(s), s.state = "MR_OFFLINE",
           NEW success \in BOOLEAN
    PROVE  Fine(s, OnInit(s, success)) /\ (~success => OnInit(s, success) = s)
<1> DEFINE read == [s EXCEPT !.cacheDepends = s.file.depends,
                             !.cacheState = IF s.file.state = "MR_DEPLOY" THEN "MR_DEPLOY"
                                            ELSE "MR_UNKNOWN"]
<1>1. PICK S \in SUBSET Names : s \in Server(S)
  BY DEF Typed
<1>2. Typed(read) /\ read.posted = s.posted
  <2>1. s.file.depends \in SUBSET Names
    BY <1>1 DEF Server, StatusFile
  <2>2. read \in Server(S)
    BY <1>1, <2>1, ZenonT(60) DEF Server
  <2>3. read.posted = s.posted
    BY <1>1 DEF Server
  <2> QED
    BY <2>2, <2>3 DEF Typed
<1>3. Silent(idle(read)) /\ Cancelling(idle(read))
  <2> HIDE DEF read
  <2> QED
    BY <1>2, idleAnswers DEF Silent
<1>4. OnInit(s, success) \in {s, idle(read)} /\ (~success => OnInit(s, success) = s)
  BY DEF OnInit
<1> HIDE DEF read
<1> QED
  BY <1>3, <1>4 DEF Fine, Answered, Ends, Watching

\* A message leaves a server that is offline offline.
LEMMA OnDomainOffline ==
    ASSUME NEW s, Typed(s), s.state = "MR_OFFLINE", NEW msg \in Messages
    PROVE  OnDomain(s, msg).state = "MR_OFFLINE"
<1> DEFINE h == Heard(s, msg)
<1>1. h.state = "MR_OFFLINE"
  BY HeardNear DEF Near
<1> HIDE DEF h
<1>2. configAnswer(h, msg.answer) = h
  BY <1>1 DEF configAnswer, FinalAsk
<1> QED
  BY <1>1, <1>2 DEF OnDomain, h

-----------------------------------------------------------------------------
(* Every step is of one of these kinds.                                    *)

\* The invariant: IInv and the two facts the action properties need.
AInv == /\ IInv
        /\ ~inited => srv.state = "MR_OFFLINE"
        /\ Cancelling(srv)

StepKind ==
    \/ Fine(Fresh(srv), srv')
    \/ ReqIdle /\ Silent(srv') /\ Cancelling(srv')
    \/ \E id \in Ids : ReqCancel(id) /\ Cancelled(srv')

\* The record a handler is given.
LEMMA FreshFacts ==
    ASSUME AInv
    PROVE  LET s == Fresh(srv) IN
           /\ Typed(s) /\ Sound(s) /\ Silent(s) /\ Cancelling(s)
           /\ Members(s) = Members(srv) /\ (Watching(s) <=> Watching(srv))
           /\ (OpenAt(s) <=> Open) /\ (AllEqual(s) <=> AllEqual(srv))
           /\ s.state = srv.state /\ s.upgrade = srv.upgrade
<1> DEFINE s == Fresh(srv)
<1>1. Typed(srv) /\ Sound(srv) /\ Cancelling(srv)
  BY DEF AInv, IInv, TypeOK, Typed
<1>2. Typed(s) /\ Sound(s)
  BY <1>1, FreshTyped, FreshSound
<1>3. /\ s.posted = <<>> /\ s.details = srv.details /\ s.state = srv.state
      /\ s.feedType = srv.feedType /\ s.hasFeed = srv.hasFeed
      /\ s.errorCode = srv.errorCode /\ s.upgrade = srv.upgrade
  BY <1>1 DEF Typed, Server, Fresh
<1> HIDE DEF s
<1>4. Silent(s)
  BY <1>3 DEF Silent
<1>5. /\ Cancelling(s) /\ Members(s) = Members(srv) /\ (Watching(s) <=> Watching(srv))
      /\ (OpenAt(s) <=> Open)
  BY <1>1, <1>3 DEF Cancelling, Members, Watching, OpenAt, Open
<1>6. AllEqual(s) <=> AllEqual(srv)
  BY <1>3, <1>5 DEF AllEqual
<1> QED
  BY <1>2, <1>3, <1>4, <1>5, <1>6 DEF s

\* The kind of every step.
LEMMA StepKinds ==
    ASSUME AInv, Next
    PROVE  StepKind
<1> DEFINE s == Fresh(srv)
<1>0. /\ Typed(s) /\ Sound(s) /\ Silent(s) /\ Cancelling(s)
      /\ Members(s) = Members(srv) /\ (Watching(s) <=> Watching(srv))
      /\ s.state = srv.state
  BY FreshFacts
<1> HIDE DEF s
<1> SUFFICES \/ Fine(s, srv')
             \/ ReqIdle /\ Silent(srv') /\ Cancelling(srv')
             \/ \E id \in Ids : ReqCancel(id) /\ Cancelled(srv')
  BY DEF StepKind, s
<1>1. ASSUME NEW success \in BOOLEAN, ResInit(success)
      PROVE  Fine(s, srv')
  <2>1. s.state = "MR_OFFLINE" /\ srv' = OnInit(s, success)
    BY <1>0, <1>1 DEF ResInit, AInv, s
  <2> QED
    BY <1>0, <2>1, OnInitFine
<1>2. ASSUME NEW active \in Active, ReqActive(active)
      PROVE  Fine(s, srv')
  <2>1. /\ OnActive(s, active).posted = s.posted /\ OnActive(s, active).state = s.state
        /\ OnActive(s, active).feedType = s.feedType
    BY <1>0 DEF OnActive, Typed, Server
  <2>2. srv' = OnActive(s, active)
    BY <1>2 DEF ReqActive, FromWeb, s
  <2> QED
    BY <1>0, <2>1, <2>2, SilentFine DEF Silent, Cancelling
<1>3. CASE ReqIdle
  BY <1>0, <1>3, OnIdleAnswers DEF ReqIdle, FromWeb, s
<1>4. ASSUME NEW upgrade \in Upgrades, ReqUpgrade(upgrade)
      PROVE  Fine(s, srv')
  BY <1>0, <1>4, OnUpgradeFine DEF ReqUpgrade, FromWeb, s
<1>5. ASSUME NEW id \in Ids, ReqCancel(id)
      PROVE  Cancelled(srv')
  <2>1. srv' = OnCancel(s, id)
    BY <1>5 DEF ReqCancel, FromWeb, s
  <2> QED
    BY <1>0, <2>1, OnCancelAnswers DEF Cancelled
<1>6. ASSUME NEW distributing \in BOOLEAN, ReqPull(distributing)
      PROVE  Fine(s, srv')
  BY <1>0, <1>6, OnWebFine DEF ReqPull, FromWeb, s
<1>7. ResDownloadDone \/ ResVerifyDone \/ ResDistributeDone => Fine(s, srv')
  <2>1. \A distributing \in BOOLEAN :
          Fine(s, OnDownloadDone(s)) /\ Fine(s, OnVerifyDone(s)) /\ Fine(s, OnDistributeDone(s))
    BY <1>0, OnWebFine
  <2> QED
    BY <2>1 DEF ResDownloadDone, ResVerifyDone, ResDistributeDone, FromWeb, s
<1>8. ResError => Fine(s, srv')
  BY <1>0, OnErrorFine DEF ResError, FromWeb, s
<1>9. ASSUME NEW msg \in Messages, ResDomain(msg)
      PROVE  Fine(s, srv')
  BY <1>0, <1>9, OnDomainFine DEF ResDomain, s
<1>10. ASSUME NEW late \in BOOLEAN, NEW silent \in SUBSET Members(srv),
              NEW overdue \in SUBSET Members(srv), Tick(late, silent, overdue)
       PROVE  Fine(s, srv')
  <2>1. Watching(s) /\ srv' = processDomains(s, late, silent, overdue)
    BY <1>0, <1>10 DEF Tick, s
  <2> QED
    BY <1>0, <2>1, processDomainsFine
<1>11. ASSUME NEW torn \in BOOLEAN, Restart(torn)
       PROVE  Fine(s, srv')
  <2>1. \A file : /\ Boot(file).posted = <<>> /\ Boot(file).state = "MR_OFFLINE"
    BY DEF Boot
  <2>2. srv'.posted = <<>> /\ srv'.state = "MR_OFFLINE"
    BY <1>11, <2>1 DEF Restart
  <2> QED
    BY <2>2, SilentFine DEF Silent, Cancelling
<1> QED
  BY <1>1, <1>2, <1>3, <1>4, <1>5, <1>6, <1>7, <1>8, <1>9, <1>10, <1>11 DEF Next

\* Before the web queue is there, nothing takes the server out of MR_OFFLINE.
LEMMA OfflineStep ==
    ASSUME AInv, Next
    PROVE  ~inited' => srv'.state = "MR_OFFLINE"
<1> DEFINE s == Fresh(srv)
<1>0. /\ Typed(s) /\ Silent(s) /\ Cancelling(s) /\ (Watching(s) <=> Watching(srv))
      /\ s.state = srv.state
  BY FreshFacts
<1> HIDE DEF s
<1> SUFFICES ASSUME ~inited' PROVE srv'.state = "MR_OFFLINE"
  OBVIOUS
<1>1. ASSUME NEW success \in BOOLEAN, ResInit(success)
      PROVE  srv'.state = "MR_OFFLINE"
  <2>1. s.state = "MR_OFFLINE" /\ srv' = OnInit(s, success) /\ ~success
    BY <1>0, <1>1 DEF ResInit, AInv, s
  <2> QED
    BY <1>0, <2>1, OnInitFine
<1>2. ASSUME NEW msg \in Messages, ResDomain(msg)
      PROVE  srv'.state = "MR_OFFLINE"
  BY <1>0, <1>2, OnDomainOffline DEF ResDomain, AInv, s
<1>3. ASSUME NEW late \in BOOLEAN, NEW silent \in SUBSET Members(srv),
             NEW overdue \in SUBSET Members(srv), Tick(late, silent, overdue)
      PROVE  FALSE
  BY <1>3 DEF Tick, Watching, AInv
<1>4. ASSUME NEW torn \in BOOLEAN, Restart(torn)
      PROVE  srv'.state = "MR_OFFLINE"
  BY <1>4 DEF Restart, Boot
<1>5. \A next : ~FromWeb(next)
  BY DEF FromWeb
<1> QED
  BY <1>1, <1>2, <1>3, <1>4, <1>5
  DEF Next, ReqActive, ReqIdle, ReqUpgrade, ReqCancel, ReqPull, ResDownloadDone, ResVerifyDone,
      ResDistributeDone, ResError

\* Every step keeps the invariant.
LEMMA ActionStep == AInv /\ [Next]_vars => AInv'
<1> SUFFICES ASSUME AInv, [Next]_vars PROVE AInv'
  OBVIOUS
<1>1. IInv'
  <2>1. TypeOK' /\ Sound(srv')
    BY TypeStep, SoundStep DEF AInv, IInv
  <2> QED
    BY <2>1 DEF IInv
<1>2. CASE UNCHANGED vars
  BY <1>1, <1>2 DEF vars, AInv, Cancelling
<1>3. CASE Next
  <2>1. Cancelling(srv')
    BY <1>3, StepKinds DEF StepKind, Fine, Cancelled
  <2> QED
    BY <1>1, <1>3, <2>1, OfflineStep DEF AInv, Cancelling
<1> QED
  BY <1>2, <1>3

\* The invariant holds in every reachable state.
LEMMA ActionInductive == Spec => []AInv
<1>1. Init /\ IInv => AInv
  BY DEF Init, Boot, AInv, Cancelling
<1>2. Spec => []IInv
  BY Inductive
<1> QED
  BY <1>1, <1>2, ActionStep, PTL DEF Spec

-----------------------------------------------------------------------------
\* Every step is as the three action properties say.
LEMMA NoSilentEndStep ==
    AInv /\ [Next]_vars =>
      [Watching(srv) /\ srv'.state = "MR_IDLE"
       => srv'.hasFeed \/ ReqIdle \/ srv.state = "MR_RESUME_ASK"]_vars
<1> SUFFICES ASSUME AInv, Next, Watching(srv), srv'.state = "MR_IDLE"
             PROVE  srv'.hasFeed \/ ReqIdle \/ srv.state = "MR_RESUME_ASK"
  OBVIOUS
<1>1. Watching(Fresh(srv)) /\ Fresh(srv).state = srv.state
  BY FreshFacts
<1> QED
  BY <1>1, StepKinds DEF StepKind, Fine, Ends, Cancelled

LEMMA SilentClosed == Silent(srv') <=> ClosedFeeds' = {}
  BY DEF Silent, ClosedFeeds

LEMMA ClosesOnceStep ==
    AInv /\ [Next]_vars =>
      [ClosedFeeds' # {} =>
         \/ Open /\ ~Open' /\ \A i, j \in ClosedFeeds' : i = j
         \/ \E id \in Ids : ReqCancel(id) /\ ~Open']_vars
<1> SUFFICES ASSUME AInv, Next, ClosedFeeds' # {}
             PROVE  \/ Open /\ ~Open' /\ \A i, j \in ClosedFeeds' : i = j
                    \/ \E id \in Ids : ReqCancel(id) /\ ~Open'
  OBVIOUS
<1>1. ~Silent(srv') /\ (OpenAt(Fresh(srv)) <=> Open) /\ (OpenAt(srv') <=> Open')
  BY FreshFacts, SilentClosed DEF OpenAt, Open
<1>2. CASE Answered(Fresh(srv), srv')
  <2>1. Open /\ ~Open' /\ \E feed : OnlyCloses(srv'.posted, feed)
    BY <1>1, <1>2 DEF Answered
  <2>2. \A i, j \in ClosedFeeds' : i = j
    BY <2>1 DEF OnlyCloses, ClosedFeeds
  <2> QED
    BY <2>1, <2>2
<1> QED
  BY <1>1, <1>2, StepKinds DEF StepKind, Fine, Cancelled

LEMMA SuccessStep ==
    ASSUME AInv, Next, NEW i \in ClosedFeeds',
           srv'.posted[i].type = "TP_DEPLOY", srv'.posted[i].result = "RS_SUCCESS"
    PROVE  AllEqual(srv) /\ srv'.posted[i].id = srv.upgrade.id
<1>1. i \in DOMAIN srv'.posted /\ Closed(srv'.posted[i]) /\ ~Silent(srv')
  BY DEF ClosedFeeds, Silent
<1>2. CASE Answered(Fresh(srv), srv')
  <2>1. PICK feed : OnlyCloses(srv'.posted, feed) /\ Truthful(Fresh(srv), feed)
    BY <1>1, <1>2 DEF Answered
  <2>2. srv'.posted[i] = feed
    BY <1>1, <2>1 DEF OnlyCloses
  <2>3. AllEqual(Fresh(srv)) /\ feed.id = Fresh(srv).upgrade.id
    BY <2>1, <2>2 DEF Truthful
  <2> QED
    BY <2>2, <2>3, FreshFacts
<1> QED
  BY <1>1, <1>2, StepKinds DEF StepKind, Fine, Cancelled

(***************************************************************************)
(* No step falls idle with a request open unless the update server has     *)
(* withdrawn it or the user has declined to resume it (processDomains,     *)
(* feedback and idle, for every upgrade and every set of controllers).     *)
(***************************************************************************)
THEOREM NeverSilentEnd == Spec => NoSilentEnd
  BY NoSilentEndStep, ActionInductive, PTL DEF Spec, NoSilentEnd

(***************************************************************************)
(* A request is closed once: by one feed, sent when it is open, after      *)
(* which it is not (feedback, and the two feeds of a cancellation that     *)
(* finds nothing to cancel).                                               *)
(***************************************************************************)
THEOREM AlwaysClosesOnce == Spec => ClosesOnce
  BY ClosesOnceStep, ActionInductive, PTL DEF Spec, ClosesOnce

(***************************************************************************)
(* The update server is told of a success only when every controller of    *)
(* the upgrade has reported its target version (detectVersionEqual).       *)
(***************************************************************************)
THEOREM SuccessAlwaysDeployed == Spec => SuccessIsDeployed
<1>1. AInv /\ [Next]_vars =>
        [\A i \in ClosedFeeds' :
           srv'.posted[i].type = "TP_DEPLOY" /\ srv'.posted[i].result = "RS_SUCCESS"
           => AllEqual(srv) /\ srv'.posted[i].id = srv.upgrade.id]_vars
  BY SuccessStep
<1> QED
  BY <1>1, ActionInductive, PTL DEF Spec, SuccessIsDeployed
=============================================================================
