---------------------------- MODULE OrderProofs ----------------------------
(***************************************************************************)
(* A package is deployed only when what it depends on runs its new version *)
(* (DependsRespected), for any number of controllers of one upgrade that   *)
(* depend on each other in a line.                                         *)
(*                                                                         *)
(* A controller deploys at an order whose depends, those that wait by what *)
(* the server knows, hold none it requires (Releases).  What the server    *)
(* knows is late, but not wrong: before the order whoever waits has nothing*)
(* to do (Ahead), after it nobody goes back (Afoot), so that what was said *)
(* once remains true (Lasts).  In a line only one controller may have its  *)
(* turn: whoever has left its wait finds all below itself done (Below),    *)
(* for the next order goes out when the one whose turn it was has finished *)
(* and all above still wait.  Thus what is released requires nothing that  *)
(* is not installed (Rightful), in each phase of an upgrade (Resting,      *)
(* Heading, Running, Finished).                                            *)
(***************************************************************************)
EXTENDS RolloutProofs

-----------------------------------------------------------------------------
(* What a controller deploys, or has been told to.                         *)

\* The upgrades of its deployments: those at work, and those to come of the orders in its
\* queue that find nothing to wait for.
Releases(n, c, x) ==
    \/ \E w \in {c.worker} \cup c.loose : w.task = "deploy" /\ w.upgrade = x
    \/ \E i \in DOMAIN c.queue : /\ Orders(c.queue[i]) /\ c.queue[i].upgrade = x
                                 /\ ~hasDepends(Requires[n], c.queue[i].depends)

\* d deploys nothing that c does not.
Carries(n, c, d) == \A x : Releases(n, d, x) => Releases(n, c, x)

\* d has the events and the tasks of c.
Bears(c, d) == d.queue = c.queue /\ d.worker = c.worker /\ d.loose = c.loose

\* So it does if it has the same.
LEMMA BearsCarries ==
    ASSUME NEW n, NEW c, NEW d, Bears(c, d)
    PROVE  Carries(n, c, d)
  BY DEF Bears, Carries, Releases

\* Two in a row.
LEMMA CarriesCarries ==
    ASSUME NEW n, NEW c, NEW d, NEW e, Carries(n, c, d), Carries(n, d, e)
    PROVE  Carries(n, c, e)
  BY DEF Carries

\* An event that is no order.
LEMMA AppendedCarries ==
    ASSUME NEW n, NEW c, NEW d, NEW S, c.queue \in Seq(S), NEW event, ~Orders(event),
           d.queue = Append(c.queue, event), d.worker = c.worker, d.loose = c.loose
    PROVE  Carries(n, c, d)
<1>1. \A i \in DOMAIN d.queue : \/ i \in DOMAIN c.queue /\ d.queue[i] = c.queue[i]
                                \/ d.queue[i] = event
  OBVIOUS
<1> QED
  BY <1>1 DEF Carries, Releases

\* A result is posted.
LEMMA postCarries ==
    ASSUME NEW n, NEW c \in Client(n)!ClientHelper,
           NEW type \in {"RES_ERROR", "RES_DEPLOY_DONE", "RES_CANCEL_DONE"}
    PROVE  Carries(n, c, Client(n)!postResult(c, type))
<1> DEFINE event == [type |-> type]
           d == [c EXCEPT !.queue = Append(c.queue, event)]
<1>1. d = Client(n)!postResult(c, type)
  BY DEF Client!postResult, Client!postEvent
<1>2. ~Orders(event)
  BY DEF Orders
<1> HIDE DEF event
<1>3. /\ d.queue = Append(c.queue, event) /\ d.worker = c.worker /\ d.loose = c.loose
      /\ c.queue \in Seq(Client(n)!ClientEvent)
  BY DEF Client!ClientHelper
<1> HIDE DEF d
<1> QED
  BY <1>1, <1>2, <1>3, AppendedCarries

\* What a heartbeat changes.
LEMMA sendEffect ==
    ASSUME NEW n, NEW c \in Client(n)!ClientHelper
    PROVE  LET d == Client(n)!sendDomainMessage(c)
           IN /\ Bears(c, d) /\ d.state = c.state /\ d.hasCancelAction = c.hasCancelAction
              /\ d.version = c.version /\ d.package = c.package
              /\ c.sent = <<>> => \A i \in DOMAIN d.sent : d.sent[i].state = d.state
<1> DEFINE heartbeat == [state |-> c.state, last |-> c.last, error |-> c.error,
                         version |-> c.version, discovery |-> c.needDiscovery]
           told == [c EXCEPT !.needDiscovery = FALSE, !.sent = Append(c.sent, heartbeat)]
           missed == [c EXCEPT !.needDiscovery = TRUE, !.heard = FALSE]
           d == Client(n)!sendDomainMessage(c)
<1>1. d = told \/ d = missed
  BY DEF Client!sendDomainMessage
<1>2. heartbeat.state = c.state
  OBVIOUS
<1> HIDE DEF heartbeat, d
<1>3. /\ Bears(c, d) /\ d.state = c.state /\ d.hasCancelAction = c.hasCancelAction
      /\ d.version = c.version /\ d.package = c.package
      /\ d.sent = c.sent \/ d.sent = Append(c.sent, heartbeat)
  BY <1>1 DEF Client!ClientHelper, Bears
<1>4. ASSUME c.sent = <<>>, NEW i \in DOMAIN d.sent
      PROVE  d.sent[i].state = d.state
  BY <1>2, <1>3, <1>4
<1> QED
  BY <1>3, <1>4 DEF d

\* A task in place of that of the thread.
LEMMA startCarries ==
    ASSUME NEW n, NEW c \in Client(n)!ClientHelper, NEW task
    PROVE  LET d == Client(n)!start(c, task)
           IN /\ task # "deploy" => Carries(n, c, d)
              /\ \A x : Releases(n, d, x) => Releases(n, c, x) \/ x = c.upgrade
<1> DEFINE d == Client(n)!start(c, task)
<1>1. /\ d.queue = c.queue /\ d.worker.task = task /\ d.loose = c.loose
      /\ d.worker.upgrade = c.upgrade
  BY DEF Client!ClientHelper, Client!start
<1> HIDE DEF d
<1>2. (task # "deploy" => Carries(n, c, d))
      /\ \A x : Releases(n, d, x) => Releases(n, c, x) \/ x = c.upgrade
  BY <1>1 DEF Carries, Releases
<1> QED
  BY <1>2 DEF d

\* The end of a task, and of a thread.
LEMMA RestCarries ==
    ASSUME NEW n, NEW c \in Client(n)!ClientHelper, NEW e \in Client(n)!ClientHelper, Outcome(c, e)
    PROVE  Carries(n, c, Client(n)!Rest(e))
<1> DEFINE d == [e EXCEPT !.worker = Client(n)!NoWorker]
<1>1. d = Client(n)!Rest(e)
  BY DEF Client!Rest
<1>2. d.queue = e.queue /\ d.worker = Client(n)!NoWorker /\ d.loose = e.loose
  BY DEF Client!ClientHelper
<1> HIDE DEF d
<1>3. Carries(n, e, d)
  BY <1>2 DEF Client!NoWorker, Carries, Releases
<1>4. c.queue \in Seq(Client(n)!ClientEvent)
  BY DEF Client!ClientHelper
<1>5. Carries(n, c, e)
  BY <1>4, BearsCarries, AppendedCarries DEF Outcome, Bears
<1> QED
  BY <1>1, <1>3, <1>5, CarriesCarries

\* A task that lasts is let go.
LEMMA LetGoCarries ==
    ASSUME NEW n, NEW c \in Client(n)!ClientHelper, NEW e \in Client(n)!LetGo(c)
    PROVE  Carries(n, c, Client(n)!Rest(e)) /\ e.upgrade = c.upgrade
<1> DEFINE loose == c.loose \cup {c.worker}
           d == [e EXCEPT !.worker = Client(n)!NoWorker]
<1>1. d = Client(n)!Rest(e) /\ e = [c EXCEPT !.loose = loose]
  BY DEF Client!Rest, Client!LetGo
<1> HIDE DEF loose
<1>2. /\ d.queue = c.queue /\ d.worker = Client(n)!NoWorker /\ d.loose = loose
      /\ e.upgrade = c.upgrade
  BY <1>1 DEF Client!ClientHelper
<1> HIDE DEF d
<1>3. \A w \in {d.worker} \cup d.loose : w.task = "deploy" => w \in {c.worker} \cup c.loose
  BY <1>2 DEF Client!NoWorker, loose
<1>4. Carries(n, c, d)
  BY <1>2, <1>3 DEF Carries, Releases
<1> QED
  BY <1>1, <1>2, <1>4

\* None of the ways a task may end changes the upgrade the engine is at.
LEMMA OutcomeUpgrade ==
    ASSUME NEW n, NEW c \in Client(n)!ClientHelper,
           NEW e \in Client(n)!Success(c) \cup Client(n)!Failure(c)
                     \cup Client(n)!Stopped(c) \cup Client(n)!Cancelled(c)
    PROVE  e.upgrade = c.upgrade
<1> DEFINE got == [c EXCEPT !.files = c.files \cup {<<c.worker.upgrade, c.worker.package>>}]
           patched == [c EXCEPT !.patchNewFiles = TRUE]
           installed == [c EXCEPT !.installed = Target[c.worker.package]]
           types == {"RES_ERROR", "RES_DOWNLOAD", "RES_VERIFY", "RES_PATCH", "RES_DEPLOY_DONE",
                     "RES_CANCEL_DONE"}
<1>1. \/ e = c
      \/ e = Client(n)!postResult(got, "RES_DOWNLOAD")
      \/ e = Client(n)!postResult(c, "RES_VERIFY")
      \/ e = Client(n)!postResult(patched, "RES_PATCH")
      \/ e = Client(n)!postDeployDone(installed, TRUE)
      \/ e = Client(n)!postDeployDone(c, FALSE)
      \/ e = Client(n)!postResult(c, "RES_ERROR")
      \/ e = Client(n)!postResult(c, "RES_CANCEL_DONE")
      \/ \E success \in BOOLEAN : e = Client(n)!postCancelDone(c, success)
  BY DEF Client!Success, Client!Failure, Client!Stopped, Client!Cancelled
<1>2. \A b \in {c, got, patched, installed} :
        b.upgrade = c.upgrade /\ DOMAIN b = DOMAIN c
  BY DEF Client!ClientHelper
<1> HIDE DEF got, patched, installed
<1>3. \A b \in {c, got, patched, installed} : \A type \in types :
        Client(n)!postResult(b, type).upgrade = c.upgrade
  BY <1>2 DEF Client!postResult, Client!postEvent, Client!ClientHelper
<1>4. /\ Client(n)!postDeployDone(installed, TRUE).upgrade = c.upgrade
      /\ Client(n)!postDeployDone(c, FALSE).upgrade = c.upgrade
      /\ \A success \in BOOLEAN : Client(n)!postCancelDone(c, success).upgrade = c.upgrade
  BY <1>2, <1>3 DEF Client!postDeployDone, Client!postCancelDone
<1> QED
  BY <1>1, <1>2, <1>3, <1>4

\* The thread is free again.
LEMMA stopThreadCarries ==
    ASSUME NEW n, NEW c, Fit(n, c), NEW d \in Client(n)!stopThread(c)
    PROVE  /\ Carries(n, c, d) /\ d.upgrade = c.upgrade
           /\ c.worker.task = "none" => d = c
<1>0. c \in Client(n)!ClientHelper
  BY DEF Fit
<1>1. CASE c.worker.task = "none"
  BY <1>1, BearsCarries DEF Client!stopThread, Bears
<1>2. CASE c.worker.task # "none"
  <2>1. PICK e : /\ d = Client(n)!Rest(e)
                 /\ e \in Client(n)!LetGo(c) \cup Client(n)!Stopped(c) \cup Client(n)!Cancelled(c)
                          \cup Client(n)!Success(c) \cup Client(n)!Failure(c)
    BY <1>2 DEF Client!stopThread
  <2>2. e \in Client(n)!ClientHelper
    <3>1. Onto(n, c, e)
      BY <2>1, StoppedOnto, CancelledOnto, SuccessOnto, FailureOnto, LetGoOnto
    <3> QED
      BY <3>1 DEF Onto, Fit
  <2>3. Carries(n, c, d)
    BY <1>0, <1>2, <2>1, <2>2, LetGoCarries, OutcomeOf, RestCarries
  <2>4. e.upgrade = c.upgrade
    BY <1>0, <2>1, LetGoCarries, OutcomeUpgrade
  <2>5. d.upgrade = e.upgrade
    BY <2>1, <2>2 DEF Client!Rest, Client!ClientHelper
  <2> QED
    BY <1>2, <2>3, <2>4, <2>5
<1> QED
  BY <1>1, <1>2

-----------------------------------------------------------------------------
(* No step of a controller deploys what it was not told to.                *)

\* Controls that are taken.
LEMMA ToldCarries ==
    ASSUME NEW n, NEW c, Fit(n, c), NEW flag \in BOOLEAN, NEW state \in Client(n)!ClientState
    PROVE  LET told == [c EXCEPT !.hasCancelAction = flag]
               enters == Client(n)!setDomainState([told EXCEPT !.error = FALSE], state)
           IN /\ Fit(n, told) /\ Fit(n, enters)
              /\ Carries(n, c, told) /\ Carries(n, c, enters)
              /\ told.upgrade = c.upgrade /\ enters.upgrade = c.upgrade
<1> DEFINE told == [c EXCEPT !.hasCancelAction = flag]
           clear == [told EXCEPT !.error = FALSE]
           enters == Client(n)!setDomainState(clear, state)
<1>1. Fit(n, told) /\ Fit(n, enters)
  BY ToldOnto DEF Onto
<1>2. Matches(c, told) /\ Enters(c, enters, state)
  BY FieldsMatch, ToldMatches DEF Fit
<1>3. told.upgrade = c.upgrade /\ enters.upgrade = c.upgrade
  BY DEF Fit, Client!ClientHelper, Client!setDomainState
<1> HIDE DEF told, enters
<1>4. Carries(n, c, told) /\ Carries(n, c, enters)
  BY <1>2, BearsCarries DEF Enters, Matches, Bears
<1> QED
  BY <1>1, <1>3, <1>4 DEF told, enters, clear

\* case CTL_RESET.
LEMMA OnResetCarries ==
    ASSUME NEW n, NEW c, Fit(n, c), NEW d \in Client(n)!OnReset(c)
    PROVE  Carries(n, c, d)
<1> DEFINE reset == [c EXCEPT !.hasCancelAction = FALSE, !.error = FALSE]
<1>1. d = reset \/ d = Client(n)!setDomainState(reset, "WR_IDLE")
  BY DEF Client!OnReset
<1>2. reset \in Client(n)!ClientHelper
  BY DEF Fit, Client!ClientHelper
<1>3. Matches(c, reset)
  BY FieldsMatch DEF Fit
<1> HIDE DEF reset
<1>4. Matches(reset, Client(n)!setDomainState(reset, "WR_IDLE"))
  BY <1>2, setDomainStateMatches
<1> QED
  BY <1>1, <1>3, <1>4, BearsCarries DEF Matches, Bears

\* case CTL_DOWNLOAD.
LEMMA OnDownloadCarries ==
    ASSUME NEW n, NEW c, Fit(n, c), NEW d \in Client(n)!OnDownload(c)
    PROVE  Carries(n, c, d)
<1> DEFINE told == [c EXCEPT !.hasCancelAction = FALSE]
           downloads == Client(n)!setDomainState([told EXCEPT !.error = FALSE], "WR_DOWNLOAD")
<1>1. d = told \/ \E e \in Client(n)!stopThread(downloads) : d = Client(n)!start(e, "download")
  BY DEF Client!OnDownload
<1>2. /\ Fit(n, told) /\ Fit(n, downloads)
      /\ Carries(n, c, told) /\ Carries(n, c, downloads)
  BY ToldCarries DEF Client!ClientState
<1> HIDE DEF told, downloads
<1>3. ASSUME NEW e \in Client(n)!stopThread(downloads)
      PROVE  Carries(n, c, Client(n)!start(e, "download"))
  <2>1. Carries(n, downloads, e) /\ Onto(n, downloads, e)
    BY <1>2, stopThreadCarries, stopThreadOnto
  <2>2. Carries(n, e, Client(n)!start(e, "download"))
    BY <2>1, startCarries DEF Onto, Fit
  <2> QED
    BY <1>2, <2>1, <2>2, CarriesCarries
<1> QED
  BY <1>1, <1>2, <1>3

\* case CTL_DEPLOY: what the order is about, if nothing it depends on is waited for.
LEMMA OnDeployCarries ==
    ASSUME NEW n, NEW c, Fit(n, c), NEW depends, NEW d \in Client(n)!OnDeploy(c, depends), NEW x,
           Releases(n, d, x)
    PROVE  Releases(n, c, x) \/ (x = c.upgrade /\ ~hasDepends(Requires[n], depends))
<1> DEFINE told == [c EXCEPT !.hasCancelAction = FALSE]
           waits == IF c.state = "WR_IDLE" THEN Client(n)!setDomainState(told, "WR_WAIT") ELSE told
           clear == [waits EXCEPT !.error = FALSE]
           deploys == Client(n)!setDomainState(clear, "WR_DEPLOY")
<1>1. \/ d = told \/ d = waits
      \/ /\ ~hasDepends(Requires[n], depends)
         /\ \E e \in Client(n)!stopThread(deploys) :
              \/ d = Client(n)!postResult(e, "RES_DEPLOY_DONE")
              \/ d = Client(n)!postResult(e, "RES_ERROR")
              \/ d = Client(n)!start(e, "deploy")
  BY DEF Client!OnDeploy, Client!hasDepends, hasDepends
<1>2. Fit(n, told) /\ Matches(c, told) /\ told.upgrade = c.upgrade
  <2>1. Fit(n, told)
    BY ToldOnto DEF Onto, Client!ClientState
  <2>2. told.upgrade = c.upgrade
    BY DEF Fit, Client!ClientHelper
  <2> QED
    BY <2>1, <2>2, FieldsMatch DEF Fit
<1> HIDE DEF told
<1>3. Fit(n, waits) /\ Matches(told, waits) /\ waits.upgrade = c.upgrade
  <2>1. Fit(n, waits)
    BY <1>2, setDomainStateOnto DEF Onto, Client!ClientState
  <2>2. Matches(told, waits)
    BY <1>2, setDomainStateMatches DEF Matches, Fit
  <2>3. waits.upgrade = c.upgrade
    BY <1>2 DEF Fit, Client!ClientHelper, Client!setDomainState
  <2> QED
    BY <2>1, <2>2, <2>3
<1> HIDE DEF waits
<1>4. Fit(n, clear) /\ Matches(waits, clear) /\ clear.upgrade = c.upgrade
  <2>1. Fit(n, clear)
    BY <1>3, FlagsOnto DEF Onto
  <2>2. clear.upgrade = c.upgrade
    BY <1>3 DEF Fit, Client!ClientHelper
  <2> QED
    BY <1>3, <2>1, <2>2, FieldsMatch DEF Fit
<1> HIDE DEF clear
<1>5. Fit(n, deploys) /\ Matches(clear, deploys) /\ deploys.upgrade = c.upgrade
  <2>1. Fit(n, deploys)
    BY <1>4, setDomainStateOnto DEF Onto, Client!ClientState
  <2>2. Matches(clear, deploys)
    BY <1>4, setDomainStateMatches DEF Fit
  <2>3. deploys.upgrade = c.upgrade
    BY <1>4 DEF Fit, Client!ClientHelper, Client!setDomainState
  <2> QED
    BY <2>1, <2>2, <2>3
<1> HIDE DEF deploys
<1>6. Carries(n, c, told) /\ Carries(n, c, waits) /\ Carries(n, c, deploys)
  BY <1>2, <1>3, <1>4, <1>5, BearsCarries DEF Matches, Bears
<1>7. ASSUME NEW e \in Client(n)!stopThread(deploys),
             \/ d = Client(n)!postResult(e, "RES_DEPLOY_DONE")
             \/ d = Client(n)!postResult(e, "RES_ERROR")
             \/ d = Client(n)!start(e, "deploy")
      PROVE  Releases(n, c, x) \/ x = c.upgrade
  <2>1. Carries(n, deploys, e) /\ Onto(n, deploys, e) /\ e.upgrade = c.upgrade
    BY <1>5, stopThreadCarries, stopThreadOnto
  <2>2. e \in Client(n)!ClientHelper
    BY <2>1 DEF Onto, Fit
  <2>3. Releases(n, e, x) \/ x = e.upgrade
    <3>1. /\ Carries(n, e, Client(n)!postResult(e, "RES_DEPLOY_DONE"))
          /\ Carries(n, e, Client(n)!postResult(e, "RES_ERROR"))
      BY <2>2, postCarries
    <3>2. \A y : Releases(n, Client(n)!start(e, "deploy"), y) => Releases(n, e, y) \/ y = e.upgrade
      BY <2>2, startCarries
    <3> QED
      BY <1>7, <3>1, <3>2 DEF Carries
  <2> QED
    BY <1>6, <2>1, <2>3 DEF Carries
<1> QED
  BY <1>1, <1>6, <1>7 DEF Carries

\* case CTL_CANCEL.
LEMMA OnCancelCarries ==
    ASSUME NEW n, NEW c, Fit(n, c), NEW d \in Client(n)!OnCancel(c)
    PROVE  Carries(n, c, d)
<1> DEFINE told == [c EXCEPT !.hasCancelAction = TRUE]
           cancels == Client(n)!setDomainState([told EXCEPT !.error = FALSE], "WR_CANCEL")
<1>1. Carries(n, c, told) /\ Carries(n, c, cancels) /\ Fit(n, cancels)
  BY ToldCarries DEF Client!ClientState
<1>2. \/ d = told \/ d = cancels
      \/ d = Client(n)!postResult(cancels, "RES_ERROR")
      \/ d = Client(n)!postResult(cancels, "RES_CANCEL_DONE")
  BY DEF Client!OnCancel
<1> HIDE DEF told, cancels
<1>3. /\ Carries(n, cancels, Client(n)!postResult(cancels, "RES_ERROR"))
      /\ Carries(n, cancels, Client(n)!postResult(cancels, "RES_CANCEL_DONE"))
  BY <1>1, postCarries DEF Fit
<1> QED
  BY <1>1, <1>2, <1>3, CarriesCarries

\* A new state.
LEMMA EntersCarries ==
    ASSUME NEW n, NEW c, Fit(n, c), NEW state \in Client(n)!ClientState
    PROVE  LET d == Client(n)!setDomainState(c, state)
           IN Fit(n, d) /\ Carries(n, c, d) /\ d.state = state
<1> DEFINE d == Client(n)!setDomainState(c, state)
<1>1. Fit(n, d)
  BY setDomainStateOnto DEF Onto
<1>2. Matches(c, d) /\ d.state = state
  BY setDomainStateMatches DEF Fit
<1> HIDE DEF d
<1>3. Carries(n, c, d)
  BY <1>2, BearsCarries DEF Matches, Bears
<1> QED
  BY <1>1, <1>2, <1>3 DEF d

\* case CTL_CLEAR.
LEMMA OnClearCarries ==
    ASSUME NEW n, NEW c, Fit(n, c), NEW d \in Client(n)!OnClear(c)
    PROVE  Carries(n, c, d)
<1> DEFINE told == [c EXCEPT !.hasCancelAction = FALSE]
<1>1. \E e \in Client(n)!stopThread(told) : d = Client(n)!setDomainState(e, "WR_IDLE")
  BY DEF Client!OnClear
<1>2. Fit(n, told) /\ Carries(n, c, told)
  BY ToldCarries DEF Client!ClientState
<1> HIDE DEF told
<1>3. PICK e \in Client(n)!stopThread(told) : d = Client(n)!setDomainState(e, "WR_IDLE")
  BY <1>1
<1>4. Carries(n, told, e) /\ Onto(n, told, e)
  BY <1>2, stopThreadCarries, stopThreadOnto
<1>5. Carries(n, e, d)
  BY <1>3, <1>4, EntersCarries DEF Onto, Client!ClientState
<1> QED
  BY <1>2, <1>4, <1>5, CarriesCarries

\* What a control makes of c.
LEMMA OnControlCarries ==
    ASSUME NEW n, NEW c, Fit(n, c), NEW event \in Order(n),
           NEW d \in Client(n)!OnControl(c, event), NEW x, Releases(n, d, x)
    PROVE  \/ Releases(n, c, x)
           \/ /\ event.control = "CTL_DEPLOY" /\ x = event.upgrade
              /\ ~hasDepends(Requires[n], event.depends)
<1> DEFINE package == IF event.holds THEN event.upgrade ELSE c.package
           taken == [c EXCEPT !.upgrade = event.upgrade, !.package = package]
<1>1. Fit(n, taken)
  BY TakenFit
<1>2. PICK e \in Client(n)!Obeyed(taken, event) : d = Client(n)!sendDomainMessage(e)
  BY DEF Client!OnControl
<1>3. Carries(n, c, taken) /\ taken.upgrade = event.upgrade
  <2>1. c \in Client(n)!ClientHelper
    BY DEF Fit
  <2>2. taken.upgrade = event.upgrade
    BY <2>1 DEF Client!ClientHelper
  <2>3. Enters(c, taken, c.state)
    BY <2>1, TakenMatches
  <2> HIDE DEF taken
  <2> QED
    BY <2>2, <2>3, BearsCarries DEF Enters, Matches, Bears
<1> HIDE DEF package, taken
<1>4. \/ e \in Client(n)!OnReset(taken) \cup Client(n)!OnDownload(taken)
               \cup Client(n)!OnCancel(taken) \cup Client(n)!OnClear(taken) \cup {taken}
      \/ e \in Client(n)!OnDeploy(taken, event.depends) /\ event.control = "CTL_DEPLOY"
  BY <1>2 DEF Client!Obeyed
<1>5. Fit(n, e)
  BY <1>1, <1>4, OnResetOnto, OnDownloadOnto, OnDeployOnto, OnCancelOnto, OnClearOnto DEF Onto
<1>6. Carries(n, e, d)
  BY <1>2, <1>5, sendEffect, BearsCarries DEF Fit
<1>7. CASE e \in Client(n)!OnDeploy(taken, event.depends) /\ event.control = "CTL_DEPLOY"
  <2>1. Releases(n, e, x)
    BY <1>6 DEF Carries
  <2>2. Releases(n, taken, x) \/ (x = taken.upgrade /\ ~hasDepends(Requires[n], event.depends))
    BY <1>1, <1>7, <2>1, OnDeployCarries
  <2> QED
    BY <1>3, <1>7, <2>2 DEF Carries
<1>8. CASE e \in Client(n)!OnReset(taken) \cup Client(n)!OnDownload(taken)
                 \cup Client(n)!OnCancel(taken) \cup Client(n)!OnClear(taken) \cup {taken}
  <2>1. Carries(n, taken, e)
    BY <1>1, <1>8, OnResetCarries, OnDownloadCarries, OnCancelCarries, OnClearCarries
       DEF Carries
  <2> QED
    BY <1>3, <1>6, <2>1 DEF Carries
<1> QED
  BY <1>4, <1>7, <1>8

\* case RES_ERROR.
LEMMA OnErrorCarries ==
    ASSUME NEW n, NEW c, Fit(n, c), NEW d \in Client(n)!OnError(c)
    PROVE  Carries(n, c, d)
<1> DEFINE e == Client(n)!setDomainState(c, "WR_ERROR")
           f == [e EXCEPT !.error = TRUE]
<1>1. d = Client(n)!sendDomainMessage(f)
  BY DEF Client!OnError
<1>2. Fit(n, e) /\ Carries(n, c, e)
  BY EntersCarries DEF Client!ClientState
<1> HIDE DEF e
<1>3. Fit(n, f) /\ Matches(e, f)
  BY <1>2, FlagsOnto, FieldsMatch DEF Onto, Fit
<1> HIDE DEF f
<1>4. Carries(n, e, f) /\ Carries(n, f, d)
  BY <1>1, <1>3, BearsCarries, sendEffect DEF Matches, Bears, Fit
<1> QED
  BY <1>2, <1>4, CarriesCarries

\* The thread takes up another preparation.
LEMMA BeginsCarries ==
    ASSUME NEW n, NEW c, Fit(n, c), NEW d \in Client(n)!stopThread(c),
           c.package # NoId, NEW task \in {"download", "verify", "patch"}
    PROVE  Fit(n, Client(n)!start(d, task)) /\ Carries(n, c, Client(n)!start(d, task))
<1>1. Carries(n, c, d) /\ Onto(n, c, d)
  BY stopThreadCarries, stopThreadOnto
<1>2. Carries(n, d, Client(n)!start(d, task))
  BY <1>1, startCarries DEF Onto, Fit
<1>3. Onto(n, d, Client(n)!start(d, task))
  BY <1>1, startOnto DEF Onto
<1> QED
  BY <1>1, <1>2, <1>3, CarriesCarries DEF Onto

\* cases RES_DOWNLOAD and RES_PATCH.
LEMMA OnVerifiableCarries ==
    ASSUME NEW n, NEW c, Fit(n, c), c.package # NoId, NEW d \in Client(n)!OnVerifiable(c)
    PROVE  Carries(n, c, d)
<1> DEFINE e == Client(n)!setDomainState(c, "WR_VERIFY")
<1>1. PICK f \in Client(n)!stopThread(e) :
        d = Client(n)!sendDomainMessage(Client(n)!start(f, "verify"))
  BY DEF Client!OnVerifiable
<1>2. Fit(n, e) /\ Carries(n, c, e) /\ e.package = c.package
  BY EntersCarries, setDomainStateOnto DEF Client!ClientState, Onto
<1> HIDE DEF e
<1>3. Fit(n, Client(n)!start(f, "verify")) /\ Carries(n, e, Client(n)!start(f, "verify"))
  BY <1>2, BeginsCarries
<1>4. Carries(n, Client(n)!start(f, "verify"), d)
  BY <1>1, <1>3, BearsCarries, sendEffect DEF Fit
<1> QED
  BY <1>2, <1>3, <1>4, CarriesCarries

\* case RES_VERIFY.
LEMMA OnVerifyCarries ==
    ASSUME NEW n, NEW c, Fit(n, c), c.package # NoId, NEW d \in Client(n)!OnVerify(c)
    PROVE  Carries(n, c, d)
<1> DEFINE kept == [c EXCEPT !.patchNewFiles = FALSE]
           waits == Client(n)!setDomainState(kept, "WR_WAIT")
           patches == Client(n)!setDomainState(c, "WR_PATCH")
<1>1. \/ d = Client(n)!sendDomainMessage(waits)
      \/ \E e \in Client(n)!stopThread(patches) :
           d = Client(n)!sendDomainMessage([Client(n)!start(e, "patch") EXCEPT
                                              !.patchNewFiles = FALSE])
  BY DEF Client!OnVerify
<1>2. Fit(n, kept) /\ Matches(c, kept)
  BY FlagsOnto, FieldsMatch DEF Onto, Fit
<1> HIDE DEF kept
<1>3. Fit(n, waits) /\ Carries(n, c, waits)
  BY <1>2, EntersCarries, BearsCarries, CarriesCarries DEF Client!ClientState, Matches, Bears
<1>4. Fit(n, patches) /\ Carries(n, c, patches) /\ patches.package = c.package
  BY EntersCarries, setDomainStateOnto DEF Client!ClientState, Onto
<1> HIDE DEF waits, patches
<1>5. ASSUME NEW e \in Client(n)!stopThread(patches),
             d = Client(n)!sendDomainMessage([Client(n)!start(e, "patch") EXCEPT
                                                !.patchNewFiles = FALSE])
      PROVE  Carries(n, c, d)
  <2> DEFINE f == Client(n)!start(e, "patch")
             g == [f EXCEPT !.patchNewFiles = FALSE]
  <2>1. Fit(n, f) /\ Carries(n, patches, f)
    BY <1>4, BeginsCarries
  <2>2. d = Client(n)!sendDomainMessage(g)
    BY <1>5
  <2> HIDE DEF f
  <2>3. Fit(n, g) /\ Matches(f, g)
    BY <2>1, FlagsOnto, FieldsMatch DEF Onto, Fit
  <2> HIDE DEF g
  <2>4. Carries(n, f, g) /\ Carries(n, g, d)
    BY <2>2, <2>3, BearsCarries, sendEffect DEF Matches, Bears, Fit
  <2> QED
    BY <1>4, <2>1, <2>4, CarriesCarries
<1>6. Carries(n, waits, Client(n)!sendDomainMessage(waits))
  BY <1>3, BearsCarries, sendEffect DEF Fit
<1> QED
  BY <1>1, <1>3, <1>5, <1>6, CarriesCarries

-----------------------------------------------------------------------------
(* The steps of a controller deploy nothing new.                           *)

\* cases RES_DEPLOY_DONE and RES_CANCEL_DONE.
LEMMA DoneCarries ==
    ASSUME NEW n, NEW c, Fit(n, c),
           NEW d \in Client(n)!OnDeployDone(c) \cup Client(n)!OnCancelDone(c),
           d \in Client(n)!OnDeployDone(c) => c.package # NoId
    PROVE  Carries(n, c, d)
<1> DEFINE target == Target[c.package]
           installs == [c EXCEPT !.version = target]
<1>1. Matches(c, installs) /\ Matches(c, c)
  BY FieldsMatch DEF Fit, Matches
<1>2. \E e \in {c, installs} :
        /\ d = Client(n)!sendDomainMessage(Client(n)!setDomainState(e, "WR_IDLE"))
        /\ e = installs => c.package # NoId
  BY DEF Client!OnDeployDone, Client!OnCancelDone
<1>3. c.package # NoId => installs \in Client(n)!ClientHelper
  <2>1. c.package # NoId => target \in Client(n)!Versions
    BY HeldIds DEF Fit, Provided, Client!Versions
  <2> HIDE DEF target
  <2> QED
    BY <2>1 DEF Fit, Client!ClientHelper
<1> HIDE DEF installs, target
<1>4. PICK e \in {c, installs} :
        /\ d = Client(n)!sendDomainMessage(Client(n)!setDomainState(e, "WR_IDLE"))
        /\ e = installs => c.package # NoId
  BY <1>2
<1> DEFINE f == Client(n)!setDomainState(e, "WR_IDLE")
<1>5. e \in Client(n)!ClientHelper /\ Matches(c, e)
  BY <1>1, <1>3, <1>4 DEF Fit
<1>6. Matches(e, f) /\ f \in Client(n)!ClientHelper
  <2>1. "WR_IDLE" \in Client(n)!ClientState
    BY DEF Client!ClientState
  <2>2. f \in Client(n)!ClientHelper
    BY <1>5, <2>1 DEF Client!ClientHelper, Client!setDomainState
  <2>3. Enters(e, f, "WR_IDLE")
    BY <1>5, setDomainStateMatches DEF Enters
  <2> HIDE DEF f
  <2> QED
    BY <2>2, <2>3 DEF Enters
<1>7. d = Client(n)!sendDomainMessage(f)
  BY <1>4
<1> HIDE DEF f
<1>8. Carries(n, c, f)
  BY <1>5, <1>6, BearsCarries DEF Matches, Bears
<1>9. Carries(n, f, d)
  BY <1>6, <1>7, sendEffect, BearsCarries
<1> QED
  BY <1>8, <1>9, CarriesCarries

\* The record without what it has sent, and without its first event, carries no more.
LEMMA QuietCarries ==
    ASSUME NEW n, NEW c, Fit(n, c)
    PROVE  Carries(n, c, Client(n)!Quiet(c))
<1> DEFINE q == Client(n)!Quiet(c)
<1>1. q.queue = c.queue /\ q.worker = c.worker /\ q.loose = c.loose
  BY DEF Client!Quiet, Fit, Client!ClientHelper
<1> HIDE DEF q
<1> QED
  BY <1>1, BearsCarries DEF Bears, q

\* Taking the next event off the queue releases nothing.
LEMMA PoppedCarries ==
    ASSUME NEW n, NEW c, Fit(n, c), c.queue # <<>>
    PROVE  LET e == [Client(n)!Quiet(c) EXCEPT !.queue = Tail(c.queue)]
           IN /\ e.queue = Tail(c.queue) /\ e.worker = c.worker /\ e.loose = c.loose
              /\ e.sent = <<>> /\ e.state = c.state /\ e.hasCancelAction = c.hasCancelAction
              /\ e.package = c.package /\ e.version = c.version /\ e.installed = c.installed
              /\ \A i \in DOMAIN e.queue : i + 1 \in DOMAIN c.queue /\ e.queue[i] = c.queue[i + 1]
              /\ 1 \in DOMAIN c.queue /\ Head(c.queue) = c.queue[1]
              /\ Carries(n, c, e)
<1> DEFINE rest == Tail(c.queue)
           e == [Client(n)!Quiet(c) EXCEPT !.queue = rest]
<1>1. c.queue \in Seq(Client(n)!ClientEvent)
  BY DEF Fit, Client!ClientHelper
<1>2. /\ \A i \in DOMAIN rest : i + 1 \in DOMAIN c.queue /\ rest[i] = c.queue[i + 1]
      /\ 1 \in DOMAIN c.queue /\ Head(c.queue) = c.queue[1]
  BY <1>1
<1> HIDE DEF rest
<1>3. /\ e.queue = rest /\ e.worker = c.worker /\ e.loose = c.loose
      /\ e.sent = <<>> /\ e.state = c.state /\ e.hasCancelAction = c.hasCancelAction
      /\ e.package = c.package /\ e.version = c.version /\ e.installed = c.installed
  BY DEF Client!Quiet, Fit, Client!ClientHelper
<1> HIDE DEF e
<1>4. Carries(n, c, e)
  BY <1>2, <1>3 DEF Carries, Releases
<1> QED
  BY <1>2, <1>3, <1>4 DEF e, rest

\* The engine's thread.
LEMMA HandledCarries ==
    ASSUME NEW n, NEW c, Fit(n, c), NEW d \in Client(n)!Handled(c)
    PROVE  Carries(n, c, d)
<1> DEFINE event == Head(c.queue)
           e == [Client(n)!Quiet(c) EXCEPT !.queue = Tail(c.queue)]
<1>1. c.queue # <<>> /\ d \in Client(n)!Handle(e, event)
  BY HandledFrom
<1>2. /\ Fit(n, e)
      /\ event.type \in {"REQ_CONTROL", "RES_ERROR", "RES_DOWNLOAD", "RES_PATCH",
                         "RES_VERIFY", "RES_DEPLOY_DONE", "RES_CANCEL_DONE"}
      /\ event.type = "REQ_CONTROL" => event \in Order(n)
      /\ event.type # "REQ_CONTROL" => e.package # NoId
  BY <1>1, PoppedFit
<1>3. Carries(n, c, e) /\ 1 \in DOMAIN c.queue /\ event = c.queue[1]
  BY <1>1, PoppedCarries
<1> HIDE DEF e, event
<1>4. CASE event.type = "REQ_CONTROL"
  <2>1. event \in Order(n) /\ d \in Client(n)!OnControl(e, event)
    BY <1>1, <1>2, <1>4 DEF Client!Handle
  <2>2. ASSUME NEW x, Releases(n, d, x)
        PROVE  Releases(n, c, x)
    <3>1. \/ Releases(n, e, x)
          \/ /\ event.control = "CTL_DEPLOY" /\ x = event.upgrade
             /\ ~hasDepends(Requires[n], event.depends)
      BY <1>2, <2>1, <2>2, OnControlCarries
    <3> QED
      BY <1>3, <1>4, <3>1 DEF Carries, Releases, Orders
  <2> QED
    BY <2>2 DEF Carries
<1>5. CASE event.type = "RES_ERROR"
  BY <1>1, <1>2, <1>3, <1>5, OnErrorCarries, CarriesCarries DEF Client!Handle
<1>6. CASE event.type \in {"RES_DOWNLOAD", "RES_PATCH"}
  <2>1. d \in Client(n)!OnVerifiable(e) /\ e.package # NoId
    BY <1>1, <1>2, <1>6 DEF Client!Handle
  <2> QED
    BY <1>2, <1>3, <2>1, OnVerifiableCarries, CarriesCarries
<1>7. CASE event.type = "RES_VERIFY"
  <2>1. d \in Client(n)!OnVerify(e) /\ e.package # NoId
    BY <1>1, <1>2, <1>7 DEF Client!Handle
  <2> QED
    BY <1>2, <1>3, <2>1, OnVerifyCarries, CarriesCarries
<1>8. CASE event.type \in {"RES_DEPLOY_DONE", "RES_CANCEL_DONE"}
  <2>1. d \in Client(n)!OnDeployDone(e) \cup Client(n)!OnCancelDone(e) /\ e.package # NoId
    BY <1>1, <1>2, <1>8 DEF Client!Handle
  <2> QED
    BY <1>2, <1>3, <2>1, DoneCarries, CarriesCarries
<1> QED
  BY <1>2, <1>4, <1>5, <1>6, <1>7, <1>8

\* The timer.
LEMMA BeatenCarries ==
    ASSUME NEW n, NEW c, Fit(n, c), NEW d \in Client(n)!Beaten(c)
    PROVE  Carries(n, c, d)
<1> DEFINE q == Client(n)!Quiet(c)
<1>1. Onto(n, c, q) /\ d = Client(n)!sendDomainMessage(q) /\ Carries(n, c, q)
  BY QuietOnto, QuietCarries DEF Client!Beaten
<1> HIDE DEF q
<1>2. Carries(n, q, d)
  BY <1>1, sendEffect, BearsCarries DEF Onto, Fit
<1> QED
  BY <1>1, <1>2, CarriesCarries

\* The worker that sees that it is to stop.
LEMMA BrokenCarries ==
    ASSUME NEW n, NEW c, Fit(n, c), NEW d \in Client(n)!Broken(c)
    PROVE  Carries(n, c, d)
<1> DEFINE q == Client(n)!Quiet(c)
           w == [q.worker EXCEPT !.broken = TRUE]
<1>1. c.worker.task \in {"download", "verify"} /\ d = [q EXCEPT !.worker = w]
  BY DEF Client!Broken
<1>2. Onto(n, c, q) /\ q.worker = c.worker /\ Carries(n, c, q)
  BY QuietOnto, QuietCarries DEF Client!Quiet, Fit
<1> HIDE DEF q
<1>3. q \in Client(n)!ClientHelper /\ q.worker \in Client(n)!Worker
  BY <1>2 DEF Onto, Fit, Client!ClientHelper
<1>4. w.task # "deploy"
  BY <1>1, <1>2, <1>3 DEF Client!Worker, Client!NoWorker
<1> HIDE DEF w
<1>5. d.queue = q.queue /\ d.worker = w /\ d.loose = q.loose
  BY <1>1, <1>3 DEF Client!ClientHelper
<1>6. Carries(n, q, d)
  BY <1>4, <1>5 DEF Carries, Releases
<1> QED
  BY <1>2, <1>6, CarriesCarries

\* Its task that ends.
LEMMA EndedCarries ==
    ASSUME NEW n, NEW c, Fit(n, c), NEW fails, NEW d \in Client(n)!Ended(c, fails)
    PROVE  Carries(n, c, d)
<1>1. PICK e \in Client(n)!Success(c) \cup Client(n)!Failure(c) \cup Client(n)!Stopped(c)
                 \cup Client(n)!Cancelled(c) :
        d = Client(n)!Quiet(Client(n)!Rest(e))
  BY DEF Client!Ended
<1>2. c.worker.task # "none"
  BY <1>1 DEF Client!Success, Client!Failure, Client!Stopped, Client!Cancelled
<1>3. Onto(n, c, e) /\ Outcome(c, e)
  BY <1>1, <1>2, OutcomeOf, StoppedOnto, SuccessOnto, CancelledOnto, FailureOnto
<1> DEFINE r == Client(n)!Rest(e)
<1>4. Onto(n, e, r) /\ Carries(n, c, r)
  BY <1>3, RestOnto, RestCarries DEF Onto, Fit
<1>5. d = Client(n)!Quiet(r)
  BY <1>1
<1> HIDE DEF r
<1>6. Carries(n, r, d)
  BY <1>4, <1>5, QuietCarries DEF Onto
<1> QED
  BY <1>4, <1>6, CarriesCarries

\* The task w that stop() has let go ends as e: of its own record, then of that of c.
LetEnd(n, c, w, e, d) ==
    LET at == [c EXCEPT !.worker = w]
    IN /\ w.task # "none" /\ Onto(n, c, e) /\ Fit(n, at) /\ at.worker = w
       /\ at.state = c.state /\ at.hasCancelAction = c.hasCancelAction
       /\ e \in Client(n)!Success(at) \cup Client(n)!Cancelled(at)
                \cup Client(n)!Stopped(at) \cup Client(n)!Failure(at)
       /\ \/ e.queue = c.queue
          \/ \E event : e.queue = Append(c.queue, event) /\ ~Orders(event)
       /\ d.queue = e.queue /\ d.worker = c.worker /\ d.loose = c.loose \ {w}
       /\ d.sent = <<>> /\ d.state = c.state /\ d.hasCancelAction = e.hasCancelAction
       /\ d.package = c.package /\ d.version = c.version /\ at.queue = c.queue

\* The end of a task that was let go is one of these.
LEMMA LooseEndedFrom ==
    ASSUME NEW n, NEW c, Fit(n, c), NEW fails, NEW d \in Client(n)!LooseEnded(c, fails)
    PROVE  \E w \in c.loose : \E e : LetEnd(n, c, w, e, d)
<1>1. PICK w \in c.loose :
        \E e \in Client(n)!Success([c EXCEPT !.worker = w])
                 \cup Client(n)!Cancelled([c EXCEPT !.worker = w])
                 \cup Client(n)!Stopped([c EXCEPT !.worker = w])
                 \cup Client(n)!Failure([c EXCEPT !.worker = w]) :
          d = [Client(n)!Quiet(e) EXCEPT !.worker = c.worker, !.loose = @ \ {w}]
  BY ZenonT(60) DEF Client!LooseEnded
<1> DEFINE at == [c EXCEPT !.worker = w]
<1>2. PICK e \in Client(n)!Success(at) \cup Client(n)!Cancelled(at)
                 \cup Client(n)!Stopped(at) \cup Client(n)!Failure(at) :
        d = [Client(n)!Quiet(e) EXCEPT !.worker = c.worker, !.loose = @ \ {w}]
  BY <1>1
<1>3. /\ w \in Client(n)!Worker /\ w.task # "none" /\ w.package \in Held /\ c.package # NoId
      /\ c \in Client(n)!ClientHelper /\ c.queue \in Seq(Client(n)!ClientEvent)
  BY <1>1 DEF Fit, Provided, Client!ClientHelper
<1>4. Onto(n, c, at)
  BY <1>3, ReworkOnto
<1>5. /\ at.worker = w /\ at.queue = c.queue /\ at.loose = c.loose /\ at.sent = c.sent
      /\ at.online = c.online /\ at.needDiscovery = c.needDiscovery /\ at.state = c.state
      /\ at.hasCancelAction = c.hasCancelAction
  BY <1>3 DEF Client!ClientHelper
<1> HIDE DEF at
<1>6. Outcome(at, e) /\ Onto(n, at, e)
  BY <1>2, <1>3, <1>4, <1>5, OutcomeOf, StoppedOnto, SuccessOnto, CancelledOnto, FailureOnto
     DEF Onto
<1> DEFINE loose == e.loose \ {w}
<1>7. d = [e EXCEPT !.sent = <<>>, !.worker = c.worker, !.loose = loose]
  BY <1>2, <1>6 DEF Client!Quiet, Onto, Fit, Client!ClientHelper
<1>8. /\ d.queue = e.queue /\ d.worker = c.worker /\ d.loose = c.loose \ {w}
      /\ d.sent = <<>> /\ d.state = c.state /\ d.hasCancelAction = e.hasCancelAction
      /\ d.package = e.package /\ d.version = e.version
  BY <1>5, <1>6, <1>7 DEF Client!ClientHelper, Onto, Fit, Outcome
<1>9. Onto(n, c, e)
  BY <1>4, <1>6, OntoOnto
<1>10. \/ e.queue = c.queue
       \/ \E event : e.queue = Append(c.queue, event) /\ ~Orders(event)
  BY <1>5, <1>6 DEF Outcome
<1>11. Fit(n, at)
  BY <1>4 DEF Onto
<1>12. LetEnd(n, c, w, e, d)
  BY <1>2, <1>3, <1>5, <1>8, <1>9, <1>10, <1>11 DEF at, LetEnd, Onto
<1> QED
  BY <1>12

\* It releases nothing either.
LEMMA LooseEndedCarries ==
    ASSUME NEW n, NEW c, Fit(n, c), NEW fails, NEW d \in Client(n)!LooseEnded(c, fails)
    PROVE  Carries(n, c, d)
<1>0. PICK w \in c.loose : \E e : LetEnd(n, c, w, e, d)
  BY LooseEndedFrom
<1>1. PICK e :
        /\ \/ e.queue = c.queue
           \/ \E event : e.queue = Append(c.queue, event) /\ ~Orders(event)
        /\ d.queue = e.queue /\ d.worker = c.worker /\ d.loose = c.loose \ {w}
  BY <1>0 DEF LetEnd
<1>2. c.queue \in Seq(Client(n)!ClientEvent)
  BY DEF Fit, Client!ClientHelper
<1>3. \A i \in DOMAIN d.queue : Orders(d.queue[i]) =>
        i \in DOMAIN c.queue /\ d.queue[i] = c.queue[i]
  <2>1. CASE e.queue = c.queue
    BY <1>1, <2>1
  <2>2. ASSUME NEW event, e.queue = Append(c.queue, event), ~Orders(event)
        PROVE  \A i \in DOMAIN d.queue : Orders(d.queue[i]) =>
                 i \in DOMAIN c.queue /\ d.queue[i] = c.queue[i]
    <3>1. \A i \in DOMAIN d.queue : \/ i \in DOMAIN c.queue /\ d.queue[i] = c.queue[i]
                                    \/ d.queue[i] = event
      BY <1>1, <1>2, <2>2
    <3> QED
      BY <2>2, <3>1
  <2> QED
    BY <1>1, <2>1, <2>2
<1> QED
  BY <1>1, <1>3 DEF Carries, Releases

-----------------------------------------------------------------------------
(* What the calls make of the fields that tell how far a controller is.    *)

\* d is c with this queue, in this state and at this task; it may have been told not to
\* cancel, and may have got a package.
Reaches(c, d, queue, state, task) ==
    /\ d.queue = queue /\ d.loose = c.loose /\ d.worker.task = task /\ d.state = state
    /\ d.version = c.version /\ (c.package # NoId => d.package = c.package)
    /\ d.hasCancelAction => c.hasCancelAction

\* It has said nothing yet; all that it has said is its state.
Goes(c, d, queue, state, task) == Reaches(c, d, queue, state, task) /\ d.sent = c.sent
Says(d) == \A i \in DOMAIN d.sent : d.sent[i].state = d.state
Went(c, d, queue, state, task) == Reaches(c, d, queue, state, task) /\ Says(d)

\* A call that changes nothing of this.
LEMMA SelfGoes ==
    ASSUME NEW c
    PROVE  Goes(c, c, c.queue, c.state, c.worker.task)
  BY DEF Goes, Reaches

\* Two calls in a row.
LEMMA GoesGoes ==
    ASSUME NEW c, NEW d, NEW e, NEW p, NEW q, NEW x, NEW y, NEW v, NEW w,
           Goes(c, d, p, x, v), Goes(d, e, q, y, w)
    PROVE  Goes(c, e, q, y, w)
  BY DEF Goes, Reaches

\* A call that says nothing, and one that says its state.
LEMMA GoesWent ==
    ASSUME NEW c, NEW d, NEW e, NEW p, NEW q, NEW x, NEW y, NEW v, NEW w,
           Goes(c, d, p, x, v), Went(d, e, q, y, w)
    PROVE  Went(c, e, q, y, w)
  BY DEF Went, Goes, Reaches

\* A heartbeat.
LEMMA sendWent ==
    ASSUME NEW n, NEW c \in Client(n)!ClientHelper, c.sent = <<>>
    PROVE  Went(c, Client(n)!sendDomainMessage(c), c.queue, c.state, c.worker.task)
<1> DEFINE d == Client(n)!sendDomainMessage(c)
<1>1. /\ Bears(c, d) /\ d.state = c.state /\ d.hasCancelAction = c.hasCancelAction
      /\ d.version = c.version /\ d.package = c.package
      /\ \A i \in DOMAIN d.sent : d.sent[i].state = d.state
  BY sendEffect
<1> HIDE DEF d
<1>2. Went(c, d, c.queue, c.state, c.worker.task)
  BY <1>1 DEF Went, Reaches, Says, Bears
<1> QED
  BY <1>2 DEF d

\* A new state.
LEMMA setDomainStateGoes ==
    ASSUME NEW n, NEW c \in Client(n)!ClientHelper, NEW state
    PROVE  Goes(c, Client(n)!setDomainState(c, state), c.queue, state, c.worker.task)
<1> DEFINE d == Client(n)!setDomainState(c, state)
<1>1. Matches(c, d) /\ d.state = state
  BY setDomainStateMatches
<1>2. d.version = c.version /\ d.package = c.package /\ d.hasCancelAction = c.hasCancelAction
  BY DEF Client!setDomainState, Client!ClientHelper
<1> HIDE DEF d
<1>3. Goes(c, d, c.queue, state, c.worker.task)
  BY <1>1, <1>2 DEF Goes, Reaches, Matches
<1> QED
  BY <1>3 DEF d

\* The request to cancel is taken back; and a new state without an error.
LEMMA ToldGoes ==
    ASSUME NEW n, NEW c, Fit(n, c), NEW state \in Client(n)!ClientState
    PROVE  LET told == [c EXCEPT !.hasCancelAction = FALSE]
               enters == Client(n)!setDomainState([told EXCEPT !.error = FALSE], state)
           IN /\ Fit(n, told) /\ Goes(c, told, c.queue, c.state, c.worker.task)
              /\ Fit(n, enters) /\ Goes(c, enters, c.queue, state, c.worker.task)
<1> DEFINE told == [c EXCEPT !.hasCancelAction = FALSE]
           clear == [told EXCEPT !.error = FALSE]
           enters == Client(n)!setDomainState(clear, state)
<1>1. Fit(n, told) /\ Fit(n, enters)
  BY ToldOnto DEF Onto
<1>2. Goes(c, told, c.queue, c.state, c.worker.task)
  BY DEF Fit, Client!ClientHelper, Goes, Reaches
<1> HIDE DEF told
<1>3. Goes(told, clear, told.queue, told.state, told.worker.task)
      /\ clear \in Client(n)!ClientHelper
  BY <1>1 DEF Fit, Client!ClientHelper, Goes, Reaches
<1> HIDE DEF clear
<1>4. Goes(clear, enters, clear.queue, state, clear.worker.task)
  BY <1>3, setDomainStateGoes
<1> HIDE DEF enters
<1>5. Goes(c, enters, c.queue, state, c.worker.task)
  BY <1>2, <1>3, <1>4 DEF Goes, Reaches
<1> QED
  BY <1>1, <1>2, <1>5 DEF told, clear, enters

\* A task is started.
LEMMA startGoes ==
    ASSUME NEW n, NEW c \in Client(n)!ClientHelper, NEW task
    PROVE  Goes(c, Client(n)!start(c, task), c.queue, c.state, task)
<1> DEFINE d == Client(n)!start(c, task)
<1>1. /\ d.queue = c.queue /\ d.worker.task = task /\ d.loose = c.loose /\ d.sent = c.sent
      /\ d.state = c.state
  BY startEffect
<1>2. d.version = c.version /\ d.package = c.package /\ d.hasCancelAction = c.hasCancelAction
  BY DEF Client!start, Client!ClientHelper
<1> HIDE DEF d
<1>3. Goes(c, d, c.queue, c.state, task)
  BY <1>1, <1>2 DEF Goes, Reaches
<1> QED
  BY <1>3 DEF d

\* A result is posted.
LEMMA postGoes ==
    ASSUME NEW n, NEW c \in Client(n)!ClientHelper, NEW type
    PROVE  Goes(c, Client(n)!postResult(c, type), Append(c.queue, [type |-> type]), c.state,
                c.worker.task)
  BY DEF Client!postResult, Client!postEvent, Client!ClientHelper, Goes, Reaches

\* A control that is about the one upgrade there is.
LEMMA TakenGoes ==
    ASSUME NEW n, NEW c, Fit(n, c), Single(Held), NEW event \in Order(n)
    PROVE  LET taken == [c EXCEPT !.upgrade = event.upgrade,
                                  !.package = IF event.holds THEN event.upgrade ELSE c.package]
           IN Fit(n, taken) /\ Goes(c, taken, c.queue, c.state, c.worker.task)
<1> DEFINE package == IF event.holds THEN event.upgrade ELSE c.package
           taken == [c EXCEPT !.upgrade = event.upgrade, !.package = package]
<1>1. Fit(n, taken)
  BY TakenFit
<1>2. c.package # NoId => package = c.package
  BY DEF Fit, Provided, Order, Single
<1> HIDE DEF package
<1>3. Goes(c, taken, c.queue, c.state, c.worker.task)
  BY <1>2 DEF Fit, Client!ClientHelper, Goes, Reaches
<1> QED
  BY <1>1, <1>3 DEF package

\* The first event is taken.
LEMMA PoppedGoes ==
    ASSUME NEW n, NEW c, Fit(n, c), c.queue # <<>>, c.sent = <<>>
    PROVE  Goes(c, [Client(n)!Quiet(c) EXCEPT !.queue = Tail(c.queue)], Tail(c.queue), c.state,
                c.worker.task)
<1> DEFINE rest == Tail(c.queue)
           e == [Client(n)!Quiet(c) EXCEPT !.queue = rest]
<1> HIDE DEF rest
<1>1. /\ e.queue = rest /\ e.worker = c.worker /\ e.loose = c.loose
      /\ e.sent = <<>> /\ e.state = c.state /\ e.hasCancelAction = c.hasCancelAction
      /\ e.package = c.package /\ e.version = c.version
  BY DEF Client!Quiet, Fit, Client!ClientHelper
<1> HIDE DEF e
<1>2. Goes(c, e, rest, c.state, c.worker.task)
  BY <1>1 DEF Goes, Reaches
<1> QED
  BY <1>2 DEF e, rest

-----------------------------------------------------------------------------
(* What the handlers make of them while the thread is free.                *)

\* case CTL_RESET, whatever the thread is at.
LEMMA OnResetGoes ==
    ASSUME NEW n, NEW c, Fit(n, c), NEW d \in Client(n)!OnReset(c)
    PROVE  /\ Fit(n, d)
           /\ \/ Goes(c, d, c.queue, c.state, c.worker.task)
              \/ c.state = "WR_OFFLINE" /\ Goes(c, d, c.queue, "WR_IDLE", c.worker.task)
<1> DEFINE reset == [c EXCEPT !.hasCancelAction = FALSE, !.error = FALSE]
<1>1. d = reset \/ (c.state = "WR_OFFLINE" /\ d = Client(n)!setDomainState(reset, "WR_IDLE"))
  BY DEF Client!OnReset
<1>2. /\ reset \in Client(n)!ClientHelper
      /\ Goes(c, reset, c.queue, c.state, c.worker.task)
  BY DEF Fit, Client!ClientHelper, Goes, Reaches
<1> HIDE DEF reset
<1>3. Goes(reset, Client(n)!setDomainState(reset, "WR_IDLE"), reset.queue, "WR_IDLE",
           reset.worker.task)
  BY <1>2, setDomainStateGoes
<1>4. Fit(n, d)
  BY OnResetOnto DEF Onto
<1>5. reset.queue = c.queue /\ reset.worker.task = c.worker.task
  BY <1>2 DEF Goes, Reaches
<1> QED
  BY <1>1, <1>2, <1>3, <1>4, <1>5, GoesGoes

\* stopThread has nothing to stop.
LEMMA stopThreadFree ==
    ASSUME NEW n, NEW c, c.worker.task = "none", NEW d \in Client(n)!stopThread(c)
    PROVE  d = c
  BY DEF Client!stopThread

\* case CTL_DOWNLOAD.
LEMMA OnDownloadGoes ==
    ASSUME NEW n, NEW c, Fit(n, c), c.worker.task = "none", NEW d \in Client(n)!OnDownload(c)
    PROVE  /\ Fit(n, d)
           /\ \/ Goes(c, d, c.queue, c.state, "none")
              \/ Goes(c, d, c.queue, "WR_DOWNLOAD", "download")
<1> DEFINE told == [c EXCEPT !.hasCancelAction = FALSE]
           downloads == Client(n)!setDomainState([told EXCEPT !.error = FALSE], "WR_DOWNLOAD")
<1>1. d = told \/ \E e \in Client(n)!stopThread(downloads) : d = Client(n)!start(e, "download")
  BY DEF Client!OnDownload
<1>2. /\ Fit(n, told) /\ Goes(c, told, c.queue, c.state, c.worker.task)
      /\ Fit(n, downloads) /\ Goes(c, downloads, c.queue, "WR_DOWNLOAD", c.worker.task)
  BY ToldGoes DEF Client!ClientState
<1> HIDE DEF told, downloads
<1>3. downloads.worker.task = "none" /\ downloads.queue = c.queue
      /\ downloads.state = "WR_DOWNLOAD"
  BY <1>2 DEF Goes, Reaches
<1>4. d = told \/ d = Client(n)!start(downloads, "download")
  BY <1>1, <1>3, stopThreadFree
<1>5. Goes(downloads, Client(n)!start(downloads, "download"), c.queue, "WR_DOWNLOAD", "download")
  BY <1>2, <1>3, startGoes DEF Fit
<1>6. Goes(c, Client(n)!start(downloads, "download"), c.queue, "WR_DOWNLOAD", "download")
  BY <1>2, <1>5, GoesGoes
<1>7. Fit(n, d)
  BY OnDownloadOnto DEF Onto
<1> QED
  BY <1>2, <1>4, <1>6, <1>7

\* case CTL_DEPLOY, of who has its files: nothing, or the end of its wait.
LEMMA OnDeployGoes ==
    ASSUME NEW n, NEW c, Fit(n, c), NEW depends, NEW d \in Client(n)!OnDeploy(c, depends),
           c.state \in {"WR_WAIT", "WR_DEPLOY", "WR_ERROR", "WR_IDLE"},
           c.state = "WR_WAIT" => c.worker.task = "none",
           c.state = "WR_IDLE" => Client(n)!VersionEqual(c)
    PROVE  /\ Fit(n, d)
           /\ \/ Goes(c, d, c.queue, c.state, c.worker.task)
              \/ /\ c.state = "WR_WAIT" /\ ~hasDepends(Requires[n], depends)
                 /\ \/ Goes(c, d, Append(c.queue, [type |-> "RES_DEPLOY_DONE"]), "WR_DEPLOY",
                            "none")
                    \/ Goes(c, d, Append(c.queue, [type |-> "RES_ERROR"]), "WR_DEPLOY", "none")
                    \/ Goes(c, d, c.queue, "WR_DEPLOY", "deploy")
<1> DEFINE told == [c EXCEPT !.hasCancelAction = FALSE]
           waits == IF c.state = "WR_IDLE" THEN Client(n)!setDomainState(told, "WR_WAIT") ELSE told
           deploys == Client(n)!setDomainState([waits EXCEPT !.error = FALSE], "WR_DEPLOY")
           entered == Client(n)!setDomainState([told EXCEPT !.error = FALSE], "WR_DEPLOY")
<1>1. /\ Fit(n, told) /\ Goes(c, told, c.queue, c.state, c.worker.task)
      /\ Fit(n, entered) /\ Goes(c, entered, c.queue, "WR_DEPLOY", c.worker.task)
  BY ToldGoes DEF Client!ClientState
<1>2. \/ d = told
      \/ /\ c.state = "WR_WAIT" /\ ~hasDepends(Requires[n], depends)
         /\ \E e \in Client(n)!stopThread(entered) :
              \/ d = Client(n)!postResult(e, "RES_DEPLOY_DONE")
              \/ d = Client(n)!postResult(e, "RES_ERROR")
              \/ d = Client(n)!start(e, "deploy")
  BY DEF Client!OnDeploy, Client!hasDepends, hasDepends
<1> HIDE DEF told, entered
<1>3. Fit(n, d)
  BY OnDeployOnto DEF Onto
<1>4. ASSUME c.state = "WR_WAIT", NEW e \in Client(n)!stopThread(entered)
      PROVE  e = entered /\ e.queue = c.queue /\ e.state = "WR_DEPLOY" /\ e.worker.task = "none"
             /\ e \in Client(n)!ClientHelper
  BY <1>1, <1>4, stopThreadFree DEF Goes, Reaches, Fit
<1>5. ASSUME c.state = "WR_WAIT", NEW e \in Client(n)!stopThread(entered)
      PROVE  /\ Goes(c, Client(n)!postResult(e, "RES_DEPLOY_DONE"),
                     Append(c.queue, [type |-> "RES_DEPLOY_DONE"]), "WR_DEPLOY", "none")
             /\ Goes(c, Client(n)!postResult(e, "RES_ERROR"),
                     Append(c.queue, [type |-> "RES_ERROR"]), "WR_DEPLOY", "none")
             /\ Goes(c, Client(n)!start(e, "deploy"), c.queue, "WR_DEPLOY", "deploy")
  <2>1. /\ Goes(e, Client(n)!postResult(e, "RES_DEPLOY_DONE"),
                Append(e.queue, [type |-> "RES_DEPLOY_DONE"]), e.state, e.worker.task)
        /\ Goes(e, Client(n)!postResult(e, "RES_ERROR"),
                Append(e.queue, [type |-> "RES_ERROR"]), e.state, e.worker.task)
        /\ Goes(e, Client(n)!start(e, "deploy"), e.queue, e.state, "deploy")
    BY <1>4, <1>5, postGoes, startGoes
  <2>2. Goes(c, e, c.queue, "WR_DEPLOY", c.worker.task)
    BY <1>1, <1>4, <1>5
  <2>3. e.queue = c.queue /\ e.state = "WR_DEPLOY" /\ e.worker.task = "none"
    BY <1>4, <1>5
  <2> QED
    BY <2>1, <2>2, <2>3, GoesGoes
<1> QED
  BY <1>1, <1>2, <1>3, <1>5

\* case RES_ERROR, whatever the thread is at.
LEMMA OnErrorWent ==
    ASSUME NEW n, NEW c, Fit(n, c), c.sent = <<>>, NEW d \in Client(n)!OnError(c)
    PROVE  Went(c, d, c.queue, "WR_ERROR", c.worker.task)
<1> DEFINE e == Client(n)!setDomainState(c, "WR_ERROR")
           f == [e EXCEPT !.error = TRUE]
<1>1. d = Client(n)!sendDomainMessage(f)
  BY DEF Client!OnError
<1>2. Goes(c, e, c.queue, "WR_ERROR", c.worker.task) /\ Fit(n, e)
  BY setDomainStateGoes, EntersCarries DEF Fit, Client!ClientState
<1> HIDE DEF e
<1>3. f \in Client(n)!ClientHelper /\ Goes(e, f, e.queue, e.state, e.worker.task)
  BY <1>2 DEF Fit, Client!ClientHelper, Goes, Reaches
<1> HIDE DEF f
<1>4. f \in Client(n)!ClientHelper /\ Goes(c, f, c.queue, "WR_ERROR", c.worker.task)
  BY <1>2, <1>3 DEF Goes, Reaches
<1>5. Went(f, d, f.queue, f.state, f.worker.task)
  BY <1>1, <1>4, sendWent DEF Goes
<1> QED
  BY <1>4, <1>5 DEF Went, Goes, Reaches

\* cases RES_DOWNLOAD and RES_PATCH.
LEMMA OnVerifiableWent ==
    ASSUME NEW n, NEW c, Fit(n, c), c.package # NoId, c.worker.task = "none", c.sent = <<>>,
           NEW d \in Client(n)!OnVerifiable(c)
    PROVE  Went(c, d, c.queue, "WR_VERIFY", "verify")
<1> DEFINE e == Client(n)!setDomainState(c, "WR_VERIFY")
<1>1. PICK f \in Client(n)!stopThread(e) :
        d = Client(n)!sendDomainMessage(Client(n)!start(f, "verify"))
  BY DEF Client!OnVerifiable
<1>2. Fit(n, e) /\ Goes(c, e, c.queue, "WR_VERIFY", "none") /\ e.package = c.package
  BY EntersCarries, setDomainStateGoes DEF Client!ClientState, Fit, Goes, Reaches
<1> HIDE DEF e
<1>3. f = e
  BY <1>2, stopThreadFree DEF Goes, Reaches
<1> DEFINE g == Client(n)!start(e, "verify")
<1>4. Goes(e, g, e.queue, e.state, "verify") /\ g \in Client(n)!ClientHelper
  BY <1>2, startGoes, startOnto DEF Fit, Onto
<1>5. d = Client(n)!sendDomainMessage(g)
  BY <1>1, <1>3
<1> HIDE DEF g
<1>6. Goes(c, g, c.queue, "WR_VERIFY", "verify")
  BY <1>2, <1>4 DEF Goes, Reaches
<1>7. Went(g, d, g.queue, g.state, g.worker.task)
  BY <1>4, <1>5, <1>6, sendWent DEF Goes
<1> QED
  BY <1>6, <1>7 DEF Went, Goes, Reaches

\* case RES_VERIFY.
LEMMA OnVerifyWent ==
    ASSUME NEW n, NEW c, Fit(n, c), c.package # NoId, c.worker.task = "none", c.sent = <<>>,
           NEW d \in Client(n)!OnVerify(c)
    PROVE  \/ Went(c, d, c.queue, "WR_WAIT", "none")
           \/ Went(c, d, c.queue, "WR_PATCH", "patch")
<1> DEFINE kept == [c EXCEPT !.patchNewFiles = FALSE]
           waits == Client(n)!setDomainState(kept, "WR_WAIT")
           patches == Client(n)!setDomainState(c, "WR_PATCH")
<1>1. \/ d = Client(n)!sendDomainMessage(waits)
      \/ \E e \in Client(n)!stopThread(patches) :
           d = Client(n)!sendDomainMessage([Client(n)!start(e, "patch") EXCEPT
                                              !.patchNewFiles = FALSE])
  BY DEF Client!OnVerify
<1>2. Fit(n, kept) /\ Goes(c, kept, c.queue, c.state, c.worker.task)
  <2>1. Fit(n, kept)
    BY FlagsOnto DEF Onto
  <2>2. Goes(c, kept, c.queue, c.state, c.worker.task)
    BY DEF Fit, Client!ClientHelper, Goes, Reaches
  <2> QED
    BY <2>1, <2>2
<1> HIDE DEF kept
<1>3. Fit(n, waits) /\ Goes(kept, waits, kept.queue, "WR_WAIT", kept.worker.task)
  BY <1>2, EntersCarries, setDomainStateGoes DEF Client!ClientState, Fit
<1>4. Fit(n, patches) /\ Goes(c, patches, c.queue, "WR_PATCH", c.worker.task)
  BY EntersCarries, setDomainStateGoes DEF Client!ClientState, Fit
<1> HIDE DEF waits, patches
<1>5. Goes(c, waits, c.queue, "WR_WAIT", "none")
  BY <1>2, <1>3 DEF Goes, Reaches
<1>6. CASE d = Client(n)!sendDomainMessage(waits)
  <2>1. Went(waits, d, waits.queue, waits.state, waits.worker.task)
    BY <1>3, <1>5, <1>6, sendWent DEF Goes, Fit
  <2> QED
    BY <1>5, <2>1 DEF Went, Goes, Reaches
<1>7. ASSUME NEW e \in Client(n)!stopThread(patches),
             d = Client(n)!sendDomainMessage([Client(n)!start(e, "patch") EXCEPT
                                                !.patchNewFiles = FALSE])
      PROVE  Went(c, d, c.queue, "WR_PATCH", "patch")
  <2> DEFINE f == Client(n)!start(patches, "patch")
             g == [f EXCEPT !.patchNewFiles = FALSE]
  <2>1. patches.worker.task = "none" /\ patches.package # NoId
    BY <1>4 DEF Goes, Reaches
  <2>2. e = patches
    BY <1>7, <2>1, stopThreadFree
  <2>3. d = Client(n)!sendDomainMessage(g)
    BY <1>7, <2>2
  <2>4. Goes(patches, f, patches.queue, patches.state, "patch") /\ Fit(n, f)
    BY <1>4, <2>1, startGoes, startOnto DEF Fit, Onto
  <2> HIDE DEF f
  <2>5. Goes(f, g, f.queue, f.state, f.worker.task) /\ g \in Client(n)!ClientHelper
    BY <2>4 DEF Fit, Client!ClientHelper, Goes, Reaches
  <2> HIDE DEF g
  <2>6. Goes(c, g, c.queue, "WR_PATCH", "patch")
    BY <1>4, <2>4, <2>5 DEF Goes, Reaches
  <2>7. Went(g, d, g.queue, g.state, g.worker.task)
    BY <2>3, <2>5, <2>6, sendWent DEF Goes
  <2> QED
    BY <2>6, <2>7 DEF Went, Goes, Reaches
<1> QED
  BY <1>1, <1>6, <1>7

\* case RES_DEPLOY_DONE: the version is that of the package.
LEMMA OnDeployDoneWent ==
    ASSUME NEW n, NEW c, Fit(n, c), c.package # NoId, c.sent = <<>>,
           NEW d \in Client(n)!OnDeployDone(c)
    PROVE  /\ d.queue = c.queue /\ d.loose = c.loose /\ d.worker = c.worker
           /\ d.state = "WR_IDLE" /\ d.hasCancelAction = c.hasCancelAction
           /\ Client(n)!VersionEqual(d) /\ Says(d)
<1> DEFINE target == Target[c.package]
           installs == [c EXCEPT !.version = target]
           f == Client(n)!setDomainState(installs, "WR_IDLE")
<1>1. d = Client(n)!sendDomainMessage(f)
  BY DEF Client!OnDeployDone
<1>2. target \in Client(n)!Versions
  BY HeldIds DEF Fit, Provided, Client!Versions
<1> HIDE DEF target
<1>3. /\ installs \in Client(n)!ClientHelper /\ installs.version = target
      /\ installs.package = c.package /\ Matches(c, installs)
      /\ installs.hasCancelAction = c.hasCancelAction
  BY <1>2 DEF Fit, Client!ClientHelper, Matches
<1> HIDE DEF installs
<1>4. f \in Client(n)!ClientHelper /\ Matches(installs, f) /\ f.state = "WR_IDLE"
      /\ f.version = target /\ f.package = c.package /\ f.hasCancelAction = c.hasCancelAction
  <2>1. f \in Client(n)!ClientHelper
    <3>1. "WR_IDLE" \in Client(n)!ClientState
      BY DEF Client!ClientState
    <3> QED
      BY <1>3, <3>1 DEF Client!setDomainState, Client!ClientHelper
  <2>2. Matches(installs, f) /\ f.state = "WR_IDLE"
    BY <1>3, setDomainStateMatches
  <2>3. f.version = target /\ f.package = c.package /\ f.hasCancelAction = c.hasCancelAction
    BY <1>3 DEF Client!setDomainState, Client!ClientHelper
  <2> QED
    BY <2>1, <2>2, <2>3
<1> HIDE DEF f
<1>5. f.sent = <<>>
  BY <1>3, <1>4 DEF Matches
<1>6. /\ Bears(f, d) /\ d.state = f.state /\ d.hasCancelAction = f.hasCancelAction
      /\ d.version = f.version /\ d.package = f.package
      /\ \A i \in DOMAIN d.sent : d.sent[i].state = d.state
  BY <1>1, <1>4, <1>5, sendEffect
<1> QED
  BY <1>3, <1>4, <1>6 DEF Bears, Matches, Says, Client!VersionEqual, target

-----------------------------------------------------------------------------
(* A controller before the deployment: one thing to do at most.            *)

\* What is still to come of a preparation: the order, or a result.
Token(event) == event.type # "REQ_CONTROL" \/ event.control = "CTL_DOWNLOAD"
Tokens(queue) == {i \in DOMAIN queue : Token(queue[i])}

\* Nothing is.
Free(c) == Tokens(c.queue) = {} /\ c.worker.task = "none" /\ c.loose = {}

\* The events of a preparation, and of a deployment.
Preparatory(event) ==
    \/ event.type \in {"RES_ERROR", "RES_DOWNLOAD", "RES_VERIFY", "RES_PATCH"}
    \/ event.type = "REQ_CONTROL" /\ event.control \in {"CTL_RESET", "CTL_DOWNLOAD"}
Executive(event) ==
    \/ event.type \in {"RES_ERROR", "RES_DEPLOY_DONE"}
    \/ event.type = "REQ_CONTROL" /\ event.control \in {"CTL_RESET", "CTL_DEPLOY"}

\* A controller before the order: it has one token at most, and none while it waits.
Ahead(c) ==
    /\ c.loose = {} /\ c.worker.task # "deploy" /\ ~c.hasCancelAction
    /\ Single(Tokens(c.queue)) /\ (c.worker.task # "none" => Tokens(c.queue) = {})
    /\ \A i \in DOMAIN c.queue : Preparatory(c.queue[i])
    /\ c.state = "WR_WAIT" => Free(c)

\* Its steps: who waits has nothing to do, and who has nothing to do does not start.
AheadStep(c, d) ==
    /\ Ahead(d) /\ Says(d)
    /\ c.state = "WR_WAIT" => d.state = "WR_WAIT"
    /\ Free(c) /\ c.state # "WR_WAIT" => Free(d) /\ d.state # "WR_WAIT"

\* The queue without its head.
LEMMA TokenTaken ==
    ASSUME NEW S, NEW queue \in Seq(S), queue # <<>>
    PROVE  /\ Tokens(queue) = {} => Tokens(Tail(queue)) = {} /\ ~Token(Head(queue))
           /\ Single(Tokens(queue)) => Single(Tokens(Tail(queue)))
           /\ Single(Tokens(queue)) /\ Token(Head(queue)) => Tokens(Tail(queue)) = {}
           /\ \A i \in DOMAIN Tail(queue) :
                i + 1 \in DOMAIN queue /\ Tail(queue)[i] = queue[i + 1]
           /\ 1 \in DOMAIN queue /\ Head(queue) = queue[1]
<1> DEFINE rest == Tail(queue)
<1>1. /\ \A i \in DOMAIN rest : i \in Nat \ {0} /\ i + 1 \in DOMAIN queue /\ rest[i] = queue[i + 1]
      /\ 1 \in DOMAIN queue /\ Head(queue) = queue[1]
  OBVIOUS
<1> HIDE DEF rest
<1>2. \A i \in Tokens(rest) : i \in Nat \ {0} /\ i + 1 \in Tokens(queue)
  BY <1>1 DEF Tokens
<1>3. Token(Head(queue)) <=> 1 \in Tokens(queue)
  BY <1>1 DEF Tokens
<1>4. Single(Tokens(queue)) => Single(Tokens(rest))
  BY <1>2 DEF Single
<1>5. Single(Tokens(queue)) /\ 1 \in Tokens(queue) => Tokens(rest) = {}
  BY <1>2 DEF Single
<1> QED
  BY <1>1, <1>2, <1>3, <1>4, <1>5 DEF rest

\* The queue with one event more.
LEMMA TokenAppended ==
    ASSUME NEW S, NEW queue \in Seq(S), NEW event
    PROVE  /\ ~Token(event) => Tokens(Append(queue, event)) = Tokens(queue)
           /\ Tokens(queue) = {} => Single(Tokens(Append(queue, event)))
           /\ \A i \in DOMAIN Append(queue, event) :
                \/ i \in DOMAIN queue /\ Append(queue, event)[i] = queue[i]
                \/ Append(queue, event)[i] = event
<1> DEFINE more == Append(queue, event)
           k == Len(queue) + 1
<1>1. /\ \A i \in DOMAIN queue : i \in DOMAIN more /\ more[i] = queue[i]
      /\ \A i \in DOMAIN more : \/ i \in DOMAIN queue /\ more[i] = queue[i]
                                \/ i = k /\ more[i] = event
  OBVIOUS
<1> HIDE DEF more, k
<1>2. ~Token(event) => Tokens(more) = Tokens(queue)
  BY <1>1 DEF Tokens
<1>3. Tokens(queue) = {} => Single(Tokens(more))
  BY <1>1 DEF Tokens, Single
<1> QED
  BY <1>1, <1>2, <1>3 DEF more

\* Calls that leave alone what it has to do.
LEMMA WentAhead ==
    ASSUME NEW c, NEW d, Ahead(c), Went(c, d, c.queue, c.state, c.worker.task)
    PROVE  AheadStep(c, d)
  BY DEF AheadStep, Ahead, Went, Reaches, Free

\* What it may become after its first event was taken.
LEMMA TookAhead ==
    ASSUME NEW n, NEW c, Fit(n, c), c.queue # <<>>, Ahead(c), NEW d, NEW state, NEW task,
           Went(c, d, Tail(c.queue), state, task),
           \/ state = c.state /\ task = c.worker.task
           \/ Token(Head(c.queue)) /\ task # "deploy" /\ (state = "WR_WAIT" => task = "none")
           \/ task = c.worker.task /\ c.state = "WR_OFFLINE" /\ state = "WR_IDLE"
    PROVE  AheadStep(c, d)
<1>1. c.queue \in Seq(Client(n)!ClientEvent)
  BY DEF Fit, Client!ClientHelper
<1> DEFINE rest == Tail(c.queue)
<1>2. /\ Tokens(c.queue) = {} => Tokens(rest) = {} /\ ~Token(Head(c.queue))
      /\ Single(Tokens(c.queue)) => Single(Tokens(rest))
      /\ Single(Tokens(c.queue)) /\ Token(Head(c.queue)) => Tokens(rest) = {}
      /\ \A i \in DOMAIN rest : i + 1 \in DOMAIN c.queue /\ rest[i] = c.queue[i + 1]
  BY <1>1, TokenTaken
<1>3. d.queue = rest /\ d.loose = c.loose /\ d.worker.task = task /\ d.state = state
      /\ (d.hasCancelAction => c.hasCancelAction) /\ Says(d)
  BY DEF Went, Reaches
<1> HIDE DEF rest
<1>4. \A i \in DOMAIN d.queue : Preparatory(d.queue[i])
  BY <1>2, <1>3 DEF Ahead
<1>5. Single(Tokens(d.queue)) /\ (d.worker.task # "none" => Tokens(d.queue) = {})
  BY <1>2, <1>3 DEF Ahead
<1>6. d.state = "WR_WAIT" => Free(d)
  BY <1>2, <1>3 DEF Ahead, Free
<1>7. /\ c.state = "WR_WAIT" => d.state = "WR_WAIT"
      /\ Free(c) /\ c.state # "WR_WAIT" => Free(d) /\ d.state # "WR_WAIT"
  BY <1>2, <1>3 DEF Ahead, Free
<1> QED
  BY <1>3, <1>4, <1>5, <1>6, <1>7 DEF AheadStep, Ahead

\* The engine's thread.
LEMMA HandledAhead ==
    ASSUME NEW n, NEW c, Fit(n, c), Single(Held), c.sent = <<>>, Ahead(c),
           NEW d \in Client(n)!Handled(c)
    PROVE  AheadStep(c, d)
<1> DEFINE event == Head(c.queue)
           e == [Client(n)!Quiet(c) EXCEPT !.queue = Tail(c.queue)]
<1>1. c.queue # <<>> /\ d \in Client(n)!Handle(e, event)
  BY HandledFrom
<1>2. /\ Fit(n, e)
      /\ event.type = "REQ_CONTROL" => event \in Order(n)
      /\ event.type # "REQ_CONTROL" => e.package # NoId
  BY <1>1, PoppedFit
<1>3. Goes(c, e, Tail(c.queue), c.state, c.worker.task)
  BY <1>1, PoppedGoes
<1>4. 1 \in DOMAIN c.queue /\ event = c.queue[1]
  BY <1>1 DEF Fit, Client!ClientHelper
<1>5. Preparatory(event) /\ (Token(event) => c.worker.task = "none")
  <2>1. Token(event) => 1 \in Tokens(c.queue)
    BY <1>4 DEF Tokens
  <2> QED
    BY <1>4, <2>1 DEF Ahead
<1> DEFINE rest == Tail(c.queue)
<1> HIDE DEF e, event, rest
<1>6. e.queue = rest /\ e.state = c.state /\ e.worker.task = c.worker.task /\ e.sent = <<>>
  BY <1>3 DEF Goes, Reaches, rest
<1>7. ASSUME NEW state, NEW task, Went(e, d, rest, state, task)
      PROVE  Went(c, d, Tail(c.queue), state, task)
  BY <1>3, <1>7, GoesWent DEF rest
<1>8. CASE event.type = "REQ_CONTROL"
  <2> DEFINE taken == [e EXCEPT !.upgrade = event.upgrade,
                                !.package = IF event.holds THEN event.upgrade ELSE e.package]
  <2>1. event \in Order(n) /\ d \in Client(n)!OnControl(e, event)
    BY <1>1, <1>2, <1>8 DEF Client!Handle
  <2>2. PICK f \in Client(n)!Obeyed(taken, event) : d = Client(n)!sendDomainMessage(f)
    BY <2>1 DEF Client!OnControl
  <2>3. Fit(n, taken) /\ Goes(e, taken, e.queue, e.state, e.worker.task)
    BY <1>2, <2>1, TakenGoes
  <2> HIDE DEF taken
  <2>4. taken.queue = rest /\ taken.state = c.state /\ taken.worker.task = c.worker.task
        /\ taken.sent = <<>>
    BY <1>6, <2>3 DEF Goes, Reaches
  <2>5. ASSUME NEW state, NEW task, Goes(taken, f, rest, state, task), Fit(n, f)
        PROVE  Went(c, d, Tail(c.queue), state, task)
    <3>1. f.sent = <<>> /\ f.queue = rest /\ f.state = state /\ f.worker.task = task
      BY <2>4, <2>5 DEF Goes, Reaches
    <3>2. Went(f, d, rest, state, task)
      BY <2>2, <2>5, <3>1, sendWent DEF Fit
    <3>3. Went(taken, d, rest, state, task)
      BY <2>5, <3>2, GoesWent
    <3>4. Went(e, d, rest, state, task)
      BY <2>3, <3>3, GoesWent
    <3> QED
      BY <1>7, <3>4
  <2>6. CASE event.control = "CTL_RESET"
    <3>1. f \in Client(n)!OnReset(taken)
      BY <2>2, <2>6 DEF Client!Obeyed
    <3>2. /\ Fit(n, f)
          /\ \/ Goes(taken, f, rest, c.state, c.worker.task)
             \/ c.state = "WR_OFFLINE" /\ Goes(taken, f, rest, "WR_IDLE", c.worker.task)
      BY <2>3, <2>4, <3>1, OnResetGoes
    <3>3. \/ Went(c, d, Tail(c.queue), c.state, c.worker.task)
          \/ c.state = "WR_OFFLINE" /\ Went(c, d, Tail(c.queue), "WR_IDLE", c.worker.task)
      BY <2>5, <3>2
    <3> QED
      BY <1>1, <3>3, TookAhead
  <2>7. CASE event.control = "CTL_DOWNLOAD"
    <3>1. f \in Client(n)!OnDownload(taken) /\ Token(event) /\ c.worker.task = "none"
      BY <1>5, <2>2, <2>7 DEF Client!Obeyed, Token
    <3>2. /\ Fit(n, f)
          /\ \/ Goes(taken, f, rest, c.state, "none")
             \/ Goes(taken, f, rest, "WR_DOWNLOAD", "download")
      BY <2>3, <2>4, <3>1, OnDownloadGoes
    <3>3. \/ Went(c, d, Tail(c.queue), c.state, c.worker.task)
          \/ Went(c, d, Tail(c.queue), "WR_DOWNLOAD", "download")
      BY <2>5, <3>1, <3>2
    <3> QED
      BY <1>1, <3>1, <3>3, TookAhead DEF event
  <2> QED
    BY <1>5, <1>8, <2>6, <2>7 DEF Preparatory
<1>9. CASE event.type \in {"RES_ERROR", "RES_DOWNLOAD", "RES_VERIFY", "RES_PATCH"}
  <2>1. Token(event) /\ c.worker.task = "none" /\ e.worker.task = "none" /\ e.package # NoId
    BY <1>2, <1>5, <1>6, <1>9 DEF Token
  <2>2. \/ Went(e, d, rest, "WR_ERROR", "none")
        \/ Went(e, d, rest, "WR_VERIFY", "verify")
        \/ Went(e, d, rest, "WR_WAIT", "none")
        \/ Went(e, d, rest, "WR_PATCH", "patch")
    <3>1. CASE event.type = "RES_ERROR"
      <4>1. d \in Client(n)!OnError(e)
        BY <1>1, <3>1 DEF Client!Handle
      <4> QED
        BY <1>2, <1>6, <2>1, <4>1, OnErrorWent
    <3>2. CASE event.type \in {"RES_DOWNLOAD", "RES_PATCH"}
      <4>1. d \in Client(n)!OnVerifiable(e)
        BY <1>1, <3>2 DEF Client!Handle
      <4> QED
        BY <1>2, <1>6, <2>1, <4>1, OnVerifiableWent
    <3>3. CASE event.type = "RES_VERIFY"
      <4>1. d \in Client(n)!OnVerify(e)
        BY <1>1, <3>3 DEF Client!Handle
      <4> QED
        BY <1>2, <1>6, <2>1, <4>1, OnVerifyWent
    <3> QED
      BY <1>9, <3>1, <3>2, <3>3
  <2>3. \/ Went(c, d, Tail(c.queue), "WR_ERROR", "none")
        \/ Went(c, d, Tail(c.queue), "WR_VERIFY", "verify")
        \/ Went(c, d, Tail(c.queue), "WR_WAIT", "none")
        \/ Went(c, d, Tail(c.queue), "WR_PATCH", "patch")
    BY <1>7, <2>2
  <2>4. Token(Head(c.queue))
    BY <2>1 DEF event
  <2>5. ASSUME NEW state, NEW task, Went(c, d, Tail(c.queue), state, task), task # "deploy",
               state = "WR_WAIT" => task = "none"
        PROVE  AheadStep(c, d)
    BY <1>1, <2>4, <2>5, TookAhead
  <2> QED
    BY <2>3, <2>5
<1> QED
  BY <1>5, <1>8, <1>9 DEF Preparatory

\* The timer.
LEMMA BeatenWent ==
    ASSUME NEW n, NEW c, Fit(n, c), c.sent = <<>>, NEW d \in Client(n)!Beaten(c)
    PROVE  Went(c, d, c.queue, c.state, c.worker.task)
<1> DEFINE q == Client(n)!Quiet(c)
<1>1. Onto(n, c, q) /\ d = Client(n)!sendDomainMessage(q)
  BY QuietOnto DEF Client!Beaten
<1>2. Goes(c, q, c.queue, c.state, c.worker.task)
  BY DEF Client!Quiet, Fit, Client!ClientHelper, Goes, Reaches
<1> HIDE DEF q
<1>3. Went(q, d, q.queue, q.state, q.worker.task)
  BY <1>1, <1>2, sendWent DEF Onto, Fit, Goes
<1> QED
  BY <1>2, <1>3 DEF Went, Goes, Reaches

\* The result of a task that nobody has asked to cancel.
ResultOf(task) ==
    {"RES_ERROR"} \cup (IF task = "deploy" THEN {"RES_DEPLOY_DONE"}
                        ELSE {"RES_DOWNLOAD", "RES_VERIFY", "RES_PATCH"})

\* The queue with such a result, or as it was.
Concluded(queue, after, task) ==
    \/ after = queue
    \/ \E type \in ResultOf(task) : after = Append(queue, [type |-> type])

\* Each way a task may end.
LEMMA OutcomeResult ==
    ASSUME NEW n, NEW c, Fit(n, c), ~c.hasCancelAction,
           NEW e \in Client(n)!Success(c) \cup Client(n)!Failure(c)
                     \cup Client(n)!Stopped(c) \cup Client(n)!Cancelled(c)
    PROVE  /\ c.worker.task # "none" /\ e.hasCancelAction = c.hasCancelAction
           /\ Concluded(c.queue, e.queue, c.worker.task)
<1> DEFINE got == [c EXCEPT !.files = c.files \cup {<<c.worker.upgrade, c.worker.package>>}]
           patched == [c EXCEPT !.patchNewFiles = TRUE]
           installed == [c EXCEPT !.installed = Target[c.worker.package]]
           types == {"RES_ERROR", "RES_DOWNLOAD", "RES_VERIFY", "RES_PATCH", "RES_DEPLOY_DONE"}
<1>1. /\ c.worker.task # "none"
      /\ \/ e = c
         \/ e = Client(n)!postResult(got, "RES_DOWNLOAD") /\ c.worker.task = "download"
         \/ e = Client(n)!postResult(c, "RES_VERIFY") /\ c.worker.task = "verify"
         \/ e = Client(n)!postResult(patched, "RES_PATCH") /\ c.worker.task = "patch"
         \/ e = Client(n)!postDeployDone(installed, TRUE) /\ c.worker.task = "deploy"
         \/ e = Client(n)!postDeployDone(c, FALSE)
         \/ e = Client(n)!postResult(c, "RES_ERROR")
  BY DEF Client!Success, Client!Failure, Client!Stopped, Client!Cancelled
<1>2. \A b \in {c, got, patched, installed} :
        b.queue = c.queue /\ b.hasCancelAction = c.hasCancelAction /\ DOMAIN b = DOMAIN c
  BY DEF Fit, Client!ClientHelper
<1>0. DOMAIN c = {"state", "last", "error", "version", "package", "upgrade", "hasCancelAction",
                  "needDiscovery", "patchNewFiles", "online", "heard", "worker", "loose", "queue",
                  "files", "installed", "sent"}
  BY DEF Fit, Client!ClientHelper
<1> HIDE DEF got, patched, installed
<1>3. \A b \in {c, got, patched, installed} : \A type \in types :
        /\ Client(n)!postResult(b, type).queue = Append(c.queue, [type |-> type])
        /\ Client(n)!postResult(b, type).hasCancelAction = c.hasCancelAction
  BY <1>0, <1>2 DEF Client!postResult, Client!postEvent
<1>4. /\ \A b \in {c, installed} : Client(n)!postDeployDone(b, TRUE)
           \in {b, Client(n)!postResult(b, "RES_DEPLOY_DONE")}
      /\ Client(n)!postDeployDone(c, FALSE) \in {c, Client(n)!postResult(c, "RES_ERROR")}
  BY DEF Client!postDeployDone
<1>5. \/ e \in {c, installed}
      \/ \E b \in {c, got, patched, installed} : \E type \in ResultOf(c.worker.task) :
           e = Client(n)!postResult(b, type)
  BY <1>1, <1>4 DEF ResultOf
<1>6. ResultOf(c.worker.task) \subseteq types
  BY DEF ResultOf
<1> QED
  BY <1>1, <1>2, <1>3, <1>5, <1>6 DEF Concluded

\* The task of the thread ends.
LEMMA EndedResult ==
    ASSUME NEW n, NEW c, Fit(n, c), ~c.hasCancelAction, NEW fails, NEW d \in Client(n)!Ended(c, fails)
    PROVE  /\ c.worker.task # "none" /\ ~d.hasCancelAction
           /\ d.loose = c.loose /\ d.state = c.state /\ d.worker.task = "none" /\ d.sent = <<>>
           /\ d.package = c.package /\ d.version = c.version
           /\ Concluded(c.queue, d.queue, c.worker.task)
<1>1. PICK e \in Client(n)!Success(c) \cup Client(n)!Failure(c) \cup Client(n)!Stopped(c)
                 \cup Client(n)!Cancelled(c) :
        d = Client(n)!Quiet(Client(n)!Rest(e))
  BY DEF Client!Ended
<1>2. /\ c.worker.task # "none" /\ ~e.hasCancelAction
      /\ Concluded(c.queue, e.queue, c.worker.task)
  BY <1>1, OutcomeResult
<1>3. Onto(n, c, e) /\ Outcome(c, e)
  BY <1>1, <1>2, OutcomeOf, StoppedOnto, SuccessOnto, CancelledOnto, FailureOnto
<1>4. /\ d.queue = e.queue /\ d.loose = e.loose /\ d.state = e.state /\ d.worker.task = "none"
      /\ d.sent = <<>> /\ d.package = e.package /\ d.version = e.version
      /\ d.hasCancelAction = e.hasCancelAction
  BY <1>1, <1>3 DEF Onto, Fit, Client!Quiet, Client!Rest, Client!NoWorker, Client!ClientHelper
<1> QED
  BY <1>2, <1>3, <1>4 DEF Onto, Outcome

\* A task of the preparation ends and leaves its result, the next token, or an error.
LEMMA EndedAhead ==
    ASSUME NEW n, NEW c, Fit(n, c), Ahead(c), NEW fails, NEW d \in Client(n)!Ended(c, fails)
    PROVE  AheadStep(c, d)
<1>1. /\ c.worker.task # "none" /\ ~d.hasCancelAction
      /\ d.loose = c.loose /\ d.state = c.state /\ d.worker.task = "none" /\ d.sent = <<>>
      /\ Concluded(c.queue, d.queue, c.worker.task)
  <2>1. ~c.hasCancelAction
    BY DEF Ahead
  <2> QED
    BY <2>1, EndedResult
<1>2. c.queue \in Seq(Client(n)!ClientEvent)
  BY DEF Fit, Client!ClientHelper
<1>3. Tokens(c.queue) = {} /\ c.state # "WR_WAIT"
  BY <1>1 DEF Ahead, Free
<1>4. Single(Tokens(d.queue)) /\ \A i \in DOMAIN d.queue : Preparatory(d.queue[i])
  <2>1. CASE d.queue = c.queue
    BY <2>1 DEF Ahead
  <2>2. ASSUME NEW type \in ResultOf(c.worker.task), d.queue = Append(c.queue, [type |-> type])
        PROVE  Single(Tokens(d.queue)) /\ \A i \in DOMAIN d.queue : Preparatory(d.queue[i])
    <3> DEFINE event == [type |-> type]
    <3>1. Preparatory(event)
      BY <2>2 DEF ResultOf, Ahead, Preparatory
    <3> HIDE DEF event
    <3>2. Single(Tokens(Append(c.queue, event)))
          /\ \A i \in DOMAIN Append(c.queue, event) :
                \/ i \in DOMAIN c.queue /\ Append(c.queue, event)[i] = c.queue[i]
                \/ Append(c.queue, event)[i] = event
      BY <1>2, <1>3, TokenAppended
    <3>3. d.queue = Append(c.queue, event)
      BY <2>2 DEF event
    <3> QED
      BY <3>1, <3>2, <3>3 DEF Ahead
  <2> QED
    BY <1>1, <2>1, <2>2 DEF Concluded
<1>5. Ahead(d) /\ Says(d)
  BY <1>1, <1>3, <1>4 DEF Ahead, Says
<1> QED
  BY <1>1, <1>3, <1>5 DEF AheadStep, Free

\* The other steps of such a controller: it is not being cancelled, and lets go of no task.
LEMMA IdleAhead ==
    ASSUME NEW n, NEW c, Fit(n, c), Ahead(c), NEW fails
    PROVE  Client(n)!Broken(c) = {} /\ Client(n)!LooseEnded(c, fails) = {}
<1>1. Client(n)!Broken(c) = {}
  BY DEF Ahead, Client!Broken
<1>2. ASSUME NEW d \in Client(n)!LooseEnded(c, fails)
      PROVE  FALSE
  BY <1>2, LooseEndedFrom DEF Ahead
<1> QED
  BY <1>1, <1>2

\* A connection changes nothing of this.
LEMMA ConnectedWent ==
    ASSUME NEW n, NEW c, Fit(n, c), c.sent = <<>>
    PROVE  Went(c, [c EXCEPT !.online = TRUE], c.queue, c.state, c.worker.task)
<1> DEFINE d == [c EXCEPT !.online = TRUE]
<1>1. /\ d.queue = c.queue /\ d.worker = c.worker /\ d.loose = c.loose
      /\ d.sent = c.sent /\ d.state = c.state /\ d.version = c.version
      /\ d.package = c.package /\ d.hasCancelAction = c.hasCancelAction
  BY DEF Fit, Client!ClientHelper
<1> HIDE DEF d
<1>2. Went(c, d, c.queue, c.state, c.worker.task)
  BY <1>1 DEF Went, Reaches, Says
<1> QED
  BY <1>2 DEF d

-----------------------------------------------------------------------------
(* A controller from the order on: it does not go back.                    *)

\* The states of who has deployed, of who has begun to, and of who has the order.
Ending == {"WR_IDLE", "WR_ERROR"}
Executing == Ending \cup {"WR_DEPLOY"}
Ordered == Executing \cup {"WR_WAIT"}

\* A controller with nothing but the order to come: idle, it runs the upgrade.
Afoot(n, c) ==
    /\ ~c.hasCancelAction /\ c.state \in Ordered
    /\ \A i \in DOMAIN c.queue : Executive(c.queue[i])
    /\ c.state = "WR_WAIT" => Free(c)
    /\ c.state = "WR_IDLE" => Client(n)!VersionEqual(c)

\* Its steps: only who has found nothing to wait for ceases to wait.
AfootStep(n, c, d) ==
    /\ Afoot(n, d) /\ Says(d)
    /\ c.state \in Ending => d.state \in Ending
    /\ c.state \in Executing => d.state \in Executing
    /\ c.state = "WR_WAIT" /\ (\A x : ~Releases(n, c, x)) => d.state = "WR_WAIT"

\* Calls that leave it where it is, or take it on.
LEMMA WentAfoot ==
    ASSUME NEW n, NEW c, Afoot(n, c), NEW d, NEW queue, NEW state, NEW task,
           Went(c, d, queue, state, task), \A i \in DOMAIN queue : Executive(queue[i]),
           \/ state = c.state /\ (state = "WR_WAIT" => task = "none" /\ Tokens(queue) = {})
           \/ state = "WR_ERROR" /\ c.state # "WR_WAIT"
           \/ state = "WR_DEPLOY" /\ c.state = "WR_WAIT" /\ \E x : Releases(n, c, x)
    PROVE  AfootStep(n, c, d)
<1>1. /\ d.queue = queue /\ d.loose = c.loose /\ d.worker.task = task /\ d.state = state
      /\ d.version = c.version /\ (c.package # NoId => d.package = c.package)
      /\ ~d.hasCancelAction /\ Says(d)
  BY DEF Went, Reaches, Afoot
<1>2. d.state = "WR_WAIT" => Free(d)
  BY <1>1 DEF Afoot, Free
<1>3. d.state = "WR_IDLE" => Client(n)!VersionEqual(d)
  BY <1>1 DEF Afoot, Client!VersionEqual
<1>4. /\ c.state \in Ending => d.state \in Ending
      /\ c.state \in Executing => d.state \in Executing
      /\ c.state = "WR_WAIT" /\ (\A x : ~Releases(n, c, x)) => d.state = "WR_WAIT"
      /\ d.state \in Ordered
  BY <1>1 DEF Ending, Executing, Ordered, Afoot
<1> QED
  BY <1>1, <1>2, <1>3, <1>4 DEF AfootStep, Afoot

\* The engine's thread.
LEMMA HandledAfoot ==
    ASSUME NEW n, NEW c, Fit(n, c), Single(Held), c.sent = <<>>, Afoot(n, c),
           NEW d \in Client(n)!Handled(c)
    PROVE  AfootStep(n, c, d)
<1> DEFINE event == Head(c.queue)
           e == [Client(n)!Quiet(c) EXCEPT !.queue = Tail(c.queue)]
           rest == Tail(c.queue)
<1>1. c.queue # <<>> /\ d \in Client(n)!Handle(e, event)
  BY HandledFrom
<1>2. /\ Fit(n, e)
      /\ event.type = "REQ_CONTROL" => event \in Order(n)
      /\ event.type # "REQ_CONTROL" => e.package # NoId
  BY <1>1, PoppedFit
<1>3. Goes(c, e, Tail(c.queue), c.state, c.worker.task) /\ c.queue \in Seq(Client(n)!ClientEvent)
  BY <1>1, PoppedGoes DEF Fit, Client!ClientHelper
<1>4. /\ \A i \in DOMAIN rest : i + 1 \in DOMAIN c.queue /\ rest[i] = c.queue[i + 1]
      /\ 1 \in DOMAIN c.queue /\ event = c.queue[1]
      /\ Tokens(c.queue) = {} => Tokens(rest) = {} /\ ~Token(event)
      /\ rest \in Seq(Client(n)!ClientEvent)
  BY <1>1, <1>3, TokenTaken
<1> HIDE DEF e, event, rest
<1>5. /\ Executive(event) /\ \A i \in DOMAIN rest : Executive(rest[i])
      /\ c.state = "WR_WAIT" => ~Token(event) /\ Tokens(rest) = {} /\ c.worker.task = "none"
  BY <1>4 DEF Afoot, Free
<1>6. /\ e.queue = rest /\ e.state = c.state /\ e.worker.task = c.worker.task /\ e.sent = <<>>
      /\ e.version = c.version /\ (c.package # NoId => e.package = c.package)
      /\ e.loose = c.loose /\ ~e.hasCancelAction
  BY <1>3 DEF Goes, Reaches, rest, Afoot
<1>7. CASE event.type = "REQ_CONTROL"
  <2> DEFINE taken == [e EXCEPT !.upgrade = event.upgrade,
                                !.package = IF event.holds THEN event.upgrade ELSE e.package]
  <2>1. event \in Order(n) /\ d \in Client(n)!OnControl(e, event)
    BY <1>1, <1>2, <1>7 DEF Client!Handle
  <2>2. PICK f \in Client(n)!Obeyed(taken, event) : d = Client(n)!sendDomainMessage(f)
    BY <2>1 DEF Client!OnControl
  <2>3. Fit(n, taken) /\ Goes(e, taken, e.queue, e.state, e.worker.task)
    BY <1>2, <2>1, TakenGoes
  <2> HIDE DEF taken
  <2>4. /\ taken.queue = rest /\ taken.state = c.state /\ taken.worker.task = c.worker.task
        /\ taken.sent = <<>> /\ taken.version = c.version
        /\ (c.package # NoId => taken.package = c.package)
    BY <1>6, <2>3 DEF Goes, Reaches
  <2>5. ASSUME NEW queue, NEW state, NEW task, Goes(taken, f, queue, state, task), Fit(n, f)
        PROVE  Went(c, d, queue, state, task)
    <3>1. f.sent = <<>> /\ f.queue = queue /\ f.state = state /\ f.worker.task = task
      BY <2>4, <2>5 DEF Goes, Reaches
    <3>2. Went(f, d, queue, state, task)
      BY <2>2, <2>5, <3>1, sendWent DEF Fit
    <3>3. Went(taken, d, queue, state, task)
      BY <2>5, <3>2, GoesWent
    <3>4. Went(e, d, queue, state, task)
      BY <2>3, <3>3, GoesWent
    <3> QED
      BY <1>3, <3>4, GoesWent
  <2>6. CASE event.control = "CTL_RESET"
    <3>1. f \in Client(n)!OnReset(taken)
      BY <2>2, <2>6 DEF Client!Obeyed
    <3>2. c.state # "WR_OFFLINE"
      BY DEF Afoot, Ordered, Executing, Ending
    <3>3. Fit(n, f) /\ Goes(taken, f, rest, c.state, c.worker.task)
      BY <2>3, <2>4, <3>1, <3>2, OnResetGoes
    <3>4. Went(c, d, rest, c.state, c.worker.task)
      BY <2>5, <3>3
    <3> QED
      BY <1>5, <3>4, WentAfoot
  <2>7. CASE event.control = "CTL_DEPLOY"
    <3>1. f \in Client(n)!OnDeploy(taken, event.depends)
      BY <2>2, <2>7 DEF Client!Obeyed
    <3>2. /\ taken.state \in {"WR_WAIT", "WR_DEPLOY", "WR_ERROR", "WR_IDLE"}
          /\ taken.state = "WR_WAIT" => taken.worker.task = "none"
          /\ taken.state = "WR_IDLE" => Client(n)!VersionEqual(taken)
      BY <1>5, <2>4 DEF Afoot, Ordered, Executing, Ending, Client!VersionEqual
    <3> DEFINE done == [type |-> "RES_DEPLOY_DONE"]
               failed == [type |-> "RES_ERROR"]
    <3>3. /\ Fit(n, f)
          /\ \/ Goes(taken, f, rest, c.state, c.worker.task)
             \/ /\ c.state = "WR_WAIT" /\ ~hasDepends(Requires[n], event.depends)
                /\ \/ Goes(taken, f, Append(rest, done), "WR_DEPLOY", "none")
                   \/ Goes(taken, f, Append(rest, failed), "WR_DEPLOY", "none")
                   \/ Goes(taken, f, rest, "WR_DEPLOY", "deploy")
      BY <2>3, <2>4, <3>1, <3>2, OnDeployGoes
    <3>4. Executive(done) /\ Executive(failed)
      BY DEF Executive
    <3> HIDE DEF done, failed
    <3>5. /\ \A i \in DOMAIN Append(rest, done) : Executive(Append(rest, done)[i])
          /\ \A i \in DOMAIN Append(rest, failed) : Executive(Append(rest, failed)[i])
      BY <1>4, <1>5, <3>4, TokenAppended
    <3>6. CASE Goes(taken, f, rest, c.state, c.worker.task)
      <4>1. Went(c, d, rest, c.state, c.worker.task)
        BY <2>5, <3>3, <3>6
      <4> QED
        BY <1>5, <4>1, WentAfoot
    <3>7. ASSUME c.state = "WR_WAIT", ~hasDepends(Requires[n], event.depends),
                 NEW queue, NEW task, Goes(taken, f, queue, "WR_DEPLOY", task),
                 \A i \in DOMAIN queue : Executive(queue[i])
          PROVE  AfootStep(n, c, d)
      <4>1. Went(c, d, queue, "WR_DEPLOY", task)
        BY <2>5, <3>3, <3>7
      <4>2. Releases(n, c, event.upgrade)
        BY <1>4, <1>7, <2>7, <3>7 DEF Releases, Orders
      <4> QED
        BY <3>7, <4>1, <4>2, WentAfoot
    <3> QED
      BY <1>5, <3>3, <3>5, <3>6, <3>7
  <2> QED
    BY <1>5, <1>7, <2>6, <2>7 DEF Executive
<1>8. CASE event.type = "RES_ERROR"
  <2>1. d \in Client(n)!OnError(e) /\ Token(event)
    BY <1>1, <1>8 DEF Client!Handle, Token
  <2>2. Went(e, d, rest, "WR_ERROR", c.worker.task)
    BY <1>2, <1>6, <2>1, OnErrorWent
  <2>3. Went(c, d, rest, "WR_ERROR", c.worker.task)
    BY <1>3, <2>2, GoesWent
  <2> QED
    BY <1>5, <2>1, <2>3, WentAfoot
<1>9. CASE event.type = "RES_DEPLOY_DONE"
  <2>1. d \in Client(n)!OnDeployDone(e) /\ Token(event) /\ e.package # NoId
    BY <1>1, <1>2, <1>9 DEF Client!Handle, Token
  <2>2. /\ d.queue = rest /\ d.loose = c.loose /\ d.state = "WR_IDLE" /\ ~d.hasCancelAction
        /\ Client(n)!VersionEqual(d) /\ Says(d)
    BY <1>2, <1>6, <2>1, OnDeployDoneWent
  <2>3. c.state # "WR_WAIT"
    BY <1>5, <2>1
  <2> QED
    BY <1>5, <2>2, <2>3 DEF AfootStep, Afoot, Ordered, Executing, Ending
<1> QED
  BY <1>5, <1>7, <1>8, <1>9 DEF Executive

\* A heartbeat, and a connection.
LEMMA SameAfoot ==
    ASSUME NEW n, NEW c, Afoot(n, c), NEW d, Went(c, d, c.queue, c.state, c.worker.task)
    PROVE  AfootStep(n, c, d)
<1>1. c.state = "WR_WAIT" => c.worker.task = "none" /\ Tokens(c.queue) = {}
  BY DEF Afoot, Free
<1>2. \A i \in DOMAIN c.queue : Executive(c.queue[i])
  BY DEF Afoot
<1> QED
  BY <1>1, <1>2, WentAfoot

\* The end of a task, with its result: that of a deployment.
LEMMA ResultAfoot ==
    ASSUME NEW n, NEW c, Fit(n, c), Afoot(n, c), NEW d, NEW task,
           ~Free(c), task = "deploy",
           ~d.hasCancelAction, d.state = c.state, d.sent = <<>>,
           d.package = c.package, d.version = c.version,
           Concluded(c.queue, d.queue, task)
    PROVE  AfootStep(n, c, d)
<1>1. c.queue \in Seq(Client(n)!ClientEvent)
  BY DEF Fit, Client!ClientHelper
<1>2. \A i \in DOMAIN d.queue : Executive(d.queue[i])
  <2>1. CASE d.queue = c.queue
    BY <2>1 DEF Afoot
  <2>2. ASSUME NEW type \in ResultOf(task), d.queue = Append(c.queue, [type |-> type])
        PROVE  \A i \in DOMAIN d.queue : Executive(d.queue[i])
    <3> DEFINE event == [type |-> type]
    <3>1. type \in {"RES_ERROR", "RES_DEPLOY_DONE"}
      BY <2>2 DEF ResultOf
    <3>2. Executive(event)
      BY <3>1 DEF Executive
    <3>3. d.queue = Append(c.queue, event)
      BY <2>2
    <3> HIDE DEF event
    <3> QED
      BY <1>1, <3>2, <3>3, TokenAppended DEF Afoot
  <2> QED
    BY <2>1, <2>2 DEF Concluded
<1>3. c.state # "WR_WAIT" /\ Says(d)
  BY DEF Afoot, Says
<1> QED
  BY <1>2, <1>3 DEF AfootStep, Afoot, Client!VersionEqual

\* The task of the thread ends.
LEMMA EndedAfoot ==
    ASSUME NEW n, NEW c, Fit(n, c), Afoot(n, c), None(c), NEW fails,
           NEW d \in Client(n)!Ended(c, fails)
    PROVE  AfootStep(n, c, d)
<1>1. ~c.hasCancelAction
  BY DEF Afoot
<1>2. /\ c.worker.task # "none" /\ ~d.hasCancelAction
      /\ d.state = c.state /\ d.sent = <<>> /\ d.package = c.package /\ d.version = c.version
      /\ Concluded(c.queue, d.queue, c.worker.task)
  BY <1>1, EndedResult
<1>3. c.worker.task = "deploy"
  BY <1>2 DEF Fit, Client!ClientHelper, Client!Worker, Client!NoWorker, None, Preparing
<1>4. ~Free(c)
  BY <1>2 DEF Free
<1> QED
  BY <1>2, <1>3, <1>4, ResultAfoot

\* A task that stop() let go ends.
LEMMA LooseEndedAfoot ==
    ASSUME NEW n, NEW c, Fit(n, c), Afoot(n, c), None(c), NEW fails,
           NEW d \in Client(n)!LooseEnded(c, fails)
    PROVE  AfootStep(n, c, d)
<1>1. PICK w \in c.loose : \E e : LetEnd(n, c, w, e, d)
  BY LooseEndedFrom
<1>2. PICK e : LetEnd(n, c, w, e, d)
  BY <1>1
<1> DEFINE at == [c EXCEPT !.worker = w]
<1>3. /\ w.task # "none" /\ Fit(n, at) /\ at.worker = w /\ at.queue = c.queue
      /\ ~at.hasCancelAction
      /\ e \in Client(n)!Success(at) \cup Client(n)!Cancelled(at)
               \cup Client(n)!Stopped(at) \cup Client(n)!Failure(at)
      /\ d.queue = e.queue /\ d.sent = <<>> /\ d.state = c.state
      /\ d.hasCancelAction = e.hasCancelAction
      /\ d.package = c.package /\ d.version = c.version
  BY <1>2 DEF LetEnd, Afoot
<1> HIDE DEF at
<1>4. /\ e.hasCancelAction = at.hasCancelAction
      /\ Concluded(at.queue, e.queue, at.worker.task)
  BY <1>3, OutcomeResult
<1>5. w.task = "deploy"
  BY <1>1, <1>3 DEF Fit, Client!ClientHelper, Client!Worker, Client!NoWorker, None, Leftover,
                    Preparing
<1>6. ~Free(c)
  BY <1>1 DEF Free
<1> QED
  BY <1>3, <1>4, <1>5, <1>6, ResultAfoot

\* Nobody is being cancelled.
LEMMA BrokenAfoot ==
    ASSUME NEW n, NEW c, Afoot(n, c)
    PROVE  Client(n)!Broken(c) = {}
  BY DEF Afoot, Client!Broken

-----------------------------------------------------------------------------
(* What the broadcasts of a step make of it.                               *)

\* d is c with some of these controls in its queue.
Fed(n, c, d, broadcasts) ==
    /\ Grown(c, d, broadcasts) /\ d.hasCancelAction = c.hasCancelAction
    /\ Onto(n, c, d) /\ d.installed = c.installed
    /\ \A i \in DOMAIN d.queue \ DOMAIN c.queue :
         \E j \in DOMAIN broadcasts : d.queue[i] = ControlEvent(n, broadcasts[j])

\* One broadcast more.
LEMMA ReceivedFed ==
    ASSUME NEW n, NEW c, NEW d, Fit(n, d), NEW broadcasts, NEW k \in Nat,
           NEW i \in DOMAIN broadcasts, Len(c.queue) \in Nat,
           Fed(n, c, d, broadcasts), Longer(c, d, k),
           NEW e, e = Client(n)!Received(d, ControlEvent(n, broadcasts[i]), broadcasts[i].again),
           Onto(n, c, e), e.installed = c.installed
    PROVE  Fed(n, c, e, broadcasts)
<1> DEFINE event == ControlEvent(n, broadcasts[i])
           again == broadcasts[i].again
           queue == Append(d.queue, event)
           missed == [d EXCEPT !.heard = d.heard /\ again]
           heard == [d EXCEPT !.heard = TRUE]
           taken == [heard EXCEPT !.queue = queue]
<1>1. d.queue \in Seq(Client(n)!ClientEvent) /\ d \in Client(n)!ClientHelper
  BY DEF Fit, Client!ClientHelper
<1>2. Grown(c, e, broadcasts)
  BY <1>1, ReceivedGrown DEF Fed
<1>3. e = missed \/ e = d \/ e = taken
  BY <1>1 DEF Client!Received, Client!postEvent, Client!ClientHelper
<1> HIDE DEF event
<1>4. \A j \in DOMAIN queue : \/ j \in DOMAIN d.queue /\ queue[j] = d.queue[j]
                              \/ queue[j] = event
  BY <1>1
<1> HIDE DEF queue, again
<1>5. /\ e.hasCancelAction = d.hasCancelAction
      /\ e.queue = d.queue \/ e.queue = queue
  BY <1>1, <1>3 DEF Client!ClientHelper
<1> HIDE DEF missed, heard, taken
<1>6. \A j \in DOMAIN e.queue \ DOMAIN c.queue :
        \E m \in DOMAIN broadcasts : e.queue[j] = ControlEvent(n, broadcasts[m])
  BY <1>4, <1>5 DEF Fed, event
<1> QED
  BY <1>2, <1>5, <1>6 DEF Fed

\* All of a step.
LEMMA DeliveredFed ==
    ASSUME NEW n, Fit(n, clients[n]), NEW broadcasts \in Seq(Broadcast)
    PROVE  Fed(n, clients[n], Delivered(n, broadcasts), broadcasts)
           /\ Longer(clients[n], Delivered(n, broadcasts), Len(broadcasts))
<1> DEFINE c == clients[n]
           N == Len(broadcasts)
<1>1. PICK f : Deliveries(n, broadcasts, f)
  BY DeliveriesMade
<1> DEFINE S == {i \in 0..N : Fed(n, c, f[i], broadcasts) /\ Longer(c, f[i], i)}
<1>2. N \in Nat /\ DOMAIN broadcasts = 1..N
  OBVIOUS
<1>3. \A i \in 0..N : /\ Fit(n, f[i]) /\ Onto(n, c, f[i]) /\ f[i].installed = c.installed
                      /\ f[i] \in Client(n)!ClientHelper
  BY <1>1 DEF Deliveries, Onto, Fit
<1>4. Len(c.queue) \in Nat
  BY DEF Fit, Client!ClientHelper
<1>5. 0 \in S
  BY <1>1, <1>2, <1>3, <1>4 DEF Deliveries, Grown, Longer, Fed
<1>6. ASSUME NEW i \in 1..N, i - 1 \in S
      PROVE  i \in S
  <2>1. f[i] = Client(n)!Received(f[i - 1], ControlEvent(n, broadcasts[i]),
                                  broadcasts[i].again)
    BY <1>1 DEF Deliveries
  <2>2. /\ i - 1 \in Nat /\ i - 1 + 1 = i /\ i - 1 \in 0..N
        /\ Fit(n, f[i - 1]) /\ f[i - 1] \in Client(n)!ClientHelper
        /\ Onto(n, c, f[i]) /\ f[i].installed = c.installed
    BY <1>2, <1>3, <1>6
  <2>3. Longer(c, f[i], i - 1 + 1)
    BY <1>2, <1>4, <1>6, <2>1, <2>2, ReceivedGrown DEF Fed
  <2>4. Fed(n, c, f[i], broadcasts)
    BY <1>2, <1>4, <1>6, <2>1, <2>2, ReceivedFed
  <2> QED
    BY <2>2, <2>3, <2>4
<1> HIDE DEF S, N
<1>7. N \in S
  <2>1. 0..N \subseteq S
    BY <1>2, <1>5, <1>6, Upto
  <2> QED
    BY <1>2, <2>1
<1>8. f[N] = Delivered(n, broadcasts)
  BY <1>1 DEF Deliveries, N
<1> QED
  BY <1>7, <1>8 DEF S, N

\* The events it has more, by what they are.
LEMMA FedEvents ==
    ASSUME NEW n, NEW c, NEW d, NEW broadcasts, Fed(n, c, d, broadcasts)
    PROVE  /\ d.worker = c.worker /\ d.loose = c.loose /\ d.state = c.state /\ d.sent = c.sent
           /\ d.hasCancelAction = c.hasCancelAction /\ d.version = c.version
           /\ d.package = c.package /\ d.installed = c.installed
           /\ \A i \in DOMAIN c.queue : i \in DOMAIN d.queue /\ d.queue[i] = c.queue[i]
           /\ \A i \in DOMAIN d.queue :
                \/ i \in DOMAIN c.queue /\ d.queue[i] = c.queue[i]
                \/ \E j \in DOMAIN broadcasts :
                     /\ d.queue[i].type = "REQ_CONTROL"
                     /\ d.queue[i].control = broadcasts[j].control
                     /\ d.queue[i].upgrade = broadcasts[j].upgrade.id
                     /\ d.queue[i].depends = broadcasts[j].depends
<1>1. \A j \in DOMAIN broadcasts :
        LET event == ControlEvent(n, broadcasts[j])
        IN /\ event.type = "REQ_CONTROL" /\ event.control = broadcasts[j].control
           /\ event.upgrade = broadcasts[j].upgrade.id /\ event.depends = broadcasts[j].depends
  BY DEF ControlEvent
<1>2. \A i \in DOMAIN d.queue :
        \/ i \in DOMAIN c.queue /\ d.queue[i] = c.queue[i]
        \/ \E j \in DOMAIN broadcasts : d.queue[i] = ControlEvent(n, broadcasts[j])
  BY DEF Fed, Grown
<1>3. \A i \in DOMAIN d.queue :
        \/ i \in DOMAIN c.queue /\ d.queue[i] = c.queue[i]
        \/ \E j \in DOMAIN broadcasts :
             /\ d.queue[i].type = "REQ_CONTROL"
             /\ d.queue[i].control = broadcasts[j].control
             /\ d.queue[i].upgrade = broadcasts[j].upgrade.id
             /\ d.queue[i].depends = broadcasts[j].depends
  BY <1>1, <1>2
<1> QED
  BY <1>3 DEF Fed, Grown, Onto

\* It deploys what it did, or what a new order lets it.
LEMMA FedReleases ==
    ASSUME NEW n, NEW c, NEW d, NEW broadcasts, Fed(n, c, d, broadcasts),
           NEW x, Releases(n, d, x)
    PROVE  \/ Releases(n, c, x)
           \/ \E j \in DOMAIN broadcasts :
                /\ broadcasts[j].control = "CTL_DEPLOY" /\ broadcasts[j].upgrade.id = x
                /\ ~hasDepends(Requires[n], broadcasts[j].depends)
<1>1. CASE \E w \in {d.worker} \cup d.loose : w.task = "deploy" /\ w.upgrade = x
  BY <1>1, FedEvents DEF Releases
<1>2. ASSUME NEW i \in DOMAIN d.queue, Orders(d.queue[i]), d.queue[i].upgrade = x,
             ~hasDepends(Requires[n], d.queue[i].depends)
      PROVE  \/ Releases(n, c, x)
             \/ \E j \in DOMAIN broadcasts :
                  /\ broadcasts[j].control = "CTL_DEPLOY" /\ broadcasts[j].upgrade.id = x
                  /\ ~hasDepends(Requires[n], broadcasts[j].depends)
  <2>1. CASE i \in DOMAIN c.queue /\ d.queue[i] = c.queue[i]
    BY <1>2, <2>1 DEF Releases
  <2>2. ASSUME NEW j \in DOMAIN broadcasts, d.queue[i].control = broadcasts[j].control,
               d.queue[i].upgrade = broadcasts[j].upgrade.id,
               d.queue[i].depends = broadcasts[j].depends
        PROVE  \E m \in DOMAIN broadcasts :
                 /\ broadcasts[m].control = "CTL_DEPLOY" /\ broadcasts[m].upgrade.id = x
                 /\ ~hasDepends(Requires[n], broadcasts[m].depends)
    BY <1>2, <2>2 DEF Orders
  <2> QED
    BY <2>1, <2>2, FedEvents
<1> QED
  BY <1>1, <1>2 DEF Releases

\* No control but the reset, before the download: nothing new to do.
LEMMA FedAhead ==
    ASSUME NEW n, NEW c, NEW d, NEW broadcasts, Fed(n, c, d, broadcasts), Ahead(c),
           \A j \in DOMAIN broadcasts : broadcasts[j].control = "CTL_RESET"
    PROVE  Ahead(d) /\ (Free(c) => Free(d))
<1>1. /\ d.worker = c.worker /\ d.loose = c.loose /\ d.state = c.state
      /\ d.hasCancelAction = c.hasCancelAction
      /\ \A i \in DOMAIN d.queue :
           \/ i \in DOMAIN c.queue /\ d.queue[i] = c.queue[i]
           \/ d.queue[i].type = "REQ_CONTROL" /\ d.queue[i].control = "CTL_RESET"
  BY FedEvents
<1>2. Tokens(d.queue) \subseteq Tokens(c.queue)
  BY <1>1 DEF Tokens, Token
<1>3. \A i \in DOMAIN d.queue : Preparatory(d.queue[i])
  BY <1>1 DEF Ahead, Preparatory
<1> QED
  BY <1>1, <1>2, <1>3 DEF Ahead, Free, Single

\* The one download, of who has nothing to do yet.
LEMMA FedDownload ==
    ASSUME NEW n, NEW c, NEW d, NEW broadcasts, Fed(n, c, d, broadcasts), Longer(c, d, 1),
           c \in Client(n)!ClientHelper, d \in Client(n)!ClientHelper,
           Ahead(c), Free(c), c.state # "WR_WAIT",
           \A j \in DOMAIN broadcasts : broadcasts[j].control = "CTL_DOWNLOAD"
    PROVE  Ahead(d)
<1>1. /\ d.worker = c.worker /\ d.loose = c.loose /\ d.state = c.state
      /\ d.hasCancelAction = c.hasCancelAction
      /\ \A i \in DOMAIN d.queue :
           \/ i \in DOMAIN c.queue /\ d.queue[i] = c.queue[i]
           \/ d.queue[i].type = "REQ_CONTROL" /\ d.queue[i].control = "CTL_DOWNLOAD"
  BY FedEvents
<1>2. \A i \in DOMAIN d.queue : Preparatory(d.queue[i])
  BY <1>1 DEF Ahead, Preparatory
<1>3. /\ DOMAIN c.queue = 1..Len(c.queue) /\ Len(c.queue) \in Nat
      /\ DOMAIN d.queue = 1..Len(d.queue) /\ Len(d.queue) \in Nat
  BY DEF Client!ClientHelper
<1>4. Tokens(d.queue) \subseteq {Len(c.queue) + 1}
  <2>1. Tokens(d.queue) \cap DOMAIN c.queue = {}
    BY <1>1 DEF Free, Tokens, Fed, Grown
  <2>2. \A y, z \in Nat : z <= y + 1 => \A i \in 1..z : i \in 1..y \/ i = y + 1
    OBVIOUS
  <2>3. Len(d.queue) <= Len(c.queue) + 1
    BY DEF Longer
  <2>4. \A i \in DOMAIN d.queue : i \in DOMAIN c.queue \/ i = Len(c.queue) + 1
    BY <1>3, <2>2, <2>3
  <2> QED
    BY <2>1, <2>4 DEF Tokens
<1>5. Single(Tokens(d.queue))
  BY <1>4 DEF Single
<1> QED
  BY <1>1, <1>2, <1>5 DEF Ahead, Free

\* Whoever waits with nothing to do may be given orders,
LEMMA AheadAfoot ==
    ASSUME NEW n, NEW c, Ahead(c), c.state = "WR_WAIT"
    PROVE  Afoot(n, c)
<1>1. Free(c)
  BY DEF Ahead
<1>2. \A i \in DOMAIN c.queue : Executive(c.queue[i])
  BY <1>1 DEF Ahead, Free, Tokens, Token, Preparatory, Executive
<1> QED
  BY <1>1, <1>2 DEF Ahead, Afoot, Ordered, Executing, Ending

\* and be given them again.
LEMMA FedAfoot ==
    ASSUME NEW n, NEW c, NEW d, NEW broadcasts, Fed(n, c, d, broadcasts), Afoot(n, c),
           \A j \in DOMAIN broadcasts : broadcasts[j].control = "CTL_DEPLOY"
    PROVE  Afoot(n, d)
<1>1. /\ d.worker = c.worker /\ d.loose = c.loose /\ d.state = c.state
      /\ d.hasCancelAction = c.hasCancelAction
      /\ d.version = c.version /\ d.package = c.package
      /\ \A i \in DOMAIN d.queue :
           \/ i \in DOMAIN c.queue /\ d.queue[i] = c.queue[i]
           \/ d.queue[i].type = "REQ_CONTROL" /\ d.queue[i].control = "CTL_DEPLOY"
  BY FedEvents
<1>2. Tokens(d.queue) \subseteq Tokens(c.queue)
  BY <1>1 DEF Tokens, Token
<1>3. \A i \in DOMAIN d.queue : Executive(d.queue[i])
  BY <1>1 DEF Afoot, Executive
<1> QED
  BY <1>1, <1>2, <1>3 DEF Afoot, Free, Client!VersionEqual

-----------------------------------------------------------------------------
(* What the server's calls make of what it tells and asks.                 *)

\* r is s as far as the controllers are told of it.
Steady(s, r) ==
    /\ r.sent = s.sent /\ r.control = s.control /\ r.upgrade = s.upgrade
    /\ r.depends = s.depends /\ r.details = s.details /\ r.hasFeed = s.hasFeed

\* It asks the web queue for nothing else; it asks it for req.
Idles(s, r) == \A w : Tasked(w, r.posted) = Tasked(w, s.posted)
Asks(r, req) == \A w : Tasked(w, r.posted) = req

\* It is in a new state; it is over, and all are told to clear.
Moves(s, r, state) == Steady(s, r) /\ Idles(s, r) /\ r.state = state
Clears(s, r) ==
    /\ r.control = "CTL_CLEAR" /\ r.hasFeed /\ Asks(r, "REQ_STOP")
    /\ r.state \in {"MR_IDLE", "MR_DONE_ASK", "MR_ERROR_ASK"}
    /\ \A j \in DOMAIN r.sent : \/ r.sent[j].control = "CTL_CLEAR"
                                \/ j \in DOMAIN s.sent /\ r.sent[j] = s.sent[j]

\* One event more for the web queue.
LEMMA TaskedAppended ==
    ASSUME NEW posted \in Seq(WebEvent), NEW event, NEW w
    PROVE  Tasked(w, Append(posted, event)) =
             IF event.req = "REQ_FEEDBACK" THEN Tasked(w, posted) ELSE event.req
<1> DEFINE more == Append(posted, event)
           before == {i \in DOMAIN posted : posted[i].req # "REQ_FEEDBACK"}
           after == {i \in DOMAIN more : more[i].req # "REQ_FEEDBACK"}
           last(S) == CHOOSE i \in S : \A j \in S : j <= i
<1>1. /\ Tasked(w, posted) = IF before = {} THEN w ELSE posted[last(before)].req
      /\ Tasked(w, more) = IF after = {} THEN w ELSE more[last(after)].req
  BY DEF Tasked
<1>2. /\ Len(posted) \in Nat /\ before \in SUBSET (1..Len(posted))
      /\ DOMAIN more = 1..(Len(posted) + 1)
      /\ \A i \in 1..Len(posted) : more[i] = posted[i]
      /\ more[Len(posted) + 1] = event
  OBVIOUS
<1> HIDE DEF more
<1>3. CASE event.req = "REQ_FEEDBACK"
  <2>1. after = before
    BY <1>2, <1>3
  <2>2. before # {} => last(before) \in before
    <3> HIDE DEF before
    <3> QED
      BY <1>2, Greatest
  <2> HIDE DEF last
  <2>3. before # {} => more[last(before)] = posted[last(before)]
    BY <1>2, <2>2
  <2> QED
    BY <1>1, <1>3, <2>1, <2>3 DEF more
<1>4. CASE event.req # "REQ_FEEDBACK"
  <2>1. /\ Len(posted) + 1 \in after /\ \A j \in after : j <= Len(posted) + 1
        /\ after \subseteq Nat
    BY <1>2, <1>4
  <2>2. last(after) = Len(posted) + 1
    <3> HIDE DEF after
    <3> DEFINE k == last(after)
    <3>1. k \in after /\ \A j \in after : j <= k
      BY <2>1
    <3> HIDE DEF k
    <3>2. k \in Nat /\ k <= Len(posted) + 1 /\ Len(posted) + 1 <= k
      BY <2>1, <3>1
    <3>3. k = Len(posted) + 1
      BY <1>2, <3>2
    <3> QED
      BY <3>3 DEF k
  <2> QED
    BY <1>1, <1>2, <1>4, <2>1, <2>2 DEF more
<1> QED
  BY <1>3, <1>4

\* Reports only.
LEMMA TaskedReports ==
    ASSUME NEW posted, \A i \in DOMAIN posted : posted[i].req = "REQ_FEEDBACK", NEW w
    PROVE  Tasked(w, posted) = w
  BY DEF Tasked

\* Calls that change nothing of this.
LEMMA SelfMoves ==
    ASSUME NEW s
    PROVE  Moves(s, s, s.state)
  BY DEF Moves, Steady, Idles

\* Post.
LEMMA PostFields ==
    ASSUME NEW s, Typed(s), NEW event
    PROVE  LET r == Post(s, event)
           IN /\ r.posted = Append(s.posted, event) /\ r.sent = s.sent /\ r.control = s.control
              /\ r.hasFeed = s.hasFeed /\ r.state = s.state
  BY DEF Post, Typed, Server

\* setState.
LEMMA setStateMoves ==
    ASSUME NEW s, Typed(s), NEW state \in ServerState
    PROVE  Typed(setState(s, state)) /\ Moves(s, setState(s, state), state)
<1> DEFINE file == [exists |-> TRUE, state |-> state, depends |-> s.depends]
           entered == [s EXCEPT !.lastState = s.state, !.state = state, !.file = file]
           type == IF s.feedType = "TP_DEPLOY" THEN "TP_DEPLOY" ELSE "TP_CANCEL"
           feed == Feed(entered, type, "EXE_PROCEEDING", "RS_SUCCESS")
           told == Post(entered, feed)
<1>1. \/ s.state = state /\ setState(s, state) = s
      \/ setState(s, state) \in {entered, told}
  BY DEF setState
<1>2. PICK S \in SUBSET Names : s \in Server(S)
  BY DEF Typed
<1>3. /\ entered.state = state /\ entered.posted = s.posted /\ Steady(s, entered)
      /\ entered.posted \in Seq(WebEvent)
  BY <1>2 DEF Server, Steady
<1>4. Moves(s, entered, state)
  BY <1>3 DEF Moves, Idles
<1>5. /\ told.state = state /\ told.posted = Append(entered.posted, feed)
      /\ Steady(s, told)
  BY <1>2 DEF Server, Steady, Post
<1>6. feed.req = "REQ_FEEDBACK"
  BY DEF Feed
<1> HIDE DEF entered, feed, told
<1>7. Idles(s, told)
  BY <1>3, <1>5, <1>6, TaskedAppended DEF Idles
<1>8. Moves(s, told, state)
  BY <1>5, <1>7 DEF Moves
<1> QED
  BY <1>1, <1>4, <1>8, SelfMoves, setStateTyped

\* A new state with a request.
LEMMA requestAsks ==
    ASSUME NEW s, Typed(s), NEW state \in ServerState, NEW req \in PreparingTask
    PROVE  LET r == Post(setState(s, state), Request(req))
           IN Typed(r) /\ Steady(s, r) /\ Asks(r, req) /\ r.state = state
<1> DEFINE t == setState(s, state)
           r == Post(t, Request(req))
<1>1. Typed(t) /\ Moves(s, t, state)
  BY setStateMoves
<1> HIDE DEF t
<1>2. Request(req) \in WebEvent /\ Request(req).req = req /\ req # "REQ_FEEDBACK"
  BY DEF Request, WebEvent, WebRequest, PreparingTask
<1>3. Typed(r)
  BY <1>1, <1>2, PostTyped
<1>4. /\ r.posted = Append(t.posted, Request(req)) /\ t.posted \in Seq(WebEvent)
      /\ r.state = state /\ Steady(s, r)
  BY <1>1 DEF Typed, Server, Post, Moves, Steady
<1>5. Asks(r, req)
  BY <1>2, <1>4, TaskedAppended DEF Asks
<1> HIDE DEF r
<1>6. Typed(r) /\ Steady(s, r) /\ Asks(r, req) /\ r.state = state
  BY <1>3, <1>4, <1>5
<1> QED
  BY <1>6 DEF r, t

\* download.
LEMMA downloadAsks ==
    ASSUME NEW s, Typed(s)
    PROVE  LET r == download(s)
           IN Typed(r) /\ Steady(s, r) /\ Asks(r, "REQ_DOWNLOAD") /\ r.state = "MR_DOWNLOAD"
<1>1. "MR_DOWNLOAD" \in ServerState /\ "REQ_DOWNLOAD" \in PreparingTask
  BY DEF ServerState, PreparingTask
<1> QED
  BY <1>1, requestAsks DEF download

\* The server tells a control.
Tells(s, r, control) ==
    /\ r.control = control /\ r.sent = Append(s.sent, ControlMessage(s, control, FALSE))
    /\ r.upgrade = s.upgrade /\ r.depends = s.depends /\ r.details = s.details
    /\ r.hasFeed = s.hasFeed /\ Idles(s, r)

\* A broadcast does just that.
LEMMA sendControlTells ==
    ASSUME NEW s, Typed(s), NEW control \in Control, control # "CTL_UNKNOWN"
    PROVE  LET r == sendControlMessage(s, control)
           IN Typed(r) /\ Tells(s, r, control) /\ r.state = s.state
<1> DEFINE r == sendControlMessage(s, control)
<1>1. r = [s EXCEPT !.control = control,
                    !.sent = Append(s.sent, ControlMessage(s, control, FALSE))]
  BY DEF sendControlMessage
<1>2. Typed(r)
  BY sendControlTyped
<1>3. /\ r.control = control /\ r.sent = Append(s.sent, ControlMessage(s, control, FALSE))
      /\ r.upgrade = s.upgrade /\ r.depends = s.depends /\ r.details = s.details
      /\ r.hasFeed = s.hasFeed /\ r.posted = s.posted /\ r.state = s.state
  <2> HIDE DEF r
  <2> QED
    BY <1>1 DEF Typed, Server
<1> HIDE DEF r
<1>4. Typed(r) /\ Tells(s, r, control) /\ r.state = s.state
  BY <1>2, <1>3 DEF Tells, Idles
<1> QED
  BY <1>4 DEF r

\* With a state.
LEMMA stateTells ==
    ASSUME NEW s, Typed(s), NEW control \in Control, control # "CTL_UNKNOWN",
           NEW state \in ServerState
    PROVE  LET r == setState(sendControlMessage(s, control), state)
           IN Typed(r) /\ Tells(s, r, control) /\ r.state = state
<1> DEFINE t == sendControlMessage(s, control)
           r == setState(t, state)
<1>1. Typed(t) /\ Tells(s, t, control)
  BY sendControlTells
<1> HIDE DEF t
<1>2. Typed(r) /\ Moves(t, r, state)
  BY <1>1, setStateMoves
<1> HIDE DEF r
<1>3. Typed(r) /\ Tells(s, r, control) /\ r.state = state
  BY <1>1, <1>2 DEF Tells, Moves, Steady, Idles
<1> QED
  BY <1>3 DEF r, t

\* idle.
LEMMA idleRests ==
    ASSUME NEW s, Typed(s)
    PROVE  LET r == idle(s)
           IN /\ Typed(r) /\ r.state = "MR_IDLE" /\ r.control = s.control
              /\ r.hasFeed = s.hasFeed /\ r.sent = s.sent /\ Idles(s, r)
<1> DEFINE cleared == [s EXCEPT !.depends = {}, !.details = [n \in {} |-> {}],
                                !.detailSubscribed = FALSE, !.upgrade = NoUpgrade,
                                !.cancelId = NoId]
           t == setState(cleared, "MR_IDLE")
           r == idle(s)
<1>1. PICK S \in SUBSET Names : s \in Server(S)
  BY DEF Typed
<1>2. Typed(cleared)
  <2>1. [n \in {} |-> {}] \in [{} -> Detail]
    OBVIOUS
  <2>2. cleared \in Server({})
    BY <1>1, <2>1, UpgradesTyped DEF Server
  <2> QED
    BY <2>2 DEF Typed
<1>3. /\ cleared.control = s.control /\ cleared.posted = s.posted
      /\ cleared.sent = s.sent /\ cleared.hasFeed = s.hasFeed
  BY <1>1 DEF Server
<1>4. (s.state = "MR_IDLE" /\ r = s) \/ r = t
  BY DEF idle
<1> HIDE DEF cleared
<1>5. Moves(cleared, t, "MR_IDLE")
  <2>1. "MR_IDLE" \in ServerState
    BY DEF ServerState
  <2> QED
    BY <1>2, <2>1, setStateMoves
<1>6. Typed(r)
  BY idleTyped
<1> HIDE DEF r, t
<1>7. /\ Typed(r) /\ r.state = "MR_IDLE" /\ r.control = s.control
      /\ r.hasFeed = s.hasFeed /\ r.sent = s.sent /\ Idles(s, r)
  BY <1>3, <1>4, <1>5, <1>6 DEF Moves, Steady, Idles
<1> QED
  BY <1>7 DEF r

\* feedback, of a request that is open.
LEMMA feedbackClears ==
    ASSUME NEW s, Typed(s), NEW finished \in BOOLEAN
    PROVE  /\ Typed(feedback(s, finished))
           /\ IF s.hasFeed \/ s.feedType = "TP_UNKNOWN" THEN feedback(s, finished) = s
              ELSE Clears(s, feedback(s, finished))
<1> DEFINE code == IF finished THEN 0 ELSE 1
           closed == [s EXCEPT !.hasFeed = TRUE, !.errorCode = code]
           cleared == sendControlMessage(closed, "CTL_CLEAR")
           stopped == Post(cleared, Request("REQ_STOP"))
           result == IF finished THEN "RS_SUCCESS" ELSE "RS_FAILURE"
           feed == Feed(closed, s.feedType, "EXE_CLOSED", result)
           told == Post(stopped, feed)
           state == IF finished THEN "MR_DONE_ASK" ELSE "MR_ERROR_ASK"
           r == feedback(s, finished)
<1>1. Typed(r)
  BY feedbackTyped
<1>2. CASE s.hasFeed \/ s.feedType = "TP_UNKNOWN"
  BY <1>1, <1>2 DEF feedback
<1>3. CASE ~(s.hasFeed \/ s.feedType = "TP_UNKNOWN")
  <2>1. r \in {setState(told, state), idle(told)}
    BY <1>3 DEF feedback
  <2>2. PICK S \in SUBSET Names : s \in Server(S)
    BY DEF Typed
  <2>3. Typed(closed)
    <3>1. code \in {0, 1}
      OBVIOUS
    <3> HIDE DEF code
    <3>2. closed \in Server(S)
      BY <2>2, <3>1, ZenonT(60) DEF Server
    <3> QED
      BY <3>2 DEF Typed
  <2>4. closed.hasFeed /\ closed.sent = s.sent
    BY <2>2 DEF Server
  <2>5. feed \in WebEvent /\ feed.req = "REQ_FEEDBACK"
    <3>1. s.feedType \in FeedType /\ result \in {"RS_SUCCESS", "RS_FAILURE"}
      BY <2>2 DEF Server
    <3>2. feed.req = "REQ_FEEDBACK"
      BY DEF Feed
    <3> HIDE DEF closed, result
    <3> QED
      BY <2>3, <3>1, <3>2, FeedTyped
  <2> HIDE DEF closed, feed
  <2>6. Typed(cleared) /\ Tells(closed, cleared, "CTL_CLEAR")
    <3>1. "CTL_CLEAR" \in Control
      BY DEF Control
    <3> QED
      BY <2>3, <3>1, sendControlTells
  <2> HIDE DEF cleared
  <2>7. Request("REQ_STOP") \in WebEvent /\ Request("REQ_STOP").req = "REQ_STOP"
    BY DEF Request, WebEvent, WebRequest
  <2>8. Typed(stopped) /\ Typed(told)
    BY <2>5, <2>6, <2>7, PostTyped
  <2>9. /\ told.control = "CTL_CLEAR" /\ told.hasFeed /\ told.sent = cleared.sent
        /\ told.posted = Append(Append(cleared.posted, Request("REQ_STOP")), feed)
        /\ stopped.posted = Append(cleared.posted, Request("REQ_STOP"))
        /\ cleared.posted \in Seq(WebEvent) /\ stopped.posted \in Seq(WebEvent)
    <3>1. /\ stopped.control = cleared.control /\ stopped.hasFeed = cleared.hasFeed
          /\ stopped.sent = cleared.sent
          /\ stopped.posted = Append(cleared.posted, Request("REQ_STOP"))
      BY <2>6, PostFields
    <3>2. stopped.posted \in Seq(WebEvent) /\ cleared.posted \in Seq(WebEvent)
      BY <2>6, <2>8 DEF Typed, Server
    <3> HIDE DEF stopped
    <3>3. /\ told.control = stopped.control /\ told.hasFeed = stopped.hasFeed
          /\ told.sent = stopped.sent /\ told.posted = Append(stopped.posted, feed)
      BY <2>8, PostFields
    <3> HIDE DEF told
    <3> QED
      BY <2>4, <2>6, <3>1, <3>2, <3>3 DEF Tells
  <2> HIDE DEF told, stopped
  <2>10. Asks(told, "REQ_STOP")
    <3> SUFFICES ASSUME NEW w PROVE Tasked(w, told.posted) = "REQ_STOP"
      BY DEF Asks
    <3>1. Tasked(w, stopped.posted) = "REQ_STOP"
      BY <2>7, <2>9, TaskedAppended
    <3>2. told.posted = Append(stopped.posted, feed)
      BY <2>9
    <3> QED
      BY <2>5, <2>9, <3>1, <3>2, TaskedAppended
  <2>11. \A j \in DOMAIN told.sent : \/ told.sent[j].control = "CTL_CLEAR"
                                     \/ j \in DOMAIN s.sent /\ told.sent[j] = s.sent[j]
    <3>1. /\ told.sent = Append(s.sent, ControlMessage(closed, "CTL_CLEAR", FALSE))
          /\ s.sent \in Seq(Broadcast)
      BY <2>2, <2>4, <2>6, <2>9 DEF Tells, Server
    <3>2. ControlMessage(closed, "CTL_CLEAR", FALSE).control = "CTL_CLEAR"
      BY DEF ControlMessage
    <3> DEFINE m == ControlMessage(closed, "CTL_CLEAR", FALSE)
    <3> HIDE DEF m
    <3>3. \A j \in DOMAIN Append(s.sent, m) :
            \/ j \in DOMAIN s.sent /\ Append(s.sent, m)[j] = s.sent[j]
            \/ Append(s.sent, m)[j] = m
      BY <3>1, TokenAppended
    <3>4. told.sent = Append(s.sent, m) /\ m.control = "CTL_CLEAR"
      BY <3>1, <3>2 DEF m
    <3> QED
      BY <3>3, <3>4
  <2>12. state \in ServerState /\ state \in {"MR_DONE_ASK", "MR_ERROR_ASK"}
    BY DEF ServerState
  <2> HIDE DEF state, r
  <2>13. CASE r = setState(told, state)
    <3>1. Moves(told, r, state)
      BY <2>8, <2>12, <2>13, setStateMoves
    <3> QED
      BY <1>1, <1>3, <2>9, <2>10, <2>11, <2>12, <3>1 DEF Clears, Moves, Steady, Idles, Asks, r
  <2>14. CASE r = idle(told)
    <3>1. /\ r.state = "MR_IDLE" /\ r.control = told.control
          /\ r.hasFeed = told.hasFeed /\ r.sent = told.sent /\ Idles(told, r)
      BY <2>8, <2>14, idleRests
    <3> QED
      BY <1>1, <1>3, <2>9, <2>10, <2>11, <3>1 DEF Clears, Idles, Asks, r
  <2> QED
    BY <2>1, <2>13, <2>14
<1> QED
  BY <1>2, <1>3

-----------------------------------------------------------------------------
(* What its handlers make of it.                                           *)

\* A call that changes nothing of this comes first.
LEMMA MovesThen ==
    ASSUME NEW s, NEW q, NEW r, Moves(s, q, s.state)
    PROVE  /\ \A state : Moves(q, r, state) => Moves(s, r, state)
           /\ Steady(q, r) => Steady(s, r)
           /\ \A control : Tells(q, r, control) => Tells(s, r, control)
           /\ Clears(q, r) => Clears(s, r)
  BY DEF Moves, Steady, Idles, Tells, Clears, ControlMessage

\* The results of the web queue.
LEMMA OnResultAsks ==
    ASSUME NEW s, Typed(s), ~FinalAsk(s)
    PROVE  /\ Steady(s, OnDownloadDone(s)) /\ Asks(OnDownloadDone(s), "REQ_VERIFY")
           /\ OnDownloadDone(s).state = "MR_VERIFY"
           /\ Steady(s, OnVerifyDone(s)) /\ Asks(OnVerifyDone(s), "REQ_DISTRIBUTE")
           /\ OnVerifyDone(s).state = "MR_DISTRIBUTE"
           /\ Moves(s, OnDistributeDone(s), "MR_WAIT")
<1>1. /\ "MR_VERIFY" \in ServerState /\ "MR_DISTRIBUTE" \in ServerState
      /\ "MR_WAIT" \in ServerState
      /\ "REQ_VERIFY" \in PreparingTask /\ "REQ_DISTRIBUTE" \in PreparingTask
  BY DEF ServerState, PreparingTask
<1>2. /\ OnDownloadDone(s) = Post(setState(s, "MR_VERIFY"), Request("REQ_VERIFY"))
      /\ OnVerifyDone(s) = Post(setState(s, "MR_DISTRIBUTE"), Request("REQ_DISTRIBUTE"))
      /\ OnDistributeDone(s) = setState(s, "MR_WAIT")
  BY DEF OnDownloadDone, OnVerifyDone, OnDistributeDone
<1>3. LET r == Post(setState(s, "MR_VERIFY"), Request("REQ_VERIFY"))
      IN Steady(s, r) /\ Asks(r, "REQ_VERIFY") /\ r.state = "MR_VERIFY"
  BY <1>1, requestAsks
<1>4. LET r == Post(setState(s, "MR_DISTRIBUTE"), Request("REQ_DISTRIBUTE"))
      IN Steady(s, r) /\ Asks(r, "REQ_DISTRIBUTE") /\ r.state = "MR_DISTRIBUTE"
  BY <1>1, requestAsks
<1>5. Moves(s, setState(s, "MR_WAIT"), "MR_WAIT")
  BY <1>1, setStateMoves
<1> QED
  BY <1>2, <1>3, <1>4, <1>5

\* The web queue distributes: the one control to download, if the upgrade is not to skip it.
LEMMA OnPullTells ==
    ASSUME NEW s, Typed(s), ~FinalAsk(s)
    PROVE  LET r == OnPull(s, TRUE)
           IN \/ Moves(s, r, "MR_DISTRIBUTE")
              \/ Tells(s, r, "CTL_DOWNLOAD") /\ r.state = "MR_DISTRIBUTE"
<1>1. /\ "MR_DISTRIBUTE" \in ServerState /\ "CTL_DOWNLOAD" \in Control
      /\ "CTL_DOWNLOAD" # "CTL_UNKNOWN"
  BY DEF ServerState, Control
<1>2. \/ OnPull(s, TRUE) = setState(s, "MR_DISTRIBUTE")
      \/ OnPull(s, TRUE) = setState(sendControlMessage(s, "CTL_DOWNLOAD"), "MR_DISTRIBUTE")
  BY DEF OnPull
<1> QED
  BY <1>1, <1>2, setStateMoves, stateTells

\* A failure that is not tried again.
LEMMA OnErrorClears ==
    ASSUME NEW s, Typed(s), OnError(s).retryTimes = 0
    PROVE  Moves(s, OnError(s), s.state) \/ Clears(s, OnError(s))
<1> DEFINE d == download(s)
           retried == [d EXCEPT !.retryTimes = d.retryTimes + 1]
           reset == [s EXCEPT !.retryTimes = 0]
<1>1. OnError(s) \in {feedback(s, FALSE), feedback(reset, FALSE), retried}
  BY DEF OnError
<1>2. Typed(d)
  BY downloadTyped
<1> HIDE DEF d
<1>3. retried.retryTimes # 0
  <2>1. d.retryTimes \in Nat /\ retried.retryTimes = d.retryTimes + 1
    BY <1>2 DEF Typed, Server
  <2> HIDE DEF retried
  <2> QED
    BY <2>1
<1> HIDE DEF retried
<1>4. Typed(reset) /\ Moves(s, reset, s.state)
  <2>1. PICK S \in SUBSET Names : s \in Server(S)
    BY DEF Typed
  <2>2. 0 \in 0..RetryTimes
    BY ServerAssumption
  <2>3. reset \in Server(S)
    BY <2>1, <2>2 DEF Server
  <2>4. Steady(s, reset) /\ reset.posted = s.posted /\ reset.state = s.state
    BY <2>1 DEF Server, Steady
  <2> QED
    BY <2>3, <2>4 DEF Typed, Moves, Idles
<1> HIDE DEF reset
<1>5. ASSUME NEW t, Typed(t), Moves(s, t, s.state)
      PROVE  Moves(s, feedback(t, FALSE), s.state) \/ Clears(s, feedback(t, FALSE))
  <2>1. feedback(t, FALSE) = t \/ Clears(t, feedback(t, FALSE))
    BY <1>5, feedbackClears
  <2> QED
    BY <1>5, <2>1, MovesThen
<1> QED
  BY <1>1, <1>3, <1>4, <1>5, SelfMoves

\* The answers to the dialogs that are left: those before the download and the deployment,
\* and the last.
LEMMA configAnswerMakes ==
    ASSUME NEW s, Typed(s), NEW answer, s.state \notin {"MR_RESUME_ASK", "MR_CANCEL_ASK"}
    PROVE  LET r == configAnswer(s, answer)
           IN \/ Moves(s, r, s.state)
              \/ Clears(s, r)
              \/ /\ s.state = "MR_DOWNLOAD_ASK" /\ Steady(s, r) /\ Asks(r, "REQ_DOWNLOAD")
                 /\ r.state = "MR_DOWNLOAD"
              \/ /\ s.state = "MR_DEPLOY_ASK" /\ Tells(s, r, "CTL_DEPLOY")
                 /\ r.state = "MR_DEPLOY"
              \/ /\ FinalAsk(s) /\ r.state = "MR_IDLE" /\ r.control = s.control
                 /\ r.hasFeed = s.hasFeed /\ r.sent = s.sent /\ Idles(s, r)
<1> DEFINE r == configAnswer(s, answer)
<1>1. \/ r = s \/ r = feedback(s, FALSE)
      \/ s.state = "MR_DOWNLOAD_ASK" /\ r = download(s)
      \/ s.state = "MR_DEPLOY_ASK" /\ r = deploy(s)
      \/ FinalAsk(s) /\ r = idle(s)
  BY DEF configAnswer, FinalAsk
<1> HIDE DEF r
<1>2. feedback(s, FALSE) = s \/ Clears(s, feedback(s, FALSE))
  BY feedbackClears
<1>3. r = deploy(s) => Tells(s, r, "CTL_DEPLOY") /\ r.state = "MR_DEPLOY"
  <2>1. /\ "MR_DEPLOY" \in ServerState /\ "CTL_DEPLOY" \in Control
        /\ "CTL_DEPLOY" # "CTL_UNKNOWN"
    BY DEF ServerState, Control
  <2> QED
    BY <2>1, stateTells DEF deploy
<1>4. r = download(s) => /\ Steady(s, r) /\ Asks(r, "REQ_DOWNLOAD")
                         /\ r.state = "MR_DOWNLOAD"
  BY downloadAsks
<1>5. r = idle(s) => /\ r.state = "MR_IDLE" /\ r.control = s.control
                     /\ r.hasFeed = s.hasFeed /\ r.sent = s.sent /\ Idles(s, r)
  BY idleRests
<1>6. \/ Moves(s, r, s.state)
      \/ Clears(s, r)
      \/ /\ s.state = "MR_DOWNLOAD_ASK" /\ Steady(s, r) /\ Asks(r, "REQ_DOWNLOAD")
         /\ r.state = "MR_DOWNLOAD"
      \/ /\ s.state = "MR_DEPLOY_ASK" /\ Tells(s, r, "CTL_DEPLOY")
         /\ r.state = "MR_DEPLOY"
      \/ /\ FinalAsk(s) /\ r.state = "MR_IDLE" /\ r.control = s.control
         /\ r.hasFeed = s.hasFeed /\ r.sent = s.sent /\ Idles(s, r)
  BY <1>1, <1>2, <1>3, <1>4, <1>5, SelfMoves
<1> QED
  BY <1>6 DEF r

\* What follows the loop, of an upgrade that is new.
LEMMA GatheredMakes ==
    ASSUME NEW s, Typed(s), NEW vaild \in BOOLEAN, s.hasNewId, s.cacheState = "MR_UNKNOWN"
    PROVE  LET r == Gathered(s, vaild)
           IN \/ r = s
              \/ /\ s.state \in Gathering /\ r.state \in Gathering /\ Moves(s, r, r.state)
              \/ /\ s.state \in Gathering /\ Steady(s, r) /\ Asks(r, "REQ_DOWNLOAD")
                 /\ r.state = "MR_DOWNLOAD"
<1> DEFINE r == Gathered(s, vaild)
<1>1. /\ "MR_READY" \in ServerState /\ "MR_DOWNLOAD_ASK" \in ServerState
      /\ "MR_PENDING" \in ServerState
      /\ Gathering = {"MR_PENDING", "MR_READY", "MR_DOWNLOAD_ASK"}
  BY DEF ServerState, Gathering
<1>2. \/ r = s
      \/ /\ s.state \in Gathering
         /\ \/ r = download(s)
            \/ \E state \in Gathering : r = setState(s, state)
  BY DEF Gathered, Gathering
<1> HIDE DEF r
<1>3. CASE r = s
  BY <1>3 DEF r
<1>4. CASE s.state \in Gathering /\ r = download(s)
  BY <1>4, downloadAsks DEF r
<1>5. ASSUME s.state \in Gathering, NEW state \in Gathering, r = setState(s, state)
      PROVE  s.state \in Gathering /\ r.state \in Gathering /\ Moves(s, r, r.state)
  <2>1. Moves(s, r, state)
    BY <1>1, <1>5, setStateMoves
  <2> QED
    BY <1>5, <2>1 DEF Moves
<1> QED
  BY <1>2, <1>3, <1>4, <1>5 DEF r

\* And what follows that.
LEMMA WaitedMakes ==
    ASSUME NEW s, Typed(s), NEW waiting \in BOOLEAN
    PROVE  LET r == Waited(s, waiting)
           IN \/ r = s
              \/ waiting /\ Tells(s, r, "CTL_DEPLOY") /\ r.state = "MR_DEPLOY"
              \/ waiting /\ Moves(s, r, "MR_DEPLOY_ASK")
              \/ s.state = "MR_DEPLOY_ASK" /\ Moves(s, r, "MR_WAIT")
<1>1. /\ "MR_DEPLOY_ASK" \in ServerState /\ "MR_WAIT" \in ServerState
      /\ "MR_DEPLOY" \in ServerState /\ "CTL_DEPLOY" \in Control
      /\ "CTL_DEPLOY" # "CTL_UNKNOWN"
  BY DEF ServerState, Control
<1>2. \/ Waited(s, waiting) = s
      \/ waiting /\ Waited(s, waiting) = deploy(s)
      \/ waiting /\ Waited(s, waiting) = setState(s, "MR_DEPLOY_ASK")
      \/ s.state = "MR_DEPLOY_ASK" /\ Waited(s, waiting) = setState(s, "MR_WAIT")
  BY DEF Waited
<1> QED
  BY <1>1, <1>2, setStateMoves, stateTells DEF deploy

\* The upgrade that is offered.
LEMMA OnUpgradeMakes ==
    ASSUME NEW s, Typed(s), NEW upgrade \in Upgrades, ~FinalAsk(s), s.sent = <<>>
    PROVE  LET r == OnUpgrade(s, upgrade)
           IN /\ r.control = "CTL_RESET" /\ r.state = "MR_PENDING" /\ r.upgrade = upgrade
              /\ r.depends = upgrade.packages /\ Idles(s, r)
              /\ r.details = [n \in upgrade.packages |-> NewDetail]
              /\ \A j \in DOMAIN r.sent : r.sent[j].control = "CTL_RESET"
<1> DEFINE new == s.lastlId # upgrade.id
           asked == [s EXCEPT !.hasFeed = FALSE, !.feedType = "TP_DEPLOY",
                              !.hasNewId = new, !.upgrade = upgrade,
                              !.cancelResume = ~new /\ s.lastCancelId = upgrade.id,
                              !.lastlId = upgrade.id,
                              !.hasDeployBreaked = s.hasDeployBreaked /\ ~new]
           cleared == [asked EXCEPT !.errorCode = 0, !.depends = asked.upgrade.packages,
                          !.details = [n \in asked.upgrade.packages |-> NewDetail]]
           r == setState(sendControlMessage(cleared, "CTL_RESET"), "MR_PENDING")
<1>1. OnUpgrade(s, upgrade) = r
  BY DEF OnUpgrade, pending
<1>2. PICK S \in SUBSET Names : s \in Server(S)
  BY DEF Typed
<1>3. /\ asked.upgrade = upgrade /\ asked.posted = s.posted /\ asked.sent = s.sent
      /\ asked \in Server(S)
  <2>1. /\ upgrade \in Current /\ upgrade.id \in Ids \cup {NoId}
        /\ "TP_DEPLOY" \in FeedType
    BY ServerAssumption DEF Current, FeedType
  <2>2. new \in BOOLEAN /\ (~new /\ s.lastCancelId = upgrade.id) \in BOOLEAN
        /\ (s.hasDeployBreaked /\ ~new) \in BOOLEAN
    BY <1>2 DEF Server
  <2>3. asked.upgrade = upgrade /\ asked.posted = s.posted /\ asked.sent = s.sent
    BY <1>2 DEF Server
  <2> HIDE DEF new
  <2>4. asked \in Server(S)
    BY <1>2, <2>1, <2>2, ZenonT(60) DEF Server
  <2> QED
    BY <2>3, <2>4
<1> HIDE DEF asked
<1>4. /\ cleared.upgrade = upgrade /\ cleared.posted = s.posted /\ cleared.sent = s.sent
      /\ cleared.depends = upgrade.packages
      /\ cleared.details = [n \in upgrade.packages |-> NewDetail]
  BY <1>3 DEF Server
<1>5. Typed(cleared)
  <2>1. upgrade.packages \in SUBSET Names /\ NewDetail \in Detail
    BY ServerAssumption DEF Upgrade, NewDetail, Detail, ClientState, Version
  <2>2. cleared \in Server(upgrade.packages)
    BY <1>3, <2>1 DEF Server
  <2> QED
    BY <2>1, <2>2 DEF Typed
<1> HIDE DEF cleared
<1>6. Tells(cleared, r, "CTL_RESET") /\ r.state = "MR_PENDING"
  <2>1. /\ "MR_PENDING" \in ServerState /\ "CTL_RESET" \in Control
        /\ "CTL_RESET" # "CTL_UNKNOWN"
    BY DEF ServerState, Control
  <2> QED
    BY <1>5, <2>1, stateTells
<1> HIDE DEF r
<1>7. /\ r.control = "CTL_RESET" /\ r.state = "MR_PENDING" /\ r.upgrade = upgrade
      /\ r.depends = upgrade.packages /\ Idles(s, r)
      /\ r.details = [n \in upgrade.packages |-> NewDetail]
  BY <1>4, <1>6 DEF Tells, Idles
<1>8. \A j \in DOMAIN r.sent : r.sent[j].control = "CTL_RESET"
  BY <1>4, <1>6 DEF Tells, ControlMessage
<1> QED
  BY <1>1, <1>7, <1>8

\* A heartbeat: who introduces itself is told the control again, and its sender is noted.
Hearkens(s, r, msg) ==
    /\ r.state = s.state /\ r.control = s.control /\ r.upgrade = s.upgrade
    /\ r.depends = s.depends /\ r.hasFeed = s.hasFeed /\ r.posted = s.posted
    /\ Members(r) = Members(s)
    /\ \A n \in Members(s) : n # msg.name => r.details[n] = s.details[n]
    /\ msg.name \in Members(s) =>
         /\ r.details[msg.name].state = msg.report.state
         /\ r.details[msg.name].deploy = s.details[msg.name].deploy
    /\ \/ r.sent = s.sent
       \/ /\ msg.discovery /\ s.control # "CTL_UNKNOWN"
          /\ r.sent = Append(s.sent, ControlMessage(s, s.control, TRUE))

\* The handler of a heartbeat does so, whether or not it introduces.
LEMMA HeardHearkens ==
    ASSUME NEW s, Typed(s), NEW msg \in Messages
    PROVE  Hearkens(s, Heard(s, msg), msg)
<1> DEFINE known == msg.name \in Members(s)
           subscribed == [s EXCEPT !.detailSubscribed = s.detailSubscribed \/ msg.watcher]
           again == [subscribed EXCEPT !.sent =
                       Append(subscribed.sent, ControlMessage(subscribed, subscribed.control, TRUE))]
           resent == IF msg.discovery /\ (known \/ msg.watcher)
                     THEN resendControlMessage(subscribed) ELSE subscribed
           heard == [resent EXCEPT !.details[msg.name] = Updated(resent.details[msg.name], msg.report)]
           r == Heard(s, msg)
<1>1. PICK S \in SUBSET Names : s \in Server(S)
  BY DEF Typed
<1>2. subscribed \in Server(S)
  BY <1>1, ZenonT(60) DEF Server
<1>3. /\ subscribed.state = s.state /\ subscribed.control = s.control
      /\ subscribed.upgrade = s.upgrade /\ subscribed.depends = s.depends
      /\ subscribed.hasFeed = s.hasFeed /\ subscribed.posted = s.posted
      /\ subscribed.details = s.details /\ subscribed.sent = s.sent
  BY <1>1 DEF Server
<1>4. r = IF known THEN heard ELSE resent
  BY DEF Heard
<1> HIDE DEF subscribed, r
<1>5. \/ resent = subscribed
      \/ msg.discovery /\ s.control # "CTL_UNKNOWN" /\ resent = again
  BY <1>3 DEF resendControlMessage
<1>6. Typed(resent)
  <2>1. Typed(subscribed)
    BY <1>2 DEF Typed
  <2> QED
    BY <2>1, resendControlTyped
<1> HIDE DEF resent
<1>7. /\ again.state = s.state /\ again.control = s.control
      /\ again.upgrade = s.upgrade /\ again.depends = s.depends
      /\ again.hasFeed = s.hasFeed /\ again.posted = s.posted
      /\ again.details = s.details
      /\ again.sent = Append(s.sent, ControlMessage(s, s.control, TRUE))
  BY <1>2, <1>3 DEF Server, ControlMessage
<1> HIDE DEF again
<1>8. /\ resent.state = s.state /\ resent.control = s.control
      /\ resent.upgrade = s.upgrade /\ resent.depends = s.depends
      /\ resent.hasFeed = s.hasFeed /\ resent.posted = s.posted
      /\ resent.details = s.details
      /\ \/ resent.sent = s.sent
         \/ /\ msg.discovery /\ s.control # "CTL_UNKNOWN"
            /\ resent.sent = Append(s.sent, ControlMessage(s, s.control, TRUE))
  BY <1>3, <1>5, <1>7
<1>9. /\ heard.state = resent.state /\ heard.control = resent.control
      /\ heard.upgrade = resent.upgrade /\ heard.depends = resent.depends
      /\ heard.hasFeed = resent.hasFeed /\ heard.posted = resent.posted
      /\ heard.sent = resent.sent
      /\ DOMAIN heard.details = DOMAIN resent.details
      /\ \A n \in DOMAIN resent.details : n # msg.name => heard.details[n] = resent.details[n]
      /\ msg.name \in DOMAIN resent.details =>
           /\ heard.details[msg.name].state = msg.report.state
           /\ heard.details[msg.name].deploy = resent.details[msg.name].deploy
  BY <1>6 DEF Typed, Server, Updated
<1> HIDE DEF heard
<1>10. CASE known
  BY <1>4, <1>8, <1>9, <1>10 DEF Hearkens, Members, r
<1>11. CASE ~known
  BY <1>4, <1>8, <1>11 DEF Hearkens, Members, r
<1> QED
  BY <1>10, <1>11

-----------------------------------------------------------------------------
(* What the loop of the tick makes of it.                                  *)

\* The place of m among F, in the order of the details.
Place(F, m) == Cardinality({k \in F : Before(k, m)})

\* Whoever is before another has a lower place.
LEMMA Placed ==
    ASSUME NEW F \in SUBSET Names, NEW m \in F
    PROVE  /\ Cardinality(F) \in Nat
           /\ Place(F, m) \in Nat /\ Place(F, m) <= Cardinality(F) - 1
           /\ \A k \in F : Before(m, k) => Place(F, m) < Place(F, k)
           /\ \A k \in F : k # m => Before(m, k) \/ Before(k, m)
           /\ Place(F, m) = Cardinality(F) - 1 => \A k \in F : ~Before(m, k)
<1> DEFINE before(x) == {k \in F : Before(k, x)}
<1>1. IsFiniteSet(F) /\ Cardinality(F) \in Nat
  BY ServerAssumption, FS_Subset, FS_CardinalityType
<1>2. /\ \A x \in F : Position[x] \in Nat
      /\ \A x, k \in F : Position[x] = Position[k] => x = k
  BY ServerAssumption
<1>3. ASSUME NEW x \in F
      PROVE  /\ IsFiniteSet(before(x)) /\ Cardinality(before(x)) \in Nat
             /\ Cardinality(before(x)) <= Cardinality(F) - 1
  <2>1. before(x) \in SUBSET (F \ {x}) /\ before(x) \in SUBSET F
    BY <1>2 DEF Before
  <2> HIDE DEF before
  <2>2. IsFiniteSet(F \ {x}) /\ Cardinality(F \ {x}) = Cardinality(F) - 1
    BY <1>1, FS_RemoveElement
  <2>3. IsFiniteSet(before(x)) /\ Cardinality(before(x)) <= Cardinality(F \ {x})
    BY <2>1, <2>2, FS_Subset
  <2>4. Cardinality(before(x)) \in Nat
    BY <2>3, FS_CardinalityType
  <2> QED
    BY <2>2, <2>3, <2>4
<1>4. ASSUME NEW k \in F, Before(m, k)
      PROVE  Cardinality(before(m)) < Cardinality(before(k))
  <2>1. before(m) \in SUBSET before(k) /\ m \in before(k) /\ m \notin before(m)
    BY <1>2, <1>4 DEF Before
  <2> HIDE DEF before
  <2>2. Cardinality(before(m)) <= Cardinality(before(k))
        /\ Cardinality(before(m)) # Cardinality(before(k))
    BY <1>3, <2>1, FS_Subset
  <2> QED
    BY <1>3, <2>2
<1>5. \A k \in F : m # k => Before(m, k) \/ Before(k, m)
  BY <1>2 DEF Before
<1> HIDE DEF before
<1>6. Cardinality(before(m)) = Cardinality(F) - 1 => \A k \in F : ~Before(m, k)
  <2> SUFFICES ASSUME Cardinality(before(m)) = Cardinality(F) - 1, NEW k \in F, Before(m, k)
               PROVE  FALSE
    OBVIOUS
  <2> QED
    BY <1>1, <1>3, <1>4
<1>7. Place(F, m) = Cardinality(before(m)) /\ \A k \in F : Place(F, k) = Cardinality(before(k))
  BY DEF Place, before
<1> QED
  BY <1>1, <1>3, <1>4, <1>5, <1>6, <1>7

\* Every place is somebody's,
LEMMA PlaceTaken ==
    ASSUME NEW F \in SUBSET Names, NEW i \in 1..Cardinality(F)
    PROVE  \E m \in F : Place(F, m) = i - 1
<1> DEFINE c == Cardinality(F)
           g == [m \in F |-> Place(F, m)]
           T == 0..(c - 1)
<1>1. IsFiniteSet(F) /\ c \in Nat
  BY ServerAssumption, FS_Subset, FS_CardinalityType
<1>2. i \in 1..c
  OBVIOUS
<1>3. g \in [F -> T]
  <2>1. \A m \in F : Place(F, m) \in Nat /\ Place(F, m) <= c - 1
    BY Placed
  <2> HIDE DEF c
  <2> QED
    BY <1>1, <2>1
<1>4. \A m, k \in F : m # k => g[m] # g[k]
  <2> SUFFICES ASSUME NEW m \in F, NEW k \in F, m # k
               PROVE  Place(F, m) # Place(F, k)
    OBVIOUS
  <2>1. CASE Before(m, k)
    BY <2>1, Placed
  <2>2. CASE Before(k, m)
    BY <2>2, Placed
  <2> QED
    BY <2>1, <2>2, Placed
<1> HIDE DEF c
<1>5. c - 1 \in Int /\ 0 <= c
  BY <1>1
<1>6. IsFiniteSet(T) /\ Cardinality(T) = c
  BY <1>1, <1>5, FS_Interval
<1>7. i - 1 \in T
  BY <1>1, <1>2
<1> HIDE DEF g, T
<1>8. g \in Injection(F, T)
  BY <1>3, <1>4 DEF Injection, IsInjective
<1>9. g \in Surjection(F, T)
  BY <1>1, <1>6, <1>8, FS_Injection DEF c
<1>10. \E m \in F : g[m] = i - 1
  BY <1>7, <1>9 DEF Surjection
<1> QED
  BY <1>10 DEF g

\* so the names of a set can be counted up,
LEMMA NthIn ==
    ASSUME NEW F \in SUBSET Names, NEW i \in 1..Cardinality(F)
    PROVE  Nth(F, i) \in F
<1>1. \E m \in F : Place(F, m) = i - 1
  BY PlaceTaken
<1>2. \E m \in F : Cardinality({k \in F : Before(k, m)}) = i - 1
  BY <1>1 DEF Place
<1> QED
  BY <1>2 DEF Nth

\* and one of them is the last.
LEMMA LastIn ==
    ASSUME NEW F \in SUBSET Names, F # {}
    PROVE  (CHOOSE m \in F : \A k \in F : ~Before(m, k)) \in F
<1> DEFINE c == Cardinality(F)
<1>1. c \in Nat /\ c # 0
  BY ServerAssumption, FS_Subset, FS_CardinalityType, FS_EmptySet
<1>2. c \in 1..c
  <2> HIDE DEF c
  <2> QED
    BY <1>1
<1>3. PICK m \in F : Place(F, m) = c - 1
  BY <1>2, PlaceTaken
<1>4. \A k \in F : ~Before(m, k)
  BY <1>3, Placed
<1> QED
  BY <1>4

\* What the loop never changes.
Looks(s, r) ==
    /\ Typed(r) /\ Members(r) = Members(s) /\ r.state = s.state /\ r.control = s.control
    /\ r.upgrade = s.upgrade /\ r.hasFeed = s.hasFeed /\ r.feedType = s.feedType
    /\ r.hasNewId = s.hasNewId /\ r.cacheState = s.cacheState
    /\ \A w : Tasked(w, r.posted) = w

\* A clock is started for who deploys, and only while the server does.
LEMMA StartedOf ==
    ASSUME NEW s, NEW S \in SUBSET Names, s \in Server(S), NEW silent, NEW overdue,
           NEW n \in Members(s), Started(s, silent, overdue)[n]
    PROVE  /\ Deploying(s) /\ ~s.details[n].deploy
           /\ Seen(s, silent)[n].state = "WR_DEPLOY"
<1> DEFINE M == Members(s)
           before(x) == {m \in M : Before(m, x)}
           rests(x) == /\ Deploying(s)
                       /\ x \in Passed(s, silent, overdue)
                       /\ ~s.details[x].deploy
                       /\ Seen(s, silent)[x].state = "WR_DEPLOY"
           starts(f, x) ==
              /\ rests(x)
              /\ ~hasDepends(Requires[x], DependsAt(s, silent, overdue, f, before(x)))
           body(f) == [x \in M |-> starts(f, x)]
           c == Cardinality(M)
           Good(k) == \E f \in [M -> BOOLEAN] :
                        \A x \in M : Place(M, x) < k => f[x] = starts(f, x)
           K == {k \in Nat : Good(k)}
<1>1. M \in SUBSET Names /\ M = S
  BY MembersTyped
<1>2. c \in Nat
  BY <1>1, ServerAssumption, FS_Subset, FS_CardinalityType
<1>3. Started(s, silent, overdue) = CHOOSE f : f = body(f)
  BY DEF Started
<1>4. ASSUME NEW f, NEW g, NEW x \in M, \A y \in M : Before(y, x) => f[y] = g[y]
      PROVE  starts(f, x) = starts(g, x)
  <2> DEFINE finished == Finishing(s, silent, overdue) \cap before(x)
             last == CHOOSE m \in finished : \A k \in finished : ~Before(m, k)
  <2>1. CASE finished = {}
    <3>1. DependsAt(s, silent, overdue, f, before(x)) = {y \in Names : y \in s.depends}
          /\ DependsAt(s, silent, overdue, g, before(x)) = {y \in Names : y \in s.depends}
      BY <2>1 DEF DependsAt
    <3> HIDE DEF before, rests
    <3> QED
      BY <3>1
  <2>2. CASE finished # {}
    <3>1. finished \in SUBSET Names
      BY <1>1
    <3>2. last \in finished
      <4> HIDE DEF finished
      <4> QED
        BY <2>2, <3>1, LastIn
    <3>3. last \in M /\ Before(last, x)
      BY <3>2
    <3>4. DependsAt(s, silent, overdue, f, before(x))
            = {y \in Names : y \in DependsAfter(s, silent, overdue, f, last)}
          /\ DependsAt(s, silent, overdue, g, before(x))
            = {y \in Names : y \in DependsAfter(s, silent, overdue, g, last)}
      BY <2>2 DEF DependsAt
    <3> HIDE DEF finished, last, rests, before
    <3>5. ASSUME NEW y \in M, Before(y, last)
          PROVE  f[y] = g[y]
      <4>1. Before(y, x)
        BY <1>1, <3>3, <3>5, ServerAssumption DEF Before
      <4> QED
        BY <1>4, <4>1
    <3>6. DependsAfter(s, silent, overdue, f, last) = DependsAfter(s, silent, overdue, g, last)
      BY <3>5, Zenon DEF DependsAfter
    <3> QED
      BY <3>4, <3>6
  <2> QED
    BY <2>1, <2>2
<1>5. \A f, x : starts(f, x) \in BOOLEAN
  OBVIOUS
<1> HIDE DEF starts
<1>6. 0 \in K
  <2>1. [x \in M |-> FALSE] \in [M -> BOOLEAN]
    OBVIOUS
  <2>2. \A x \in M : ~(Place(M, x) < 0)
    <3> HIDE DEF M
    <3> QED
      BY <1>1, Placed
  <2> QED
    BY <2>1, <2>2
<1>7. ASSUME NEW k \in 1..c, k - 1 \in K
      PROVE  k \in K
  <2>1. PICK f \in [M -> BOOLEAN] :
          \A x \in M : Place(M, x) < k - 1 => f[x] = starts(f, x)
    BY <1>7
  <2> DEFINE g == [x \in M |-> IF Place(M, x) = k - 1 THEN starts(f, x) ELSE f[x]]
  <2>2. g \in [M -> BOOLEAN]
    BY <1>5
  <2>3. ASSUME NEW x \in M, Place(M, x) < k
        PROVE  g[x] = starts(g, x)
    <3>1. Place(M, x) \in Nat /\ \A y \in M : Place(M, y) \in Nat
      <4> HIDE DEF M
      <4> QED
        BY <1>1, Placed
    <3>2. ASSUME NEW y \in M, Before(y, x)
          PROVE  f[y] = g[y]
      <4>1. Place(M, y) < Place(M, x)
        <5> HIDE DEF M
        <5> QED
          BY <1>1, <3>2, Placed
      <4>2. Place(M, y) # k - 1
        BY <2>3, <3>1, <4>1
      <4> QED
        BY <4>2
    <3>3. starts(f, x) = starts(g, x)
      <4> HIDE DEF g
      <4> QED
        BY <1>4, <3>2
    <3>4. g[x] = starts(f, x)
      BY <2>1, <2>3, <3>1
    <3> QED
      BY <3>3, <3>4
  <2> HIDE DEF g, M
  <2>4. Good(k)
    BY <2>2, <2>3
  <2> QED
    BY <2>4
<1>8. c \in K
  <2> HIDE DEF K, c, M
  <2>1. 0..c \subseteq K
    BY <1>2, <1>6, <1>7, Upto
  <2> QED
    BY <1>2, <2>1
<1>9. \E f : f = body(f)
  <2>1. PICK f \in [M -> BOOLEAN] : \A x \in M : Place(M, x) < c => f[x] = starts(f, x)
    BY <1>8
  <2>2. \A x \in M : Place(M, x) < c
    <3> HIDE DEF M
    <3> QED
      BY <1>1, <1>2, Placed
  <2>3. f = body(f)
    BY <2>1, <2>2
  <2> QED
    BY <2>3
<1>10. Started(s, silent, overdue) = body(Started(s, silent, overdue))
  <2> HIDE DEF body
  <2> QED
    BY <1>3, <1>9
<1>11. starts(Started(s, silent, overdue), n)
  BY <1>10
<1> QED
  BY <1>11 DEF starts

\* The fields it writes.
Resends(s, finishing) == IF s.control = "CTL_DEPLOY" THEN Cardinality(finishing) ELSE 0
Loops(s, silent, overdue, r) ==
    LET started == Started(s, silent, overdue)
        finishing == Finishing(s, silent, overdue)
    IN /\ Looks(s, r)
       /\ r.sent = [i \in 1..Resends(s, finishing) |-> Resent(s, silent, overdue, started, i)]
       /\ r.depends = DependsAt(s, silent, overdue, started, Members(s))
       /\ \A n \in Members(s) :
            /\ r.details[n].state \in {s.details[n].state, Seen(s, silent)[n].state}
            /\ r.details[n].deploy = ((s.details[n].deploy /\ n \notin finishing) \/ started[n])

\* The walk along the details in closed form.
LEMMA LoopedFields ==
    ASSUME NEW s, Typed(s), s.sent = <<>>, s.posted = <<>>,
           NEW silent \in SUBSET Members(s), NEW overdue \in SUBSET Members(s)
    PROVE  Loops(s, silent, overdue, Looped(s, silent, overdue))
<1> DEFINE started == Started(s, silent, overdue)
           finishing == Finishing(s, silent, overdue)
           visited == Visited(s, silent, overdue)
           count == IF s.control = "CTL_DEPLOY" THEN Cardinality(finishing) ELSE 0
           resends == 1..count
           body(n) == IF n \in visited THEN Seen(s, silent)[n] ELSE s.details[n]
           details == [n \in Members(s) |->
              [body(n) EXCEPT !.deploy = (@ /\ n \notin finishing) \/ started[n]]]
           depends == DependsAt(s, silent, overdue, started, Members(s))
           resent == [i \in resends |-> Resent(s, silent, overdue, started, i)]
           feed == Feed(s, "TP_DEPLOY", "EXE_SCHEDULED", "RS_SUCCESS")
           feeds == [i \in resends |-> feed]
           sent == s.sent \o resent
           posted == s.posted \o feeds
           r == Looped(s, silent, overdue)
<1>1. PICK S \in SUBSET Names : s \in Server(S)
  BY DEF Typed
<1>2. Members(s) = S /\ s.details \in [S -> Detail]
  BY <1>1, MembersTyped DEF Server
<1>3. Typed(r)
  BY <1>1, <1>2, LoopedTyped DEF Typed
<1>4. r = [s EXCEPT !.details = details, !.depends = depends, !.sent = sent,
                    !.posted = posted]
  BY DEF Looped
<1>5. DOMAIN details = Members(s)
  OBVIOUS
<1>6. ASSUME NEW n \in Members(s)
      PROVE  /\ details[n].state \in {s.details[n].state, Seen(s, silent)[n].state}
             /\ details[n].deploy = ((s.details[n].deploy /\ n \notin finishing) \/ started[n])
  <2>1. s.details[n] \in Detail
    BY <1>2
  <2>2. Seen(s, silent)[n] \in Detail
    BY <1>1, <1>2, SeenTyped
  <2>3. Seen(s, silent)[n].deploy = s.details[n].deploy
    BY <2>1 DEF Seen, Detail
  <2>4. /\ body(n) \in Detail /\ body(n).deploy = s.details[n].deploy
        /\ body(n).state \in {s.details[n].state, Seen(s, silent)[n].state}
    BY <2>1, <2>2, <2>3
  <2> HIDE DEF body, started, finishing
  <2>5. details[n] = [body(n) EXCEPT !.deploy = (@ /\ n \notin finishing) \/ started[n]]
    OBVIOUS
  <2> HIDE DEF details
  <2> QED
    BY <2>4, <2>5 DEF Detail
<1>7. count \in Nat
  BY <1>1, FinishingFinite
<1>8. feed.req = "REQ_FEEDBACK"
  BY DEF Feed
<1>9. /\ resent \in Seq({Resent(s, silent, overdue, started, i) : i \in resends})
      /\ feeds \in Seq({feed})
  <2> HIDE DEF count, feed, started
  <2> QED
    BY <1>7
<1>10. \A w : Tasked(w, feeds) = w
  <2>1. \A i \in DOMAIN feeds : feeds[i].req = "REQ_FEEDBACK"
    BY <1>8
  <2> HIDE DEF feeds
  <2> QED
    BY <2>1, TaskedReports
<1>11. sent = resent /\ posted = feeds
  <2> HIDE DEF resent, feeds
  <2> QED
    BY <1>9
<1> HIDE DEF details, depends, sent, posted, resent, feeds
<1>12. /\ r.details = details /\ r.depends = depends /\ r.sent = sent /\ r.posted = posted
       /\ r.state = s.state /\ r.control = s.control
       /\ r.upgrade = s.upgrade /\ r.hasFeed = s.hasFeed /\ r.feedType = s.feedType
       /\ r.hasNewId = s.hasNewId /\ r.cacheState = s.cacheState
  <2> HIDE DEF r
  <2> QED
    BY <1>1, <1>4 DEF Server
<1> HIDE DEF r
<1>13. Looks(s, r)
  BY <1>3, <1>5, <1>10, <1>11, <1>12 DEF Looks, Members
<1>14. \A n \in Members(s) :
         /\ r.details[n].state \in {s.details[n].state, Seen(s, silent)[n].state}
         /\ r.details[n].deploy = ((s.details[n].deploy /\ n \notin finishing) \/ started[n])
  BY <1>6, <1>12
<1>15. /\ r.sent = [i \in resends |-> Resent(s, silent, overdue, started, i)]
       /\ r.depends = DependsAt(s, silent, overdue, started, Members(s))
  BY <1>11, <1>12 DEF resent, depends
<1> HIDE DEF started, finishing, resends, r
<1>16. /\ Looks(s, r)
       /\ r.sent = [i \in resends |-> Resent(s, silent, overdue, started, i)]
       /\ r.depends = DependsAt(s, silent, overdue, started, Members(s))
       /\ \A n \in Members(s) :
            /\ r.details[n].state \in {s.details[n].state, Seen(s, silent)[n].state}
            /\ r.details[n].deploy =
                 ((s.details[n].deploy /\ n \notin finishing) \/ started[n])
  BY <1>13, <1>14, <1>15
<1>17. resends = 1..Resends(s, finishing)
  BY DEF resends, count, Resends, finishing
<1> QED
  BY <1>16, <1>17 DEF Loops, r, started, finishing

\* The loop before the deployment: it tells nobody anything and starts no clock.
Stays(s, silent, r) ==
    /\ Looks(s, r) /\ r.sent = <<>> /\ r.depends = s.depends
    /\ \A n \in Members(s) :
         /\ r.details[n].deploy => s.details[n].deploy
         /\ r.details[n].state \in {s.details[n].state, Seen(s, silent)[n].state}

\* So it is in every state but the deployment,
LEMMA LoopedStays ==
    ASSUME NEW s, Typed(s), s.sent = <<>>, s.posted = <<>>, ~Deploying(s),
           NEW silent \in SUBSET Members(s), NEW overdue \in SUBSET Members(s)
    PROVE  Stays(s, silent, Looped(s, silent, overdue))
<1> DEFINE r == Looped(s, silent, overdue)
           started == Started(s, silent, overdue)
           finishing == Finishing(s, silent, overdue)
<1>1. PICK S \in SUBSET Names : s \in Server(S)
  BY DEF Typed
<1>2. Loops(s, silent, overdue, r)
  <2> HIDE DEF r
  <2> QED
    BY LoopedFields DEF r
<1> HIDE DEF r
<1>3. /\ Looks(s, r)
      /\ r.sent = [i \in 1..Resends(s, finishing) |-> Resent(s, silent, overdue, started, i)]
      /\ r.depends = DependsAt(s, silent, overdue, started, Members(s))
      /\ \A n \in Members(s) :
           /\ r.details[n].state \in {s.details[n].state, Seen(s, silent)[n].state}
           /\ r.details[n].deploy = ((s.details[n].deploy /\ n \notin finishing) \/ started[n])
  BY <1>2 DEF Loops
<1>4. finishing = {}
  BY DEF Finishing
<1>5. \A n \in Members(s) : ~started[n]
  <2> HIDE DEF started
  <2> QED
    BY <1>1, StartedOf DEF started
<1>6. r.depends = s.depends
  <2>1. s.depends \in SUBSET Names
    BY <1>1 DEF Server
  <2>2. DependsAt(s, silent, overdue, started, Members(s)) = {n \in Names : n \in s.depends}
    BY <1>4 DEF DependsAt
  <2> QED
    BY <1>3, <2>1, <2>2
<1>7. r.sent = <<>>
  <2>1. Resends(s, finishing) = 0
    BY <1>4, FS_EmptySet DEF Resends
  <2> HIDE DEF started, finishing
  <2> QED
    BY <1>3, <2>1
<1> HIDE DEF started, finishing
<1> QED
  BY <1>3, <1>5, <1>6, <1>7 DEF Stays, r

\* The loop of the deployment, of controllers that are all connected: whoever deploys has
\* its clock started; whoever has finished, stopped, and all are told who is still waiting.
Proceeds(s, r) ==
    /\ Looks(s, r)
    /\ \A n \in Members(s) :
         /\ r.details[n].state = s.details[n].state
         /\ r.details[n].deploy => s.details[n].deploy \/ s.details[n].state = "WR_DEPLOY"
    /\ \A j \in DOMAIN r.sent : \E m \in Members(s) :
         /\ r.sent[j].control = "CTL_DEPLOY" /\ r.sent[j].upgrade = s.upgrade
         /\ s.details[m].deploy /\ ~r.details[m].deploy
         /\ s.details[m].state = "WR_IDLE" /\ s.details[m].version = "target"
         /\ \A p \in Members(s) : s.details[p].state = "WR_WAIT" => p \in r.sent[j].depends

\* and in the deployment it goes on like this.
LEMMA LoopedProceeds ==
    ASSUME NEW s, Typed(s), s.sent = <<>>, s.posted = <<>>, s.control = "CTL_DEPLOY",
           NEW overdue \in SUBSET Members(s)
    PROVE  Proceeds(s, Looped(s, {}, overdue))
<1> DEFINE r == Looped(s, {}, overdue)
           started == Started(s, {}, overdue)
           finishing == Finishing(s, {}, overdue)
<1>1. PICK S \in SUBSET Names : s \in Server(S)
  BY DEF Typed
<1>2. Loops(s, {}, overdue, r)
  <2> HIDE DEF r
  <2> QED
    BY LoopedFields DEF r
<1> HIDE DEF r
<1>3. /\ Looks(s, r)
      /\ r.sent = [i \in 1..Resends(s, finishing) |-> Resent(s, {}, overdue, started, i)]
      /\ \A n \in Members(s) :
           /\ r.details[n].state \in {s.details[n].state, Seen(s, {})[n].state}
           /\ r.details[n].deploy = ((s.details[n].deploy /\ n \notin finishing) \/ started[n])
  BY <1>2 DEF Loops
<1>4. \A n \in Members(s) : Seen(s, {})[n] = s.details[n]
  BY DEF Seen
<1>5. \A n \in Members(s) :
        started[n] => ~s.details[n].deploy /\ s.details[n].state = "WR_DEPLOY"
  <2> HIDE DEF started
  <2> QED
    BY <1>1, <1>4, StartedOf DEF started
<1>6. finishing \in SUBSET Names /\ Members(s) \in SUBSET Names
      /\ \A n \in finishing : /\ n \in Members(s) /\ s.details[n].deploy
                              /\ s.details[n].state = "WR_IDLE"
                              /\ s.details[n].version = "target"
  <2>1. Members(s) \in SUBSET Names
    BY <1>1, MembersTyped
  <2> QED
    BY <1>4, <2>1 DEF Finishing, Passed, Visited, detectVersionEqual
<1>7. Resends(s, finishing) = Cardinality(finishing) /\ Cardinality(finishing) \in Nat
  <2>1. Cardinality(finishing) \in Nat
    BY <1>6, ServerAssumption, FS_Subset, FS_CardinalityType
  <2> HIDE DEF finishing
  <2> QED
    BY <2>1 DEF Resends
<1>8. ASSUME NEW j \in DOMAIN r.sent
      PROVE  \E m \in Members(s) :
               /\ r.sent[j].control = "CTL_DEPLOY" /\ r.sent[j].upgrade = s.upgrade
               /\ s.details[m].deploy /\ ~r.details[m].deploy
               /\ s.details[m].state = "WR_IDLE" /\ s.details[m].version = "target"
               /\ \A p \in Members(s) : s.details[p].state = "WR_WAIT" => p \in r.sent[j].depends
  <2> DEFINE m == Nth(finishing, j)
  <2>1. j \in 1..Cardinality(finishing) /\ r.sent[j] = Resent(s, {}, overdue, started, j)
    <3> HIDE DEF finishing, started
    <3> QED
      BY <1>3, <1>7
  <2>2. m \in finishing
    <3> HIDE DEF finishing
    <3> QED
      BY <1>6, <2>1, NthIn
  <2>3. Resent(s, {}, overdue, started, j) =
          [ControlMessage(s, "CTL_DEPLOY", FALSE) EXCEPT
             !.depends = DependsAfter(s, {}, overdue, started, m)]
    BY DEF Resent
  <2> HIDE DEF m, started, finishing
  <2>4. /\ r.sent[j].control = "CTL_DEPLOY" /\ r.sent[j].upgrade = s.upgrade
        /\ r.sent[j].depends = DependsAfter(s, {}, overdue, started, m)
    BY <2>1, <2>3 DEF ControlMessage
  <2>5. \A p \in Members(s) : s.details[p].state = "WR_WAIT" =>
          p \in DependsAfter(s, {}, overdue, started, m)
    BY <1>4 DEF DependsAfter
  <2> QED
    BY <1>3, <1>5, <1>6, <2>2, <2>4, <2>5
<1> HIDE DEF started, finishing
<1> QED
  BY <1>3, <1>4, <1>5, <1>8 DEF Proceeds, r

-----------------------------------------------------------------------------
(* The invariant.                                                          *)

\* The controllers depend on each other in a line: of any two, the one of higher rank
\* requires the other or one that is not below that.
Line(rank) ==
    /\ rank \in [Controllers -> Nat]
    /\ \A m, n \in Controllers : rank[m] = rank[n] => m = n
    /\ \A m, n \in Controllers : rank[m] < rank[n] =>
         \E p \in Requires[n] \cap Controllers : rank[m] <= rank[p]

\* What n requires is installed; it releases nothing else than the upgrade, and then only.
Satisfied(n) == \A m \in Requires[n] \cap Controllers : clients[m].installed # 0
Rightful(u, n) == \A x : Releases(n, clients[n], x) => Satisfied(n) /\ x = u.id

\* Once n says that it is in one of A, it says so for good.
Lasts(n, A) ==
    /\ n \in Members(srv) /\ srv.details[n].state \in A =>
         clients[n].state \in A /\ \A i \in DOMAIN wire[n] : wire[n][i].state \in A
    /\ \A i \in DOMAIN wire[n] : wire[n][i].state \in A =>
         clients[n].state \in A /\ \A j \in DOMAIN wire[n] : i <= j => wire[n][j].state \in A

\* It has deployed, as far as the server knows and in fact; all below n have; n has not
\* found its turn.
Over(m) == /\ srv.details[m].state \in Ending /\ ~srv.details[m].deploy
           /\ clients[m].installed # 0
Below(rank, n) == \A m \in Controllers : rank[m] < rank[n] => Over(m)
Fallow(n) == clients[n].state = "WR_WAIT" /\ \A x : ~Releases(n, clients[n], x)

\* Before the deployment.
Forth == srv.control \in {"CTL_UNKNOWN", "CTL_RESET", "CTL_DOWNLOAD"}
Poised(n) ==
    /\ Ahead(clients[n]) /\ Lasts(n, {"WR_WAIT"})
    /\ srv.control # "CTL_DOWNLOAD" => Free(clients[n]) /\ clients[n].state # "WR_WAIT"
    /\ n \in Members(srv) => ~srv.details[n].deploy

\* During the deployment.
Engaged(rank, n) ==
    /\ Afoot(n, clients[n]) /\ Lasts(n, Ending) /\ Lasts(n, Executing) /\ Lasts(n, Ordered)
    /\ srv.details[n].state \in Ordered
    /\ srv.details[n].deploy => srv.details[n].state \in Executing
    /\ Fallow(n) \/ Below(rank, n)

\* The course of the upgrade: nothing yet, its preparation, its deployment, its end.
Resting == srv.control = "CTL_UNKNOWN" /\ offered = {}
Heading(u) ==
    /\ srv.control \in {"CTL_RESET", "CTL_DOWNLOAD"}
    /\ srv.upgrade = u /\ srv.depends = u.packages /\ offered # {}
    /\ srv.state \in Gathering \cup {"MR_DOWNLOAD", "MR_VERIFY", "MR_DISTRIBUTE", "MR_WAIT",
                                     "MR_DEPLOY_ASK"}
    /\ srv.state \in {"MR_WAIT", "MR_DEPLOY_ASK"} => web = "REQ_STOP"
    /\ web \in PreparingTask => srv.control = "CTL_RESET"
    /\ srv.state = "MR_DEPLOY_ASK" => \A n \in Controllers : srv.details[n].state = "WR_WAIT"
Running(u) ==
    /\ srv.state = "MR_DEPLOY" /\ srv.control = "CTL_DEPLOY" /\ web = "REQ_STOP"
    /\ srv.upgrade = u /\ offered # {}
Finished ==
    /\ srv.control = "CTL_CLEAR" /\ srv.state \in {"MR_IDLE", "MR_DONE_ASK", "MR_ERROR_ASK"}
    /\ web = "REQ_STOP" /\ offered # {} /\ srv.hasFeed

\* The invariant.
CInv(u, rank) ==
    /\ Resting \/ Heading(u) \/ Running(u) \/ Finished
    /\ Forth => \A n \in Controllers : Poised(n)
    /\ srv.control = "CTL_DEPLOY" => \A n \in Controllers : Engaged(rank, n)
    /\ \A n \in Controllers : Rightful(u, n)

\* What is said once more is the state.
LEMMA LastsSaid ==
    ASSUME RInv, NEW n \in Controllers, NEW next, ClientStep(n, next), Says(next), NEW S,
           next.sent \in Seq(S), NEW A, clients[n].state \in A => next.state \in A,
           NEW m \in Controllers, Lasts(m, A), next \in Client(n)!ClientHelper
    PROVE  Lasts(m, A)'
<1>1. /\ srv' = srv /\ clients' = [clients EXCEPT ![n] = [next EXCEPT !.sent = <<>>]]
      /\ wire' = [wire EXCEPT ![n] = wire[n] \o next.sent]
  BY DEF ClientStep
<1>2. /\ DOMAIN clients = Controllers /\ DOMAIN wire = Controllers
      /\ wire[n] \in Seq(Client(n)!Heartbeat)
  BY DEF RInv, Aboard, Underway
<1>3. CASE m # n
  <2>1. clients'[m] = clients[m] /\ wire'[m] = wire[m]
    BY <1>1, <1>2, <1>3
  <2> QED
    BY <1>1, <2>1 DEF Lasts
<1>4. CASE m = n
  <2>1. clients'[n].state = next.state
    BY <1>1, <1>2 DEF Client!ClientHelper
  <2>2. wire'[n] = wire[n] \o next.sent
    BY <1>1, <1>2
  <2>3. \A i \in DOMAIN wire'[n] :
          \/ i \in DOMAIN wire[n] /\ wire'[n][i] = wire[n][i]
          \/ i \notin DOMAIN wire[n] /\ wire'[n][i].state = next.state
    <3> SUFFICES ASSUME NEW i \in DOMAIN wire'[n]
                 PROVE  \/ i \in DOMAIN wire[n] /\ wire'[n][i] = wire[n][i]
                        \/ i \notin DOMAIN wire[n] /\ wire'[n][i].state = next.state
      OBVIOUS
    <3>1. CASE i \in DOMAIN wire[n]
      BY <1>2, <2>2, <3>1
    <3>2. CASE i \notin DOMAIN wire[n]
      <4>1. i - Len(wire[n]) \in DOMAIN next.sent
            /\ wire'[n][i] = next.sent[i - Len(wire[n])]
        BY <1>2, <2>2, <3>2
      <4> QED
        BY <3>2, <4>1 DEF Says
    <3> QED
      BY <3>1, <3>2
  <2>4. \A i \in DOMAIN wire[n] : \A j \in DOMAIN wire'[n] : j <= i => j \in DOMAIN wire[n]
    BY <1>2, <2>2
  <2>5. Lasts(n, A)
    BY <1>4
  <2>6. ASSUME NEW i \in DOMAIN wire'[n], wire'[n][i].state \in A
        PROVE  /\ clients'[n].state \in A
               /\ \A j \in DOMAIN wire'[n] : i <= j => wire'[n][j].state \in A
    <3>1. CASE i \in DOMAIN wire[n]
      <4>1. wire[n][i].state \in A
        BY <2>3, <2>6, <3>1
      <4>2. clients[n].state \in A /\ \A j \in DOMAIN wire[n] : i <= j => wire[n][j].state \in A
        BY <2>5, <3>1, <4>1 DEF Lasts
      <4> QED
        BY <2>1, <2>3, <4>2
    <3>2. CASE i \notin DOMAIN wire[n]
      <4>1. next.state \in A
        BY <2>3, <2>6, <3>2
      <4>2. \A j \in DOMAIN wire'[n] : i <= j => j \notin DOMAIN wire[n]
        BY <2>4, <3>2
      <4> QED
        BY <2>1, <2>3, <4>1, <4>2
    <3> QED
      BY <3>1, <3>2
  <2>7. ASSUME n \in Members(srv), srv.details[n].state \in A
        PROVE  /\ clients'[n].state \in A
               /\ \A i \in DOMAIN wire'[n] : wire'[n][i].state \in A
    <3>1. clients[n].state \in A /\ \A i \in DOMAIN wire[n] : wire[n][i].state \in A
      BY <2>5, <2>7 DEF Lasts
    <3> QED
      BY <2>1, <2>3, <3>1
  <2> QED
    BY <1>1, <1>4, <2>6, <2>7 DEF Lasts
<1> QED
  BY <1>3, <1>4

\* A heartbeat is taken off the wire and noted.
LEMMA LastsHeard ==
    ASSUME NEW n, NEW S, wire[n] \in Seq(S), wire[n] # <<>>, wire'[n] = Tail(wire[n]),
           clients'[n].state = clients[n].state,
           n \in Members(srv)' => srv'.details[n].state = Head(wire[n]).state,
           NEW A, Lasts(n, A)
    PROVE  Lasts(n, A)'
<1>1. /\ 1 \in DOMAIN wire[n] /\ Head(wire[n]) = wire[n][1]
      /\ \A i \in DOMAIN wire[n] : 1 <= i
      /\ \A i \in DOMAIN wire'[n] : i \in Nat /\ i + 1 \in DOMAIN wire[n]
                                    /\ wire'[n][i] = wire[n][i + 1]
  OBVIOUS
<1>2. ASSUME NEW i \in DOMAIN wire'[n], wire'[n][i].state \in A
      PROVE  /\ clients'[n].state \in A
             /\ \A j \in DOMAIN wire'[n] : i <= j => wire'[n][j].state \in A
  <2>1. /\ clients[n].state \in A
        /\ \A j \in DOMAIN wire[n] : i + 1 <= j => wire[n][j].state \in A
    BY <1>1, <1>2 DEF Lasts
  <2> QED
    BY <1>1, <2>1
<1>3. ASSUME n \in Members(srv)', srv'.details[n].state \in A
      PROVE  /\ clients'[n].state \in A
             /\ \A i \in DOMAIN wire'[n] : wire'[n][i].state \in A
  <2>1. /\ clients[n].state \in A
        /\ \A j \in DOMAIN wire[n] : 1 <= j => wire[n][j].state \in A
    BY <1>1, <1>3 DEF Lasts
  <2> QED
    BY <1>1, <2>1
<1> QED
  BY <1>2, <1>3 DEF Lasts

\* The server notes nothing new of n.
LEMMA LastsKept ==
    ASSUME NEW n, wire'[n] = wire[n], clients'[n].state = clients[n].state, NEW A, Lasts(n, A),
           n \in Members(srv)' /\ srv'.details[n].state \in A =>
             n \in Members(srv) /\ srv.details[n].state \in A
    PROVE  Lasts(n, A)'
  BY DEF Lasts

\* Who has said that it waits, and waits for good, waits and has said nothing else.
LEMMA LastsAll ==
    ASSUME NEW n, n \in Members(srv), srv.details[n].state = "WR_WAIT", Lasts(n, {"WR_WAIT"})
    PROVE  clients[n].state = "WR_WAIT" /\ \A i \in DOMAIN wire[n] : wire[n][i].state = "WR_WAIT"
  BY DEF Lasts

\* What the broadcasts of a step let the controllers release.
LEMMA ServedRightful ==
    ASSUME RInv, NEW u, NEW next, ServerStep(next), next.sent \in Seq(Broadcast),
           \A n \in Controllers : Rightful(u, n),
           \A n \in Controllers : \A j \in DOMAIN next.sent :
             next.sent[j].control = "CTL_DEPLOY" =>
               /\ next.sent[j].upgrade = u
               /\ ~hasDepends(Requires[n], next.sent[j].depends) => Satisfied(n)
    PROVE  \A n \in Controllers : /\ Rightful(u, n)'
                                  /\ Fed(n, clients[n], clients'[n], next.sent)
                                  /\ Longer(clients[n], clients'[n], Len(next.sent))
                                  /\ Fit(n, clients[n]) /\ Fit(n, clients'[n])
<1>1. srv' = next /\ clients' = [n \in Controllers |-> Delivered(n, next.sent)]
  BY DEF ServerStep
<1>2. ASSUME NEW n \in Controllers
      PROVE  /\ Fed(n, clients[n], clients'[n], next.sent)
             /\ Longer(clients[n], clients'[n], Len(next.sent))
             /\ Fit(n, clients[n]) /\ Fit(n, clients'[n])
             /\ clients'[n].installed = clients[n].installed
  <2>1. Fit(n, clients[n])
    BY DEF RInv, Aboard
  <2>2. clients'[n] = Delivered(n, next.sent)
    BY <1>1
  <2> QED
    BY <2>1, <2>2, DeliveredFed DEF Fed, Onto
<1>3. \A n \in Controllers : Satisfied(n) => Satisfied(n)'
  BY <1>2 DEF Satisfied
<1>4. ASSUME NEW n \in Controllers, NEW x, Releases(n, clients'[n], x)
      PROVE  Satisfied(n)' /\ x = u.id
  <2>1. CASE Releases(n, clients[n], x)
    <3>1. \A y : Releases(n, clients[n], y) => Satisfied(n) /\ y = u.id
      BY DEF Rightful
    <3>2. Satisfied(n) /\ x = u.id
      BY <2>1, <3>1, Zenon
    <3> QED
      BY <1>3, <3>2
  <2>2. CASE ~Releases(n, clients[n], x)
    <3> DEFINE sent == next.sent
    <3>1. Fed(n, clients[n], clients'[n], sent)
      BY <1>2
    <3> HIDE DEF sent
    <3>2. PICK j \in DOMAIN sent :
            /\ sent[j].control = "CTL_DEPLOY" /\ sent[j].upgrade.id = x
            /\ ~hasDepends(Requires[n], sent[j].depends)
      BY <1>4, <2>2, <3>1, FedReleases
    <3> QED
      BY <1>3, <3>2 DEF sent
  <2> QED
    BY <2>1, <2>2
<1> QED
  BY <1>2, <1>4 DEF Rightful

-----------------------------------------------------------------------------
(* The preparation, and how it ends.                                       *)

\* The controllers are those of the one upgrade.
LEMMA OneUpgrade ==
    ASSUME NEW u, Upgrades = {u}
    PROVE  Controllers = u.packages
  BY DEF Controllers

\* Resets change nothing before the deployment.
LEMMA PoisedServed ==
    ASSUME NEW n, NEW sent, Fed(n, clients[n], clients'[n], sent), Poised(n),
           \A j \in DOMAIN sent : sent[j].control = "CTL_RESET",
           Lasts(n, {"WR_WAIT"})', srv'.control # "CTL_DOWNLOAD" => srv.control # "CTL_DOWNLOAD",
           n \in Members(srv)' => ~srv'.details[n].deploy
    PROVE  Poised(n)'
<1>1. Ahead(clients'[n]) /\ (Free(clients[n]) => Free(clients'[n]))
  BY FedAhead DEF Poised
<1>2. clients'[n].state = clients[n].state
  BY FedEvents
<1> QED
  BY <1>1, <1>2 DEF Poised

\* What a handler that goes on with the preparation begins with.
Upon(u, q) ==
    /\ q.upgrade = u /\ q.depends = u.packages /\ q.control = srv.control /\ q.sent = <<>>
    /\ Members(q) = Members(srv) /\ Typed(q)
    /\ \A n \in Members(srv) :
         /\ q.details[n].deploy => srv.details[n].deploy
         /\ q.details[n].state = "WR_WAIT" => srv.details[n].state = "WR_WAIT"
         /\ srv.state = "MR_DEPLOY_ASK" => q.details[n].state = srv.details[n].state

\* The preparation goes on, and nobody is told anything.
LEMMA HeadingStays ==
    ASSUME RInv, NEW u, Upgrades = {u}, NEW rank, CInv(u, rank), Heading(u),
           NEW next, ServerStep(next), wire' = wire, offered' = offered,
           NEW q, Upon(u, q), Steady(q, next),
           next.state \in Gathering \cup {"MR_DOWNLOAD", "MR_VERIFY", "MR_DISTRIBUTE", "MR_WAIT",
                                          "MR_DEPLOY_ASK"},
           next.state \in {"MR_WAIT", "MR_DEPLOY_ASK"} => web' = "REQ_STOP",
           web' \in PreparingTask => srv.control = "CTL_RESET",
           next.state = "MR_DEPLOY_ASK" =>
             \A n \in Controllers : next.details[n].state = "WR_WAIT"
    PROVE  CInv(u, rank)'
<1>1. /\ srv' = next /\ next.sent = <<>> /\ next.control = srv.control
      /\ next.upgrade = u /\ next.depends = u.packages /\ next.details = q.details
  BY DEF ServerStep, Upon, Steady
<1>2. next.sent \in Seq(Broadcast) /\ DOMAIN next.sent = {}
  BY <1>1
<1>3. \A n \in Controllers : Rightful(u, n)' /\ Fed(n, clients[n], clients'[n], next.sent)
  BY <1>2, ServedRightful DEF CInv
<1>4. Heading(u)'
  BY <1>1 DEF Heading
<1>5. Forth
  BY DEF Heading, Forth
<1>6. Members(srv)' = Members(srv)
  BY <1>1 DEF Upon, Members
<1>7. ASSUME NEW n \in Controllers
      PROVE  Poised(n)'
  <2>1. Poised(n) /\ Lasts(n, {"WR_WAIT"})
    BY <1>5 DEF CInv, Poised
  <2>2. clients'[n].state = clients[n].state
    BY <1>3, FedEvents
  <2>3. Lasts(n, {"WR_WAIT"})'
    BY <1>1, <1>6, <2>1, <2>2, LastsKept DEF Upon
  <2>4. n \in Members(srv)' => ~srv'.details[n].deploy
    BY <1>1, <1>6, <2>1 DEF Upon, Poised
  <2> QED
    BY <1>1, <1>2, <1>3, <2>1, <2>3, <2>4, PoisedServed
<1>8. srv'.control # "CTL_DEPLOY"
  BY <1>1 DEF Heading
<1> QED
  BY <1>3, <1>4, <1>7, <1>8 DEF CInv

\* It is over.
LEMMA FinishedServed ==
    ASSUME RInv, NEW u, NEW rank, CInv(u, rank), offered' # {},
           NEW next, ServerStep(next), Typed(next),
           next.control = "CTL_CLEAR", next.hasFeed, web' = "REQ_STOP",
           next.state \in {"MR_IDLE", "MR_DONE_ASK", "MR_ERROR_ASK"},
           \A n \in Controllers : \A j \in DOMAIN next.sent :
             next.sent[j].control = "CTL_DEPLOY" =>
               /\ next.sent[j].upgrade = u
               /\ ~hasDepends(Requires[n], next.sent[j].depends) => Satisfied(n)
    PROVE  CInv(u, rank)'
<1>1. srv' = next /\ next.sent \in Seq(Broadcast)
  BY DEF ServerStep, Typed, Server
<1>2. \A n \in Controllers : Rightful(u, n)'
  BY <1>1, ServedRightful DEF CInv
<1>3. Finished'
  BY <1>1 DEF Finished
<1>4. ~Forth' /\ srv'.control # "CTL_DEPLOY"
  BY <1>1 DEF Forth
<1> QED
  BY <1>2, <1>3, <1>4 DEF CInv

\* Who is let by the first order requires nobody, and so nobody is below it.
LEMMA FirstOrder ==
    ASSUME NEW u, Upgrades = {u}, NEW n \in Controllers,
           ~hasDepends(Requires[n], u.packages)
    PROVE  /\ Satisfied(n)
           /\ \A rank : Line(rank) => \A m \in Controllers : ~(rank[m] < rank[n])
<1>1. Requires[n] \cap Controllers = {}
  BY OneUpgrade DEF hasDepends
<1> QED
  BY <1>1 DEF Satisfied, Line

\* All wait: the deployment begins.
LEMMA HeadingDeploys ==
    ASSUME RInv, RInv', NEW u, Upgrades = {u}, NEW rank, Line(rank), CInv(u, rank), Heading(u),
           NEW next, ServerStep(next), wire' = wire, offered' = offered,
           NEW q, Upon(u, q), Tells(q, next, "CTL_DEPLOY"),
           next.state = "MR_DEPLOY", web' = "REQ_STOP",
           \A n \in Controllers : q.details[n].state = "WR_WAIT"
    PROVE  CInv(u, rank)'
<1>1. /\ srv' = next /\ next.control = "CTL_DEPLOY" /\ next.upgrade = u
      /\ next.details = q.details
      /\ next.sent = Append(q.sent, ControlMessage(q, "CTL_DEPLOY", FALSE))
  BY DEF ServerStep, Upon, Tells
<1>2. \A j \in DOMAIN next.sent : /\ next.sent[j].control = "CTL_DEPLOY"
                                  /\ next.sent[j].upgrade = u
                                  /\ next.sent[j].depends = u.packages
  <2>1. next.sent = Append(<<>>, ControlMessage(q, "CTL_DEPLOY", FALSE))
    BY <1>1 DEF Upon
  <2> DEFINE message == ControlMessage(q, "CTL_DEPLOY", FALSE)
             sent == next.sent
  <2>2. sent = Append(<<>>, message)
    BY <2>1
  <2> HIDE DEF message, sent
  <2>3. \A j \in DOMAIN sent : sent[j] = message
    BY <2>2
  <2> QED
    BY <2>3 DEF ControlMessage, Upon, message, sent
<1>3. next.sent \in Seq(Broadcast)
  BY <1>1 DEF RInv, AInv, IInv, TypeOK, Server
<1>4. \A n \in Controllers : Rightful(u, n)' /\ Fed(n, clients[n], clients'[n], next.sent)
  BY <1>2, <1>3, FirstOrder, ServedRightful DEF CInv
<1>5. Members(srv) = Controllers /\ Members(srv)' = Controllers
  <2>1. Members(srv) = u.packages
    BY DEF RInv, AInv, IInv, Sound, Matched, Members, Heading
  <2> QED
    BY <1>1, <2>1, OneUpgrade DEF Upon, Members
<1>6. Forth /\ ~Forth'
  BY <1>1 DEF Heading, Forth
<1>7. Running(u)'
  BY <1>1 DEF Running, Heading
<1>8. ASSUME NEW n \in Controllers
      PROVE  Engaged(rank, n)'
  <2> DEFINE c == clients[n]
             d == clients'[n]
  <2>1. Poised(n) /\ Fed(n, c, d, next.sent)
    BY <1>4, <1>6 DEF CInv
  <2>2. srv.details[n].state = "WR_WAIT" /\ srv'.details[n].state = "WR_WAIT"
    BY <1>1, <1>5 DEF Upon
  <2>3. c.state = "WR_WAIT" /\ \A i \in DOMAIN wire[n] : wire[n][i].state = "WR_WAIT"
    BY <1>5, <2>1, <2>2, LastsAll DEF Poised
  <2>4. Afoot(n, c) /\ Afoot(n, d)
    BY <1>2, <2>1, <2>3, AheadAfoot, FedAfoot DEF Poised
  <2>5. d.state = "WR_WAIT"
    BY <2>1, <2>3, FedEvents
  <2>6. Lasts(n, Ending)' /\ Lasts(n, Executing)' /\ Lasts(n, Ordered)'
    BY <2>2, <2>3, <2>5 DEF Lasts, Ending, Executing, Ordered
  <2>7. ~srv'.details[n].deploy
    BY <1>1, <1>5, <2>1 DEF Upon, Poised
  <2>8. (\A x : ~Releases(n, d, x)) \/ Below(rank, n)'
    <3> SUFFICES ASSUME NEW x, Releases(n, d, x)
                 PROVE  Below(rank, n)'
      OBVIOUS
    <3>1. ~Releases(n, c, x)
      <4>1. Ahead(c)
        BY <2>1 DEF Poised
      <4> QED
        BY <4>1 DEF Ahead, Releases, Orders, Preparatory
    <3> DEFINE sent == next.sent
    <3>2. Fed(n, c, d, sent) /\ \A j \in DOMAIN sent : sent[j].depends = u.packages
      BY <1>2, <2>1
    <3> HIDE DEF sent, c, d
    <3>3. PICK j \in DOMAIN sent : ~hasDepends(Requires[n], sent[j].depends)
      BY <3>1, <3>2, FedReleases
    <3>4. ~hasDepends(Requires[n], u.packages)
      BY <3>2, <3>3
    <3>5. \A m \in Controllers : ~(rank[m] < rank[n])
      BY <3>4, FirstOrder
    <3> QED
      BY <3>5 DEF Below
  <2>9. Fallow(n)' \/ Below(rank, n)'
    BY <2>5, <2>8 DEF Fallow
  <2>10. srv'.details[n].state \in Ordered
    BY <2>2 DEF Ordered
  <2> HIDE DEF c
  <2> QED
    BY <2>4, <2>6, <2>7, <2>9, <2>10 DEF Engaged
<1> QED
  BY <1>4, <1>6, <1>7, <1>8 DEF CInv

-----------------------------------------------------------------------------
(* The steps of the server.                                                *)

\* A handler is given the record with nothing sent and nothing asked for.
LEMMA FreshUpon ==
    ASSUME RInv
    PROVE  LET s == Fresh(srv)
           IN /\ Typed(s) /\ s.sent = <<>> /\ s.posted = <<>> /\ s.state = srv.state
              /\ s.control = srv.control /\ s.upgrade = srv.upgrade /\ s.depends = srv.depends
              /\ s.details = srv.details /\ s.hasFeed = srv.hasFeed
              /\ s.feedType = srv.feedType /\ s.hasNewId = srv.hasNewId
              /\ s.cacheState = srv.cacheState /\ Members(s) = Members(srv)
              /\ \A u : Heading(u) => Upon(u, s)
              /\ \A w : Tasked(w, s.posted) = w
<1> DEFINE s == Fresh(srv)
<1>1. PICK S \in SUBSET Names : srv \in Server(S)
  BY DEF RInv, AInv, IInv, TypeOK
<1>2. Typed(s)
  BY FreshServer
<1>3. /\ s.sent = <<>> /\ s.posted = <<>> /\ s.state = srv.state
      /\ s.control = srv.control /\ s.upgrade = srv.upgrade /\ s.depends = srv.depends
      /\ s.details = srv.details /\ s.hasFeed = srv.hasFeed
      /\ s.feedType = srv.feedType /\ s.hasNewId = srv.hasNewId
      /\ s.cacheState = srv.cacheState
  BY <1>1 DEF Fresh, Server
<1> HIDE DEF s
<1>4. Members(s) = Members(srv)
  BY <1>3 DEF Members
<1>5. \A w : Tasked(w, s.posted) = w
  BY <1>3, TaskedReports
<1>6. \A u : Heading(u) => Upon(u, s)
  BY <1>2, <1>3, <1>4 DEF Heading, Upon
<1> QED
  BY <1>2, <1>3, <1>4, <1>5, <1>6 DEF s

\* The upgrade is offered: nobody has said anything of it.
LEMMA OfferChain ==
    ASSUME RInv, OInv, NEW u, Upgrades = {u}, NEW rank, CInv(u, rank), Offer(u)
    PROVE  CInv(u, rank)'
<1> DEFINE s == Fresh(srv)
           next == OnUpgrade(s, u)
<1>1. /\ ServerStep(next) /\ web' = Tasked(web, next.posted) /\ wire' = wire
      /\ offered' = offered \cup {u.id} /\ u.id \notin offered /\ srv' = next
  BY DEF Offer, ServerStep
<1>2. offered = {} /\ srv.state = "MR_IDLE" /\ web = "REQ_STOP"
  BY <1>1, ServerAssumption DEF OInv, Anew
<1>3. Resting /\ Forth
  BY <1>2 DEF CInv, Heading, Running, Finished, Resting, Forth
<1>4. /\ Typed(s) /\ s.sent = <<>> /\ s.state = "MR_IDLE" /\ \A w : Tasked(w, s.posted) = w
  BY <1>2, FreshUpon
<1>5. ~FinalAsk(s)
  BY <1>4 DEF FinalAsk
<1> HIDE DEF s
<1>6. /\ next.control = "CTL_RESET" /\ next.state = "MR_PENDING" /\ next.upgrade = u
      /\ next.depends = u.packages /\ Idles(s, next)
      /\ next.details = [n \in u.packages |-> NewDetail]
      /\ \A j \in DOMAIN next.sent : next.sent[j].control = "CTL_RESET"
  BY <1>4, <1>5, OnUpgradeMakes
<1>7. RInv'
  BY OfferKeeps
<1> HIDE DEF next
<1>8. next.sent \in Seq(Broadcast)
  BY <1>1, <1>7 DEF RInv, AInv, IInv, TypeOK, Server
<1>9. \A n \in Controllers : Rightful(u, n)' /\ Fed(n, clients[n], clients'[n], next.sent)
  <2>1. \A j \in DOMAIN next.sent : next.sent[j].control # "CTL_DEPLOY"
    BY <1>6
  <2> QED
    BY <1>1, <1>8, <2>1, ServedRightful DEF CInv
<1>10. web' = "REQ_STOP"
  BY <1>1, <1>2, <1>4, <1>6 DEF Idles
<1>11. Heading(u)'
  BY <1>1, <1>6, <1>10 DEF Heading, Gathering, PreparingTask
<1>12. \A n \in Members(srv)' : /\ srv'.details[n].state = "WR_OFFLINE"
                                /\ ~srv'.details[n].deploy
  BY <1>1, <1>6 DEF Members, NewDetail
<1>13. ASSUME NEW n \in Controllers
       PROVE  Poised(n)'
  <2>1. Poised(n)
    BY <1>3 DEF CInv
  <2>2. clients'[n].state = clients[n].state
    BY <1>9, FedEvents
  <2>3. Lasts(n, {"WR_WAIT"})'
    BY <1>1, <1>12, <2>1, <2>2, LastsKept DEF Poised
  <2>4. srv.control # "CTL_DOWNLOAD"
    BY <1>3 DEF Resting
  <2> QED
    BY <1>1, <1>6, <1>9, <1>12, <2>1, <2>3, <2>4, PoisedServed
<1>14. srv'.control # "CTL_DEPLOY"
  BY <1>1, <1>6
<1> QED
  BY <1>9, <1>11, <1>13, <1>14 DEF CInv

\* It ends with what was told before.
LEMMA ClearsChain ==
    ASSUME RInv, RInv', NEW u, NEW rank, CInv(u, rank), offered' # {},
           NEW next, ServerStep(next), NEW task, web' = Tasked(task, next.posted),
           NEW q, Clears(q, next),
           \A n \in Controllers : \A j \in DOMAIN q.sent :
             q.sent[j].control = "CTL_DEPLOY" =>
               /\ q.sent[j].upgrade = u
               /\ ~hasDepends(Requires[n], q.sent[j].depends) => Satisfied(n)
    PROVE  CInv(u, rank)'
<1>1. Typed(next)
  BY DEF ServerStep, RInv, AInv, IInv, TypeOK, Typed
<1>2. web' = "REQ_STOP"
  BY DEF Clears, Asks
<1>3. ASSUME NEW n \in Controllers, NEW j \in DOMAIN next.sent,
             next.sent[j].control = "CTL_DEPLOY"
      PROVE  /\ next.sent[j].upgrade = u
             /\ ~hasDepends(Requires[n], next.sent[j].depends) => Satisfied(n)
  <2>1. j \in DOMAIN q.sent /\ next.sent[j] = q.sent[j]
    BY <1>3 DEF Clears
  <2> QED
    BY <1>3, <2>1
<1>4. /\ next.control = "CTL_CLEAR" /\ next.hasFeed
      /\ next.state \in {"MR_IDLE", "MR_DONE_ASK", "MR_ERROR_ASK"}
  BY DEF Clears
<1> QED
  BY <1>1, <1>2, <1>3, <1>4, FinishedServed

\* The results of the web queue.
LEMMA WebChain ==
    ASSUME RInv, RInv', OInv, NEW u, Upgrades = {u}, NEW rank, CInv(u, rank),
           srv'.retryTimes = 0, Downloaded \/ Verified \/ Distributed \/ WebError
    PROVE  CInv(u, rank)'
<1> DEFINE s == Fresh(srv)
<1>1. web # "REQ_STOP" /\ offered # {}
  <2>1. web # "REQ_STOP"
    BY DEF Downloaded, Verified, Distributed, WebError, WebResult
  <2> QED
    BY <2>1 DEF OInv, Anew
<1>2. Heading(u)
  BY <1>1 DEF CInv, Resting, Running, Finished
<1>3. /\ Typed(s) /\ s.sent = <<>> /\ s.state = srv.state /\ Upon(u, s)
      /\ \A w : Tasked(w, s.posted) = w
  BY <1>2, FreshUpon
<1>4. ~FinalAsk(s) /\ srv.state \notin {"MR_WAIT", "MR_DEPLOY_ASK"}
  BY <1>1, <1>2, <1>3 DEF Heading, Gathering, FinalAsk
<1> HIDE DEF s
<1>5. CASE Downloaded \/ Verified
  <2>1. /\ Steady(s, OnDownloadDone(s)) /\ Asks(OnDownloadDone(s), "REQ_VERIFY")
        /\ OnDownloadDone(s).state = "MR_VERIFY"
        /\ Steady(s, OnVerifyDone(s)) /\ Asks(OnVerifyDone(s), "REQ_DISTRIBUTE")
        /\ OnVerifyDone(s).state = "MR_DISTRIBUTE"
    BY <1>3, <1>4, OnResultAsks
  <2>2. PICK next : /\ next = OnDownloadDone(s) \/ next = OnVerifyDone(s)
                    /\ ServerStep(next) /\ web' = Tasked("REQ_STOP", next.posted)
                    /\ wire' = wire /\ offered' = offered /\ web \in PreparingTask
    <3>1. CASE Downloaded
      BY <3>1 DEF Downloaded, WebResult, PreparingTask, s
    <3>2. CASE Verified
      BY <3>2 DEF Verified, WebResult, PreparingTask, s
    <3> QED
      BY <1>5, <3>1, <3>2
  <2>3. Steady(s, next) /\ next.state \in {"MR_VERIFY", "MR_DISTRIBUTE"}
    BY <2>1, <2>2
  <2>4. srv.control = "CTL_RESET"
    BY <1>2, <2>2 DEF Heading
  <2> QED
    BY <1>2, <1>3, <2>2, <2>3, <2>4, HeadingStays
<1>6. CASE Distributed
  <2>1. Moves(s, OnDistributeDone(s), "MR_WAIT")
    BY <1>3, <1>4, OnResultAsks
  <2> DEFINE next == OnDistributeDone(s)
  <2>2. /\ ServerStep(next) /\ web' = Tasked("REQ_STOP", next.posted)
        /\ wire' = wire /\ offered' = offered
    BY <1>6 DEF Distributed, WebResult, s
  <2>3. Steady(s, next) /\ next.state = "MR_WAIT" /\ Idles(s, next)
    BY <2>1 DEF Moves
  <2> HIDE DEF next
  <2>4. web' = "REQ_STOP"
    BY <1>3, <2>2, <2>3 DEF Idles
  <2>5. web' \notin PreparingTask
    BY <2>4 DEF PreparingTask
  <2> QED
    BY <1>2, <1>3, <2>2, <2>3, <2>4, <2>5, HeadingStays
<1>7. CASE WebError
  <2> DEFINE next == OnError(s)
  <2>1. /\ ServerStep(next) /\ web' = Tasked("REQ_STOP", next.posted)
        /\ wire' = wire /\ offered' = offered /\ srv' = next
    BY <1>7 DEF WebError, WebResult, ServerStep, s
  <2>2. Moves(s, next, s.state) \/ Clears(s, next)
    BY <1>3, <2>1, OnErrorClears
  <2> HIDE DEF next
  <2>3. CASE Moves(s, next, s.state)
    <3>1. Steady(s, next) /\ next.state = srv.state /\ Idles(s, next)
      BY <1>3, <2>3 DEF Moves
    <3>2. web' = "REQ_STOP"
      BY <1>3, <2>1, <3>1 DEF Idles
    <3>3. web' \notin PreparingTask
      BY <3>2 DEF PreparingTask
    <3>4. srv.state \in Gathering \cup {"MR_DOWNLOAD", "MR_VERIFY", "MR_DISTRIBUTE", "MR_WAIT",
                                        "MR_DEPLOY_ASK"}
      BY <1>2 DEF Heading
    <3> QED
      BY <1>2, <1>3, <1>4, <2>1, <3>1, <3>2, <3>3, <3>4, HeadingStays
  <2>4. CASE Clears(s, next)
    BY <1>1, <1>3, <2>1, <2>4, ClearsChain
  <2> QED
    BY <2>2, <2>3, <2>4
<1> QED
  BY <1>5, <1>6, <1>7

\* The one control to download.
LEMMA PullChain ==
    ASSUME RInv, RInv', OInv, NEW u, Upgrades = {u}, NEW rank, CInv(u, rank), Pull
    PROVE  CInv(u, rank)'
<1> DEFINE s == Fresh(srv)
           next == OnPull(s, TRUE)
           sent == next.sent
<1>1. /\ web = "REQ_DISTRIBUTE" /\ web' = "distributing" /\ ServerStep(next)
      /\ wire' = wire /\ offered' = offered
  BY DEF Pull
<1>2. Heading(u) /\ offered # {}
  <2>1. offered # {}
    BY <1>1 DEF OInv, Anew
  <2> QED
    BY <1>1, <2>1 DEF CInv, Resting, Running, Finished
<1>3. /\ Typed(s) /\ s.sent = <<>> /\ s.state = srv.state /\ Upon(u, s)
  BY <1>2, FreshUpon
<1>4. ~FinalAsk(s)
  BY <1>2, <1>3 DEF Heading, Gathering, FinalAsk
<1> HIDE DEF s
<1>5. \/ Moves(s, next, "MR_DISTRIBUTE")
      \/ Tells(s, next, "CTL_DOWNLOAD") /\ next.state = "MR_DISTRIBUTE"
  BY <1>3, <1>4, OnPullTells
<1> HIDE DEF next
<1>6. web' \notin PreparingTask
  BY <1>1 DEF PreparingTask
<1>7. CASE Moves(s, next, "MR_DISTRIBUTE")
  <2>1. Steady(s, next) /\ next.state = "MR_DISTRIBUTE"
    BY <1>7 DEF Moves
  <2> QED
    BY <1>1, <1>2, <1>3, <1>6, <2>1, HeadingStays
<1>8. CASE Tells(s, next, "CTL_DOWNLOAD") /\ next.state = "MR_DISTRIBUTE"
  <2> DEFINE message == ControlMessage(s, "CTL_DOWNLOAD", FALSE)
  <2>1. /\ srv' = next /\ next.control = "CTL_DOWNLOAD" /\ next.upgrade = u
        /\ next.depends = u.packages /\ next.details = s.details
        /\ sent = Append(<<>>, message) /\ message.control = "CTL_DOWNLOAD"
    BY <1>1, <1>3, <1>8 DEF ServerStep, Upon, Tells, ControlMessage
  <2> HIDE DEF message, sent
  <2>2. Len(sent) = 1 /\ \A j \in DOMAIN sent : sent[j].control = "CTL_DOWNLOAD"
    BY <2>1
  <2>3. sent \in Seq(Broadcast)
    BY <2>1 DEF RInv, AInv, IInv, TypeOK, Server, sent
  <2>4. \A n \in Controllers : /\ Rightful(u, n)' /\ Fed(n, clients[n], clients'[n], sent)
                               /\ Longer(clients[n], clients'[n], 1)
                               /\ Fit(n, clients[n]) /\ Fit(n, clients'[n])
    <3>1. \A j \in DOMAIN next.sent : next.sent[j].control # "CTL_DEPLOY"
      BY <2>2 DEF sent
    <3> QED
      BY <1>1, <2>2, <2>3, <3>1, ServedRightful DEF CInv, sent
  <2>5. Heading(u)'
    BY <1>1, <1>2, <1>6, <1>8, <2>1 DEF Heading
  <2>6. Forth /\ srv.control = "CTL_RESET"
    BY <1>1, <1>2 DEF Heading, Forth, PreparingTask
  <2>7. Members(srv)' = Members(srv) /\ srv'.details = s.details /\ Members(s) = Members(srv)
    BY <1>3, <2>1 DEF Upon, Members
  <2>8. ASSUME NEW n \in Controllers
        PROVE  Poised(n)'
    <3>1. Poised(n) /\ clients[n] \in Client(n)!ClientHelper
          /\ clients'[n] \in Client(n)!ClientHelper
      BY <2>4, <2>6 DEF CInv, Fit
    <3>2. Ahead(clients'[n])
      BY <2>2, <2>4, <2>6, <3>1, FedDownload DEF Poised
    <3>3. clients'[n].state = clients[n].state
      BY <2>4, FedEvents
    <3>4. Lasts(n, {"WR_WAIT"})'
      BY <1>1, <1>3, <2>7, <3>1, <3>3, LastsKept DEF Poised, Upon
    <3>5. n \in Members(srv)' => ~srv'.details[n].deploy
      BY <1>3, <2>7, <3>1 DEF Poised, Upon
    <3> QED
      BY <2>1, <3>2, <3>4, <3>5 DEF Poised
  <2>9. srv'.control # "CTL_DEPLOY"
    BY <2>1
  <2> QED
    BY <2>4, <2>5, <2>8, <2>9 DEF CInv
<1> QED
  BY <1>5, <1>7, <1>8

\* The preparation goes on where it is, and the web queue at what it does.
LEMMA HeadingMoves ==
    ASSUME RInv, NEW u, Upgrades = {u}, NEW rank, CInv(u, rank), Heading(u),
           NEW next, ServerStep(next), wire' = wire, offered' = offered,
           NEW q, Upon(u, q), Steady(q, next), web' = web,
           next.state = srv.state \/ next.state \in Gathering
             \/ (srv.state = "MR_DEPLOY_ASK" /\ next.state = "MR_WAIT")
    PROVE  CInv(u, rank)'
<1>1. next.state \in Gathering \cup {"MR_DOWNLOAD", "MR_VERIFY", "MR_DISTRIBUTE", "MR_WAIT",
                                     "MR_DEPLOY_ASK"}
  BY DEF Heading
<1>2. next.state \in {"MR_WAIT", "MR_DEPLOY_ASK"} => web' = "REQ_STOP"
  BY DEF Heading, Gathering
<1>3. web' \in PreparingTask => srv.control = "CTL_RESET"
  BY DEF Heading
<1>4. ASSUME next.state = "MR_DEPLOY_ASK", NEW n \in Controllers
      PROVE  next.details[n].state = "WR_WAIT"
  <2>1. srv.state = "MR_DEPLOY_ASK"
    BY <1>4 DEF Gathering
  <2>2. srv.details[n].state = "WR_WAIT" /\ Controllers = u.packages
    BY <2>1, OneUpgrade DEF Heading
  <2>3. Members(srv) = Controllers
    BY <2>2 DEF RInv, AInv, IInv, Sound, Matched, Members, Heading
  <2> QED
    BY <2>1, <2>2, <2>3 DEF Upon, Steady
<1> QED
  BY <1>1, <1>2, <1>3, <1>4, HeadingStays

\* A viewer's answer.
LEMMA AnswerChain ==
    ASSUME RInv, RInv', OInv, NEW u, Upgrades = {u}, NEW rank, Line(rank), CInv(u, rank),
           NEW answer \in Answers, AnswerAsked(answer)
    PROVE  CInv(u, rank)'
<1> DEFINE msg == [name |-> "viewer", watcher |-> TRUE, discovery |-> FALSE,
                   answer |-> answer,
                   report |-> [state |-> "WR_IDLE", last |-> "WR_OFFLINE", error |-> FALSE,
                               version |-> "older"]]
           s == Fresh(srv)
           h == Heard(s, msg)
           next == configAnswer(h, answer)
<1>1. msg \in Messages /\ "viewer" \notin Controllers
  BY RolloutAssumption DEF Message, Report, ClientState, Version, Controllers
<1>2. /\ OnDomain(s, msg) = next /\ ~msg.discovery /\ msg.name = "viewer"
  BY RolloutAssumption DEF OnDomain
<1>3. /\ ServerStep(next) /\ web' = Tasked(web, next.posted) /\ wire' = wire
      /\ offered' = offered /\ mrStateIsAsk(srv.state)
  BY <1>2 DEF AnswerAsked, ServerStep
<1> HIDE DEF msg, next
<1>4. /\ Typed(s) /\ s.sent = <<>> /\ s.state = srv.state /\ s.control = srv.control
      /\ s.hasFeed = srv.hasFeed /\ s.details = srv.details
      /\ Members(s) = Members(srv) /\ (Heading(u) => Upon(u, s))
      /\ \A w : Tasked(w, s.posted) = w
  BY FreshUpon
<1>5. msg.name \notin Members(s)
  <2>1. Members(srv) = srv.upgrade.packages /\ srv.upgrade \in Current
    BY DEF RInv, AInv, IInv, Sound, Matched, Members, TypeOK, Server
  <2>2. Members(srv) \subseteq Controllers
    BY <2>1 DEF Current, NoUpgrade, Controllers
  <2> QED
    BY <1>1, <1>2, <1>4, <2>2
<1> HIDE DEF s
<1>6. Typed(h)
  BY <1>1, <1>2, <1>4, <1>5, HeardLeads DEF Leads
<1>7. Moves(s, h, s.state)
  <2>1. PICK S \in SUBSET Names : s \in Server(S)
    BY <1>4 DEF Typed
  <2>2. h = [s EXCEPT !.detailSubscribed = s.detailSubscribed \/ msg.watcher]
    BY <1>2, <1>5 DEF Heard
  <2>3. /\ h.sent = s.sent /\ h.control = s.control /\ h.upgrade = s.upgrade
        /\ h.depends = s.depends /\ h.details = s.details /\ h.hasFeed = s.hasFeed
        /\ h.posted = s.posted /\ h.state = s.state
    BY <2>1, <2>2 DEF Server
  <2> HIDE DEF h
  <2> QED
    BY <2>3 DEF Moves, Steady, Idles
<1> HIDE DEF h
<1>8. h.state = s.state
  BY <1>7 DEF Moves
<1>9. offered # {} /\ srv.state \notin {"MR_RESUME_ASK"}
  BY <1>3 DEF OInv, Anew, Shown, Marked, mrStateIsAsk
<1>10. Heading(u) \/ Finished
  BY <1>3, <1>9 DEF CInv, Resting, Running, mrStateIsAsk
<1>11. srv.state \in {"MR_DOWNLOAD_ASK", "MR_DEPLOY_ASK", "MR_DONE_ASK", "MR_ERROR_ASK"}
  BY <1>3, <1>10 DEF Heading, Finished, Gathering, mrStateIsAsk
<1>12. \/ Moves(h, next, h.state)
       \/ Clears(h, next)
       \/ /\ h.state = "MR_DOWNLOAD_ASK" /\ Steady(h, next) /\ Asks(next, "REQ_DOWNLOAD")
          /\ next.state = "MR_DOWNLOAD"
       \/ /\ h.state = "MR_DEPLOY_ASK" /\ Tells(h, next, "CTL_DEPLOY")
          /\ next.state = "MR_DEPLOY"
       \/ /\ FinalAsk(h) /\ next.state = "MR_IDLE" /\ next.control = h.control
          /\ next.hasFeed = h.hasFeed /\ next.sent = h.sent /\ Idles(h, next)
  <2>1. h.state \notin {"MR_RESUME_ASK", "MR_CANCEL_ASK"}
    BY <1>4, <1>8, <1>11
  <2> QED
    BY <1>6, <2>1, configAnswerMakes DEF next
<1>13. \/ Moves(s, next, s.state)
       \/ Clears(s, next)
       \/ /\ s.state = "MR_DOWNLOAD_ASK" /\ Steady(s, next) /\ Asks(next, "REQ_DOWNLOAD")
          /\ next.state = "MR_DOWNLOAD"
       \/ /\ s.state = "MR_DEPLOY_ASK" /\ Tells(s, next, "CTL_DEPLOY")
          /\ next.state = "MR_DEPLOY"
       \/ /\ FinalAsk(s) /\ next.state = "MR_IDLE" /\ next.control = s.control
          /\ next.hasFeed = s.hasFeed /\ next.sent = s.sent /\ Idles(s, next)
  <2>1. CASE FinalAsk(h) /\ next.state = "MR_IDLE" /\ next.control = h.control
             /\ next.hasFeed = h.hasFeed /\ next.sent = h.sent /\ Idles(h, next)
    BY <1>7, <2>1 DEF Moves, Steady, Idles, FinalAsk
  <2>2. CASE Moves(h, next, h.state) \/ Clears(h, next)
    <3>1. Moves(h, next, h.state) => Moves(s, next, h.state)
      BY <1>7, MovesThen
    <3>2. Clears(h, next) => Clears(s, next)
      BY <1>7, MovesThen
    <3> QED
      BY <1>8, <2>2, <3>1, <3>2
  <2>3. CASE h.state = "MR_DOWNLOAD_ASK" /\ Steady(h, next) /\ Asks(next, "REQ_DOWNLOAD")
             /\ next.state = "MR_DOWNLOAD"
    BY <1>7, <1>8, <2>3, MovesThen
  <2>4. CASE h.state = "MR_DEPLOY_ASK" /\ Tells(h, next, "CTL_DEPLOY")
             /\ next.state = "MR_DEPLOY"
    BY <1>7, <1>8, <2>4, MovesThen
  <2> QED
    BY <1>12, <2>1, <2>2, <2>3, <2>4
<1>14. CASE Clears(s, next)
  BY <1>3, <1>4, <1>9, <1>14, ClearsChain
<1>15. CASE Heading(u)
  <2>1. ~FinalAsk(s)
    BY <1>4, <1>15 DEF Heading, Gathering, FinalAsk
  <2>2. CASE Moves(s, next, s.state)
    <3>1. Steady(s, next) /\ next.state = srv.state /\ Idles(s, next)
      BY <1>4, <2>2 DEF Moves
    <3>2. web' = web
      BY <1>3, <1>4, <3>1 DEF Idles
    <3> QED
      BY <1>3, <1>4, <1>15, <3>1, <3>2, HeadingMoves
  <2>3. CASE s.state = "MR_DOWNLOAD_ASK" /\ Steady(s, next) /\ Asks(next, "REQ_DOWNLOAD")
             /\ next.state = "MR_DOWNLOAD"
    <3>1. srv.control = "CTL_RESET"
      BY <1>4, <2>3 DEF RInv, AInv, IInv, Sound, Rejoins, Gathering
    <3> QED
      BY <1>3, <1>4, <1>15, <2>3, <3>1, HeadingStays
  <2>4. CASE s.state = "MR_DEPLOY_ASK" /\ Tells(s, next, "CTL_DEPLOY")
             /\ next.state = "MR_DEPLOY"
    <3>1. web' = "REQ_STOP"
      BY <1>3, <1>4, <1>15, <2>4 DEF Heading, Tells, Idles
    <3>2. \A n \in Controllers : s.details[n].state = "WR_WAIT"
      BY <1>4, <1>15, <2>4 DEF Heading
    <3> QED
      BY <1>3, <1>4, <1>15, <2>4, <3>1, <3>2, HeadingDeploys
  <2> QED
    BY <1>13, <1>14, <2>1, <2>2, <2>3, <2>4
<1>16. CASE Finished
  <2>1. FinalAsk(s) /\ s.control = "CTL_CLEAR" /\ s.hasFeed /\ web = "REQ_STOP"
    BY <1>4, <1>11, <1>16 DEF Finished, FinalAsk
  <2>2. CASE \/ Moves(s, next, s.state)
             \/ /\ FinalAsk(s) /\ next.state = "MR_IDLE" /\ next.control = s.control
                /\ next.hasFeed = s.hasFeed /\ next.sent = s.sent /\ Idles(s, next)
    <3>1. /\ next.state \in {"MR_IDLE", "MR_DONE_ASK", "MR_ERROR_ASK"}
          /\ next.control = "CTL_CLEAR" /\ next.hasFeed /\ next.sent = <<>> /\ Idles(s, next)
      BY <1>4, <2>1, <2>2 DEF Moves, Steady, FinalAsk
    <3>2. web' = "REQ_STOP"
      BY <1>3, <1>4, <2>1, <3>1 DEF Idles
    <3>3. Typed(next)
      BY <1>3 DEF ServerStep, RInv, AInv, IInv, TypeOK, Typed
    <3>4. DOMAIN next.sent = {}
      BY <3>1
    <3> QED
      BY <1>3, <1>9, <3>1, <3>2, <3>3, <3>4, FinishedServed
  <2> QED
    BY <1>13, <1>14, <2>1, <2>2 DEF FinalAsk
<1> QED
  BY <1>10, <1>15, <1>16

\* What a broadcast may let the controllers do: an order about the upgrade, to those that
\* require nothing that is not installed.
Lawful(u, sent) ==
    \A n \in Controllers : \A j \in DOMAIN sent :
       sent[j].control = "CTL_DEPLOY" =>
         /\ sent[j].upgrade = u
         /\ ~hasDepends(Requires[n], sent[j].depends) => Satisfied(n)

\* The request is closed if it is open.
LEMMA FeedbackChain ==
    ASSUME RInv, RInv', NEW u, NEW rank, CInv(u, rank), offered' # {},
           NEW next, ServerStep(next), web' = Tasked(web, next.posted),
           NEW q, Typed(q), Lawful(u, q.sent), NEW finished \in BOOLEAN,
           next = feedback(q, finished), next = q => CInv(u, rank)'
    PROVE  CInv(u, rank)'
<1>1. next = q \/ Clears(q, next)
  BY feedbackClears
<1>2. CASE Clears(q, next)
  BY <1>2, ClearsChain DEF Lawful
<1> QED
  BY <1>1, <1>2

\* What the tick ends with.
LEMMA TickOutcome ==
    ASSUME NEW s, NEW late, NEW silent, NEW overdue
    PROVE  LET looped == Looped(s, silent, overdue)
               gathered == Gathered(looped, AllVaild(s, silent))
               waited == Waited(gathered, AllWaiting(s, silent))
               next == processDomains(s, late, silent, overdue)
           IN \/ next = waited
              \/ \E q \in {s, looped, gathered, waited} : \E finished \in BOOLEAN :
                   next = feedback(q, finished)
  BY DEF processDomains

\* The loop of a tick of the preparation.
LEMMA HeadingLooped ==
    ASSUME RInv, OInv, NEW u, Upgrades = {u}, Heading(u),
           NEW silent \in SUBSET Members(srv), NEW overdue \in SUBSET Members(srv),
           \A n \in silent : ~clients[n].online
    PROVE  LET s == Fresh(srv)
               looped == Looped(s, silent, overdue)
           IN /\ Looks(s, looped) /\ Upon(u, looped)
              /\ AllWaiting(s, silent) =>
                   /\ srv.state \in {"MR_WAIT", "MR_DEPLOY_ASK"}
                   /\ \A n \in Controllers : looped.details[n].state = "WR_WAIT"
<1> DEFINE s == Fresh(srv)
           looped == Looped(s, silent, overdue)
<1>1. /\ Typed(s) /\ s.sent = <<>> /\ s.posted = <<>> /\ s.state = srv.state
      /\ s.control = srv.control /\ s.upgrade = srv.upgrade /\ s.depends = srv.depends
      /\ s.details = srv.details /\ Members(s) = Members(srv)
  BY FreshUpon
<1> HIDE DEF s
<1>2. ~Deploying(s)
  BY <1>1 DEF Heading, Gathering, Deploying
<1>3. Stays(s, silent, looped)
  BY <1>1, <1>2, LoopedStays
<1> HIDE DEF looped
<1>4. Looks(s, looped) /\ Typed(looped) /\ Members(looped) = Members(srv)
  BY <1>1, <1>3 DEF Stays, Looks
<1>5. Members(srv) = Controllers
  <2>1. Controllers = u.packages
    BY OneUpgrade
  <2> QED
    BY <2>1 DEF RInv, AInv, IInv, Sound, Matched, Members, Heading
<1>6. srv.state = "MR_DEPLOY_ASK" => silent = {}
  <2>1. ASSUME srv.state = "MR_DEPLOY_ASK"
        PROVE  \A n \in Controllers : clients[n].online
    <3>1. Shown \cap Settling # {}
      BY <2>1 DEF Shown, Marked, DeployMarks, Settling
    <3> QED
      BY <3>1 DEF OInv, Phased, Settled
  <2> QED
    BY <1>5, <2>1
<1>7. ASSUME NEW n \in Members(srv)
      PROVE  /\ Seen(s, silent)[n].state \in {srv.details[n].state, "WR_OFFLINE"}
             /\ silent = {} => Seen(s, silent)[n].state = srv.details[n].state
  <2>1. srv.details[n] \in Detail
    <3>1. PICK S \in SUBSET Names : srv \in Server(S)
      BY DEF RInv, AInv, IInv, TypeOK
    <3>2. Members(srv) = S /\ srv.details \in [S -> Detail]
      BY <3>1, MembersTyped DEF Server
    <3> QED
      BY <3>2
  <2> QED
    BY <1>1, <2>1 DEF Seen, Detail
<1>8. ASSUME NEW n \in Members(srv)
      PROVE  /\ looped.details[n].deploy => srv.details[n].deploy
             /\ looped.details[n].state \in {srv.details[n].state, Seen(s, silent)[n].state}
  BY <1>1, <1>3, <1>8 DEF Stays
<1>9. ASSUME NEW n \in Members(srv)
      PROVE  /\ looped.details[n].deploy => srv.details[n].deploy
             /\ looped.details[n].state = "WR_WAIT" => srv.details[n].state = "WR_WAIT"
             /\ srv.state = "MR_DEPLOY_ASK" => looped.details[n].state = srv.details[n].state
  <2>1. looped.details[n].state = "WR_WAIT" => srv.details[n].state = "WR_WAIT"
    BY <1>7, <1>8
  <2>2. srv.state = "MR_DEPLOY_ASK" => looped.details[n].state = srv.details[n].state
    BY <1>6, <1>7, <1>8
  <2> QED
    BY <1>8, <2>1, <2>2
<1>10. Upon(u, looped)
  <2>1. /\ looped.upgrade = u /\ looped.depends = u.packages /\ looped.control = srv.control
        /\ looped.sent = <<>>
    BY <1>1, <1>3 DEF Stays, Looks, Heading
  <2> QED
    BY <1>4, <1>9, <2>1 DEF Upon
<1>11. ASSUME AllWaiting(s, silent)
       PROVE  /\ srv.state \in {"MR_WAIT", "MR_DEPLOY_ASK"}
              /\ \A n \in Controllers : looped.details[n].state = "WR_WAIT"
  <2>1. /\ s.state \in {"MR_WAIT", "MR_DEPLOY_ASK"}
        /\ \A n \in Members(s) : Seen(s, silent)[n].state = "WR_WAIT"
    BY <1>11 DEF AllWaiting
  <2>2. ASSUME NEW n \in Controllers
        PROVE  looped.details[n].state = "WR_WAIT"
    <3>1. n \in Members(srv) /\ Seen(s, silent)[n].state = "WR_WAIT"
      BY <1>1, <1>5, <2>1
    <3>2. srv.details[n].state = "WR_WAIT"
      BY <1>7, <3>1
    <3> QED
      BY <1>8, <3>1, <3>2
  <2> QED
    BY <1>1, <2>1, <2>2
<1> QED
  BY <1>4, <1>10, <1>11 DEF s, looped

\* A tick of the preparation.
LEMMA HeadingTick ==
    ASSUME RInv, RInv', OInv, NEW u, Upgrades = {u}, NEW rank, Line(rank), CInv(u, rank),
           Heading(u), NEW late \in BOOLEAN,
           NEW silent \in SUBSET Members(srv), NEW overdue \in SUBSET Members(srv),
           ServerTick(late, silent, overdue)
    PROVE  CInv(u, rank)'
<1> DEFINE s == Fresh(srv)
           looped == Looped(s, silent, overdue)
           vaild == AllVaild(s, silent)
           waiting == AllWaiting(s, silent)
           gathered == Gathered(looped, vaild)
           waited == Waited(gathered, waiting)
           next == processDomains(s, late, silent, overdue)
<1>1. /\ ServerStep(next) /\ web' = Tasked(web, next.posted) /\ wire' = wire
      /\ offered' = offered /\ \A n \in silent : ~clients[n].online
  BY DEF ServerTick, ServerStep
<1>2. /\ offered # {} /\ srv.hasNewId /\ srv.cacheState = "MR_UNKNOWN"
  BY DEF OInv, Anew, Heading
<1>3. /\ Typed(s) /\ s.sent = <<>> /\ s.state = srv.state /\ Upon(u, s)
      /\ s.hasNewId = srv.hasNewId /\ s.cacheState = srv.cacheState
      /\ \A w : Tasked(w, s.posted) = w
  BY FreshUpon
<1>4. /\ Looks(s, looped) /\ Upon(u, looped)
      /\ waiting =>
           /\ srv.state \in {"MR_WAIT", "MR_DEPLOY_ASK"}
           /\ \A n \in Controllers : looped.details[n].state = "WR_WAIT"
  BY <1>1, HeadingLooped
<1>5. vaild \in BOOLEAN /\ waiting \in BOOLEAN
  BY DEF AllVaild, AllWaiting
<1>6. \/ next = waited
      \/ \E q \in {s, looped, gathered, waited} : \E finished \in BOOLEAN :
           next = feedback(q, finished)
  BY TickOutcome
<1> HIDE DEF s, looped, vaild, waiting, next
<1>7. /\ Typed(looped) /\ looped.state = srv.state /\ looped.sent = <<>>
      /\ looped.hasNewId /\ looped.cacheState = "MR_UNKNOWN"
      /\ \A w : Tasked(w, looped.posted) = w
  BY <1>2, <1>3, <1>4 DEF Looks, Upon
<1>8. \/ gathered = looped
      \/ /\ looped.state \in Gathering /\ gathered.state \in Gathering
         /\ Moves(looped, gathered, gathered.state)
      \/ /\ looped.state \in Gathering /\ Steady(looped, gathered)
         /\ Asks(gathered, "REQ_DOWNLOAD") /\ gathered.state = "MR_DOWNLOAD"
  BY <1>5, <1>7, GatheredMakes
<1>9. Typed(gathered) /\ gathered.sent = <<>>
  <2>1. Typed(gathered)
    BY <1>5, <1>7, GatheredTyped
  <2> QED
    BY <1>7, <1>8, <2>1 DEF Moves, Steady
<1>10. ASSUME next = gathered
       PROVE  CInv(u, rank)'
  <2>1. CASE gathered = looped
    <3>1. Steady(looped, next) /\ next.state = srv.state /\ web' = web
      BY <1>1, <1>7, <1>10, <2>1 DEF Steady
    <3> QED
      BY <1>1, <1>4, <3>1, HeadingMoves
  <2>2. CASE gathered.state \in Gathering /\ Moves(looped, gathered, gathered.state)
    <3>1. Steady(looped, next) /\ next.state \in Gathering /\ Idles(looped, next)
      BY <1>10, <2>2 DEF Moves
    <3>2. web' = web
      BY <1>1, <1>7, <3>1 DEF Idles
    <3> QED
      BY <1>1, <1>4, <3>1, <3>2, HeadingMoves
  <2>3. CASE /\ looped.state \in Gathering /\ Steady(looped, gathered)
             /\ Asks(gathered, "REQ_DOWNLOAD") /\ gathered.state = "MR_DOWNLOAD"
    <3>1. srv.control = "CTL_RESET"
      BY <1>7, <2>3 DEF RInv, AInv, IInv, Sound, Rejoins
    <3>2. Steady(looped, next) /\ next.state = "MR_DOWNLOAD"
      BY <1>10, <2>3
    <3> QED
      BY <1>1, <1>4, <3>1, <3>2, HeadingStays
  <2> QED
    BY <1>8, <2>1, <2>2, <2>3
<1>11. \/ waited = gathered
       \/ waiting /\ Tells(gathered, waited, "CTL_DEPLOY") /\ waited.state = "MR_DEPLOY"
       \/ waiting /\ Moves(gathered, waited, "MR_DEPLOY_ASK")
       \/ gathered.state = "MR_DEPLOY_ASK" /\ Moves(gathered, waited, "MR_WAIT")
  BY <1>5, <1>9, WaitedMakes
<1>12. waiting \/ gathered.state = "MR_DEPLOY_ASK" => gathered = looped
  BY <1>4, <1>7, <1>8 DEF Gathering
<1> HIDE DEF gathered
<1>13. Typed(waited)
  BY <1>5, <1>9, WaitedTyped
<1> HIDE DEF waited
<1>14. ASSUME next = waited
       PROVE  CInv(u, rank)'
  <2>1. CASE waited = gathered
    BY <1>10, <1>14, <2>1
  <2>2. CASE waiting /\ Tells(gathered, waited, "CTL_DEPLOY") /\ waited.state = "MR_DEPLOY"
    <3>1. Tells(looped, next, "CTL_DEPLOY") /\ next.state = "MR_DEPLOY"
      BY <1>12, <1>14, <2>2
    <3>2. web' = "REQ_STOP"
      BY <1>1, <1>4, <1>7, <2>2, <3>1 DEF Heading, Tells, Idles
    <3> QED
      BY <1>1, <1>4, <2>2, <3>1, <3>2, HeadingDeploys
  <2>3. CASE waiting /\ Moves(gathered, waited, "MR_DEPLOY_ASK")
    <3>1. /\ Steady(looped, next) /\ next.state = "MR_DEPLOY_ASK" /\ Idles(looped, next)
      BY <1>12, <1>14, <2>3 DEF Moves
    <3>2. web' = "REQ_STOP"
      BY <1>1, <1>4, <1>7, <2>3, <3>1 DEF Heading, Idles
    <3>3. "REQ_STOP" \notin PreparingTask
      BY DEF PreparingTask
    <3>4. \A n \in Controllers : next.details[n].state = "WR_WAIT"
      BY <1>4, <2>3, <3>1 DEF Steady
    <3> QED
      BY <1>1, <1>4, <3>1, <3>2, <3>3, <3>4, HeadingStays
  <2>4. CASE gathered.state = "MR_DEPLOY_ASK" /\ Moves(gathered, waited, "MR_WAIT")
    <3>1. /\ Steady(looped, next) /\ next.state = "MR_WAIT" /\ Idles(looped, next)
          /\ srv.state = "MR_DEPLOY_ASK"
      BY <1>7, <1>12, <1>14, <2>4 DEF Moves
    <3>2. web' = web
      BY <1>1, <1>7, <3>1 DEF Idles
    <3> QED
      BY <1>1, <1>4, <3>1, <3>2, HeadingMoves
  <2> QED
    BY <1>11, <2>1, <2>2, <2>3, <2>4
<1>15. Lawful(u, <<>>)
  BY DEF Lawful
<1>16. Lawful(u, waited.sent)
  <2>1. CASE waiting /\ Tells(gathered, waited, "CTL_DEPLOY")
    <3> DEFINE message == ControlMessage(looped, "CTL_DEPLOY", FALSE)
               sent == waited.sent
    <3>1. sent = Append(<<>>, message) /\ message.upgrade = u /\ message.depends = u.packages
      BY <1>4, <1>7, <1>12, <2>1 DEF Tells, Upon, ControlMessage
    <3> HIDE DEF message, sent
    <3>2. \A j \in DOMAIN sent : sent[j] = message
      BY <3>1
    <3>3. \A n \in Controllers : ~hasDepends(Requires[n], u.packages) => Satisfied(n)
      BY FirstOrder
    <3>4. Lawful(u, sent)
      BY <3>1, <3>2, <3>3 DEF Lawful
    <3> QED
      BY <3>4 DEF sent
  <2>2. CASE waited.sent = <<>>
    BY <1>15, <2>2
  <2> QED
    BY <1>9, <1>11, <2>1, <2>2 DEF Moves, Steady
<1>17. CASE \E finished \in BOOLEAN : next = feedback(s, finished)
  <2>1. next = s => CInv(u, rank)'
    <3>1. ASSUME next = s
          PROVE  Steady(s, next) /\ next.state = srv.state /\ web' = web
      BY <1>1, <1>3, <3>1 DEF Steady
    <3> QED
      BY <1>1, <1>3, <3>1, HeadingMoves
  <2> QED
    BY <1>1, <1>2, <1>3, <1>15, <1>17, <2>1, FeedbackChain
<1>18. CASE \E finished \in BOOLEAN : next = feedback(looped, finished)
  <2>1. next = looped => CInv(u, rank)'
    <3>1. ASSUME next = looped
          PROVE  Steady(looped, next) /\ next.state = srv.state /\ web' = web
      BY <1>1, <1>7, <3>1 DEF Steady
    <3> QED
      BY <1>1, <1>4, <3>1, HeadingMoves
  <2> QED
    BY <1>1, <1>2, <1>7, <1>15, <1>18, <2>1, FeedbackChain
<1>19. CASE \E finished \in BOOLEAN : next = feedback(gathered, finished)
  BY <1>1, <1>2, <1>9, <1>10, <1>15, <1>19, FeedbackChain
<1>20. CASE \E finished \in BOOLEAN : next = feedback(waited, finished)
  BY <1>1, <1>2, <1>13, <1>14, <1>16, <1>20, FeedbackChain
<1> QED
  BY <1>6, <1>14, <1>17, <1>18, <1>19, <1>20

\* It will have deployed, once the record r is the server's.
Done(r, k) == /\ srv.details[k].state \in Ending /\ ~r.details[k].deploy
              /\ clients[k].installed # 0

\* Whoever finds its turn in an order of the loop: all that is below it has deployed.
LEMMA Turn ==
    ASSUME RInv, NEW u, NEW rank, Line(rank), Members(srv) = Controllers,
           \A k \in Controllers : Engaged(rank, k),
           NEW s, s.details = srv.details, NEW r, Proceeds(s, r),
           NEW n \in Controllers, NEW j \in DOMAIN r.sent,
           ~hasDepends(Requires[n], r.sent[j].depends)
    PROVE  /\ Satisfied(n)
           /\ \A k \in Controllers : rank[k] < rank[n] => Done(r, k)
<1>1. Members(s) = Controllers
  BY DEF Members
<1>2. PICK m \in Controllers :
        /\ srv.details[m].deploy /\ ~r.details[m].deploy
        /\ srv.details[m].state = "WR_IDLE" /\ srv.details[m].version = "target"
        /\ \A p \in Controllers : srv.details[p].state = "WR_WAIT" => p \in r.sent[j].depends
  BY <1>1 DEF Proceeds
<1>3. ASSUME NEW k \in Controllers
      PROVE  r.details[k].deploy => srv.details[k].deploy \/ srv.details[k].state = "WR_DEPLOY"
  BY <1>1, <1>3 DEF Proceeds
<1>4. \A k \in Controllers : rank[k] \in Nat
  BY DEF Line
<1>5. "WR_IDLE" \in Ending /\ "WR_WAIT" \notin Ending /\ "WR_WAIT" \notin Executing
      /\ "WR_DEPLOY" \notin Ending
  BY DEF Ending, Executing
<1>6. ASSUME NEW k \in Controllers, Over(k)
      PROVE  Done(r, k)
  BY <1>3, <1>5, <1>6 DEF Over, Done
<1>7. Done(r, m)
  <2>1. m \in Known(srv)
    BY <1>2 DEF Known
  <2> QED
    BY <1>2, <1>5, <2>1 DEF RInv, Reported, Done
<1>8. Below(rank, m)
  <2>1. clients[m].state \in Ending
    BY <1>2, <1>5 DEF Engaged, Lasts
  <2> QED
    BY <1>5, <2>1 DEF Engaged, Fallow
<1>9. ASSUME NEW k \in Controllers, rank[k] <= rank[m]
      PROVE  Done(r, k)
  <2>1. rank[k] = rank[m] \/ rank[k] < rank[m]
    BY <1>4, <1>9
  <2>2. rank[k] = rank[m] => k = m
    BY DEF Line
  <2> QED
    BY <1>6, <1>7, <1>8, <2>1, <2>2 DEF Below
<1>10. ASSUME NEW p \in Requires[n] \cap Controllers
       PROVE  rank[p] <= rank[m]
  <2> SUFFICES ASSUME rank[m] < rank[p]
               PROVE  FALSE
    BY <1>4
  <2>1. ~Over(m)
    BY <1>2 DEF Over
  <2>2. Fallow(p)
    BY <2>1 DEF Engaged, Below
  <2>3. clients[p].state = "WR_WAIT"
    BY <2>2 DEF Fallow
  <2>4. srv.details[p].state \notin Executing
    BY <1>5, <2>3 DEF Engaged, Lasts
  <2>5. srv.details[p].state = "WR_WAIT"
    BY <2>4 DEF Engaged, Ordered
  <2>6. p \in r.sent[j].depends
    BY <1>2, <2>5
  <2> QED
    BY <2>6 DEF hasDepends
<1>11. Satisfied(n)
  BY <1>9, <1>10 DEF Satisfied, Done
<1>12. ASSUME NEW k \in Controllers, rank[k] < rank[n]
       PROVE  Done(r, k)
  <2>1. PICK p \in Requires[n] \cap Controllers : rank[k] <= rank[p]
    BY <1>12 DEF Line
  <2>2. rank[k] <= rank[m]
    BY <1>4, <1>10, <2>1
  <2> QED
    BY <1>9, <2>2
<1> QED
  BY <1>11, <1>12

\* The loop of a tick of the deployment, in which nobody is silent.
LEMMA RunningLooped ==
    ASSUME RInv, OInv, NEW u, Upgrades = {u}, Running(u),
           NEW silent \in SUBSET Members(srv), NEW overdue \in SUBSET Members(srv),
           \A n \in silent : ~clients[n].online
    PROVE  /\ Members(srv) = Controllers
           /\ LET s == Fresh(srv)
                  looped == Looped(s, silent, overdue)
              IN Looks(s, looped) /\ Proceeds(s, looped)
<1> DEFINE s == Fresh(srv)
           looped == Looped(s, silent, overdue)
<1>1. /\ Typed(s) /\ s.sent = <<>> /\ s.posted = <<>> /\ s.control = srv.control
      /\ Members(s) = Members(srv)
  BY FreshUpon
<1>2. Members(srv) = Controllers
  <2>1. Controllers = u.packages
    BY OneUpgrade
  <2> QED
    BY <2>1 DEF RInv, AInv, IInv, Sound, Matched, Members, Running
<1>3. silent = {}
  <2>1. "MR_DEPLOY" \in Shown \cap Settling
    BY DEF Running, Shown, Marked, DeployMarks, Settling
  <2>2. \A n \in Controllers : clients[n].online
    BY <2>1 DEF OInv, Phased, Settled
  <2> QED
    BY <1>2, <2>2
<1> HIDE DEF s
<1>4. Proceeds(s, looped)
  <2>1. Proceeds(s, Looped(s, {}, overdue))
    BY <1>1, LoopedProceeds DEF Running
  <2> QED
    BY <1>3, <2>1
<1> QED
  BY <1>2, <1>4 DEF Proceeds, s

\* The deployment goes on.
LEMMA RunningProceeds ==
    ASSUME RInv, NEW u, Upgrades = {u}, NEW rank, Line(rank), CInv(u, rank), Running(u),
           Members(srv) = Controllers, NEW next, ServerStep(next), wire' = wire,
           offered' = offered, web' = Tasked(web, next.posted),
           NEW s, s.details = srv.details, s.upgrade = srv.upgrade, s.state = srv.state,
           s.control = srv.control, Looks(s, next), Proceeds(s, next), Lawful(u, next.sent)
    PROVE  CInv(u, rank)'
<1> DEFINE sent == next.sent
<1>1. srv' = next
  BY DEF ServerStep
<1>2. Members(s) = Controllers /\ Members(srv)' = Controllers
  BY <1>1 DEF Members, Looks
<1>3. Running(u)'
  BY <1>1 DEF Running, Looks
<1>4. ~Forth' /\ \A n \in Controllers : Engaged(rank, n)
  <2>1. ~Forth'
    BY <1>3 DEF Running, Forth
  <2> QED
    BY <2>1 DEF CInv, Running
<1>5. sent \in Seq(Broadcast)
  BY DEF Looks, Typed, Server
<1>6. \A n \in Controllers : Rightful(u, n)' /\ Fed(n, clients[n], clients'[n], sent)
  <2>1. \A n \in Controllers : Rightful(u, n)
    BY DEF CInv
  <2>2. \A n \in Controllers : \A j \in DOMAIN next.sent :
          next.sent[j].control = "CTL_DEPLOY" =>
            /\ next.sent[j].upgrade = u
            /\ ~hasDepends(Requires[n], next.sent[j].depends) => Satisfied(n)
    BY DEF Lawful
  <2> QED
    BY <1>5, <2>1, <2>2, ServedRightful
<1>7. \A j \in DOMAIN sent : sent[j].control = "CTL_DEPLOY"
  BY DEF Proceeds
<1>8. ASSUME NEW n \in Controllers
      PROVE  /\ srv'.details[n].state = srv.details[n].state
             /\ srv'.details[n].deploy =>
                  srv.details[n].deploy \/ srv.details[n].state = "WR_DEPLOY"
             /\ clients'[n].state = clients[n].state
             /\ clients'[n].installed = clients[n].installed
  <2>1. clients'[n].state = clients[n].state /\ clients'[n].installed = clients[n].installed
    BY <1>6, FedEvents
  <2> QED
    BY <1>1, <1>2, <2>1 DEF Proceeds
<1>9. ASSUME NEW k \in Controllers, Done(next, k)
      PROVE  Over(k)'
  BY <1>1, <1>8, <1>9 DEF Done, Over
<1>10. ASSUME NEW k \in Controllers, Over(k)
       PROVE  Over(k)'
  <2>1. srv.details[k].state # "WR_DEPLOY"
    BY <1>10 DEF Over, Ending
  <2> QED
    BY <1>8, <1>10, <2>1 DEF Over
<1> HIDE DEF sent
<1>11. ASSUME NEW n \in Controllers
       PROVE  Engaged(rank, n)'
  <2>1. Engaged(rank, n)
    BY <1>4
  <2>2. Afoot(n, clients'[n])
    BY <1>6, <1>7, <2>1, FedAfoot DEF Engaged
  <2>3. Lasts(n, Ending)' /\ Lasts(n, Executing)' /\ Lasts(n, Ordered)'
    <3>1. n \in Members(srv)
      OBVIOUS
    <3>2. wire'[n] = wire[n] /\ clients'[n].state = clients[n].state
          /\ srv'.details[n].state = srv.details[n].state
      BY <1>8
    <3>3. Lasts(n, Ending) /\ Lasts(n, Executing) /\ Lasts(n, Ordered)
      BY <2>1 DEF Engaged
    <3>4. Lasts(n, Ending)'
      BY <3>1, <3>2, <3>3, LastsKept
    <3>5. Lasts(n, Executing)'
      BY <3>1, <3>2, <3>3, LastsKept
    <3>6. Lasts(n, Ordered)'
      BY <3>1, <3>2, <3>3, LastsKept
    <3> QED
      BY <3>4, <3>5, <3>6
  <2>4. /\ srv'.details[n].state \in Ordered
        /\ srv'.details[n].deploy => srv'.details[n].state \in Executing
    <3>1. "WR_DEPLOY" \in Executing
      BY DEF Executing
    <3> QED
      BY <1>8, <2>1, <3>1 DEF Engaged
  <2>5. Fallow(n)' \/ Below(rank, n)'
    <3>1. CASE Below(rank, n)
      BY <1>10, <3>1 DEF Below
    <3>2. CASE Fallow(n) /\ \A x : ~Releases(n, clients'[n], x)
      BY <1>8, <3>2 DEF Fallow
    <3>3. CASE Fallow(n) /\ \E x : Releases(n, clients'[n], x)
      <4>1. PICK x : Releases(n, clients'[n], x)
        BY <3>3
      <4>2. ~Releases(n, clients[n], x)
        BY <3>3 DEF Fallow
      <4>3. PICK j \in DOMAIN sent : ~hasDepends(Requires[n], sent[j].depends)
        <5>1. Fed(n, clients[n], clients'[n], sent)
          BY <1>6
        <5> QED
          BY <4>1, <4>2, <5>1, FedReleases
      <4>4. \A k \in Controllers : rank[k] < rank[n] => Done(next, k)
        BY <1>4, <4>3, Turn DEF sent
      <4> QED
        BY <1>9, <4>4 DEF Below
    <3> QED
      BY <2>1, <3>1, <3>2, <3>3 DEF Engaged
  <2> QED
    BY <2>2, <2>3, <2>4, <2>5 DEF Engaged
<1> QED
  BY <1>3, <1>4, <1>6, <1>11 DEF CInv

\* A tick of the deployment.
LEMMA RunningTick ==
    ASSUME RInv, RInv', OInv, NEW u, Upgrades = {u}, NEW rank, Line(rank), CInv(u, rank),
           Running(u), NEW late \in BOOLEAN,
           NEW silent \in SUBSET Members(srv), NEW overdue \in SUBSET Members(srv),
           ServerTick(late, silent, overdue)
    PROVE  CInv(u, rank)'
<1> DEFINE s == Fresh(srv)
           looped == Looped(s, silent, overdue)
           vaild == AllVaild(s, silent)
           waiting == AllWaiting(s, silent)
           next == processDomains(s, late, silent, overdue)
<1>1. /\ ServerStep(next) /\ web' = Tasked(web, next.posted) /\ wire' = wire
      /\ offered' = offered /\ \A n \in silent : ~clients[n].online /\ Watching(srv)
  BY DEF ServerTick, ServerStep
<1>2. /\ Typed(s) /\ s.sent = <<>> /\ s.state = srv.state /\ s.control = srv.control
      /\ s.upgrade = srv.upgrade /\ s.details = srv.details
      /\ s.hasFeed = srv.hasFeed /\ s.feedType = srv.feedType
  BY FreshUpon
<1>3. Members(srv) = Controllers /\ Looks(s, looped) /\ Proceeds(s, looped)
  BY <1>1, RunningLooped
<1>4. \/ next = Waited(Gathered(looped, vaild), waiting)
      \/ \E q \in {s, looped, Gathered(looped, vaild), Waited(Gathered(looped, vaild), waiting)} :
           \E finished \in BOOLEAN : next = feedback(q, finished)
  BY TickOutcome
<1>5. srv.state = "MR_DEPLOY" /\ ~waiting
  BY <1>2 DEF Running, AllWaiting
<1> HIDE DEF s, looped, vaild, waiting, next
<1>6. looped.state = "MR_DEPLOY"
  BY <1>2, <1>3, <1>5 DEF Looks
<1>7. Gathered(looped, vaild) = looped
  BY <1>6 DEF Gathered
<1>8. Waited(looped, waiting) = looped
  BY <1>5, <1>6 DEF Waited
<1>9. Lawful(u, looped.sent)
  <2>1. ASSUME NEW n \in Controllers, NEW j \in DOMAIN looped.sent
        PROVE  /\ looped.sent[j].upgrade = u
               /\ ~hasDepends(Requires[n], looped.sent[j].depends) => Satisfied(n)
    <3>1. looped.sent[j].upgrade = u
      BY <1>2, <1>3 DEF Proceeds, Running
    <3>2. \A k \in Controllers : Engaged(rank, k)
      BY DEF CInv, Running
    <3> QED
      BY <1>2, <1>3, <3>1, <3>2, Turn
  <2> QED
    BY <2>1 DEF Lawful
<1>10. next = looped => CInv(u, rank)'
  BY <1>1, <1>2, <1>3, <1>9, RunningProceeds
<1>11. offered # {} /\ Typed(looped) /\ Lawful(u, s.sent)
  BY <1>2, <1>3 DEF Running, Looks, Lawful
<1>12. CASE \E finished \in BOOLEAN : next = feedback(looped, finished)
  BY <1>1, <1>9, <1>10, <1>11, <1>12, FeedbackChain
<1>13. CASE \E finished \in BOOLEAN : next = feedback(s, finished)
  <2>1. ~s.hasFeed /\ s.feedType # "TP_UNKNOWN"
    BY <1>2, <1>5 DEF RInv, AInv, IInv, Sound, Armed, ArmedStates
  <2>2. Clears(s, next)
    BY <1>2, <1>13, <2>1, feedbackClears
  <2> QED
    BY <1>1, <1>11, <2>2, ClearsChain DEF Lawful
<1> QED
  BY <1>4, <1>7, <1>8, <1>10, <1>12, <1>13

\* The tick.
LEMMA TickChain ==
    ASSUME RInv, RInv', OInv, NEW u, Upgrades = {u}, NEW rank, Line(rank), CInv(u, rank),
           NEW late \in BOOLEAN,
           NEW silent \in SUBSET Members(srv), NEW overdue \in SUBSET Members(srv),
           ServerTick(late, silent, overdue)
    PROVE  CInv(u, rank)'
<1>1. ~Resting /\ ~Finished
  BY DEF ServerTick, Watching, Resting, Finished, OInv, Anew
<1> QED
  BY <1>1, HeadingTick, RunningTick DEF CInv

\* A heartbeat of n is heard: its state is noted, and whoever introduces itself is told the
\* control again, which is then none that n has been waited for.
Noted(n, next) ==
    /\ ServerStep(next) /\ srv' = next /\ web' = web /\ offered' = offered
    /\ wire[n] # <<>> /\ wire'[n] = Tail(wire[n])
    /\ \A m \in Controllers : m # n => wire'[m] = wire[m]
    /\ next.state = srv.state /\ next.control = srv.control /\ next.upgrade = srv.upgrade
    /\ next.depends = srv.depends /\ next.hasFeed = srv.hasFeed
    /\ Members(next) = Members(srv)
    /\ \A m \in Members(srv) : m # n => next.details[m] = srv.details[m]
    /\ n \in Members(srv) =>
         /\ next.details[n].state = Head(wire[n]).state
         /\ next.details[n].deploy = srv.details[n].deploy
    /\ \A j \in DOMAIN next.sent :
         /\ next.sent[j].control = srv.control
         /\ srv.control \notin {"CTL_UNKNOWN", "CTL_DOWNLOAD", "CTL_DEPLOY"}

\* Every heartbeat that is heard is noted.
LEMMA HearNotes ==
    ASSUME RInv, OInv, NEW n \in Controllers, Hear(n)
    PROVE  \E next : Noted(n, next) /\ next.sent \in Seq(Broadcast)
<1> DEFINE heartbeat == Head(wire[n])
           msg == DomainMessage(n, heartbeat)
           s == Fresh(srv)
           next == OnDomain(s, msg)
<1>1. /\ ServerStep(next) /\ web' = Tasked(web, next.posted)
      /\ wire[n] # <<>> /\ wire' = [wire EXCEPT ![n] = Tail(wire[n])]
      /\ offered' = offered
  BY DEF Hear, ServerStep
<1>2. /\ wire[n] \in Seq(Client(n)!Heartbeat) /\ DOMAIN wire = Controllers
      /\ 1 \in DOMAIN wire[n] /\ wire[n][1] = heartbeat
  <2>1. wire[n] \in Seq(Client(n)!Heartbeat) /\ DOMAIN wire = Controllers
    BY DEF RInv, Underway
  <2> QED
    BY <1>1, <2>1
<1>3. heartbeat \in Client(n)!Heartbeat
  BY <1>2
<1>4. msg \in Messages
  <2>1. Class(heartbeat.version) \in Version
    BY DEF Class, Version
  <2>2. n \in Names
    BY ControllerNames
  <2> QED
    BY <1>3, <2>1, <2>2, RolloutAssumption
       DEF DomainMessage, Message, Report, Client!Heartbeat, Client!ClientState, ClientState,
           Answer
<1>5. /\ msg.name = n /\ ~msg.watcher /\ msg.discovery = heartbeat.discovery
      /\ msg.report.state = heartbeat.state
  BY DEF DomainMessage
<1>6. next = Heard(s, msg)
  <2> HIDE DEF msg
  <2> QED
    BY <1>5, ControllerNames, RolloutAssumption DEF OnDomain
<1>7. /\ Typed(s) /\ s.sent = <<>> /\ s.state = srv.state /\ s.control = srv.control
      /\ s.upgrade = srv.upgrade /\ s.depends = srv.depends /\ s.hasFeed = srv.hasFeed
      /\ s.details = srv.details /\ Members(s) = Members(srv)
      /\ \A w : Tasked(w, s.posted) = w
  BY FreshUpon
<1> HIDE DEF heartbeat, msg, next, s
<1>8. Hearkens(s, next, msg)
  BY <1>4, <1>6, <1>7, HeardHearkens
<1>9. srv' = next /\ web' = web
  BY <1>1, <1>7, <1>8 DEF ServerStep, Hearkens
<1>10. wire'[n] = Tail(wire[n]) /\ \A m \in Controllers : m # n => wire'[m] = wire[m]
  BY <1>1, <1>2
<1>11. msg.discovery => srv.control \notin {"CTL_DOWNLOAD", "CTL_DEPLOY"}
  <2> SUFFICES ASSUME msg.discovery
               PROVE  srv.control \notin {"CTL_DOWNLOAD", "CTL_DEPLOY"}
    OBVIOUS
  <2>1. ~Settled(n)
    BY <1>2, <1>5 DEF Settled
  <2>2. srv.control \notin Shown \cap Settling
    BY <2>1 DEF OInv, Phased
  <2>3. {"CTL_DOWNLOAD", "CTL_DEPLOY"} \subseteq Marked \cap Settling
    BY DEF Marked, Settling, DeployMarks
  <2> QED
    BY <2>2, <2>3 DEF Shown
<1>12. ASSUME NEW j \in DOMAIN next.sent
       PROVE  /\ next.sent[j].control = srv.control
              /\ srv.control \notin {"CTL_UNKNOWN", "CTL_DOWNLOAD", "CTL_DEPLOY"}
  <2> DEFINE message == ControlMessage(s, s.control, TRUE)
             sent == next.sent
  <2>1. next.sent # <<>>
    BY <1>12
  <2>2. /\ msg.discovery /\ s.control # "CTL_UNKNOWN"
        /\ sent = Append(<<>>, message) /\ message.control = s.control
    BY <1>7, <1>8, <2>1 DEF Hearkens, ControlMessage
  <2> HIDE DEF message
  <2>3. sent[j] = message
    <3> HIDE DEF sent
    <3>1. j \in DOMAIN sent
      BY <1>12 DEF sent
    <3> QED
      BY <2>2, <3>1
  <2> QED
    BY <1>7, <1>11, <2>2, <2>3
<1>13. Noted(n, next)
  BY <1>1, <1>5, <1>7, <1>8, <1>9, <1>10, <1>12 DEF Noted, Hearkens, heartbeat
<1>14. next.sent \in Seq(Broadcast)
  <2>1. Typed(next)
    <3>1. Hears(s, next, msg)
      BY <1>4, <1>6, <1>7, HeardHears
    <3> QED
      BY <3>1 DEF Hears
  <2> QED
    BY <2>1 DEF Typed, Server
<1> QED
  BY <1>13, <1>14

\* What is noted of it is what it says for good.
LEMMA NotedLasts ==
    ASSUME RInv, NEW n \in Controllers, NEW next, Noted(n, next),
           NEW m \in Controllers, clients'[m].state = clients[m].state, NEW A, Lasts(m, A)
    PROVE  /\ Lasts(m, A)'
           /\ m \in Members(srv) /\ srv.details[m].state \in A => next.details[m].state \in A
<1>1. Members(srv)' = Members(srv) /\ srv' = next
  BY DEF Noted, Members
<1>2. wire[m] \in Seq(Client(m)!Heartbeat)
  BY DEF RInv, Underway
<1>3. CASE m = n
  <2>1. n \in Members(srv)' => srv'.details[n].state = Head(wire[n]).state
    BY <1>1 DEF Noted
  <2>2. Lasts(n, A)'
    BY <1>2, <1>3, <2>1, LastsHeard DEF Noted
  <2>3. 1 \in DOMAIN wire[n] /\ Head(wire[n]) = wire[n][1]
    BY <1>2, <1>3 DEF Noted
  <2>4. n \in Members(srv) /\ srv.details[n].state \in A => next.details[n].state \in A
    BY <1>1, <1>3, <2>1, <2>3 DEF Lasts
  <2> QED
    BY <1>3, <2>2, <2>4
<1>4. CASE m # n
  <2>1. wire'[m] = wire[m] /\ (m \in Members(srv) => srv'.details[m] = srv.details[m])
    BY <1>1, <1>4 DEF Noted
  <2>2. Lasts(m, A)'
    BY <1>1, <2>1, LastsKept
  <2> QED
    BY <1>1, <2>1, <2>2
<1> QED
  BY <1>3, <1>4

\* A heartbeat is heard.
LEMMA HearChain ==
    ASSUME RInv, OInv, NEW u, Upgrades = {u}, NEW rank, CInv(u, rank),
           NEW n \in Controllers, Hear(n)
    PROVE  CInv(u, rank)'
<1>1. PICK next : Noted(n, next) /\ next.sent \in Seq(Broadcast)
  BY HearNotes
<1> DEFINE sent == next.sent
<1>2. /\ srv' = next /\ Members(srv)' = Members(srv) /\ srv'.control = srv.control
      /\ srv'.state = srv.state
  BY <1>1 DEF Noted, Members
<1>3. \A j \in DOMAIN sent : /\ sent[j].control = srv.control
                             /\ srv.control \notin {"CTL_UNKNOWN", "CTL_DOWNLOAD", "CTL_DEPLOY"}
  BY <1>1 DEF Noted
<1>4. \A m \in Controllers : Rightful(u, m)' /\ Fed(m, clients[m], clients'[m], sent)
  <2>1. \A j \in DOMAIN next.sent : next.sent[j].control # "CTL_DEPLOY"
    BY <1>3
  <2>2. \A m \in Controllers : Rightful(u, m)
    BY DEF CInv
  <2>3. ServerStep(next)
    BY <1>1 DEF Noted
  <2> QED
    BY <1>1, <2>1, <2>2, <2>3, ServedRightful
<1> HIDE DEF sent
<1>5. \A m \in Controllers : /\ clients'[m].state = clients[m].state
                             /\ clients'[m].installed = clients[m].installed
  BY <1>4, FedEvents
<1>6. \A m \in Members(srv) : srv'.details[m].deploy = srv.details[m].deploy
  BY <1>1, <1>2 DEF Noted
<1>7. ASSUME Forth, NEW m \in Controllers
      PROVE  Poised(m)'
  <2>1. Poised(m) /\ Fed(m, clients[m], clients'[m], sent)
    BY <1>4, <1>7 DEF CInv
  <2>2. \A j \in DOMAIN sent : sent[j].control = "CTL_RESET"
    BY <1>3, <1>7 DEF Forth
  <2>3. Lasts(m, {"WR_WAIT"})'
    BY <1>1, <1>5, <2>1, NotedLasts DEF Poised
  <2>4. m \in Members(srv)' => ~srv'.details[m].deploy
    BY <1>2, <1>6, <2>1 DEF Poised
  <2> QED
    BY <1>2, <2>1, <2>2, <2>3, <2>4, PoisedServed
<1>8. ASSUME Running(u), NEW m \in Controllers
      PROVE  Engaged(rank, m)'
  <2>1. \A k \in Controllers : Engaged(rank, k)
    BY <1>8 DEF CInv, Running
  <2>2. DOMAIN sent = {}
    BY <1>3, <1>8 DEF Running
  <2>3. Afoot(m, clients'[m])
    BY <1>4, <2>1, <2>2, FedAfoot DEF Engaged
  <2>4. Members(srv) = Controllers
    <3>1. Controllers = u.packages
      BY OneUpgrade
    <3> QED
      BY <1>8, <3>1 DEF RInv, AInv, IInv, Sound, Matched, Members, Running
  <2>5. ASSUME NEW k \in Controllers
        PROVE  /\ Lasts(k, Ending)' /\ Lasts(k, Executing)' /\ Lasts(k, Ordered)'
               /\ srv'.details[k].state \in Ordered
               /\ srv.details[k].state \in Executing => srv'.details[k].state \in Executing
               /\ srv.details[k].state \in Ending => srv'.details[k].state \in Ending
    <3>1. Lasts(k, Ending) /\ Lasts(k, Executing) /\ Lasts(k, Ordered)
          /\ srv.details[k].state \in Ordered
      BY <2>1 DEF Engaged
    <3>2. /\ Lasts(k, Ending)'
          /\ srv.details[k].state \in Ending => srv'.details[k].state \in Ending
      BY <1>1, <1>2, <1>5, <2>4, <3>1, NotedLasts
    <3>3. /\ Lasts(k, Executing)'
          /\ srv.details[k].state \in Executing => srv'.details[k].state \in Executing
      BY <1>1, <1>2, <1>5, <2>4, <3>1, NotedLasts
    <3>4. Lasts(k, Ordered)' /\ srv'.details[k].state \in Ordered
      BY <1>1, <1>2, <1>5, <2>4, <3>1, NotedLasts
    <3> QED
      BY <3>2, <3>3, <3>4
  <2>6. srv'.details[m].deploy => srv'.details[m].state \in Executing
    BY <1>6, <2>1, <2>4, <2>5 DEF Engaged
  <2>7. ASSUME NEW k \in Controllers, Over(k)
        PROVE  Over(k)'
    BY <1>5, <1>6, <2>4, <2>5, <2>7 DEF Over
  <2>8. Fallow(m)' \/ Below(rank, m)'
    <3>1. CASE Below(rank, m)
      BY <2>7, <3>1 DEF Below
    <3>2. CASE Fallow(m)
      <4>1. ASSUME NEW x, Releases(m, clients'[m], x)
            PROVE  FALSE
        <5>1. Fed(m, clients[m], clients'[m], sent)
          BY <1>4
        <5>2. Releases(m, clients[m], x)
          BY <2>2, <4>1, <5>1, FedReleases
        <5> QED
          BY <3>2, <5>2 DEF Fallow
      <4> QED
        BY <1>5, <3>2, <4>1 DEF Fallow
    <3> QED
      BY <2>1, <3>1, <3>2 DEF Engaged
  <2> QED
    BY <2>3, <2>5, <2>6, <2>8 DEF Engaged
<1>9. CASE Heading(u)
  <2>1. Forth /\ srv'.control # "CTL_DEPLOY"
    BY <1>2, <1>9 DEF Heading, Forth
  <2>2. ASSUME srv.state = "MR_DEPLOY_ASK", NEW m \in Controllers
        PROVE  srv'.details[m].state = "WR_WAIT"
    <3>1. Controllers = u.packages
      BY OneUpgrade
    <3>2. m \in Members(srv)
      BY <1>9, <3>1 DEF RInv, AInv, IInv, Sound, Matched, Members, Heading
    <3>3. srv.details[m].state \in {"WR_WAIT"}
      BY <1>9, <2>2 DEF Heading
    <3>4. Lasts(m, {"WR_WAIT"})
      BY <2>1 DEF CInv, Poised
    <3>5. next.details[m].state \in {"WR_WAIT"}
      BY <1>1, <1>5, <3>2, <3>3, <3>4, NotedLasts
    <3> QED
      BY <1>2, <3>5
  <2>3. Heading(u)'
    <3>1. srv'.upgrade = srv.upgrade /\ srv'.depends = srv.depends /\ web' = web
          /\ offered' = offered
      BY <1>1, <1>2 DEF Noted
    <3> QED
      BY <1>2, <1>9, <2>2, <3>1 DEF Heading
  <2> QED
    BY <1>4, <1>7, <2>1, <2>3 DEF CInv
<1>10. CASE Resting
  <2>1. Resting' /\ Forth
    BY <1>1, <1>2, <1>10 DEF Resting, Forth, Noted
  <2> QED
    BY <1>2, <1>4, <1>7, <1>10, <2>1 DEF CInv, Resting
<1>11. CASE Running(u)
  <2>1. Running(u)' /\ ~Forth'
    BY <1>1, <1>2, <1>11 DEF Running, Forth, Noted
  <2> QED
    BY <1>4, <1>8, <1>11, <2>1 DEF CInv
<1>12. CASE Finished
  <2>1. Finished' /\ ~Forth' /\ srv'.control # "CTL_DEPLOY"
    BY <1>1, <1>2, <1>12 DEF Finished, Forth, Noted
  <2> QED
    BY <1>4, <2>1 DEF CInv
<1> QED
  BY <1>9, <1>10, <1>11, <1>12 DEF CInv

-----------------------------------------------------------------------------
(* The steps of the controllers.                                           *)

\* What the step of a controller does to it, and leaves as it is.
LEMMA SteppedFields ==
    ASSUME RInv, NEW n \in Controllers, NEW next, Past(n, clients[n], next), ClientStep(n, next)
    PROVE  /\ srv' = srv /\ web' = web /\ offered' = offered
           /\ \A m \in Controllers : m # n => clients'[m] = clients[m] /\ wire'[m] = wire[m]
           /\ Bears(next, clients'[n]) /\ clients'[n].state = next.state
           /\ clients'[n].hasCancelAction = next.hasCancelAction
           /\ clients'[n].package = next.package /\ clients'[n].version = next.version
           /\ clients'[n].installed = next.installed
           /\ next \in Client(n)!ClientHelper /\ next.sent \in Seq(Client(n)!Heartbeat)
           /\ \A m \in Controllers : clients[m].installed # 0 => clients'[m].installed # 0
<1>1. DOMAIN clients = Controllers /\ DOMAIN wire = Controllers
  BY DEF RInv, Aboard, Underway
<1>2. next \in Client(n)!ClientHelper /\ next.sent \in Seq(Client(n)!Heartbeat)
  BY DEF Past, Fit, Client!ClientHelper
<1>3. /\ srv' = srv /\ web' = web /\ offered' = offered
      /\ \A m \in Controllers : m # n => clients'[m] = clients[m] /\ wire'[m] = wire[m]
      /\ clients'[n] = [next EXCEPT !.sent = <<>>]
  BY <1>1 DEF ClientStep
<1>4. /\ clients'[n].queue = next.queue /\ clients'[n].worker = next.worker
      /\ clients'[n].loose = next.loose /\ clients'[n].state = next.state
      /\ clients'[n].hasCancelAction = next.hasCancelAction
      /\ clients'[n].package = next.package /\ clients'[n].version = next.version
      /\ clients'[n].installed = next.installed
  BY <1>2, <1>3 DEF Client!ClientHelper
<1>5. ASSUME NEW m \in Controllers, clients[m].installed # 0
      PROVE  clients'[m].installed # 0
  BY <1>3, <1>4, <1>5 DEF Past
<1> QED
  BY <1>2, <1>3, <1>4, <1>5 DEF Bears

\* A controller before the deployment, and during it.
LEMMA PoisedSteps ==
    ASSUME RInv, NEW n \in Controllers, NEW next, Past(n, clients[n], next), ClientStep(n, next),
           Ahead(clients[n]) => AheadStep(clients[n], next),
           NEW m \in Controllers, Poised(m), Poised(n)
    PROVE  Poised(m)'
<1>1. /\ srv' = srv /\ Members(srv)' = Members(srv)
      /\ m # n => clients'[m] = clients[m] /\ wire'[m] = wire[m]
      /\ Bears(next, clients'[n]) /\ clients'[n].state = next.state
      /\ clients'[n].hasCancelAction = next.hasCancelAction
      /\ next \in Client(n)!ClientHelper /\ next.sent \in Seq(Client(n)!Heartbeat)
  BY SteppedFields DEF Members
<1>2. CASE m # n
  <2>1. clients'[m] = clients[m] /\ wire'[m] = wire[m]
    BY <1>1, <1>2
  <2>2. Lasts(m, {"WR_WAIT"})'
    BY <1>1, <2>1 DEF Poised, Lasts
  <2> QED
    BY <1>1, <2>1, <2>2 DEF Poised
<1>3. CASE m = n
  <2>1. AheadStep(clients[n], next)
    BY DEF Poised
  <2>2. Ahead(clients'[n])
    BY <1>1, <2>1 DEF AheadStep, Ahead, Bears, Free
  <2>3. Lasts(n, {"WR_WAIT"})'
    <3>1. clients[n].state \in {"WR_WAIT"} => next.state \in {"WR_WAIT"}
      BY <2>1 DEF AheadStep
    <3>2. Lasts(n, {"WR_WAIT"}) /\ Says(next)
      BY <2>1 DEF Poised, AheadStep
    <3> QED
      BY <1>1, <3>1, <3>2, LastsSaid
  <2>4. srv.control # "CTL_DOWNLOAD" => Free(clients'[n]) /\ clients'[n].state # "WR_WAIT"
    <3>1. ASSUME srv.control # "CTL_DOWNLOAD"
          PROVE  Free(next) /\ next.state # "WR_WAIT"
      BY <2>1, <3>1 DEF Poised, AheadStep
    <3> QED
      BY <1>1, <3>1 DEF Free, Bears
  <2> QED
    BY <1>1, <1>3, <2>2, <2>3, <2>4 DEF Poised
<1> QED
  BY <1>2, <1>3

\* A controller's own step keeps it, for itself and for the others.
LEMMA EngagedSteps ==
    ASSUME RInv, NEW n \in Controllers, NEW next, Past(n, clients[n], next), ClientStep(n, next),
           Carries(n, clients[n], next),
           Afoot(n, clients[n]) => AfootStep(n, clients[n], next),
           NEW rank, Engaged(rank, n), NEW m \in Controllers, Engaged(rank, m)
    PROVE  Engaged(rank, m)'
<1>1. /\ srv' = srv /\ Members(srv)' = Members(srv)
      /\ m # n => clients'[m] = clients[m] /\ wire'[m] = wire[m]
      /\ Bears(next, clients'[n]) /\ clients'[n].state = next.state
      /\ clients'[n].hasCancelAction = next.hasCancelAction
      /\ clients'[n].package = next.package /\ clients'[n].version = next.version
      /\ next \in Client(n)!ClientHelper /\ next.sent \in Seq(Client(n)!Heartbeat)
      /\ \A k \in Controllers : clients[k].installed # 0 => clients'[k].installed # 0
  BY SteppedFields DEF Members
<1>2. Below(rank, m) => Below(rank, m)'
  BY <1>1 DEF Below, Over
<1>3. CASE m # n
  <2>1. clients'[m] = clients[m] /\ wire'[m] = wire[m]
    BY <1>1, <1>3
  <2>2. \A A : Lasts(m, A) => Lasts(m, A)'
    BY <1>1, <2>1 DEF Lasts
  <2>3. Fallow(m) => Fallow(m)'
    BY <2>1 DEF Fallow
  <2>4. Lasts(m, Ending)' /\ Lasts(m, Executing)' /\ Lasts(m, Ordered)'
    BY <1>1, <2>1 DEF Engaged, Lasts
  <2> QED
    BY <1>1, <1>2, <2>1, <2>3, <2>4 DEF Engaged
<1>4. CASE m = n
  <2>1. AfootStep(n, clients[n], next)
    BY DEF Engaged
  <2>2. Afoot(n, next) /\ Says(next)
        /\ (clients[n].state \in Ending => next.state \in Ending)
        /\ (clients[n].state \in Executing => next.state \in Executing)
        /\ (clients[n].state \in Ordered => next.state \in Ordered)
    BY <2>1 DEF AfootStep, Afoot
  <2>3. Afoot(n, clients'[n])
    BY <1>1, <2>2 DEF Afoot, Bears, Free, Client!VersionEqual
  <2>4. Lasts(n, Ending) /\ Lasts(n, Executing) /\ Lasts(n, Ordered)
    BY DEF Engaged
  <2>5. Lasts(n, Ending)'
    BY <1>1, <2>2, <2>4, LastsSaid
  <2>6. Lasts(n, Executing)'
    BY <1>1, <2>2, <2>4, LastsSaid
  <2>7. Lasts(n, Ordered)'
    BY <1>1, <2>2, <2>4, LastsSaid
  <2>8. ASSUME Fallow(n)
        PROVE  Fallow(n)'
    <3>1. next.state = "WR_WAIT"
      BY <2>1, <2>8 DEF AfootStep, Fallow
    <3>2. ASSUME NEW x, Releases(n, clients'[n], x)
          PROVE  FALSE
      <4>1. Releases(n, next, x)
        BY <1>1, <3>2, BearsCarries DEF Carries
      <4>2. Releases(n, clients[n], x)
        BY <4>1 DEF Carries
      <4> QED
        BY <2>8, <4>2 DEF Fallow
    <3> QED
      BY <1>1, <3>1, <3>2 DEF Fallow
  <2> QED
    BY <1>1, <1>2, <1>4, <2>3, <2>5, <2>6, <2>7, <2>8 DEF Engaged
<1> QED
  BY <1>3, <1>4

\* A step of a controller.
LEMMA ClientStepChain ==
    ASSUME RInv, NEW u, NEW rank, CInv(u, rank), NEW n \in Controllers, NEW next,
           Past(n, clients[n], next), ClientStep(n, next), Carries(n, clients[n], next),
           Ahead(clients[n]) => AheadStep(clients[n], next),
           srv.control = "CTL_DEPLOY" /\ Afoot(n, clients[n]) => AfootStep(n, clients[n], next)
    PROVE  CInv(u, rank)'
<1>1. /\ srv' = srv /\ web' = web /\ offered' = offered
      /\ \A m \in Controllers : m # n => clients'[m] = clients[m] /\ wire'[m] = wire[m]
      /\ Bears(next, clients'[n])
      /\ \A m \in Controllers : clients[m].installed # 0 => clients'[m].installed # 0
  BY SteppedFields
<1>2. ASSUME NEW m \in Controllers
      PROVE  Rightful(u, m)'
  <2>1. ASSUME NEW x, Releases(m, clients'[m], x)
        PROVE  Releases(m, clients[m], x)
    <3>1. CASE m # n
      BY <1>1, <2>1, <3>1
    <3>2. CASE m = n
      <4>1. Releases(n, next, x)
        BY <1>1, <2>1, <3>2, BearsCarries DEF Carries
      <4> QED
        BY <3>2, <4>1 DEF Carries
    <3> QED
      BY <3>1, <3>2
  <2>2. Satisfied(m) => Satisfied(m)'
    BY <1>1 DEF Satisfied
  <2>3. Rightful(u, m)
    BY DEF CInv
  <2>4. ASSUME NEW x, Releases(m, clients'[m], x)
        PROVE  Satisfied(m)' /\ x = u.id
    <3>1. Releases(m, clients[m], x)
      BY <2>1, <2>4
    <3>2. Satisfied(m) /\ x = u.id
      BY <2>3, <3>1 DEF Rightful
    <3> QED
      BY <2>2, <3>2
  <2> QED
    BY <2>4 DEF Rightful
<1>3. ASSUME Forth, NEW m \in Controllers
      PROVE  Poised(m)'
  <2>1. Poised(m) /\ Poised(n)
    BY <1>3 DEF CInv
  <2> QED
    BY <2>1, PoisedSteps
<1>4. ASSUME srv.control = "CTL_DEPLOY", NEW m \in Controllers
      PROVE  Engaged(rank, m)'
  <2>1. Engaged(rank, m) /\ Engaged(rank, n)
    BY <1>4 DEF CInv
  <2>2. Afoot(n, clients[n]) => AfootStep(n, clients[n], next)
    BY <1>4
  <2> QED
    BY <2>1, <2>2, EngagedSteps
<1>5. /\ Resting => Resting'
      /\ Heading(u) => Heading(u)'
      /\ Running(u) => Running(u)'
      /\ Finished => Finished'
      /\ Forth' => Forth
  BY <1>1 DEF Resting, Heading, Running, Finished, Forth
<1> QED
  BY <1>1, <1>2, <1>3, <1>4, <1>5 DEF CInv

\* No connection is lost and nobody restarts.
LEMMA ControllerChain ==
    ASSUME RInv, OInv, NEW u, Upgrades = {u}, NEW rank, CInv(u, rank),
           NEW n \in Controllers, faults' = 0,
           \/ HandleNext(n) \/ Beat(n) \/ Work(n) \/ WorkOn(n)
           \/ Connect(n) \/ Disconnect(n) \/ Reboot(n)
    PROVE  CInv(u, rank)'
<1> DEFINE c == clients[n]
<1>1. Fit(n, c) /\ c.sent = <<>> /\ faults \in Nat
  BY RolloutAssumption DEF RInv, Aboard, Counted
<1>2. ~Disconnect(n) /\ ~Reboot(n)
  BY <1>1 DEF Disconnect, Reboot
<1>3. PICK next :
        /\ ClientStep(n, next)
        /\ \/ \E d \in Client(n)!Handled(c) : d = next
           \/ \E d \in Client(n)!Beaten(c) : d = next
           \/ \E d \in Client(n)!Broken(c) : d = next
           \/ \E d \in Client(n)!Ended(c, CanFail) : d = next
           \/ \E d \in Client(n)!LooseEnded(c, CanFail) : d = next
           \/ next = [c EXCEPT !.online = TRUE]
  BY <1>2 DEF HandleNext, Beat, Work, TaskEnds, WorkOn, Connect
<1>4. Single(Held)
  BY DEF Held, Single
<1>5. srv.control = "CTL_DEPLOY" => None(c)
  <2>1. ASSUME srv.control = "CTL_DEPLOY"
        PROVE  Late
    BY <2>1 DEF Late, Shown, Marked, DeployMarks
  <2> QED
    BY <2>1 DEF OInv, Phased
<1> HIDE DEF c
<1>6. Past(n, c, next)
  BY <1>1, <1>3, HandledPast, BeatenPast, BrokenPast, EndedPast, LooseEndedPast,
     FlagsOnto, OntoPast
<1>7. Went(c, [c EXCEPT !.online = TRUE], c.queue, c.state, c.worker.task)
  BY <1>1, ConnectedWent
<1>8. Carries(n, c, next)
  <2>1. CASE next = [c EXCEPT !.online = TRUE]
    <3>1. c \in Client(n)!ClientHelper
      BY <1>1 DEF Fit
    <3>2. Bears(c, next)
      BY <2>1, <3>1 DEF Bears, Client!ClientHelper
    <3> QED
      BY <3>2, BearsCarries
  <2> QED
    BY <1>1, <1>3, <2>1, HandledCarries, BeatenCarries, BrokenCarries, EndedCarries,
       LooseEndedCarries
<1>9. Ahead(c) => AheadStep(c, next)
  <2> SUFFICES ASSUME Ahead(c)
               PROVE  AheadStep(c, next)
    OBVIOUS
  <2>1. Client(n)!Broken(c) = {} /\ Client(n)!LooseEnded(c, CanFail) = {}
    BY <1>1, IdleAhead
  <2>2. CASE next \in Client(n)!Handled(c)
    BY <1>1, <1>4, <2>2, HandledAhead
  <2>3. CASE next \in Client(n)!Beaten(c)
    BY <1>1, <2>3, BeatenWent, WentAhead
  <2>4. CASE next \in Client(n)!Ended(c, CanFail)
    BY <1>1, <2>4, EndedAhead
  <2>5. CASE next = [c EXCEPT !.online = TRUE]
    BY <1>7, <2>5, WentAhead
  <2> QED
    BY <1>3, <2>1, <2>2, <2>3, <2>4, <2>5
<1>10. srv.control = "CTL_DEPLOY" /\ Afoot(n, c) => AfootStep(n, c, next)
  <2> SUFFICES ASSUME None(c), Afoot(n, c)
               PROVE  AfootStep(n, c, next)
    BY <1>5
  <2>1. Client(n)!Broken(c) = {}
    BY BrokenAfoot
  <2>2. CASE next \in Client(n)!Handled(c)
    BY <1>1, <1>4, <2>2, HandledAfoot
  <2>3. CASE next \in Client(n)!Beaten(c)
    BY <1>1, <2>3, BeatenWent, SameAfoot
  <2>4. CASE next \in Client(n)!Ended(c, CanFail)
    BY <1>1, <2>4, EndedAfoot
  <2>5. CASE next \in Client(n)!LooseEnded(c, CanFail)
    BY <1>1, <2>5, LooseEndedAfoot
  <2>6. CASE next = [c EXCEPT !.online = TRUE]
    BY <1>7, <2>6, SameAfoot
  <2> QED
    BY <1>3, <2>1, <2>2, <2>3, <2>4, <2>5, <2>6
<1> QED
  BY <1>3, <1>6, <1>8, <1>9, <1>10, ClientStepChain DEF c

-----------------------------------------------------------------------------
(* The whole.                                                              *)

\* At first nobody has been offered anything.
LEMMA ChainStarts ==
    ASSUME RolloutInit, NEW u, NEW rank
    PROVE  CInv(u, rank)
<1> DEFINE boot == Boot(NoFile)
           read == [boot EXCEPT !.cacheDepends = NoFile.depends, !.cacheState = "MR_UNKNOWN"]
           begun == OnInit(boot, TRUE)
<1>1. NoFile \in StatusFile
  BY DEF NoFile, StatusFile, ServerState
<1>2. Typed(boot)
  BY <1>1, BootTyped
<1>3. /\ boot.state = "MR_OFFLINE" /\ boot.control = "CTL_UNKNOWN"
      /\ boot.file = NoFile
  BY DEF Boot
<1>4. NoFile.state # "MR_DEPLOY"
  BY DEF NoFile
<1> HIDE DEF boot
<1>5. begun = idle(read)
  BY <1>3, <1>4 DEF OnInit, FinalAsk
<1>6. Typed(read) /\ read.control = "CTL_UNKNOWN" /\ read.state # "MR_IDLE"
  <2>1. PICK S \in SUBSET Names : boot \in Server(S)
    BY <1>2 DEF Typed
  <2>2. NoFile.depends \in SUBSET Names /\ "MR_UNKNOWN" \in ServerState
    BY DEF NoFile, ServerState
  <2>3. read \in Server(S)
    BY <2>1, <2>2, ZenonT(60) DEF Server
  <2>4. read.control = "CTL_UNKNOWN" /\ read.state # "MR_IDLE"
    BY <1>3, <2>1 DEF Server
  <2> QED
    BY <2>1, <2>3, <2>4 DEF Typed
<1> HIDE DEF read, begun
<1>7. begun.control = "CTL_UNKNOWN" /\ Members(begun) = {} /\ Typed(begun)
  <2>1. Typed(begun)
    BY <1>5, <1>6, idleRests
  <2>2. begun.control = read.control /\ DOMAIN begun.details = {}
    BY <1>5, <1>6, idleEffect
  <2> QED
    BY <1>6, <2>1, <2>2 DEF Members
<1>8. srv = Fresh(begun) /\ offered = {}
  BY DEF RolloutInit, boot, begun
<1>9. srv.control = "CTL_UNKNOWN" /\ Members(srv) = {}
  BY <1>7, <1>8 DEF Fresh, Typed, Server, Members
<1>10. ASSUME NEW n \in Controllers
       PROVE  Poised(n) /\ Rightful(u, n)
  <2> DEFINE c == clients[n]
  <2>1. c = Client(n)!Started(0, {}) /\ wire[n] = <<>>
    BY DEF RolloutInit
  <2>2. /\ c.state = "WR_IDLE" /\ c.queue = <<>> /\ c.loose = {} /\ ~c.hasCancelAction
        /\ c.worker.task = "none"
    BY <2>1 DEF Client!Started, Client!NoWorker
  <2> HIDE DEF c
  <2>3. Free(c) /\ Ahead(c)
    <3>1. Tokens(c.queue) = {}
      BY <2>2 DEF Tokens
    <3> QED
      BY <2>2, <3>1 DEF Free, Ahead, Single
  <2>4. Lasts(n, {"WR_WAIT"})
    BY <1>9, <2>1 DEF Lasts
  <2>5. \A x : ~Releases(n, c, x)
    BY <2>2 DEF Releases
  <2> QED
    BY <1>9, <2>2, <2>3, <2>4, <2>5 DEF Poised, Rightful, c
<1> QED
  BY <1>8, <1>9, <1>10 DEF CInv, Resting

\* No connection is lost, nobody restarts, no download is retried and nothing cancelled.
Unhindered == Undisturbed /\ cancelled = {}

\* Every step that is not hindered keeps it.
LEMMA ChainStep ==
    ASSUME NEW u, Upgrades = {u}, NEW rank, Line(rank), RInv, RInv', OInv, CInv(u, rank),
           [RolloutNext]_rolloutVars, Unhindered'
    PROVE  CInv(u, rank)'
<1>1. faults' = 0 /\ srv'.retryTimes = 0 /\ cancelled' = {}
  BY DEF Unhindered, Undisturbed
<1>2. ASSUME NEW upgrade \in Upgrades, Offer(upgrade)
      PROVE  CInv(u, rank)'
  <2>1. Offer(u)
    BY <1>2
  <2> QED
    BY <2>1, OfferChain
<1>3. ASSUME NEW id \in Ids
      PROVE  ~Withdraw(id)
  BY <1>1 DEF Withdraw
<1>4. CASE Downloaded \/ Verified \/ Distributed \/ WebError
  BY <1>1, <1>4, WebChain
<1>5. CASE Pull
  BY <1>5, PullChain
<1>6. ASSUME NEW answer \in Answers, AnswerAsked(answer)
      PROVE  CInv(u, rank)'
  BY <1>6, AnswerChain
<1>7. ASSUME NEW late \in BOOLEAN, NEW silent \in SUBSET Members(srv),
             NEW overdue \in SUBSET Members(srv), ServerTick(late, silent, overdue)
      PROVE  CInv(u, rank)'
  BY <1>7, TickChain
<1>8. ASSUME NEW n \in Controllers, Hear(n)
      PROVE  CInv(u, rank)'
  BY <1>8, HearChain
<1>9. ASSUME NEW n \in Controllers,
             \/ HandleNext(n) \/ Beat(n) \/ Work(n) \/ WorkOn(n)
             \/ Connect(n) \/ Disconnect(n) \/ Reboot(n)
      PROVE  CInv(u, rank)'
  BY <1>1, <1>9, ControllerChain
<1>10. CASE UNCHANGED rolloutVars
  <2>1. UNCHANGED <<srv, clients, wire, web, offered>>
    BY <1>10 DEF rolloutVars
  <2>2. \/ Resting' \/ Heading(u)' \/ Running(u)' \/ Finished'
    BY <2>1 DEF CInv, Resting, Heading, Running, Finished
  <2>3. (Forth' <=> Forth) /\ srv'.control = srv.control
    BY <2>1 DEF Forth
  <2>4. ASSUME NEW n \in Controllers
        PROVE  /\ Poised(n)' <=> Poised(n)
               /\ Engaged(rank, n)' <=> Engaged(rank, n)
               /\ Rightful(u, n)' <=> Rightful(u, n)
    <3>1. \A A : Lasts(n, A)' <=> Lasts(n, A)
      BY <2>1 DEF Lasts
    <3>2. Fallow(n)' <=> Fallow(n)
      BY <2>1 DEF Fallow
    <3>3. Below(rank, n)' <=> Below(rank, n)
      BY <2>1 DEF Below, Over
    <3>4. Rightful(u, n)' <=> Rightful(u, n)
      BY <2>1 DEF Rightful, Satisfied
    <3>5. Poised(n)' <=> Poised(n)
      BY <2>1, <3>1 DEF Poised
    <3>6. Engaged(rank, n)' <=> Engaged(rank, n)
      BY <2>1, <3>1, <3>2, <3>3 DEF Engaged
    <3> QED
      BY <3>4, <3>5, <3>6
  <2> QED
    BY <2>2, <2>3, <2>4 DEF CInv
<1> QED
  BY <1>2, <1>3, <1>4, <1>5, <1>6, <1>7, <1>8, <1>9, <1>10 DEF RolloutNext

\* What is at work has been released.
LEMMA ChainDepends ==
    ASSUME NEW u, Upgrades = {u}, NEW rank, RInv, CInv(u, rank)
    PROVE  DependsRespected
<1> SUFFICES ASSUME NEW n \in Controllers, NEW w \in Deployments(n),
                    NEW m \in Requires[n] \cap Controllers
             PROVE  clients[m].installed = Target[w.upgrade]
  BY DEF DependsRespected
<1>1. Releases(n, clients[n], w.upgrade)
  BY DEF Deployments, AtWork, Releases
<1>2. Rightful(u, n)
  BY DEF CInv
<1>3. Satisfied(n) /\ w.upgrade = u.id
  BY <1>1, <1>2, Zenon DEF Rightful
<1>4. clients[m].installed \in {0} \cup {Target[i] : i \in Held}
  BY DEF RInv, Aboard, Fit, Provided
<1>5. Held = {u.id}
  BY DEF Held
<1>6. clients[m].installed # 0
  BY <1>3 DEF Satisfied
<1> QED
  BY <1>3, <1>4, <1>5, <1>6

(***************************************************************************)
(* A package is deployed only when what it depends on runs its new         *)
(* version: for any number of controllers that depend on each other in a   *)
(* line, with and without failures, timeouts, answers, patches, swift      *)
(* deployments and tasks that outlast stop().  It is false beside a line:  *)
(* a controller that nobody waits for may end in the tick in which another *)
(* begins, and the next order no longer names that other.  Lost            *)
(* connections, restarts and retries are excluded as in NeverEarlyDeploy,  *)
(* which this rests on, and cancellations because what has said that it    *)
(* waits may then be idle again: these cases are left to TLC.              *)
(***************************************************************************)
THEOREM LineDependsRespected ==
    ASSUME NEW u, Upgrades = {u}, NEW rank, Line(rank)
    PROVE  RolloutSpec /\ []Unhindered => []DependsRespected
<1>1. RolloutInit => RInv /\ OInv /\ CInv(u, rank)
  BY RolloutStarts, OrderStarts, ChainStarts
<1>2. RInv /\ OInv /\ CInv(u, rank) /\ [RolloutNext]_rolloutVars /\ Unhindered'
      => RInv' /\ OInv' /\ CInv(u, rank)'
  <2> SUFFICES ASSUME RInv, OInv, CInv(u, rank), [RolloutNext]_rolloutVars, Unhindered'
               PROVE  RInv' /\ OInv' /\ CInv(u, rank)'
    OBVIOUS
  <2>1. RInv'
    BY RolloutStep
  <2>2. OInv'
    BY OrderStep DEF Unhindered
  <2>3. CInv(u, rank)'
    BY <2>1, ChainStep
  <2> QED
    BY <2>1, <2>2, <2>3
<1>3. RInv /\ CInv(u, rank) => DependsRespected
  BY ChainDepends
<1> QED
  BY <1>1, <1>2, <1>3, PTL DEF RolloutSpec

=============================================================================
