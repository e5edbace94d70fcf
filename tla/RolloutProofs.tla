--------------------------- MODULE RolloutProofs ---------------------------
(***************************************************************************)
(* Proofs about the server and the controllers together (module Rollout),  *)
(* for any number of controllers, upgrades and faults.                     *)
(*                                                                         *)
(* The invariant RInv says that every controller works on packages that    *)
(* were offered to it, never without one (Provided), that it reports a     *)
(* version only if it has installed one (Honest), that this is so of what  *)
(* is on its way (Underway) and of what the server has heard (Reported),   *)
(* and hence of the success the server tells the update server (Told).     *)
(* The part of the server is that of ServerEngineProofs: each step of the  *)
(* whole is a step of ServerEngine or leaves the server as it is.          *)
(*                                                                         *)
(* Then (Nobody deploys while somebody is still preparing) NoEarlyDeploy,  *)
(* for any number of controllers of one upgrade.                           *)
(***************************************************************************)
EXTENDS Rollout, ServerEngineProofs, WellFoundedInduction, TLAPS

-----------------------------------------------------------------------------
(* Induction over the numbers up to a bound.                               *)

\* What holds at 0 and at every successor holds up to N.
LEMMA Upto ==
    ASSUME NEW N \in Nat, NEW S, 0 \in S, \A i \in 1..N : i - 1 \in S => i \in S
    PROVE  0..N \subseteq S
<1> DEFINE R == {ss \in Nat \X Nat : ss[1] < ss[2]}
           T == (0..N) \ S
<1>1. IsWellFoundedOn(R, Nat)
  BY NatLessThanWellFounded DEF OpToRel
<1>2. \A x, y \in Nat : x < y => <<x, y>> \in R
  OBVIOUS
<1>3. CASE T # {}
  <2>1. T \subseteq Nat
    OBVIOUS
  <2> HIDE DEF R
  <2>2. PICK x \in T : \A y \in T : ~(<<y, x>> \in R)
    BY <1>1, <1>3, <2>1, WFMin
  <2>3. x \in 1..N /\ x - 1 \in 0..N /\ x - 1 < x
    BY <2>2
  <2>4. x - 1 \notin T
    <3>1. x \in Nat /\ x - 1 \in Nat
      BY <2>3
    <3>2. <<x - 1, x>> \in R
      BY <1>2, <2>3, <3>1
    <3> HIDE DEF T
    <3> QED
      BY <2>2, <3>2
  <2> QED
    BY <2>2, <2>3, <2>4
<1> QED
  BY <1>3

\* The ways to take N steps in T from base; step[<<i, x>>] is what step i makes of x.
Within(N, T, step) == \A i \in 1..N, x \in T : step[<<i, x>>] \in T
Walks(N, T, base, step) ==
    {f \in [0..N -> T] : f[0] = base /\ \A i \in 1..N : f[i] = step[<<i, f[i - 1]>>]}

\* There is one.
LEMMA Repeated ==
    ASSUME NEW N \in Nat, NEW T, NEW base \in T, NEW step, Within(N, T, step)
    PROVE  Walks(N, T, base, step) # {}
<1> DEFINE Run(k) == Walks(k, T, base, step)
           S == {k \in 0..N : Run(k) # {}}
<1>1. 0 \in S
  <2>1. [i \in 0..0 |-> base] \in Run(0)
    BY DEF Walks
  <2> HIDE DEF Run
  <2> QED
    BY <2>1
<1>2. ASSUME NEW k \in 1..N, k - 1 \in S
      PROVE  k \in S
  <2>1. PICK f : f \in Run(k - 1)
    BY <1>2
  <2> DEFINE last == step[<<k, f[k - 1]>>]
             g == [i \in 0..k |-> IF i = k THEN last ELSE f[i]]
  <2>2. last \in T
    BY <2>1 DEF Walks, Within
  <2> HIDE DEF last
  <2>3. g \in [0..k -> T] /\ g[0] = base /\ g[k] = last
    BY <2>1, <2>2 DEF Walks
  <2>4. \A i \in 0..(k - 1) : g[i] = f[i]
    OBVIOUS
  <2> HIDE DEF g
  <2>5. ASSUME NEW i \in 1..k
        PROVE  g[i] = step[<<i, g[i - 1]>>]
    <3>1. CASE i = k
      <4>1. g[k - 1] = f[k - 1]
        BY <2>4
      <4> QED
        BY <2>3, <3>1, <4>1 DEF last
    <3>2. CASE i # k
      <4>1. i \in 1..(k - 1) /\ g[i] = f[i] /\ g[i - 1] = f[i - 1]
        BY <2>4, <3>2
      <4> QED
        BY <2>1, <4>1 DEF Walks
    <3> QED
      BY <3>1, <3>2
  <2>6. g \in Run(k)
    BY <2>3, <2>5 DEF Walks
  <2> HIDE DEF Run
  <2> QED
    BY <2>6
<1>3. N \in S
  <2> HIDE DEF S
  <2>1. 0..N \subseteq S
    BY <1>1, <1>2, Upto
  <2> QED
    BY <2>1
<1> QED
  BY <1>3

-----------------------------------------------------------------------------
(* What the calls and the handlers of a controller keep.                   *)

\* The packages there are.
Held == {u.id : u \in Upgrades}

HasResult(c) == \E i \in DOMAIN c.queue : c.queue[i].type # "REQ_CONTROL"
HasDone(c) == \E i \in DOMAIN c.queue : c.queue[i].type = "RES_DEPLOY_DONE"

\* No task and no result without a package, and no package that was not offered.
Provided(c) ==
    /\ c.package \in Held \cup {NoId}
    /\ c.worker.task # "none" \/ c.loose # {} \/ HasResult(c) => c.package # NoId
    /\ c.worker.task # "none" => c.worker.package \in Held
    /\ \A w \in c.loose : w.task # "none" /\ w.package \in Held
    /\ \A i \in DOMAIN c.queue :
         c.queue[i].type = "REQ_CONTROL" /\ c.queue[i].holds => c.queue[i].upgrade \in Held
    /\ c.installed \in {0} \cup {Target[i] : i \in Held}

\* A version is not reported, or about to be, before one is installed.
Honest(c) ==
    /\ c.version # 0 \/ HasDone(c) => c.installed # 0
    /\ \A i \in DOMAIN c.sent : c.sent[i].version # 0 => c.installed # 0

Fit(n, c) == c \in Client(n)!ClientHelper /\ Provided(c) /\ Honest(c)

\* d is c as far as Provided and Honest read it.
Alike(d, c) == /\ d.package = c.package /\ d.worker = c.worker /\ d.loose = c.loose
               /\ d.queue = c.queue /\ d.installed = c.installed
               /\ d.version = c.version /\ d.sent = c.sent

\* What the calls make of a controller: none takes its package or its version.
Onto(n, c, d) == /\ Fit(n, d) /\ d.package = c.package /\ d.version = c.version
                 /\ c.installed # 0 => d.installed # 0

\* What was offered has an id.
LEMMA HeldIds == Held \subseteq Ids
  BY ServerAssumption DEF Held

\* What neither Provided nor Honest reads is free to change.
LEMMA AlikeOnto ==
    ASSUME NEW n, NEW c, Fit(n, c), NEW d \in Client(n)!ClientHelper, Alike(d, c)
    PROVE  Onto(n, c, d)
  BY DEF Alike, Onto, Fit, Provided, Honest, HasResult, HasDone

\* Calls follow one another.
LEMMA OntoOnto ==
    ASSUME NEW n, NEW c, NEW d, NEW e, Onto(n, c, d), Onto(n, d, e)
    PROVE  Onto(n, c, e)
  BY DEF Onto

\* setDomainState changes the state only.
LEMMA setDomainStateOnto ==
    ASSUME NEW n, NEW c, Fit(n, c), NEW state \in Client(n)!ClientState
    PROVE  Onto(n, c, Client(n)!setDomainState(c, state))
<1>1. c \in Client(n)!ClientHelper
  BY DEF Fit
<1>2. Client(n)!setDomainState(c, state) \in Client(n)!ClientHelper
  BY <1>1, ZenonT(60) DEF Client!setDomainState, Client!ClientHelper
<1>3. Alike(Client(n)!setDomainState(c, state), c)
  BY <1>1 DEF Client!setDomainState, Client!ClientHelper, Alike
<1> QED
  BY <1>2, <1>3, AlikeOnto

\* The flags and the upgrade's id.
LEMMA FlagsOnto ==
    ASSUME NEW n, NEW c, Fit(n, c), NEW flag \in BOOLEAN
    PROVE  /\ Onto(n, c, [c EXCEPT !.hasCancelAction = flag])
           /\ Onto(n, c, [c EXCEPT !.error = flag])
           /\ Onto(n, c, [c EXCEPT !.patchNewFiles = flag])
           /\ Onto(n, c, [c EXCEPT !.online = flag])
           /\ Onto(n, c, [c EXCEPT !.heard = flag])
<1>1. c \in Client(n)!ClientHelper
  BY DEF Fit
<1>2. /\ [c EXCEPT !.hasCancelAction = flag] \in Client(n)!ClientHelper
      /\ Alike([c EXCEPT !.hasCancelAction = flag], c)
  BY <1>1 DEF Client!ClientHelper, Alike
<1>3. /\ [c EXCEPT !.error = flag] \in Client(n)!ClientHelper
      /\ Alike([c EXCEPT !.error = flag], c)
  BY <1>1 DEF Client!ClientHelper, Alike
<1>4. /\ [c EXCEPT !.patchNewFiles = flag] \in Client(n)!ClientHelper
      /\ Alike([c EXCEPT !.patchNewFiles = flag], c)
  BY <1>1 DEF Client!ClientHelper, Alike
<1>5. /\ [c EXCEPT !.online = flag] \in Client(n)!ClientHelper
      /\ Alike([c EXCEPT !.online = flag], c)
  BY <1>1 DEF Client!ClientHelper, Alike
<1>6. /\ [c EXCEPT !.heard = flag] \in Client(n)!ClientHelper
      /\ Alike([c EXCEPT !.heard = flag], c)
  BY <1>1 DEF Client!ClientHelper, Alike
<1> QED
  BY <1>2, <1>3, <1>4, <1>5, <1>6, AlikeOnto

\* A result is posted by who has a package, and of a deployment when it is installed.
LEMMA postResultOnto ==
    ASSUME NEW n, NEW c, Fit(n, c), c.package # NoId,
           NEW type \in {"RES_ERROR", "RES_DOWNLOAD", "RES_VERIFY", "RES_PATCH",
                         "RES_DEPLOY_DONE", "RES_CANCEL_DONE"},
           type = "RES_DEPLOY_DONE" => c.installed # 0
    PROVE  Onto(n, c, Client(n)!postResult(c, type))
<1> DEFINE event == [type |-> type]
           queue == Append(c.queue, event)
           d == [c EXCEPT !.queue = queue]
<1>1. c \in Client(n)!ClientHelper /\ c.queue \in Seq(Client(n)!ClientEvent)
  BY DEF Fit, Client!ClientHelper
<1>2. event \in Client(n)!ClientEvent
  BY DEF Client!ClientEvent, Client!ResultEvent
<1>3. /\ queue \in Seq(Client(n)!ClientEvent) /\ Len(queue) = Len(c.queue) + 1
      /\ DOMAIN queue = 1..Len(c.queue) + 1 /\ DOMAIN c.queue = 1..Len(c.queue)
      /\ \A i \in DOMAIN c.queue : queue[i] = c.queue[i]
      /\ queue[Len(c.queue) + 1] = event
  BY <1>1, <1>2
<1>4. d = Client(n)!postResult(c, type)
  BY DEF Client!postResult, Client!postEvent
<1> HIDE DEF queue
<1>5. d \in Client(n)!ClientHelper
  BY <1>1, <1>3 DEF Client!ClientHelper
<1>6. /\ d.queue = queue /\ d.package = c.package /\ d.worker = c.worker /\ d.loose = c.loose
      /\ d.installed = c.installed /\ d.version = c.version /\ d.sent = c.sent
  BY <1>1 DEF Client!ClientHelper
<1> HIDE DEF d
<1>7. \A i \in DOMAIN queue : (i \in DOMAIN c.queue /\ queue[i] = c.queue[i]) \/ queue[i] = event
  BY <1>1, <1>3
<1>8. event.type = type
  OBVIOUS
<1> HIDE DEF event
<1>9. Provided(d)
  BY <1>3, <1>6, <1>7, <1>8 DEF Fit, Provided, HasResult
<1>10. Honest(d)
  BY <1>3, <1>6, <1>7, <1>8 DEF Fit, Honest, HasDone
<1> QED
  BY <1>4, <1>5, <1>6, <1>9, <1>10 DEF Onto, Fit

\* A report says the version that the engine knows.
LEMMA sendDomainMessageOnto ==
    ASSUME NEW n, NEW c, Fit(n, c)
    PROVE  Onto(n, c, Client(n)!sendDomainMessage(c))
<1> DEFINE heartbeat == [state |-> c.state, last |-> c.last, error |-> c.error,
                         version |-> c.version, discovery |-> c.needDiscovery]
           sent == Append(c.sent, heartbeat)
           d == [c EXCEPT !.needDiscovery = FALSE, !.sent = sent]
           e == [c EXCEPT !.needDiscovery = TRUE, !.heard = FALSE]
<1>1. c \in Client(n)!ClientHelper /\ c.sent \in Seq(Client(n)!Heartbeat)
  BY DEF Fit, Client!ClientHelper
<1>2. heartbeat \in Client(n)!Heartbeat
  BY <1>1 DEF Client!ClientHelper, Client!Heartbeat
<1>3. heartbeat.version = c.version
  OBVIOUS
<1> HIDE DEF heartbeat
<1>4. /\ sent \in Seq(Client(n)!Heartbeat)
      /\ \A i \in DOMAIN sent : (i \in DOMAIN c.sent /\ sent[i] = c.sent[i]) \/ sent[i] = heartbeat
  BY <1>1, <1>2
<1> HIDE DEF sent
<1>5. /\ d \in Client(n)!ClientHelper
      /\ d.sent = sent /\ d.package = c.package /\ d.worker = c.worker /\ d.loose = c.loose
      /\ d.installed = c.installed /\ d.version = c.version /\ d.queue = c.queue
  BY <1>1, <1>4 DEF Client!ClientHelper
<1>6. e \in Client(n)!ClientHelper /\ Alike(e, c)
  BY <1>1 DEF Client!ClientHelper, Alike
<1>7. Client(n)!sendDomainMessage(c) = IF c.online THEN d ELSE e
  BY DEF Client!sendDomainMessage, sent, heartbeat
<1> HIDE DEF d, e
<1>8. Provided(d) /\ Honest(d)
  BY <1>3, <1>4, <1>5 DEF Fit, Provided, Honest, HasResult, HasDone
<1>9. Onto(n, c, d)
  BY <1>5, <1>8 DEF Onto, Fit
<1>10. Onto(n, c, e)
  BY <1>6, AlikeOnto
<1> QED
  BY <1>7, <1>9, <1>10

\* The thread has another task, of who has a package; some of those let go have ended.
LEMMA ReworkOnto ==
    ASSUME NEW n, NEW c, Fit(n, c), NEW w \in Client(n)!Worker,
           w.task # "none" => w.package \in Held /\ c.package # NoId,
           NEW loose \in SUBSET c.loose
    PROVE  /\ Onto(n, c, [c EXCEPT !.worker = w])
           /\ Onto(n, c, [c EXCEPT !.worker = w, !.loose = loose])
<1> DEFINE d == [c EXCEPT !.worker = w]
           e == [c EXCEPT !.worker = w, !.loose = loose]
<1>1. c \in Client(n)!ClientHelper
  BY DEF Fit
<1>2. /\ d \in Client(n)!ClientHelper
      /\ d.sent = c.sent /\ d.package = c.package /\ d.worker = w /\ d.loose = c.loose
      /\ d.installed = c.installed /\ d.version = c.version /\ d.queue = c.queue
  BY <1>1 DEF Client!ClientHelper
<1>3. /\ e \in Client(n)!ClientHelper
      /\ e.sent = c.sent /\ e.package = c.package /\ e.worker = w /\ e.loose = loose
      /\ e.installed = c.installed /\ e.version = c.version /\ e.queue = c.queue
  BY <1>1 DEF Client!ClientHelper
<1> HIDE DEF d, e
<1>4. Provided(d) /\ Honest(d)
  BY <1>2 DEF Fit, Provided, Honest, HasResult, HasDone
<1>5. Provided(e) /\ Honest(e)
  BY <1>3 DEF Fit, Provided, Honest, HasResult, HasDone
<1>6. Onto(n, c, d) /\ Onto(n, c, e)
  BY <1>2, <1>3, <1>4, <1>5 DEF Onto, Fit
<1> QED
  BY <1>6 DEF d, e

\* A task is started for the package held.
LEMMA startOnto ==
    ASSUME NEW n, NEW c, Fit(n, c), c.package # NoId,
           NEW task \in {"download", "verify", "patch", "deploy"}
    PROVE  Onto(n, c, Client(n)!start(c, task))
<1> DEFINE w == [task |-> task, upgrade |-> c.upgrade, package |-> c.package,
                 broken |-> FALSE]
<1>1. c.upgrade \in Ids \cup {NoId} /\ c.package \in Held
  BY DEF Fit, Provided, Client!ClientHelper
<1>2. w \in Client(n)!Worker /\ w.package \in Held
  BY <1>1, HeldIds DEF Client!Worker
<1>3. Client(n)!start(c, task) = [c EXCEPT !.worker = w]
  BY DEF Client!start
<1> HIDE DEF w
<1>4. Onto(n, c, [c EXCEPT !.worker = w])
  BY <1>2, ReworkOnto
<1> QED
  BY <1>3, <1>4

\* A task at work has a package; it is typed.
LEMMA AtWorkProvided ==
    ASSUME NEW n, NEW c, Fit(n, c), c.worker.task # "none"
    PROVE  /\ c.package # NoId /\ c.worker \in Client(n)!Worker /\ c.worker.package \in Held
           /\ c.worker.package \in Ids /\ c.worker.upgrade \in Ids \cup {NoId}
<1>1. c.worker \in Client(n)!Worker
  BY DEF Fit, Client!ClientHelper
<1>2. c.worker.package \in Held /\ c.package # NoId
  BY DEF Fit, Provided
<1>3. c.worker.upgrade \in Ids \cup {NoId}
  BY <1>1 DEF Client!Worker, Client!NoWorker
<1> QED
  BY <1>1, <1>2, <1>3, HeldIds

\* The outcomes of the task: files fetched or a package installed, and its result.
LEMMA SuccessOnto ==
    ASSUME NEW n, NEW c, Fit(n, c), NEW d \in Client(n)!Success(c)
    PROVE  Onto(n, c, d)
<1> DEFINE fetched == <<c.worker.upgrade, c.worker.package>>
           got == [c EXCEPT !.files = @ \cup {fetched}]
           patched == [c EXCEPT !.patchNewFiles = TRUE]
           installed == [c EXCEPT !.installed = Target[c.worker.package]]
<1>1. c \in Client(n)!ClientHelper
  BY DEF Fit
<1>2. CASE c.worker.task = "none"
  BY <1>2 DEF Client!Success
<1>3. CASE c.worker.task # "none"
  <2>1. /\ c.package # NoId /\ c.worker.package \in Held
        /\ c.worker.package \in Ids /\ c.worker.upgrade \in Ids \cup {NoId}
    BY <1>3, AtWorkProvided
  <2>2. Onto(n, c, got)
    <3>1. c.files \cup {fetched} \in SUBSET ((Ids \cup {NoId}) \X Ids)
      BY <1>1, <2>1 DEF Client!ClientHelper
    <3> HIDE DEF fetched
    <3>2. got \in Client(n)!ClientHelper /\ Alike(got, c)
      BY <1>1, <3>1 DEF Client!ClientHelper, Alike
    <3> QED
      BY <3>2, AlikeOnto
  <2>3. Onto(n, c, patched)
    BY FlagsOnto
  <2>4. Onto(n, c, installed) /\ installed.installed # 0 /\ installed.package = c.package
    <3> DEFINE target == Target[c.worker.package]
    <3>1. target \in Client(n)!Versions /\ target # 0 /\ target \in {Target[i] : i \in Held}
      BY <2>1, RolloutAssumption DEF Client!Versions
    <3> HIDE DEF target
    <3>2. [c EXCEPT !.installed = target] \in Client(n)!ClientHelper
      BY <1>1, <3>1 DEF Client!ClientHelper
    <3> DEFINE e == [c EXCEPT !.installed = target]
    <3>3. /\ e.sent = c.sent /\ e.package = c.package /\ e.worker = c.worker
          /\ e.loose = c.loose /\ e.installed = target /\ e.version = c.version
          /\ e.queue = c.queue
      BY <1>1 DEF Client!ClientHelper
    <3> HIDE DEF e
    <3>4. Provided(e) /\ Honest(e)
      BY <3>1, <3>3 DEF Fit, Provided, Honest, HasResult, HasDone
    <3>5. Onto(n, c, e)
      BY <3>1, <3>2, <3>3, <3>4 DEF Onto, Fit, e
    <3> QED
      BY <3>1, <3>3, <3>5 DEF e, target
  <2> HIDE DEF got, patched, installed
  <2>5. \/ d = Client(n)!postResult(got, "RES_DOWNLOAD")
        \/ d = Client(n)!postResult(c, "RES_VERIFY")
        \/ d = Client(n)!postResult(patched, "RES_PATCH")
        \/ d = Client(n)!postDeployDone(installed, TRUE)
    BY DEF Client!Success, got, patched, installed
  <2>6. \A e : Onto(n, c, e) => Fit(n, e) /\ e.package # NoId
    BY <2>1 DEF Onto
  <2>7. Onto(n, c, Client(n)!postResult(got, "RES_DOWNLOAD"))
    BY <2>2, <2>6, postResultOnto, OntoOnto
  <2>8. Onto(n, c, Client(n)!postResult(c, "RES_VERIFY"))
    BY <2>1, postResultOnto
  <2>9. Onto(n, c, Client(n)!postResult(patched, "RES_PATCH"))
    BY <2>3, <2>6, postResultOnto, OntoOnto
  <2>10. Onto(n, c, Client(n)!postDeployDone(installed, TRUE))
    <3>1. Onto(n, c, Client(n)!postResult(installed, "RES_DEPLOY_DONE"))
      BY <2>4, <2>6, postResultOnto, OntoOnto
    <3> QED
      BY <2>4, <3>1 DEF Client!postDeployDone
  <2> QED
    BY <2>5, <2>7, <2>8, <2>9, <2>10
<1> QED
  BY <1>2, <1>3

\* A task that fails posts a result.
LEMMA FailureOnto ==
    ASSUME NEW n, NEW c, Fit(n, c), NEW d \in Client(n)!Failure(c)
    PROVE  Onto(n, c, d)
<1>1. c.worker.task # "none"
  BY DEF Client!Failure
<1>2. c.package # NoId
  BY <1>1, AtWorkProvided
<1>3. Onto(n, c, Client(n)!postResult(c, "RES_ERROR")) /\ Onto(n, c, c)
  BY <1>2, postResultOnto DEF Onto
<1>4. d = Client(n)!postDeployDone(c, FALSE) \/ d = Client(n)!postResult(c, "RES_ERROR")
  BY <1>1 DEF Client!Failure
<1> QED
  BY <1>3, <1>4 DEF Client!postDeployDone

\* So may one that has been stopped,
LEMMA StoppedOnto ==
    ASSUME NEW n, NEW c, Fit(n, c), NEW d \in Client(n)!Stopped(c)
    PROVE  Onto(n, c, d)
<1>1. c.worker.task # "none" /\ (d = c \/ d = Client(n)!postResult(c, "RES_CANCEL_DONE"))
  BY DEF Client!Stopped
<1>2. c.package # NoId
  BY <1>1, AtWorkProvided
<1>3. Onto(n, c, Client(n)!postResult(c, "RES_CANCEL_DONE")) /\ Onto(n, c, c)
  BY <1>2, postResultOnto DEF Onto
<1> QED
  BY <1>1, <1>3

\* and one that has seen the cancellation.
LEMMA CancelledOnto ==
    ASSUME NEW n, NEW c, Fit(n, c), NEW d \in Client(n)!Cancelled(c)
    PROVE  Onto(n, c, d)
<1>1. /\ c.worker.task # "none"
      /\ \/ d = Client(n)!postResult(c, "RES_ERROR")
         \/ \E success \in BOOLEAN : d = Client(n)!postCancelDone(c, success)
  BY DEF Client!Cancelled
<1>2. c.package # NoId
  BY <1>1, AtWorkProvided
<1>3. /\ Onto(n, c, Client(n)!postResult(c, "RES_CANCEL_DONE")) /\ Onto(n, c, c)
      /\ Onto(n, c, Client(n)!postResult(c, "RES_ERROR"))
  BY <1>2, postResultOnto DEF Onto
<1> QED
  BY <1>1, <1>3 DEF Client!postCancelDone

\* The thread rests.
LEMMA RestOnto ==
    ASSUME NEW n, NEW c, Fit(n, c)
    PROVE  Onto(n, c, Client(n)!Rest(c))
<1>1. Client(n)!NoWorker \in Client(n)!Worker /\ Client(n)!NoWorker.task = "none"
  BY DEF Client!NoWorker, Client!Worker
<1> QED
  BY <1>1, ReworkOnto DEF Client!Rest

\* A task let go keeps its package.
LEMMA LetGoOnto ==
    ASSUME NEW n, NEW c, Fit(n, c), NEW d \in Client(n)!LetGo(c)
    PROVE  Onto(n, c, d)
<1> DEFINE loose == c.loose \cup {c.worker}
<1>1. c \in Client(n)!ClientHelper
  BY DEF Fit
<1>2. c.worker.task # "none" /\ d = [c EXCEPT !.loose = loose]
  BY RolloutAssumption DEF Client!LetGo
<1>3. c.package # NoId /\ c.worker \in Client(n)!Worker /\ c.worker.package \in Held
  BY <1>2, AtWorkProvided
<1>4. /\ loose \in SUBSET Client(n)!Worker
      /\ \A w \in loose : w.task # "none" /\ w.package \in Held
  BY <1>1, <1>2, <1>3 DEF Client!ClientHelper, Fit, Provided
<1> HIDE DEF loose
<1>5. /\ d \in Client(n)!ClientHelper
      /\ d.sent = c.sent /\ d.package = c.package /\ d.worker = c.worker /\ d.loose = loose
      /\ d.installed = c.installed /\ d.version = c.version /\ d.queue = c.queue
  BY <1>1, <1>2, <1>4 DEF Client!ClientHelper
<1>6. Provided(d) /\ Honest(d)
  BY <1>3, <1>4, <1>5 DEF Fit, Provided, Honest, HasResult, HasDone
<1> QED
  BY <1>5, <1>6 DEF Onto, Fit

\* Whichever way the task ends, and before the next is started, nothing is lost.
LEMMA stopThreadOnto ==
    ASSUME NEW n, NEW c, Fit(n, c), NEW d \in Client(n)!stopThread(c)
    PROVE  Onto(n, c, d)
<1>1. CASE d = c
  BY <1>1 DEF Onto
<1>2. ASSUME NEW e \in Client(n)!LetGo(c) \cup Client(n)!Stopped(c) \cup Client(n)!Cancelled(c)
                       \cup Client(n)!Success(c) \cup Client(n)!Failure(c),
             d = Client(n)!Rest(e)
      PROVE  Onto(n, c, d)
  <2>1. Onto(n, c, e)
    BY LetGoOnto, StoppedOnto, CancelledOnto, SuccessOnto, FailureOnto
  <2> QED
    BY <1>2, <2>1, RestOnto, OntoOnto DEF Onto
<1> QED
  BY <1>1, <1>2 DEF Client!stopThread

-----------------------------------------------------------------------------
(* The controls and the results.                                           *)

\* What a handler may do to a controller.
Past(n, c, d) == Fit(n, d) /\ (c.installed # 0 => d.installed # 0)

\* A call is a step.
LEMMA OntoPast ==
    ASSUME NEW n, NEW c, NEW d, Onto(n, c, d)
    PROVE  Past(n, c, d) /\ Fit(n, d) /\ d.package = c.package /\ d.version = c.version
  BY DEF Onto, Past

\* A controller that reports the version of its package has installed one.
LEMMA EqualOnto ==
    ASSUME NEW n, NEW c, Fit(n, c), Client(n)!VersionEqual(c)
    PROVE  c.installed # 0 /\ c.package # NoId
<1>1. c.package \in Ids /\ c.package # NoId /\ c.version = Target[c.package]
  BY HeldIds DEF Client!VersionEqual, Fit, Provided
<1>2. Target[c.package] # 0
  BY <1>1, RolloutAssumption
<1> QED
  BY <1>1, <1>2 DEF Fit, Honest

\* case CTL_RESET.
LEMMA OnResetOnto ==
    ASSUME NEW n, NEW c, Fit(n, c), NEW d \in Client(n)!OnReset(c)
    PROVE  Onto(n, c, d)
<1> DEFINE told == [c EXCEPT !.hasCancelAction = FALSE]
           reset == [told EXCEPT !.error = FALSE]
<1>1. Onto(n, c, told)
  BY FlagsOnto
<1>2. Onto(n, told, reset)
  <2> HIDE DEF told
  <2> QED
    BY <1>1, FlagsOnto DEF Onto
<1>3. reset = [c EXCEPT !.hasCancelAction = FALSE, !.error = FALSE]
  OBVIOUS
<1> HIDE DEF told, reset
<1>4. Onto(n, c, reset)
  BY <1>1, <1>2, OntoOnto
<1>5. Onto(n, reset, Client(n)!setDomainState(reset, "WR_IDLE"))
  BY <1>4, setDomainStateOnto DEF Onto, Client!ClientState
<1>6. d = reset \/ d = Client(n)!setDomainState(reset, "WR_IDLE")
  BY <1>3 DEF Client!OnReset
<1> QED
  BY <1>4, <1>5, <1>6, OntoOnto

\* A control that is taken: the flag goes, and a new state has no error.
LEMMA ToldOnto ==
    ASSUME NEW n, NEW c, Fit(n, c), NEW flag \in BOOLEAN, NEW state \in Client(n)!ClientState
    PROVE  LET told == [c EXCEPT !.hasCancelAction = flag]
           IN /\ Onto(n, c, told)
              /\ Onto(n, c, Client(n)!setDomainState([told EXCEPT !.error = FALSE], state))
<1> DEFINE told == [c EXCEPT !.hasCancelAction = flag]
           clear == [told EXCEPT !.error = FALSE]
<1>1. Onto(n, c, told)
  BY FlagsOnto
<1>2. Onto(n, told, clear)
  <2> HIDE DEF told
  <2> QED
    BY <1>1, FlagsOnto DEF Onto
<1> HIDE DEF told, clear
<1>3. Onto(n, clear, Client(n)!setDomainState(clear, state))
  BY <1>2, setDomainStateOnto DEF Onto
<1>4. Onto(n, c, Client(n)!setDomainState(clear, state))
  BY <1>1, <1>2, <1>3, OntoOnto
<1> QED
  BY <1>1, <1>4 DEF told, clear

\* case CTL_DOWNLOAD: only with a package.
LEMMA OnDownloadOnto ==
    ASSUME NEW n, NEW c, Fit(n, c), NEW d \in Client(n)!OnDownload(c)
    PROVE  Onto(n, c, d)
<1> DEFINE told == [c EXCEPT !.hasCancelAction = FALSE]
           downloads == Client(n)!setDomainState([told EXCEPT !.error = FALSE], "WR_DOWNLOAD")
<1>1. Onto(n, c, told) /\ Onto(n, c, downloads)
  BY ToldOnto DEF Client!ClientState
<1>2. \/ d = told
      \/ /\ c.package # NoId
         /\ \E e \in Client(n)!stopThread(downloads) : d = Client(n)!start(e, "download")
  BY DEF Client!OnDownload
<1> HIDE DEF told, downloads
<1>3. ASSUME NEW e \in Client(n)!stopThread(downloads), c.package # NoId
      PROVE  Onto(n, c, Client(n)!start(e, "download"))
  <2>1. Onto(n, c, e)
    BY <1>1, stopThreadOnto, OntoOnto DEF Onto
  <2> QED
    BY <1>3, <2>1, startOnto, OntoOnto DEF Onto
<1> QED
  BY <1>1, <1>2, <1>3

\* case CTL_DEPLOY: only with a package, and done at once only if it is installed.
LEMMA OnDeployOnto ==
    ASSUME NEW n, NEW c, Fit(n, c), NEW depends, NEW d \in Client(n)!OnDeploy(c, depends)
    PROVE  Onto(n, c, d)
<1> DEFINE told == [c EXCEPT !.hasCancelAction = FALSE]
           waits == IF c.state = "WR_IDLE" THEN Client(n)!setDomainState(told, "WR_WAIT")
                    ELSE told
           clear == [waits EXCEPT !.error = FALSE]
           deploys == Client(n)!setDomainState(clear, "WR_DEPLOY")
<1>1. Onto(n, c, told)
  BY FlagsOnto
<1>2. Onto(n, c, waits)
  <2> HIDE DEF told
  <2>1. Onto(n, told, Client(n)!setDomainState(told, "WR_WAIT"))
    BY <1>1, setDomainStateOnto DEF Onto, Client!ClientState
  <2> QED
    BY <1>1, <2>1, OntoOnto
<1>3. Onto(n, c, deploys)
  <2> HIDE DEF waits
  <2>1. Onto(n, waits, clear)
    BY <1>2, FlagsOnto DEF Onto
  <2> HIDE DEF clear
  <2>2. Onto(n, clear, deploys)
    BY <2>1, setDomainStateOnto DEF Onto, Client!ClientState
  <2> QED
    BY <1>2, <2>1, <2>2, OntoOnto
<1>4. \/ d = told
      \/ d = waits
      \/ /\ c.package # NoId
         /\ \E e \in Client(n)!stopThread(deploys) :
              d = IF Client(n)!VersionEqual(e)
                  THEN Client(n)!postResult(e, "RES_DEPLOY_DONE")
                  ELSE IF ~Client(n)!VersionVaild(e)
                  THEN Client(n)!postResult(e, "RES_ERROR") ELSE Client(n)!start(e, "deploy")
  BY DEF Client!OnDeploy
<1> HIDE DEF told, waits, deploys
<1>5. ASSUME NEW e \in Client(n)!stopThread(deploys), c.package # NoId
      PROVE  /\ Client(n)!VersionEqual(e)
                  => Onto(n, c, Client(n)!postResult(e, "RES_DEPLOY_DONE"))
             /\ Onto(n, c, Client(n)!postResult(e, "RES_ERROR"))
             /\ Onto(n, c, Client(n)!start(e, "deploy"))
  <2>1. Onto(n, c, e)
    BY <1>3, stopThreadOnto, OntoOnto DEF Onto
  <2>2. Fit(n, e) /\ e.package # NoId
    BY <1>5, <2>1 DEF Onto
  <2>3. Client(n)!VersionEqual(e) => Onto(n, e, Client(n)!postResult(e, "RES_DEPLOY_DONE"))
    BY <2>2, EqualOnto, postResultOnto
  <2>4. Onto(n, e, Client(n)!postResult(e, "RES_ERROR"))
    BY <2>2, postResultOnto
  <2>5. Onto(n, e, Client(n)!start(e, "deploy"))
    BY <2>2, startOnto
  <2> QED
    BY <2>1, <2>3, <2>4, <2>5, OntoOnto
<1> QED
  BY <1>1, <1>2, <1>4, <1>5

\* case CTL_CANCEL.
LEMMA OnCancelOnto ==
    ASSUME NEW n, NEW c, Fit(n, c), NEW d \in Client(n)!OnCancel(c)
    PROVE  Onto(n, c, d)
<1> DEFINE told == [c EXCEPT !.hasCancelAction = TRUE]
           cancels == Client(n)!setDomainState([told EXCEPT !.error = FALSE], "WR_CANCEL")
<1>1. Onto(n, c, told) /\ Onto(n, c, cancels)
  BY ToldOnto DEF Client!ClientState
<1>2. \/ d = told
      \/ /\ c.package # NoId
         /\ \/ d = cancels
            \/ d = Client(n)!postResult(cancels, "RES_ERROR")
            \/ d = Client(n)!postResult(cancels, "RES_CANCEL_DONE")
  BY DEF Client!OnCancel
<1> HIDE DEF told, cancels
<1>3. c.package # NoId => /\ Onto(n, cancels, Client(n)!postResult(cancels, "RES_ERROR"))
                          /\ Onto(n, cancels, Client(n)!postResult(cancels, "RES_CANCEL_DONE"))
  BY <1>1, postResultOnto DEF Onto
<1> QED
  BY <1>1, <1>2, <1>3, OntoOnto

\* case CTL_CLEAR.
LEMMA OnClearOnto ==
    ASSUME NEW n, NEW c, Fit(n, c), NEW d \in Client(n)!OnClear(c)
    PROVE  Onto(n, c, d)
<1> DEFINE told == [c EXCEPT !.hasCancelAction = FALSE]
<1>1. Onto(n, c, told)
  BY FlagsOnto
<1>2. PICK e \in Client(n)!stopThread(told) : d = Client(n)!setDomainState(e, "WR_IDLE")
  BY DEF Client!OnClear
<1> HIDE DEF told
<1>3. Onto(n, c, e)
  BY <1>1, stopThreadOnto, OntoOnto DEF Onto
<1>4. Onto(n, e, d)
  BY <1>2, <1>3, setDomainStateOnto DEF Onto, Client!ClientState
<1> QED
  BY <1>3, <1>4, OntoOnto

\* A control as Delivered makes it: with a package only if it was offered.
Order(n) == {event \in Client(n)!ControlEvent : event.holds => event.upgrade \in Held}

\* A control gives a package, never takes one.
LEMMA TakenFit ==
    ASSUME NEW n, NEW c, Fit(n, c), NEW event \in Order(n)
    PROVE  LET taken == [c EXCEPT !.upgrade = event.upgrade,
                                  !.package = IF event.holds THEN event.upgrade ELSE c.package]
           IN /\ Fit(n, taken)
              /\ taken.sent = c.sent /\ taken.version = c.version /\ taken.worker = c.worker
              /\ taken.installed = c.installed
              /\ (c.package # NoId => taken.package # NoId)
<1> DEFINE package == IF event.holds THEN event.upgrade ELSE c.package
           taken == [c EXCEPT !.upgrade = event.upgrade, !.package = package]
<1>1. c \in Client(n)!ClientHelper
  BY DEF Fit
<1>2. /\ event.upgrade \in Ids \cup {NoId} /\ package \in Held \cup {NoId}
      /\ package \in Ids \cup {NoId} /\ (c.package # NoId => package # NoId)
  BY HeldIds, ServerAssumption DEF Fit, Provided, Order, Client!ControlEvent
<1> HIDE DEF package
<1>3. /\ taken \in Client(n)!ClientHelper
      /\ taken.sent = c.sent /\ taken.package = package /\ taken.worker = c.worker
      /\ taken.loose = c.loose /\ taken.installed = c.installed /\ taken.version = c.version
      /\ taken.queue = c.queue
  BY <1>1, <1>2 DEF Client!ClientHelper
<1> HIDE DEF taken
<1>4. Provided(taken) /\ Honest(taken)
  BY <1>2, <1>3 DEF Fit, Provided, Honest, HasResult, HasDone
<1> QED
  BY <1>2, <1>3, <1>4 DEF Fit, taken, package

LEMMA OnControlPast ==
    ASSUME NEW n, NEW c, Fit(n, c), NEW event \in Order(n),
           NEW d \in Client(n)!OnControl(c, event)
    PROVE  Past(n, c, d)
<1> DEFINE package == IF event.holds THEN event.upgrade ELSE c.package
           taken == [c EXCEPT !.upgrade = event.upgrade, !.package = package]
<1>1. /\ Fit(n, taken)
      /\ taken.sent = c.sent /\ taken.version = c.version /\ taken.worker = c.worker
      /\ taken.installed = c.installed
      /\ (c.package # NoId => taken.package # NoId)
  BY TakenFit, Zenon
<1>2. PICK e \in Client(n)!Obeyed(taken, event) : d = Client(n)!sendDomainMessage(e)
  BY DEF Client!OnControl
<1> HIDE DEF taken
<1>3. Onto(n, taken, e)
  <2>1. \/ e \in Client(n)!OnReset(taken) \/ e \in Client(n)!OnDownload(taken)
        \/ e \in Client(n)!OnDeploy(taken, event.depends) \/ e \in Client(n)!OnCancel(taken)
        \/ e \in Client(n)!OnClear(taken) \/ e = taken
    BY <1>2 DEF Client!Obeyed
  <2>2. e = taken => Onto(n, taken, e)
    BY <1>1 DEF Onto
  <2> QED
    BY <1>1, <2>1, <2>2, OnResetOnto, OnDownloadOnto, OnDeployOnto, OnCancelOnto, OnClearOnto
<1>4. Onto(n, taken, d)
  BY <1>2, <1>3, sendDomainMessageOnto, OntoOnto DEF Onto
<1> QED
  BY <1>1, <1>4 DEF Onto, Past

\* case RES_ERROR.
LEMMA OnErrorPast ==
    ASSUME NEW n, NEW c, Fit(n, c), NEW d \in Client(n)!OnError(c)
    PROVE  Past(n, c, d)
<1> DEFINE e == Client(n)!setDomainState(c, "WR_ERROR")
           f == [e EXCEPT !.error = TRUE]
<1>1. Onto(n, c, e)
  BY setDomainStateOnto DEF Client!ClientState
<1>2. d = Client(n)!sendDomainMessage(f)
  BY DEF Client!OnError
<1> HIDE DEF e
<1>3. Onto(n, e, f)
  BY <1>1, FlagsOnto DEF Onto
<1> HIDE DEF f
<1>4. Onto(n, f, d)
  BY <1>2, <1>3, sendDomainMessageOnto DEF Onto
<1> QED
  BY <1>1, <1>3, <1>4, OntoOnto, OntoPast

\* cases RES_DOWNLOAD and RES_PATCH: a result finds its package.
LEMMA OnVerifiablePast ==
    ASSUME NEW n, NEW c, Fit(n, c), c.package # NoId, NEW d \in Client(n)!OnVerifiable(c)
    PROVE  Past(n, c, d)
<1> DEFINE e == Client(n)!setDomainState(c, "WR_VERIFY")
<1>1. Onto(n, c, e)
  BY setDomainStateOnto DEF Client!ClientState
<1>2. PICK f \in Client(n)!stopThread(e) :
        d = Client(n)!sendDomainMessage(Client(n)!start(f, "verify"))
  BY DEF Client!OnVerifiable
<1> HIDE DEF e
<1>3. Onto(n, c, f)
  BY <1>1, stopThreadOnto, OntoOnto DEF Onto
<1> DEFINE g == Client(n)!start(f, "verify")
<1>4. Onto(n, c, g)
  BY <1>3, startOnto, OntoOnto DEF Onto
<1> HIDE DEF g
<1>5. Onto(n, c, Client(n)!sendDomainMessage(g))
  BY <1>4, sendDomainMessageOnto, OntoOnto DEF Onto
<1> QED
  BY <1>2, <1>5, OntoPast DEF g

\* case RES_VERIFY.
LEMMA OnVerifyPast ==
    ASSUME NEW n, NEW c, Fit(n, c), c.package # NoId, NEW d \in Client(n)!OnVerify(c)
    PROVE  Past(n, c, d)
<1> DEFINE unpatched == [c EXCEPT !.patchNewFiles = FALSE]
           waits == Client(n)!setDomainState(unpatched, "WR_WAIT")
           e == Client(n)!setDomainState(c, "WR_PATCH")
<1>1. Onto(n, c, unpatched) /\ Onto(n, c, e)
  BY FlagsOnto, setDomainStateOnto DEF Client!ClientState
<1>2. \/ d = Client(n)!sendDomainMessage(waits)
      \/ \E f \in Client(n)!stopThread(e) :
           d = Client(n)!sendDomainMessage([Client(n)!start(f, "patch")
                                             EXCEPT !.patchNewFiles = FALSE])
  BY DEF Client!OnVerify
<1> HIDE DEF unpatched, e
<1>3. Onto(n, unpatched, waits)
  BY <1>1, setDomainStateOnto DEF Onto, Client!ClientState
<1> HIDE DEF waits
<1>4. CASE d = Client(n)!sendDomainMessage(waits)
  <2>1. Onto(n, waits, d)
    BY <1>3, <1>4, sendDomainMessageOnto DEF Onto
  <2> QED
    BY <1>1, <1>3, <2>1, OntoOnto, OntoPast
<1>5. ASSUME NEW f \in Client(n)!stopThread(e),
             d = Client(n)!sendDomainMessage([Client(n)!start(f, "patch")
                                               EXCEPT !.patchNewFiles = FALSE])
      PROVE  Past(n, c, d)
  <2>1. Onto(n, c, f)
    BY <1>1, stopThreadOnto, OntoOnto DEF Onto
  <2> DEFINE g == Client(n)!start(f, "patch")
             h == [g EXCEPT !.patchNewFiles = FALSE]
  <2>2. Onto(n, f, g)
    BY <2>1, startOnto DEF Onto
  <2>3. d = Client(n)!sendDomainMessage(h)
    BY <1>5
  <2> HIDE DEF g
  <2>4. Onto(n, g, h)
    BY <2>2, FlagsOnto DEF Onto
  <2> HIDE DEF h
  <2>5. Onto(n, h, d)
    BY <2>3, <2>4, sendDomainMessageOnto DEF Onto
  <2> QED
    BY <2>1, <2>2, <2>4, <2>5, OntoOnto, OntoPast
<1> QED
  BY <1>2, <1>4, <1>5

\* case RES_DEPLOY_DONE: the version taken over is installed.
LEMMA OnDeployDonePast ==
    ASSUME NEW n, NEW c, Fit(n, c), c.package # NoId, c.installed # 0,
           NEW d \in Client(n)!OnDeployDone(c)
    PROVE  Past(n, c, d)
<1> DEFINE target == Target[c.package]
           e == [c EXCEPT !.version = target]
<1>1. c \in Client(n)!ClientHelper
  BY DEF Fit
<1>2. target \in Client(n)!Versions
  BY HeldIds DEF Fit, Provided, Client!Versions
<1> HIDE DEF target
<1>3. /\ e \in Client(n)!ClientHelper
      /\ e.sent = c.sent /\ e.package = c.package /\ e.worker = c.worker
      /\ e.loose = c.loose /\ e.installed = c.installed /\ e.queue = c.queue
  BY <1>1, <1>2 DEF Client!ClientHelper
<1> DEFINE f == Client(n)!setDomainState(e, "WR_IDLE")
<1>4. d = Client(n)!sendDomainMessage(f)
  BY DEF Client!OnDeployDone, target
<1> HIDE DEF e
<1>5. Provided(e) /\ Honest(e)
  BY <1>3 DEF Fit, Provided, Honest, HasResult, HasDone
<1>6. Fit(n, e)
  BY <1>3, <1>5 DEF Fit
<1>7. Onto(n, e, f)
  BY <1>6, setDomainStateOnto DEF Client!ClientState
<1> HIDE DEF f
<1>8. Onto(n, f, d)
  BY <1>4, <1>7, sendDomainMessageOnto DEF Onto
<1>9. Onto(n, e, d)
  BY <1>7, <1>8, OntoOnto
<1> QED
  BY <1>3, <1>9 DEF Onto, Past

\* case RES_CANCEL_DONE.
LEMMA OnCancelDonePast ==
    ASSUME NEW n, NEW c, Fit(n, c), NEW d \in Client(n)!OnCancelDone(c)
    PROVE  Past(n, c, d)
<1> DEFINE e == Client(n)!setDomainState(c, "WR_IDLE")
<1>1. Onto(n, c, e) /\ d = Client(n)!sendDomainMessage(e)
  BY setDomainStateOnto DEF Client!ClientState, Client!OnCancelDone
<1> HIDE DEF e
<1>2. Onto(n, e, d)
  BY <1>1, sendDomainMessageOnto DEF Onto
<1> QED
  BY <1>1, <1>2, OntoOnto, OntoPast

-----------------------------------------------------------------------------
(* The threads.                                                            *)

\* Emptying what the last step has sent.
LEMMA QuietOnto ==
    ASSUME NEW n, NEW c, Fit(n, c)
    PROVE  /\ Onto(n, c, Client(n)!Quiet(c)) /\ Client(n)!Quiet(c).queue = c.queue
           /\ Client(n)!Quiet(c).sent = <<>> /\ Client(n)!Quiet(c).installed = c.installed
<1> DEFINE none == <<>>
           d == [c EXCEPT !.sent = none]
<1>1. c \in Client(n)!ClientHelper
  BY DEF Fit
<1>2. none \in Seq(Client(n)!Heartbeat) /\ none = <<>> /\ DOMAIN none = {}
  OBVIOUS
<1>3. d = Client(n)!Quiet(c)
  BY DEF Client!Quiet
<1> HIDE DEF none
<1>4. /\ d \in Client(n)!ClientHelper
      /\ d.sent = none /\ d.package = c.package /\ d.worker = c.worker
      /\ d.loose = c.loose /\ d.installed = c.installed /\ d.version = c.version
      /\ d.queue = c.queue
  BY <1>1, <1>2 DEF Client!ClientHelper
<1> HIDE DEF d
<1>5. Provided(d) /\ Honest(d)
  BY <1>2, <1>4 DEF Fit, Provided, Honest, HasResult, HasDone
<1> QED
  BY <1>2, <1>3, <1>4, <1>5 DEF Onto, Fit

\* The event taken out of the queue.
LEMMA PoppedFit ==
    ASSUME NEW n, NEW c, Fit(n, c), c.queue # <<>>
    PROVE  LET e == [Client(n)!Quiet(c) EXCEPT !.queue = Tail(c.queue)]
               event == Head(c.queue)
           IN /\ Fit(n, e) /\ (c.installed # 0 => e.installed # 0)
              /\ event.type \in {"REQ_CONTROL", "RES_ERROR", "RES_DOWNLOAD", "RES_PATCH",
                                 "RES_VERIFY", "RES_DEPLOY_DONE", "RES_CANCEL_DONE"}
              /\ event.type = "REQ_CONTROL" => event \in Order(n)
              /\ event.type # "REQ_CONTROL" => e.package # NoId
              /\ event.type = "RES_DEPLOY_DONE" => e.installed # 0
<1> DEFINE q == Client(n)!Quiet(c)
           event == Head(c.queue)
           rest == Tail(c.queue)
           e == [q EXCEPT !.queue = rest]
<1>1. Onto(n, c, q) /\ q.queue = c.queue
  BY QuietOnto
<1>2. c.queue \in Seq(Client(n)!ClientEvent)
  BY DEF Fit, Client!ClientHelper
<1>3. /\ event \in Client(n)!ClientEvent /\ rest \in Seq(Client(n)!ClientEvent)
      /\ event = c.queue[1] /\ 1 \in DOMAIN c.queue
      /\ \A i \in DOMAIN rest : i + 1 \in DOMAIN c.queue /\ rest[i] = c.queue[i + 1]
  BY <1>2
<1> HIDE DEF q, event, rest
<1>4. q \in Client(n)!ClientHelper /\ Provided(q) /\ Honest(q)
  BY <1>1 DEF Onto, Fit
<1>5. /\ e \in Client(n)!ClientHelper
      /\ e.sent = q.sent /\ e.package = q.package /\ e.worker = q.worker /\ e.loose = q.loose
      /\ e.installed = q.installed /\ e.version = q.version /\ e.queue = rest
  BY <1>3, <1>4 DEF Client!ClientHelper
<1> HIDE DEF e
<1>6. Provided(e) /\ Honest(e)
  <2>1. HasResult(e) => HasResult(q)
    BY <1>1, <1>3, <1>5 DEF HasResult
  <2>2. HasDone(e) => HasDone(q)
    BY <1>1, <1>3, <1>5 DEF HasDone
  <2>3. \A i \in DOMAIN e.queue :
          e.queue[i].type = "REQ_CONTROL" /\ e.queue[i].holds => e.queue[i].upgrade \in Held
    BY <1>1, <1>3, <1>4, <1>5 DEF Provided
  <2> QED
    BY <1>4, <1>5, <2>1, <2>2, <2>3 DEF Provided, Honest
<1>7. Fit(n, e) /\ (c.installed # 0 => e.installed # 0)
  BY <1>1, <1>5, <1>6 DEF Fit, Onto
<1>8. event.type # "REQ_CONTROL" => e.package # NoId
  BY <1>1, <1>3, <1>4, <1>5 DEF Provided, HasResult
<1>9. event.type = "RES_DEPLOY_DONE" => e.installed # 0
  BY <1>1, <1>3, <1>4, <1>5 DEF Honest, HasDone
<1>10. event.type = "REQ_CONTROL" => event \in Order(n)
  <2>1. event.type = "REQ_CONTROL" => event \in Client(n)!ControlEvent
    BY <1>3 DEF Client!ClientEvent, Client!ResultEvent
  <2>2. event.type = "REQ_CONTROL" /\ event.holds => event.upgrade \in Held
    BY <1>1, <1>3, <1>4 DEF Provided
  <2> QED
    BY <2>1, <2>2 DEF Order
<1>11. event.type \in {"REQ_CONTROL", "RES_ERROR", "RES_DOWNLOAD", "RES_PATCH", "RES_VERIFY",
                       "RES_DEPLOY_DONE", "RES_CANCEL_DONE"}
  BY <1>3 DEF Client!ClientEvent, Client!ControlEvent, Client!ResultEvent
<1> QED
  BY <1>7, <1>8, <1>9, <1>10, <1>11 DEF e, q, event, rest

\* Handled, with the sequence it takes from named.
LEMMA HandledFrom ==
    ASSUME NEW n, NEW c, NEW d \in Client(n)!Handled(c)
    PROVE  /\ c.queue # <<>>
           /\ d \in Client(n)!Handle([Client(n)!Quiet(c) EXCEPT !.queue = Tail(c.queue)],
                                     Head(c.queue))
<1> DEFINE q == Client(n)!Quiet(c)
<1>1. q.queue = c.queue
  BY DEF Client!Quiet
<1> HIDE DEF q
<1>2. [q EXCEPT !.queue = Tail(@)] = [q EXCEPT !.queue = Tail(c.queue)]
  BY <1>1
<1> QED
  BY <1>2 DEF Client!Handled, q

\* The engine's thread keeps Provided and Honest, whatever the event.
LEMMA HandledPast ==
    ASSUME NEW n, NEW c, Fit(n, c), NEW d \in Client(n)!Handled(c)
    PROVE  Past(n, c, d)
<1> DEFINE event == Head(c.queue)
           e == [Client(n)!Quiet(c) EXCEPT !.queue = Tail(c.queue)]
<1>1. c.queue # <<>> /\ d \in Client(n)!Handle(e, event)
  BY HandledFrom
<1>2. /\ Fit(n, e) /\ (c.installed # 0 => e.installed # 0)
      /\ event.type \in {"REQ_CONTROL", "RES_ERROR", "RES_DOWNLOAD", "RES_PATCH",
                         "RES_VERIFY", "RES_DEPLOY_DONE", "RES_CANCEL_DONE"}
      /\ event.type = "REQ_CONTROL" => event \in Order(n)
      /\ event.type # "REQ_CONTROL" => e.package # NoId
      /\ event.type = "RES_DEPLOY_DONE" => e.installed # 0
  BY <1>1, PoppedFit
<1> HIDE DEF e, event
<1>3. Past(n, e, d)
  <2>1. CASE event.type = "REQ_CONTROL"
    BY <1>1, <1>2, <2>1, OnControlPast DEF Client!Handle
  <2>2. CASE event.type = "RES_ERROR"
    BY <1>1, <1>2, <2>2, OnErrorPast DEF Client!Handle
  <2>3. CASE event.type \in {"RES_DOWNLOAD", "RES_PATCH"}
    <3>1. d \in Client(n)!OnVerifiable(e)
      BY <1>1, <2>3 DEF Client!Handle
    <3> QED
      BY <1>2, <2>3, <3>1, OnVerifiablePast
  <2>4. CASE event.type = "RES_VERIFY"
    BY <1>1, <1>2, <2>4, OnVerifyPast DEF Client!Handle
  <2>5. CASE event.type = "RES_DEPLOY_DONE"
    BY <1>1, <1>2, <2>5, OnDeployDonePast DEF Client!Handle
  <2>6. CASE event.type = "RES_CANCEL_DONE"
    BY <1>1, <1>2, <2>6, OnCancelDonePast DEF Client!Handle
  <2> QED
    BY <1>2, <2>1, <2>2, <2>3, <2>4, <2>5, <2>6
<1> QED
  BY <1>2, <1>3 DEF Past

-----------------------------------------------------------------------------
(* The steps of a controller, each from Fit to Fit.                        *)

\* A call, then a step.
LEMMA PastPast ==
    ASSUME NEW n, NEW c, NEW d, NEW e, Onto(n, c, d), Past(n, d, e)
    PROVE  Past(n, c, e)
  BY DEF Onto, Past

\* So does the timer,
LEMMA BeatenPast ==
    ASSUME NEW n, NEW c, Fit(n, c), NEW d \in Client(n)!Beaten(c)
    PROVE  Past(n, c, d)
<1> DEFINE q == Client(n)!Quiet(c)
<1>1. Onto(n, c, q) /\ d = Client(n)!sendDomainMessage(q)
  BY QuietOnto DEF Client!Beaten
<1> HIDE DEF q
<1>2. Onto(n, q, d)
  BY <1>1, sendDomainMessageOnto DEF Onto
<1> QED
  BY <1>1, <1>2, OntoOnto, OntoPast

\* the worker that sees that it is to stop,
LEMMA BrokenPast ==
    ASSUME NEW n, NEW c, Fit(n, c), NEW d \in Client(n)!Broken(c)
    PROVE  Past(n, c, d)
<1> DEFINE q == Client(n)!Quiet(c)
           w == [q.worker EXCEPT !.broken = TRUE]
<1>1. c.worker.task \in {"download", "verify"} /\ d = [q EXCEPT !.worker = w]
  BY DEF Client!Broken
<1>2. Onto(n, c, q) /\ q.worker = c.worker
  BY QuietOnto DEF Client!Quiet
<1> HIDE DEF q
<1>3. q.package # NoId /\ q.worker \in Client(n)!Worker /\ q.worker.package \in Held
  BY <1>1, <1>2, AtWorkProvided DEF Onto
<1>4. q.worker \in [task: {"download", "verify", "patch", "deploy"},
                    upgrade: Ids \cup {NoId}, package: Ids, broken: BOOLEAN]
  BY <1>1, <1>2, <1>3 DEF Client!Worker, Client!NoWorker
<1>5. w \in Client(n)!Worker /\ w.package = q.worker.package
  BY <1>4 DEF Client!Worker
<1> HIDE DEF w
<1>6. Onto(n, q, [q EXCEPT !.worker = w])
  <2>1. Fit(n, q) /\ q.loose \in SUBSET q.loose
    BY <1>2 DEF Onto
  <2> QED
    BY <1>3, <1>5, <2>1, ReworkOnto
<1> QED
  BY <1>1, <1>2, <1>6, OntoOnto, OntoPast

\* that ends,
LEMMA EndedPast ==
    ASSUME NEW n, NEW c, Fit(n, c), NEW fails, NEW d \in Client(n)!Ended(c, fails)
    PROVE  Past(n, c, d)
<1>1. PICK e \in Client(n)!Stopped(c) \cup Client(n)!Success(c) \cup Client(n)!Cancelled(c)
                 \cup Client(n)!Failure(c) :
        d = Client(n)!Quiet(Client(n)!Rest(e))
  BY DEF Client!Ended
<1>2. Onto(n, c, e)
  BY <1>1, StoppedOnto, SuccessOnto, CancelledOnto, FailureOnto
<1> DEFINE r == Client(n)!Rest(e)
<1>3. Onto(n, e, r)
  BY <1>2, RestOnto DEF Onto
<1>4. d = Client(n)!Quiet(r)
  BY <1>1
<1> HIDE DEF r
<1>5. Onto(n, r, d)
  BY <1>3, <1>4, QuietOnto DEF Onto
<1> QED
  BY <1>2, <1>3, <1>5, OntoOnto, OntoPast

\* or that ends after it was let go, its result taken for that of the next,
LEMMA LooseEndedPast ==
    ASSUME NEW n, NEW c, Fit(n, c), NEW fails, NEW d \in Client(n)!LooseEnded(c, fails)
    PROVE  Past(n, c, d)
<1>1. PICK w \in c.loose :
        \E e \in Client(n)!Success([c EXCEPT !.worker = w])
                 \cup Client(n)!Cancelled([c EXCEPT !.worker = w])
                 \cup Client(n)!Stopped([c EXCEPT !.worker = w])
                 \cup Client(n)!Failure([c EXCEPT !.worker = w]) :
          d = [Client(n)!Quiet(e) EXCEPT !.worker = c.worker, !.loose = @ \ {w}]
  BY ZenonT(60) DEF Client!LooseEnded
<1> DEFINE at == [c EXCEPT !.worker = w]
<1>2. PICK e \in Client(n)!Success(at) \cup Client(n)!Cancelled(at)
                 \cup Client(n)!Stopped(at) \cup Client(n)!Failure(at) :
        d = [Client(n)!Quiet(e) EXCEPT !.worker = c.worker, !.loose = @ \ {w}]
  BY <1>1
<1>3. /\ w \in Client(n)!Worker /\ w.task # "none" /\ w.package \in Held /\ c.package # NoId
      /\ c.worker \in Client(n)!Worker
      /\ c.worker.task # "none" => c.worker.package \in Held
  BY <1>1 DEF Fit, Provided, Client!ClientHelper
<1>4. Onto(n, c, at)
  BY <1>3, ReworkOnto
<1> HIDE DEF at
<1>5. Onto(n, at, e)
  BY <1>2, <1>4, StoppedOnto, SuccessOnto, CancelledOnto, FailureOnto DEF Onto
<1> DEFINE q == Client(n)!Quiet(e)
           loose == q.loose \ {w}
<1>6. Onto(n, e, q)
  BY <1>5, QuietOnto DEF Onto
<1>7. d = [q EXCEPT !.worker = c.worker, !.loose = loose]
  BY <1>2
<1> HIDE DEF q
<1>8. Onto(n, c, q)
  BY <1>4, <1>5, <1>6, OntoOnto
<1>9. Onto(n, q, d)
  <2>1. Fit(n, q) /\ loose \in SUBSET q.loose /\ q.package # NoId
    BY <1>3, <1>8 DEF Onto
  <2> HIDE DEF loose
  <2> QED
    BY <1>3, <1>7, <2>1, ReworkOnto
<1> QED
  BY <1>8, <1>9, OntoOnto, OntoPast

\* The engine after a restart knows the version it finds installed.
LEMMA StartedFit ==
    ASSUME NEW n, NEW version \in {0} \cup {Target[i] : i \in Held},
           NEW files \in SUBSET ((Ids \cup {NoId}) \X Ids)
    PROVE  Fit(n, Client(n)!Started(version, files))
<1> DEFINE none == <<>>
           c == [state |-> "WR_IDLE", last |-> "WR_OFFLINE", error |-> FALSE,
                 version |-> version, package |-> NoId, upgrade |-> NoId,
                 hasCancelAction |-> FALSE, needDiscovery |-> TRUE, patchNewFiles |-> FALSE,
                 online |-> FALSE, heard |-> FALSE, worker |-> Client(n)!NoWorker,
                 loose |-> {}, queue |-> none, files |-> files, installed |-> version,
                 sent |-> none]
<1>1. c = Client(n)!Started(version, files)
  BY DEF Client!Started
<1>2. /\ none \in Seq(Client(n)!Heartbeat) /\ none \in Seq(Client(n)!ClientEvent)
      /\ DOMAIN none = {}
  OBVIOUS
<1>3. version \in Client(n)!Versions
  BY HeldIds DEF Client!Versions
<1>4. /\ Client(n)!NoWorker \in Client(n)!Worker /\ Client(n)!NoWorker.task = "none"
  BY DEF Client!NoWorker, Client!Worker
<1>5. "WR_IDLE" \in Client(n)!ClientState /\ "WR_OFFLINE" \in Client(n)!ClientState
  BY DEF Client!ClientState
<1> HIDE DEF none
<1>6. c \in Client(n)!ClientHelper
  BY <1>2, <1>3, <1>4, <1>5 DEF Client!ClientHelper
<1>7. /\ c.package = NoId /\ c.worker = Client(n)!NoWorker /\ c.loose = {} /\ c.queue = none
      /\ c.installed = version /\ c.version = version /\ c.sent = none
  OBVIOUS
<1> HIDE DEF c
<1>8. Provided(c) /\ Honest(c)
  BY <1>2, <1>4, <1>7 DEF Provided, Honest, HasResult, HasDone
<1> QED
  BY <1>1, <1>6, <1>8 DEF Fit

\* and a restart, before or after the package is installed.
LEMMA RebootedPast ==
    ASSUME NEW n, NEW c, Fit(n, c), NEW d \in Client(n)!Rebooted(c)
    PROVE  Past(n, c, d)
<1>1. PICK version \in {c.installed} \cup (IF c.worker.task = "deploy" /\ Client(n)!HasFiles(c)
                                          THEN {Target[c.worker.package]} ELSE {}) :
        d = Client(n)!Started(version, c.files)
  BY DEF Client!Rebooted
<1>2. c.installed \in {0} \cup {Target[i] : i \in Held}
  BY DEF Fit, Provided
<1>3. c.files \in SUBSET ((Ids \cup {NoId}) \X Ids)
  BY DEF Fit, Client!ClientHelper
<1>4. c.worker.task = "deploy" => /\ Target[c.worker.package] \in {Target[i] : i \in Held}
                                  /\ Target[c.worker.package] # 0
  BY AtWorkProvided, RolloutAssumption
<1>5. version \in {0} \cup {Target[i] : i \in Held} /\ (c.installed # 0 => version # 0)
  BY <1>1, <1>2, <1>4
<1>6. d.installed = version
  BY <1>1 DEF Client!Started
<1> QED
  BY <1>1, <1>3, <1>5, <1>6, StartedFit DEF Past

\* A control that is put into the queue, or not.
LEMMA ReceivedOnto ==
    ASSUME NEW n, NEW c, Fit(n, c), NEW event \in Order(n), NEW again \in BOOLEAN
    PROVE  LET d == Client(n)!Received(c, event, again)
           IN Onto(n, c, d) /\ d.installed = c.installed /\ d.sent = c.sent
<1> DEFINE lost == [c EXCEPT !.heard = c.heard /\ again]
           heard == [c EXCEPT !.heard = TRUE]
           queue == Append(heard.queue, event)
           taken == [heard EXCEPT !.queue = queue]
<1>1. c \in Client(n)!ClientHelper
  BY DEF Fit
<1>2. (c.heard /\ again) \in BOOLEAN
  BY <1>1 DEF Client!ClientHelper
<1>3. Onto(n, c, lost) /\ lost.installed = c.installed /\ lost.sent = c.sent
  BY <1>1, <1>2, FlagsOnto DEF Client!ClientHelper
<1>4. Onto(n, c, heard) /\ heard.installed = c.installed /\ heard.sent = c.sent
  BY <1>1, FlagsOnto DEF Client!ClientHelper
<1>5. Client(n)!Received(c, event, again) \in {lost, c, taken}
  BY DEF Client!Received, Client!postEvent
<1> HIDE DEF lost, heard
<1>6. Onto(n, heard, taken) /\ taken.installed = heard.installed /\ taken.sent = heard.sent
  <2>1. heard \in Client(n)!ClientHelper /\ heard.queue \in Seq(Client(n)!ClientEvent)
    BY <1>4 DEF Onto, Fit, Client!ClientHelper
  <2>2. /\ event \in Client(n)!ClientEvent /\ event.type = "REQ_CONTROL"
        /\ event.holds => event.upgrade \in Held
    BY DEF Order, Client!ControlEvent, Client!ClientEvent
  <2>3. /\ queue \in Seq(Client(n)!ClientEvent)
        /\ \A i \in DOMAIN queue : \/ i \in DOMAIN heard.queue /\ queue[i] = heard.queue[i]
                                   \/ queue[i] = event
    BY <2>1, <2>2
  <2> HIDE DEF queue
  <2>4. /\ taken \in Client(n)!ClientHelper
        /\ taken.sent = heard.sent /\ taken.package = heard.package
        /\ taken.worker = heard.worker /\ taken.loose = heard.loose
        /\ taken.installed = heard.installed /\ taken.version = heard.version
        /\ taken.queue = queue
    BY <2>1, <2>3 DEF Client!ClientHelper
  <2> HIDE DEF taken
  <2>5. Provided(taken) /\ Honest(taken)
    BY <1>4, <2>2, <2>3, <2>4 DEF Onto, Fit, Provided, Honest, HasResult, HasDone
  <2> QED
    BY <2>4, <2>5 DEF Onto, Fit
<1> HIDE DEF taken
<1>7. Onto(n, c, taken) /\ taken.installed = c.installed /\ taken.sent = c.sent
  BY <1>4, <1>6, OntoOnto
<1>8. Onto(n, c, c)
  BY DEF Onto
<1> QED
  BY <1>3, <1>5, <1>7, <1>8

-----------------------------------------------------------------------------
(* The transport.                                                          *)

\* What is broadcast is an order to obey: with a package of an upgrade that was offered.
LEMMA ControlEventOrder ==
    ASSUME NEW n, NEW broadcast \in Broadcast
    PROVE  ControlEvent(n, broadcast) \in Order(n) /\ broadcast.again \in BOOLEAN
<1>1. /\ broadcast.control \in Control /\ broadcast.upgrade \in Current
      /\ broadcast.depends \in SUBSET Names /\ broadcast.again \in BOOLEAN
  BY DEF Broadcast
<1>2. broadcast.upgrade.id \in Ids \cup {NoId}
  BY <1>1, UpgradesTyped DEF Upgrade
<1>3. n \in broadcast.upgrade.packages => broadcast.upgrade.id \in Held
  BY <1>1 DEF Current, NoUpgrade, Held
<1> DEFINE event == ControlEvent(n, broadcast)
<1>4. event \in Client(n)!ControlEvent
  BY <1>1, <1>2 DEF ControlEvent, Client!ControlEvent, Client!Control, Control
<1>5. event.holds = (n \in broadcast.upgrade.packages) /\ event.upgrade = broadcast.upgrade.id
  BY DEF ControlEvent
<1> HIDE DEF event
<1> QED
  BY <1>1, <1>3, <1>4, <1>5 DEF Order, event

\* f[i] is what the first i broadcasts make of n.
Deliveries(n, broadcasts, f) ==
    /\ f[0] = clients[n] /\ f[Len(broadcasts)] = Delivered(n, broadcasts)
    /\ \A i \in 1..Len(broadcasts) :
         f[i] = Client(n)!Received(f[i - 1], ControlEvent(n, broadcasts[i]),
                                   broadcasts[i].again)
    /\ \A i \in 0..Len(broadcasts) :
         /\ Onto(n, clients[n], f[i])
         /\ f[i].installed = clients[n].installed /\ f[i].sent = clients[n].sent

LEMMA DeliveriesMade ==
    ASSUME NEW n, Fit(n, clients[n]), NEW broadcasts \in Seq(Broadcast)
    PROVE  \E f : Deliveries(n, broadcasts, f)
<1> DEFINE N == Len(broadcasts)
           c == clients[n]
           T == {d \in Client(n)!ClientHelper :
                   Onto(n, c, d) /\ d.installed = c.installed /\ d.sent = c.sent}
           Next_(i, d) == Client(n)!Received(d, ControlEvent(n, broadcasts[i]),
                                             broadcasts[i].again)
           Is(g) == g = [i \in 0..N |-> IF i = 0 THEN c ELSE Next_(i, g[i - 1])]
           after == CHOOSE g : Is(g)
<1>1. N \in Nat /\ c \in T
  BY DEF Onto, Fit
<1>2. ASSUME NEW i \in 1..N, NEW d \in T
      PROVE  Next_(i, d) \in T
  <2>1. ControlEvent(n, broadcasts[i]) \in Order(n) /\ broadcasts[i].again \in BOOLEAN
    BY ControlEventOrder
  <2> DEFINE e == Next_(i, d)
  <2>2. Onto(n, d, e) /\ e.installed = d.installed /\ e.sent = d.sent
    BY <2>1, ReceivedOnto DEF Onto
  <2> HIDE DEF e
  <2>3. Onto(n, c, e)
    BY <2>2, OntoOnto
  <2> QED
    BY <2>2, <2>3 DEF Onto, Fit, e
<1>3. Is(after)
  <2> DEFINE step == [p \in (1..N) \X T |-> Next_(p[1], p[2])]
  <2> HIDE DEF N, T, Next_, c, Is, after
  <2>1. Within(N, T, step)
    BY <1>2 DEF Within
  <2>2. \A i \in 1..N : \A d \in T : step[<<i, d>>] = Next_(i, d)
    OBVIOUS
  <2> HIDE DEF step
  <2>3. PICK f \in [0..N -> T] : f[0] = c /\ \A i \in 1..N : f[i] = step[<<i, f[i - 1]>>]
    <3>1. Walks(N, T, c, step) # {}
      BY <1>1, <2>1, Repeated
    <3> QED
      BY <3>1 DEF Walks
  <2>4. ASSUME NEW i \in 1..N
        PROVE  f[i] = Next_(i, f[i - 1])
    <3>1. f[i - 1] \in T
      BY <1>1, <2>3
    <3>2. f[i] = step[<<i, f[i - 1]>>]
      BY <2>3
    <3> QED
      BY <2>2, <3>1, <3>2
  <2>5. Is(f)
    <3>1. \A i \in 0..N : f[i] = IF i = 0 THEN c ELSE Next_(i, f[i - 1])
      BY <1>1, <2>3, <2>4
    <3> QED
      BY <2>3, <3>1 DEF Is
  <2> QED
    BY <2>5 DEF after
<1>4. Delivered(n, broadcasts) = after[N]
  BY DEF Delivered
<1> HIDE DEF after
<1>5. after[0] = c /\ \A i \in 1..N : after[i] = Next_(i, after[i - 1])
  <2> HIDE DEF T, Next_, N, c
  <2>1. after[0] = c
    BY <1>1, <1>3
  <2>2. ASSUME NEW i \in 1..N
        PROVE  after[i] = Next_(i, after[i - 1])
    BY <1>1, <1>3
  <2> QED
    BY <2>1, <2>2
<1> HIDE DEF Next_
<1> DEFINE S == {i \in 0..N : after[i] \in T}
<1>6. 0 \in S
  BY <1>1, <1>5
<1>7. ASSUME NEW i \in 1..N, i - 1 \in S
      PROVE  i \in S
  BY <1>1, <1>2, <1>5, <1>7
<1> HIDE DEF N, S
<1>8. 0..N \subseteq S
  BY <1>1, <1>6, <1>7, Upto
<1>9. \A i \in 0..N : after[i] \in T
  BY <1>8 DEF S
<1>10. Deliveries(n, broadcasts, after)
  BY <1>4, <1>5, <1>9 DEF Deliveries, N, T, Next_
<1> QED
  BY <1>10

\* What the transport does to a controller: its queue grows, and nothing else of note.
LEMMA DeliveredOnto ==
    ASSUME NEW n, Fit(n, clients[n]), NEW broadcasts \in Seq(Broadcast)
    PROVE  LET d == Delivered(n, broadcasts)
           IN /\ Onto(n, clients[n], d) /\ d.installed = clients[n].installed
              /\ d.sent = clients[n].sent
<1>1. PICK f : Deliveries(n, broadcasts, f)
  BY DeliveriesMade
<1>2. Len(broadcasts) \in 0..Len(broadcasts)
  OBVIOUS
<1> QED
  BY <1>1, <1>2 DEF Deliveries

-----------------------------------------------------------------------------
(* What the server knows of the controllers, and what its calls learn.     *)

\* The controllers whose last heartbeat said that they have the target version.
Known(s) == {n \in Members(s) : s.details[n].version = "target"}

\* A handler given s that returns r has learnt of nobody that he has.
Learns(s, r) == Known(r) \subseteq Known(s)

\* Nothing is learnt without a heartbeat.
LEMMA SameLearns ==
    ASSUME NEW s, NEW r, r.details = s.details
    PROVE  Learns(s, r)
  BY DEF Learns, Known, Members

\* Calls follow one another.
LEMMA LearnsLearns ==
    ASSUME NEW s, NEW q, NEW r, Learns(s, q), Learns(q, r)
    PROVE  Learns(s, r)
  BY DEF Learns

\* setState.
LEMMA setStateLearns ==
    ASSUME NEW s, Typed(s), NEW state \in ServerState
    PROVE  Learns(s, setState(s, state))
  BY setStateEffect, SameLearns DEF Same

\* Post.
LEMMA PostLearns ==
    ASSUME NEW s, Typed(s), NEW event
    PROVE  Learns(s, Post(s, event))
  BY PostEffect, SameLearns DEF Same

\* idle: the details are gone.
LEMMA idleLearns ==
    ASSUME NEW s, Typed(s)
    PROVE  Learns(s, idle(s))
<1>1. idle(s) = s \/ DOMAIN idle(s).details = {}
  BY idleEffect
<1> QED
  BY <1>1, SameLearns DEF Learns, Known, Members

\* The details of a new request are those of nobody.
LEMMA pendingLearns ==
    ASSUME NEW s, Typed(s)
    PROVE  Known(pending(s)) = {}
<1>1. PICK S \in SUBSET Names : s \in Server(S)
  BY DEF Typed
<1> DEFINE packages == s.upgrade.packages
           details == [n \in packages |-> NewDetail]
           cleared == [s EXCEPT !.errorCode = 0, !.depends = packages, !.details = details]
           told == sendControlMessage(cleared, "CTL_RESET")
<1>2. packages \in SUBSET Names
  BY UpgradeTyped DEF Upgrade
<1>3. details \in [packages -> Detail]
  <2>1. NewDetail \in Detail
    BY DEF NewDetail, Detail, ClientState, Version
  <2> QED
    BY <2>1
<1>4. \A n \in DOMAIN details : details[n].version # "target"
  BY DEF NewDetail
<1>5. Typed(cleared) /\ cleared.details = details
  <2> HIDE DEF packages, details
  <2>1. cleared \in Server(packages) /\ cleared.details = details
    BY <1>1, <1>2, <1>3 DEF Server
  <2> QED
    BY <1>2, <2>1 DEF Typed
<1> HIDE DEF details, cleared
<1>6. Typed(told) /\ told.details = details
  BY <1>5, sendControlEffect, sendControlTyped DEF Control
<1>7. pending(s) = setState(told, "MR_PENDING")
  BY DEF pending, cleared, details
<1> HIDE DEF told
<1>8. setState(told, "MR_PENDING").details = details
  BY <1>6, setStateEffect DEF Same, ServerState
<1> QED
  BY <1>4, <1>7, <1>8 DEF Known, Members

\* deploy, resume and download.
LEMMA deployLearns ==
    ASSUME NEW s, Typed(s)
    PROVE  Learns(s, deploy(s)) /\ Learns(s, resume(s)) /\ Learns(s, download(s))
<1> DEFINE kept == [s EXCEPT !.depends = s.cacheDepends]
           d == deploy(kept)
<1>1. PICK S \in SUBSET Names : s \in Server(S)
  BY DEF Typed
<1>2. Typed(kept) /\ kept.details = s.details
  <2>1. kept \in Server(S) /\ kept.details = s.details
    BY <1>1 DEF Server
  <2> QED
    BY <2>1 DEF Typed
<1>3. resume(s) = [d EXCEPT !.cacheState = "MR_UNKNOWN"]
  BY DEF resume
<1> HIDE DEF kept
<1>4. Typed(d) /\ d.details = s.details
  BY <1>2, deployEffect, deployTyped
<1> HIDE DEF d
<1>5. [d EXCEPT !.cacheState = "MR_UNKNOWN"].details = d.details
  BY <1>4 DEF Typed, Server
<1>6. resume(s).details = s.details
  BY <1>3, <1>4, <1>5
<1>7. deploy(s).details = s.details /\ download(s).details = s.details
  BY deployEffect, downloadEffect DEF Same
<1> QED
  BY <1>6, <1>7, SameLearns

\* feedback.
LEMMA feedbackLearns ==
    ASSUME NEW s, Typed(s), NEW finished \in BOOLEAN
    PROVE  Learns(s, feedback(s, finished))
<1> DEFINE closed == [s EXCEPT !.hasFeed = TRUE, !.errorCode = IF finished THEN 0 ELSE 1]
           cleared == sendControlMessage(closed, "CTL_CLEAR")
           stopped == Post(cleared, Request("REQ_STOP"))
           result == IF finished THEN "RS_SUCCESS" ELSE "RS_FAILURE"
           feed == Feed(closed, s.feedType, "EXE_CLOSED", result)
           told == Post(stopped, feed)
           state == IF finished THEN "MR_DONE_ASK" ELSE "MR_ERROR_ASK"
<1>1. PICK S \in SUBSET Names : s \in Server(S)
  BY DEF Typed
<1>2. Typed(closed) /\ closed.details = s.details
  <2>1. closed \in Server(S) /\ closed.details = s.details
    BY <1>1, ZenonT(60) DEF Server
  <2> QED
    BY <2>1 DEF Typed
<1>3. feed \in WebEvent
  <2>1. s.feedType \in FeedType /\ result \in {"RS_SUCCESS", "RS_FAILURE"}
    BY <1>1 DEF Server
  <2> HIDE DEF closed, result
  <2> QED
    BY <1>2, <2>1, FeedTyped
<1>4. feedback(s, finished) \in {s, setState(told, state), idle(told)}
  BY DEF feedback
<1> HIDE DEF closed, feed
<1>5. Typed(cleared) /\ cleared.details = s.details
  BY <1>2, sendControlTyped, sendControlEffect DEF Control
<1>6. Request("REQ_STOP") \in WebEvent
  BY DEF Request, WebEvent, WebRequest
<1> HIDE DEF cleared
<1>7. Typed(stopped) /\ stopped.details = s.details
  BY <1>5, <1>6, PostTyped, PostEffect DEF Same
<1> HIDE DEF stopped
<1>8. Typed(told) /\ told.details = s.details
  BY <1>3, <1>7, PostTyped, PostEffect DEF Same
<1> HIDE DEF told
<1>9. state \in ServerState
  BY DEF ServerState
<1> HIDE DEF state
<1>10. Learns(s, told) /\ Learns(told, setState(told, state)) /\ Learns(told, idle(told))
  BY <1>8, <1>9, setStateLearns, idleLearns, SameLearns
<1> QED
  BY <1>4, <1>10, LearnsLearns, SameLearns

\* sendControlMessage.
LEMMA sendControlLearns ==
    ASSUME NEW s, Typed(s), NEW control \in Control
    PROVE  Learns(s, sendControlMessage(s, control))
  BY sendControlEffect, SameLearns

\* cancel.
LEMMA cancelLearns ==
    ASSUME NEW s, Typed(s)
    PROVE  Learns(s, cancel(s))
<1> DEFINE told == sendControlMessage(s, "CTL_CANCEL")
           ended == setState(told, "MR_CANCEL")
<1>1. Typed(told) /\ Learns(s, told)
  BY sendControlTyped, sendControlLearns DEF Control
<1> HIDE DEF told
<1>2. Typed(ended) /\ Learns(told, ended)
  BY <1>1, setStateTyped, setStateLearns DEF ServerState
<1> HIDE DEF ended
<1>3. Learns(ended, feedback(ended, TRUE))
  BY <1>2, feedbackLearns
<1>4. cancel(s) = ended \/ cancel(s) = feedback(ended, TRUE)
  BY DEF cancel, ended, told
<1>5. Learns(s, ended)
  BY <1>1, <1>2, LearnsLearns
<1>6. Learns(s, feedback(ended, TRUE))
  BY <1>3, <1>5, LearnsLearns
<1> QED
  BY <1>4, <1>5, <1>6

\* The answer to a dialog.
LEMMA configAnswerLearns ==
    ASSUME NEW s, Typed(s), NEW answer \in Answer
    PROVE  Learns(s, configAnswer(s, answer))
<1> DEFINE yes == answer = "ANS_ACCEPT"
           no == answer = "ANS_REFUSE"
           answered == IF yes THEN resume(s)
                       ELSE IF ~no THEN s
                       ELSE IF s.hasNewId /\ s.cacheState = "MR_DEPLOY"
                       THEN pending(s) ELSE idle(s)
           r == [answered EXCEPT !.hasDeployBreaked = FALSE]
<1>1. Learns(s, s) /\ Learns(s, pending(s))
  BY SameLearns, pendingLearns DEF Learns
<1>2. Typed(answered) /\ Learns(s, answered)
  <2>1. answered \in {s, resume(s), pending(s), idle(s)}
    OBVIOUS
  <2> HIDE DEF answered
  <2> QED
    BY <1>1, <2>1, resumeTyped, pendingTyped, idleTyped, deployLearns, idleLearns
<1>3. configAnswer(s, answer) \in {s, r, download(s), deploy(s), cancel(s), idle(s),
                                   feedback(s, FALSE)}
  <2>1. CASE s.state = "MR_RESUME_ASK"
    <3>1. configAnswer(s, answer) = r
      BY <2>1 DEF configAnswer, FinalAsk
    <3> QED
      BY <3>1
  <2>2. CASE s.state # "MR_RESUME_ASK"
    <3> HIDE DEF r
    <3> QED
      BY <2>2 DEF configAnswer, FinalAsk
  <2> QED
    BY <2>1, <2>2
<1> HIDE DEF answered
<1>4. r.details = answered.details
  BY <1>2 DEF Typed, Server
<1> HIDE DEF r
<1>5. Learns(s, r)
  BY <1>2, <1>4, SameLearns, LearnsLearns
<1> QED
  BY <1>1, <1>3, <1>5, deployLearns, cancelLearns, idleLearns, feedbackLearns

\* A new request forgets what was known.
LEMMA OnUpgradeLearns ==
    ASSUME NEW s, Typed(s), NEW upgrade \in Upgrades
    PROVE  Learns(s, OnUpgrade(s, upgrade))
<1> DEFINE new == s.lastlId # upgrade.id
           again == ~new /\ s.lastCancelId = upgrade.id
           breaked == s.hasDeployBreaked /\ ~new
           taken == [s EXCEPT !.hasFeed = FALSE, !.feedType = "TP_DEPLOY",
                              !.hasNewId = new, !.upgrade = upgrade,
                              !.cancelResume = again, !.lastlId = upgrade.id,
                              !.hasDeployBreaked = breaked]
<1>1. PICK S \in SUBSET Names : s \in Server(S)
  BY DEF Typed
<1>2. new \in BOOLEAN /\ again \in BOOLEAN /\ breaked \in BOOLEAN
  BY <1>1 DEF Server
<1>3. OnUpgrade(s, upgrade) \in {s, pending(taken)}
  BY DEF OnUpgrade
<1>4. Typed(taken)
  <2>1. upgrade \in Current /\ upgrade.id \in Ids \cup {NoId}
    BY ServerAssumption DEF Current
  <2> HIDE DEF new, again, breaked
  <2>2. taken \in Server(S)
    BY <1>1, <1>2, <2>1, ZenonT(60) DEF Server, FeedType
  <2> QED
    BY <2>2 DEF Typed
<1> HIDE DEF taken
<1>5. Known(pending(taken)) = {}
  BY <1>4, pendingLearns
<1> QED
  BY <1>3, <1>5, SameLearns DEF Learns

\* A cancellation.
LEMMA OnCancelLearns ==
    ASSUME NEW s, Typed(s), NEW id \in Ids
    PROVE  Learns(s, OnCancel(s, id))
<1> DEFINE breaked == s.hasDeployBreaked \/ s.state = "MR_DEPLOY"
           asked == [s EXCEPT !.hasFeed = FALSE, !.feedType = "TP_CANCEL",
                              !.cancelId = id, !.lastCancelId = id,
                              !.hasDeployBreaked = breaked]
           refused == feedback(asked, FALSE)
           closed == [req |-> "REQ_FEEDBACK", type |-> "TP_DEPLOY",
                      execution |-> "EXE_CLOSED", result |-> "RS_FAILURE",
                      id |-> refused.cancelId]
<1>1. PICK S \in SUBSET Names : s \in Server(S)
  BY DEF Typed
<1>2. breaked \in BOOLEAN
  BY <1>1 DEF Server
<1>3. OnCancel(s, id) \in {feedback(asked, TRUE), setState(asked, "MR_CANCEL_ASK"),
                           Post(refused, closed)}
  BY DEF OnCancel
<1>4. Typed(asked) /\ asked.details = s.details
  <2> HIDE DEF breaked
  <2>1. asked \in Server(S)
    BY <1>1, <1>2, AskedTyped
  <2>2. asked.details = s.details
    BY <1>1 DEF Server
  <2> QED
    BY <2>1, <2>2 DEF Typed
<1> HIDE DEF asked, closed
<1>5. Learns(s, asked)
  BY <1>4, SameLearns
<1>6. Typed(refused) /\ Learns(asked, refused)
  BY <1>4, feedbackTyped, feedbackLearns
<1> HIDE DEF refused
<1>7. /\ Learns(asked, feedback(asked, TRUE)) /\ Learns(asked, setState(asked, "MR_CANCEL_ASK"))
      /\ Learns(refused, Post(refused, closed))
  BY <1>4, <1>6, feedbackLearns, setStateLearns, PostLearns DEF ServerState
<1> QED
  BY <1>3, <1>5, <1>6, <1>7, LearnsLearns

-----------------------------------------------------------------------------
(* What its handlers learn.                                                *)

\* The web queue distributes.
LEMMA OnPullLearns ==
    ASSUME NEW s, Typed(s), NEW distributing \in BOOLEAN
    PROVE  Learns(s, OnPull(s, distributing))
<1> DEFINE told == sendControlMessage(s, "CTL_DOWNLOAD")
<1>1. Typed(told) /\ Learns(s, told)
  BY sendControlTyped, sendControlLearns DEF Control
<1>2. \/ OnPull(s, distributing) = s
      \/ OnPull(s, distributing) = setState(told, "MR_DISTRIBUTE")
      \/ OnPull(s, distributing) = setState(s, "MR_DISTRIBUTE")
  BY DEF OnPull
<1> HIDE DEF told
<1>3. Learns(told, setState(told, "MR_DISTRIBUTE")) /\ Learns(s, setState(s, "MR_DISTRIBUTE"))
  BY <1>1, setStateLearns DEF ServerState
<1>4. Learns(s, setState(told, "MR_DISTRIBUTE"))
  BY <1>1, <1>3, LearnsLearns
<1> QED
  BY <1>2, <1>3, <1>4, SameLearns

\* Its results.
LEMMA OnResultLearns ==
    ASSUME NEW s, Typed(s)
    PROVE  Learns(s, OnDownloadDone(s)) /\ Learns(s, OnVerifyDone(s))
           /\ Learns(s, OnDistributeDone(s))
<1>1. ASSUME NEW state \in ServerState, NEW event
      PROVE  Learns(s, setState(s, state)) /\ Learns(s, Post(setState(s, state), event))
  <2> DEFINE t == setState(s, state)
  <2>1. Typed(t) /\ Learns(s, t)
    BY setStateTyped, setStateLearns
  <2> HIDE DEF t
  <2>2. Learns(t, Post(t, event))
    BY <2>1, PostLearns
  <2>3. Learns(s, Post(t, event))
    BY <2>1, <2>2, LearnsLearns
  <2> QED
    BY <2>1, <2>3 DEF t
<1>2. "MR_VERIFY" \in ServerState /\ "MR_DISTRIBUTE" \in ServerState /\ "MR_WAIT" \in ServerState
  BY DEF ServerState
<1>3. Learns(s, s)
  BY SameLearns
<1> QED
  BY <1>1, <1>2, <1>3 DEF OnDownloadDone, OnVerifyDone, OnDistributeDone

\* Its failures.
LEMMA OnErrorLearns ==
    ASSUME NEW s, Typed(s)
    PROVE  Learns(s, OnError(s))
<1> DEFINE d == download(s)
           retried == [d EXCEPT !.retryTimes = d.retryTimes + 1]
           reset == [s EXCEPT !.retryTimes = 0]
<1>1. OnError(s) \in {feedback(s, FALSE), feedback(reset, FALSE), retried}
  BY DEF OnError
<1>2. Typed(d) /\ Learns(s, d)
  BY downloadTyped, deployLearns
<1> HIDE DEF d
<1>3. retried.details = d.details
  BY <1>2 DEF Typed, Server
<1> HIDE DEF retried
<1>4. Learns(s, retried)
  BY <1>2, <1>3, SameLearns, LearnsLearns
<1>5. Typed(reset) /\ reset.details = s.details
  <2>1. PICK S \in SUBSET Names : s \in Server(S)
    BY DEF Typed
  <2>2. 0 \in 0..RetryTimes
    BY ServerAssumption
  <2>3. reset \in Server(S) /\ reset.details = s.details
    BY <2>1, <2>2 DEF Server
  <2> QED
    BY <2>3 DEF Typed
<1> HIDE DEF reset
<1>6. Learns(s, reset) /\ Learns(reset, feedback(reset, FALSE)) /\ Learns(s, feedback(s, FALSE))
  BY <1>5, SameLearns, feedbackLearns
<1>7. Learns(s, feedback(reset, FALSE))
  BY <1>6, LearnsLearns
<1> QED
  BY <1>1, <1>4, <1>6, <1>7

\* A heartbeat tells of its sender.
LEMMA HeardLearns ==
    ASSUME NEW s, Typed(s), NEW msg \in Messages
    PROVE  Known(Heard(s, msg)) \subseteq
             Known(s) \cup (IF msg.report.version = "target" THEN {msg.name} ELSE {})
<1> DEFINE known == msg.name \in Members(s)
           subscribed == [s EXCEPT !.detailSubscribed = @ \/ msg.watcher]
           resent == IF msg.discovery /\ (known \/ msg.watcher)
                     THEN resendControlMessage(subscribed) ELSE subscribed
           heard == [resent EXCEPT !.details[msg.name] = Updated(@, msg.report)]
<1>1. PICK S \in SUBSET Names : s \in Server(S)
  BY DEF Typed
<1>2. Typed(subscribed) /\ subscribed.details = s.details
  <2>1. subscribed \in Server(S) /\ subscribed.details = s.details
    BY <1>1, ZenonT(60) DEF Server
  <2> QED
    BY <2>1 DEF Typed
<1>3. Heard(s, msg) = IF known THEN heard ELSE resent
  BY DEF Heard
<1> HIDE DEF subscribed
<1>4. Typed(resent) /\ resent.details = s.details
  BY <1>2, resendControlTyped, resendControlEffect
<1> HIDE DEF resent
<1>5. /\ DOMAIN heard.details = DOMAIN s.details
      /\ \A n \in DOMAIN s.details :
           n # msg.name => heard.details[n].version = s.details[n].version
      /\ msg.name \in DOMAIN s.details =>
           heard.details[msg.name].version = msg.report.version
  BY <1>4 DEF Typed, Server, Updated
<1> HIDE DEF heard
<1> QED
  BY <1>3, <1>4, <1>5 DEF Known, Members

\* A heartbeat or an answer: only the sender's, and only what it says.
LEMMA OnDomainLearns ==
    ASSUME NEW s, Typed(s), NEW msg \in Messages
    PROVE  Known(OnDomain(s, msg)) \subseteq
             Known(s) \cup (IF msg.report.version = "target" THEN {msg.name} ELSE {})
<1> DEFINE h == Heard(s, msg)
<1>1. msg.answer \in Answer
  BY ServerAssumption DEF Message
<1>2. Typed(h) /\ Known(h) \subseteq
             Known(s) \cup (IF msg.report.version = "target" THEN {msg.name} ELSE {})
  BY HeardTyped, HeardLearns
<1>3. OnDomain(s, msg) \in {s, h, configAnswer(h, msg.answer)}
  BY DEF OnDomain
<1> HIDE DEF h
<1>4. Learns(h, configAnswer(h, msg.answer))
  BY <1>1, <1>2, configAnswerLearns
<1> QED
  BY <1>2, <1>3, <1>4 DEF Learns

\* The loop of the tick marks domains offline and moves clocks.
LEMMA LoopedLearns ==
    ASSUME NEW s, Typed(s), NEW silent \in SUBSET Members(s), NEW overdue \in SUBSET Members(s)
    PROVE  Learns(s, Looped(s, silent, overdue))
<1> DEFINE started == Started(s, silent, overdue)
           finishing == Finishing(s, silent, overdue)
           visited == Visited(s, silent, overdue)
           resends == 1..(IF s.control = "CTL_DEPLOY" THEN Cardinality(finishing) ELSE 0)
           body(n) == IF n \in visited THEN Seen(s, silent)[n] ELSE s.details[n]
           details == [n \in Members(s) |->
              [body(n) EXCEPT !.deploy = (@ /\ n \notin finishing) \/ started[n]]]
           depends == DependsAt(s, silent, overdue, started, Members(s))
           sent == s.sent \o [i \in resends |-> Resent(s, silent, overdue, started, i)]
           posted == s.posted \o [i \in resends |->
                       Feed(s, "TP_DEPLOY", "EXE_SCHEDULED", "RS_SUCCESS")]
<1>1. PICK S \in SUBSET Names : s \in Server(S)
  BY DEF Typed
<1>2. Members(s) = S /\ s.details \in [S -> Detail]
  BY <1>1, MembersTyped DEF Server
<1>3. ASSUME NEW n \in Members(s)
      PROVE  details[n].version = s.details[n].version
  <2>1. s.details[n] \in Detail
    BY <1>2
  <2>2. Seen(s, silent)[n] \in Detail /\ Seen(s, silent)[n].version = s.details[n].version
    <3>1. Seen(s, silent)[n] \in Detail
      BY <1>1, <1>2, SeenTyped
    <3>2. Seen(s, silent)[n].version = s.details[n].version
      BY <2>1 DEF Seen, Detail
    <3> QED
      BY <3>1, <3>2
  <2>3. body(n) \in Detail /\ body(n).version = s.details[n].version
    BY <2>1, <2>2
  <2> HIDE DEF body, started, finishing
  <2>4. details[n] = [body(n) EXCEPT !.deploy = (@ /\ n \notin finishing) \/ started[n]]
    OBVIOUS
  <2> HIDE DEF details
  <2> QED
    BY <2>3, <2>4 DEF Detail
<1>4. Looped(s, silent, overdue)
        = [s EXCEPT !.details = details, !.depends = depends, !.sent = sent,
                    !.posted = posted]
  BY DEF Looped
<1>5. DOMAIN details = Members(s)
  OBVIOUS
<1> HIDE DEF details, depends, sent, posted
<1>6. Looped(s, silent, overdue).details = details
  BY <1>1, <1>4 DEF Server
<1> QED
  BY <1>3, <1>5, <1>6 DEF Learns, Known, Members

\* What follows the loop.
LEMMA TickedLearns ==
    ASSUME NEW s, Typed(s), NEW flag \in BOOLEAN
    PROVE  Learns(s, Gathered(s, flag)) /\ Learns(s, Waited(s, flag))
<1>1. \A state \in ServerState : Learns(s, setState(s, state))
  BY setStateLearns
<1>2. /\ "MR_RESUME_ASK" \in ServerState /\ "MR_READY" \in ServerState
      /\ "MR_DOWNLOAD_ASK" \in ServerState /\ "MR_PENDING" \in ServerState
      /\ "MR_DEPLOY_ASK" \in ServerState /\ "MR_WAIT" \in ServerState
  BY DEF ServerState
<1>3. Learns(s, s) /\ Learns(s, deploy(s)) /\ Learns(s, download(s))
  BY SameLearns, deployLearns
<1>4. Gathered(s, flag) \in {s, download(s), setState(s, "MR_RESUME_ASK"),
                             setState(s, "MR_READY"), setState(s, "MR_DOWNLOAD_ASK"),
                             setState(s, "MR_PENDING")}
  BY DEF Gathered
<1>5. Waited(s, flag) \in {s, deploy(s), setState(s, "MR_DEPLOY_ASK"), setState(s, "MR_WAIT")}
  BY DEF Waited
<1> QED
  BY <1>1, <1>2, <1>3, <1>4, <1>5

\* The tick learns nothing.
LEMMA processDomainsLearns ==
    ASSUME NEW s, Typed(s), NEW late \in BOOLEAN,
           NEW silent \in SUBSET Members(s), NEW overdue \in SUBSET Members(s)
    PROVE  Learns(s, processDomains(s, late, silent, overdue))
<1> DEFINE looped == Looped(s, silent, overdue)
           vaild == AllVaild(s, silent)
           waiting == AllWaiting(s, silent)
           gathered == Gathered(looped, vaild)
           waited == Waited(gathered, waiting)
           finished == AllEqual(s)
<1>1. PICK S \in SUBSET Names : s \in Server(S)
  BY DEF Typed
<1>2. Members(s) = S
  BY <1>1, MembersTyped
<1>3. Typed(looped) /\ Learns(s, looped)
  BY <1>1, <1>2, LoopedTyped, LoopedLearns DEF Typed
<1>4. vaild \in BOOLEAN /\ waiting \in BOOLEAN
  BY DEF AllVaild, AllWaiting
<1>5. processDomains(s, late, silent, overdue) \in
        {feedback(s, FALSE), feedback(looped, FALSE), feedback(gathered, TRUE),
         feedback(waited, TRUE), feedback(waited, FALSE), waited}
  BY DEF processDomains
<1> HIDE DEF looped, vaild, waiting
<1>6. Typed(gathered) /\ Learns(looped, gathered)
  BY <1>3, <1>4, GatheredTyped, TickedLearns
<1> HIDE DEF gathered
<1>7. Typed(waited) /\ Learns(gathered, waited)
  BY <1>4, <1>6, WaitedTyped, TickedLearns
<1> HIDE DEF waited
<1>8. Learns(s, gathered)
  BY <1>3, <1>6, LearnsLearns
<1>9. Learns(s, waited)
  BY <1>7, <1>8, LearnsLearns
<1>10. ASSUME NEW t, Typed(t), Learns(s, t), NEW result \in BOOLEAN
       PROVE  Learns(s, feedback(t, result))
  BY <1>10, feedbackLearns, LearnsLearns
<1>11. Learns(s, s)
  BY SameLearns
<1> QED
  BY <1>3, <1>5, <1>6, <1>7, <1>8, <1>9, <1>10, <1>11

\* The start.
LEMMA OnInitLearns ==
    ASSUME NEW s, Typed(s), NEW success \in BOOLEAN
    PROVE  Learns(s, OnInit(s, success))
<1> DEFINE read == [s EXCEPT !.cacheDepends = s.file.depends,
                             !.cacheState = IF s.file.state = "MR_DEPLOY" THEN "MR_DEPLOY"
                                            ELSE "MR_UNKNOWN"]
<1>1. PICK S \in SUBSET Names : s \in Server(S)
  BY DEF Typed
<1>2. Typed(read) /\ read.details = s.details
  <2>1. s.file.depends \in SUBSET Names
    BY <1>1 DEF Server, StatusFile
  <2>2. read \in Server(S) /\ read.details = s.details
    BY <1>1, <2>1, ZenonT(60) DEF Server
  <2> QED
    BY <2>2 DEF Typed
<1>3. OnInit(s, success) \in {s, idle(read)}
  BY DEF OnInit
<1> HIDE DEF read
<1>4. Learns(s, read) /\ Learns(read, idle(read))
  BY <1>2, idleLearns, SameLearns
<1>5. Learns(s, idle(read))
  BY <1>4, LearnsLearns
<1> QED
  BY <1>3, <1>5, SameLearns

\* Emptying what the last step has sent.
LEMMA FreshLearns ==
    ASSUME NEW s, Typed(s)
    PROVE  Known(Fresh(s)) = Known(s)
<1>1. Fresh(s).details = s.details
  BY DEF Typed, Server, Fresh
<1> QED
  BY <1>1 DEF Known, Members

-----------------------------------------------------------------------------
(* The invariant of the whole.                                             *)

\* The controllers, between their steps.
Aboard == /\ DOMAIN clients = Controllers
          /\ \A n \in Controllers : Fit(n, clients[n]) /\ clients[n].sent = <<>>

\* What is on its way is as true as when it was sent.
Underway == /\ DOMAIN wire = Controllers
            /\ \A n \in Controllers :
                 /\ wire[n] \in Seq(Client(n)!Heartbeat)
                 /\ \A i \in DOMAIN wire[n] :
                      wire[n][i].version # 0 => clients[n].installed # 0

\* And so is what the server knows,
Reported == \A n \in Known(srv) : n \in Controllers => clients[n].installed # 0

\* and what it tells of a deployment that it closes as a success.
Told == \A i \in ClosedFeeds :
          srv.posted[i].type = "TP_DEPLOY" /\ srv.posted[i].result = "RS_SUCCESS"
          => \E u \in Upgrades : /\ u.id = srv.posted[i].id
                                 /\ \A n \in u.packages : clients[n].installed # 0

Counted == /\ web \in WebTask /\ offered \in SUBSET Ids /\ cancelled \in SUBSET offered
           /\ faults \in 0..Faults

RInv == AInv /\ inited /\ Aboard /\ Underway /\ Reported /\ Told /\ Counted

\* Controllers have names.
LEMMA ControllerNames == Controllers \subseteq Names
  BY ServerAssumption DEF Controllers, Upgrade

-----------------------------------------------------------------------------
(* The steps of the server.                                                *)

\* The greatest of the numbers that have a property.
LEMMA Greatest ==
    ASSUME NEW N \in Nat, NEW S \in SUBSET (1..N), S # {}
    PROVE  \E i \in S : \A j \in S : j <= i
<1> DEFINE U == {k \in 0..N : \E j \in S : k < j}
<1> SUFFICES ASSUME \A i \in S : \E j \in S : ~(j <= i)
             PROVE  FALSE
  OBVIOUS
<1>1. 0 \in U
  <2>1. PICK j \in S : TRUE
    OBVIOUS
  <2>2. j \in 1..N
    <3> HIDE DEF U
    <3> QED
      BY <2>1
  <2>3. 0 < j /\ 0 \in 0..N
    BY <2>2
  <2> QED
    BY <2>1, <2>3
<1>2. ASSUME NEW k \in 1..N, k - 1 \in U
      PROVE  k \in U
  <2>1. PICK j \in S : k - 1 < j
    BY <1>2
  <2>2. CASE j = k
    <3>1. PICK i \in S : ~(i <= k)
      BY <2>1, <2>2
    <3>2. k < i
      BY <3>1
    <3> QED
      BY <3>2
  <2>3. CASE j # k
    <3>1. k < j
      BY <2>1, <2>3
    <3> QED
      BY <3>1
  <2> QED
    BY <2>2, <2>3
<1>3. 0..N \subseteq U
  <2> HIDE DEF U
  <2> QED
    BY <1>1, <1>2, Upto
<1>4. N \in U
  BY <1>3
<1> QED
  BY <1>4

\* The last request of a step is the web queue's task.
LEMMA TaskedTyped ==
    ASSUME NEW task \in WebTask, NEW posted \in Seq(WebEvent)
    PROVE  Tasked(task, posted) \in WebTask
<1> DEFINE requests == {i \in DOMAIN posted : posted[i].req # "REQ_FEEDBACK"}
           last == CHOOSE i \in requests : \A j \in requests : j <= i
<1>1. Tasked(task, posted) = IF requests = {} THEN task ELSE posted[last].req
  BY DEF Tasked
<1>2. requests \in SUBSET (1..Len(posted)) /\ Len(posted) \in Nat
  OBVIOUS
<1>3. ASSUME requests # {}
      PROVE  posted[last].req \in WebTask
  <2> HIDE DEF requests
  <2>1. last \in requests
    BY <1>2, <1>3, Greatest
  <2> HIDE DEF last
  <2>2. posted[last] \in WebEvent /\ posted[last].req # "REQ_FEEDBACK"
    BY <2>1 DEF requests
  <2> QED
    BY <2>2 DEF WebEvent, WebRequest, WebFeed, WebTask
<1> QED
  BY <1>1, <1>3

\* What a step of the server, which is one of ServerEngine, does to the rest.
LEMMA Served ==
    ASSUME RInv, NEW next, ServerStep(next), Next,
           \A n \in Known(next) : n \in Known(srv) \/ (n \in Controllers => clients[n].installed # 0)
    PROVE  /\ AInv' /\ inited' /\ Aboard' /\ Reported' /\ Told' /\ srv' = next
           /\ srv'.posted \in Seq(WebEvent) /\ faults' = faults
           /\ \A n \in Controllers : clients'[n].installed = clients[n].installed
<1>1. srv' = next /\ inited' = inited /\ faults' = faults
      /\ clients' = [n \in Controllers |-> Delivered(n, next.sent)]
  BY DEF ServerStep
<1>2. AInv' /\ Typed(srv')
  <2>1. AInv'
    BY ActionStep DEF RInv
  <2> QED
    BY <2>1 DEF AInv, IInv, TypeOK, Typed
<1>3. srv'.posted \in Seq(WebEvent) /\ next.sent \in Seq(Broadcast)
  BY <1>1, <1>2 DEF Typed, Server
<1>4. ASSUME NEW n \in Controllers
      PROVE  /\ Fit(n, clients'[n]) /\ clients'[n].sent = <<>>
             /\ clients'[n].installed = clients[n].installed
  <2>1. Fit(n, clients[n]) /\ clients[n].sent = <<>>
    BY DEF RInv, Aboard
  <2>2. clients'[n] = Delivered(n, next.sent)
    BY <1>1
  <2> QED
    BY <1>3, <2>1, <2>2, DeliveredOnto DEF Onto
<1>5. Aboard'
  BY <1>1, <1>4 DEF Aboard
<1>6. Reported'
  BY <1>1, <1>4 DEF RInv, Reported
<1>7. Told'
  <2> SUFFICES ASSUME NEW i \in ClosedFeeds', srv'.posted[i].type = "TP_DEPLOY",
                      srv'.posted[i].result = "RS_SUCCESS"
               PROVE  \E u \in Upgrades : /\ u.id = srv'.posted[i].id
                                          /\ \A n \in u.packages : clients'[n].installed # 0
    BY DEF Told
  <2>1. AllEqual(srv) /\ srv'.posted[i].id = srv.upgrade.id
    BY SuccessStep DEF RInv
  <2>2. Members(srv) = srv.upgrade.packages /\ srv.upgrade \in Current
    BY DEF RInv, AInv, IInv, Sound, Matched, Members, TypeOK, Server
  <2>3. srv.upgrade \in Upgrades
    BY <2>1, <2>2 DEF AllEqual, Current, NoUpgrade
  <2>4. ASSUME NEW n \in srv.upgrade.packages
        PROVE  clients'[n].installed # 0
    <3>1. n \in Controllers /\ n \in Known(srv)
      BY <2>1, <2>2, <2>3 DEF AllEqual, Known, Controllers, detectVersionEqual
    <3> QED
      BY <1>4, <3>1 DEF RInv, Reported
  <2> QED
    BY <2>1, <2>3, <2>4
<1> QED
  BY <1>1, <1>2, <1>3, <1>4, <1>5, <1>6, <1>7 DEF RInv

\* The record the handlers of the server are given.
LEMMA FreshServer ==
    ASSUME RInv
    PROVE  /\ Typed(Fresh(srv)) /\ Known(Fresh(srv)) = Known(srv)
           /\ Members(Fresh(srv)) = Members(srv)
           /\ \A n \in Known(srv) : n \in Controllers => clients[n].installed # 0
<1>1. Typed(srv)
  BY DEF RInv, AInv, IInv, TypeOK, Typed
<1>2. Typed(Fresh(srv)) /\ Known(Fresh(srv)) = Known(srv)
  BY <1>1, FreshTyped, FreshLearns
<1>3. Members(Fresh(srv)) = Members(srv)
  BY FreshFacts DEF RInv
<1> QED
  BY <1>2, <1>3 DEF RInv, Reported

\* Nothing in the wires has changed.
LEMMA WiresKept ==
    ASSUME RInv, wire' = wire,
           \A n \in Controllers : clients'[n].installed = clients[n].installed
    PROVE  Underway'
  BY DEF RInv, Underway

\* The update server offers an upgrade.
LEMMA OfferKeeps ==
    ASSUME RInv, NEW upgrade \in Upgrades, Offer(upgrade)
    PROVE  RInv' /\ Next
<1> DEFINE next == OnUpgrade(Fresh(srv), upgrade)
<1>1. Next
  BY DEF RInv, Offer, ServerStep, Next, ReqUpgrade, FromWeb
<1>2. Known(next) \subseteq Known(srv)
  BY FreshServer, OnUpgradeLearns DEF Learns
<1>3. ServerStep(next) /\ web' = Tasked(web, srv'.posted) /\ wire' = wire
      /\ cancelled' = cancelled /\ offered' = offered \cup {upgrade.id}
  BY DEF Offer
<1> HIDE DEF next
<1>4. /\ AInv' /\ inited' /\ Aboard' /\ Reported' /\ Told' /\ faults' = faults
      /\ srv'.posted \in Seq(WebEvent)
      /\ \A n \in Controllers : clients'[n].installed = clients[n].installed
  BY <1>1, <1>2, <1>3, FreshServer, Served
<1>5. Underway'
  BY <1>3, <1>4, WiresKept
<1>6. Counted'
  <2>1. web' \in WebTask
    BY <1>3, <1>4, TaskedTyped DEF RInv, Counted
  <2>2. upgrade.id \in Ids
    BY ServerAssumption
  <2> QED
    BY <1>3, <1>4, <2>1, <2>2 DEF RInv, Counted
<1> QED
  BY <1>1, <1>4, <1>5, <1>6 DEF RInv

\* What all the steps of the server have in common: the wires and the bookkeeping aside,
\* they keep the invariant.
LEMMA ServedKeeps ==
    ASSUME RInv, NEW next, ServerStep(next), Next, wire' = wire,
           Known(next) \subseteq Known(srv),
           offered' = offered, cancelled' = cancelled,
           NEW task \in WebTask, web' = Tasked(task, next.posted)
    PROVE  RInv'
<1>1. /\ AInv' /\ inited' /\ Aboard' /\ Reported' /\ Told' /\ faults' = faults
      /\ next.posted \in Seq(WebEvent)
      /\ \A n \in Controllers : clients'[n].installed = clients[n].installed
  BY Served
<1>2. Underway'
  BY <1>1, WiresKept
<1>3. web' \in WebTask
  BY <1>1, TaskedTyped
<1>4. Counted'
  BY <1>1, <1>3 DEF RInv, Counted
<1> QED
  BY <1>1, <1>2, <1>4 DEF RInv

\* It cancels one.
LEMMA WithdrawKeeps ==
    ASSUME RInv, NEW id \in Ids, Withdraw(id)
    PROVE  RInv' /\ Next
<1> DEFINE next == OnCancel(Fresh(srv), id)
<1>1. Next
  BY DEF RInv, Withdraw, ServerStep, Next, ReqCancel, FromWeb
<1>2. Known(next) \subseteq Known(srv)
  BY FreshServer, OnCancelLearns DEF Learns
<1>3. ServerStep(next) /\ web' = Tasked(web, srv'.posted) /\ wire' = wire
      /\ offered' = offered /\ cancelled' = cancelled \cup {id} /\ id \in offered
  BY DEF Withdraw
<1> HIDE DEF next
<1>4. /\ AInv' /\ inited' /\ Aboard' /\ Reported' /\ Told' /\ faults' = faults
      /\ srv'.posted \in Seq(WebEvent)
      /\ \A n \in Controllers : clients'[n].installed = clients[n].installed
  BY <1>1, <1>2, <1>3, FreshServer, Served
<1>5. Underway'
  BY <1>3, <1>4, WiresKept
<1>6. Counted'
  <2>1. web' \in WebTask
    BY <1>3, <1>4, TaskedTyped DEF RInv, Counted
  <2> QED
    BY <1>3, <1>4, <2>1 DEF RInv, Counted
<1> QED
  BY <1>1, <1>4, <1>5, <1>6 DEF RInv

\* The tasks of the web queue that end with a result, good or bad.
LEMMA WebResultKeeps ==
    ASSUME RInv, NEW task, NEW next, WebResult(task, next), Next,
           Known(next) \subseteq Known(srv)
    PROVE  RInv'
<1>1. /\ ServerStep(next) /\ web' = Tasked("REQ_STOP", next.posted) /\ wire' = wire
      /\ offered' = offered /\ cancelled' = cancelled /\ "REQ_STOP" \in WebTask
  BY DEF WebResult, WebTask
<1> QED
  BY <1>1, ServedKeeps

\* The web queue's results.
LEMMA WebKeeps ==
    ASSUME RInv, Downloaded \/ Verified \/ Distributed \/ WebError
    PROVE  RInv' /\ Next
<1> DEFINE s == Fresh(srv)
<1>1. Typed(s) /\ Known(s) = Known(srv) /\ inited
  BY FreshServer DEF RInv
<1>2. \/ WebResult("REQ_DOWNLOAD", OnDownloadDone(s)) \/ WebResult("REQ_VERIFY", OnVerifyDone(s))
      \/ WebResult("distributing", OnDistributeDone(s)) \/ WebResult(web, OnError(s))
  BY DEF Downloaded, Verified, Distributed, WebError
<1>3. /\ Known(OnDownloadDone(s)) \subseteq Known(srv) /\ Known(OnVerifyDone(s)) \subseteq Known(srv)
      /\ Known(OnDistributeDone(s)) \subseteq Known(srv) /\ Known(OnError(s)) \subseteq Known(srv)
  <2> HIDE DEF s
  <2> QED
    BY <1>1, OnResultLearns, OnErrorLearns DEF Learns
<1>4. Next
  <2>1. /\ srv' = OnDownloadDone(s) \/ srv' = OnVerifyDone(s) \/ srv' = OnDistributeDone(s)
           \/ srv' = OnError(s)
        /\ inited' = inited
    BY <1>2 DEF WebResult, ServerStep
  <2>2. ResDownloadDone \/ ResVerifyDone \/ ResDistributeDone \/ ResError
    BY <1>1, <2>1 DEF ResDownloadDone, ResVerifyDone, ResDistributeDone, ResError, FromWeb
  <2> QED
    BY <2>2 DEF Next
<1> HIDE DEF s
<1> QED
  BY <1>2, <1>3, <1>4, WebResultKeeps

\* It starts to distribute.
LEMMA PullKeeps ==
    ASSUME RInv, Pull
    PROVE  RInv' /\ Next
<1> DEFINE next == OnPull(Fresh(srv), TRUE)
<1>1. Next
  BY DEF RInv, Pull, ServerStep, Next, ReqPull, FromWeb
<1>2. Known(next) \subseteq Known(srv)
  BY FreshServer, OnPullLearns DEF Learns
<1>3. ServerStep(next) /\ web' = "distributing" /\ wire' = wire
      /\ offered' = offered /\ cancelled' = cancelled
  BY DEF Pull
<1> HIDE DEF next
<1>4. /\ AInv' /\ inited' /\ Aboard' /\ Reported' /\ Told' /\ faults' = faults
      /\ \A n \in Controllers : clients'[n].installed = clients[n].installed
  BY <1>1, <1>2, <1>3, FreshServer, Served
<1>5. Underway'
  BY <1>3, <1>4, WiresKept
<1>6. Counted'
  BY <1>3, <1>4 DEF RInv, Counted, WebTask
<1> QED
  BY <1>1, <1>4, <1>5, <1>6 DEF RInv

\* A viewer answers.
LEMMA AnswerKeeps ==
    ASSUME RInv, NEW answer \in Answers, AnswerAsked(answer)
    PROVE  RInv' /\ Next
<1> DEFINE msg == [name |-> "viewer", watcher |-> TRUE, discovery |-> FALSE,
                   answer |-> answer,
                   report |-> [state |-> "WR_IDLE", last |-> "WR_OFFLINE", error |-> FALSE,
                               version |-> "older"]]
           next == OnDomain(Fresh(srv), msg)
<1>1. msg \in Messages
  BY RolloutAssumption DEF Message, Report, ClientState, Version
<1>2. ServerStep(next) /\ web' = Tasked(web, srv'.posted) /\ wire' = wire
      /\ offered' = offered /\ cancelled' = cancelled
  BY DEF AnswerAsked
<1>3. msg.report.version = "older"
  OBVIOUS
<1> HIDE DEF msg
<1>4. Next
  BY <1>1, <1>2 DEF ServerStep, Next, ResDomain
<1>5. Known(next) \subseteq Known(srv)
  BY <1>1, <1>3, FreshServer, OnDomainLearns
<1> HIDE DEF next
<1>6. srv'.posted = next.posted /\ web \in WebTask
  BY <1>2 DEF ServerStep, RInv, Counted
<1> QED
  BY <1>2, <1>4, <1>5, <1>6, ServedKeeps

\* The tick.
LEMMA ServerTickKeeps ==
    ASSUME RInv, NEW late \in BOOLEAN, NEW silent \in SUBSET Members(srv),
           NEW overdue \in SUBSET Members(srv), ServerTick(late, silent, overdue)
    PROVE  RInv' /\ Next
<1> DEFINE next == processDomains(Fresh(srv), late, silent, overdue)
<1>1. ServerStep(next) /\ Watching(srv) /\ web' = Tasked(web, srv'.posted) /\ wire' = wire
      /\ offered' = offered /\ cancelled' = cancelled
  BY DEF ServerTick
<1>2. Next
  BY <1>1 DEF ServerStep, Next, Tick
<1>3. Known(next) \subseteq Known(srv)
  BY FreshServer, processDomainsLearns DEF Learns
<1> HIDE DEF next
<1>4. srv'.posted = next.posted /\ web \in WebTask
  BY <1>1 DEF ServerStep, RInv, Counted
<1> QED
  BY <1>1, <1>2, <1>3, <1>4, ServedKeeps

\* A heartbeat that is heard: the server learns only what is so.
LEMMA HearKeeps ==
    ASSUME RInv, NEW n \in Controllers, Hear(n)
    PROVE  RInv' /\ Next
<1> DEFINE heartbeat == Head(wire[n])
           msg == DomainMessage(n, heartbeat)
           next == OnDomain(Fresh(srv), msg)
<1>1. /\ ServerStep(next) /\ web' = Tasked(web, srv'.posted)
      /\ wire[n] # <<>> /\ wire' = [wire EXCEPT ![n] = Tail(wire[n])]
      /\ offered' = offered /\ cancelled' = cancelled
  BY DEF Hear
<1>2. /\ wire[n] \in Seq(Client(n)!Heartbeat) /\ DOMAIN wire = Controllers
      /\ \A i \in DOMAIN wire[n] : wire[n][i].version # 0 => clients[n].installed # 0
  BY DEF RInv, Underway
<1>3. /\ heartbeat \in Client(n)!Heartbeat
      /\ heartbeat.version # 0 => clients[n].installed # 0
  BY <1>1, <1>2
<1>4. msg \in Messages
  <2>1. Class(heartbeat.version) \in Version
    BY DEF Class, Version
  <2>2. n \in Names
    BY ControllerNames
  <2> QED
    BY <1>3, <2>1, <2>2, RolloutAssumption
       DEF DomainMessage, Message, Report, Client!Heartbeat, Client!ClientState, ClientState,
           Answer
<1>5. msg.name = n /\ (msg.report.version = "target" => clients[n].installed # 0)
  <2>1. msg.name = n /\ msg.report.version = Class(heartbeat.version)
    BY DEF DomainMessage
  <2>2. ASSUME Class(heartbeat.version) = "target"
        PROVE  heartbeat.version # 0
    <3>1. Typed(srv)
      BY DEF RInv, AInv, IInv, TypeOK, Typed
    <3>2. srv.upgrade.id \in Ids \cup {NoId}
      BY <3>1, UpgradeTyped DEF Upgrade
    <3>3. srv.upgrade.id \in Ids /\ Target[srv.upgrade.id] \in Nat \ {0}
      <4>1. CASE srv.upgrade.id = NoId
        BY <2>2, <4>1 DEF Class
      <4> QED
        BY <3>2, <4>1, RolloutAssumption
    <3>4. CASE heartbeat.version = 0
      BY <2>2, <3>3, <3>4 DEF Class
    <3> QED
      BY <3>4
  <2> QED
    BY <1>3, <2>1, <2>2
<1>6. Known(next) \subseteq Known(srv) \cup (IF msg.report.version = "target" THEN {n} ELSE {})
  <2>1. Known(next) \subseteq
          Known(Fresh(srv)) \cup (IF msg.report.version = "target" THEN {msg.name} ELSE {})
    <3> HIDE DEF msg
    <3> QED
      BY <1>4, FreshServer, OnDomainLearns
  <2> HIDE DEF msg, next
  <2> QED
    BY <1>5, <2>1, FreshServer
<1> HIDE DEF heartbeat, msg
<1>7. Next
  BY <1>1, <1>4 DEF ServerStep, Next, ResDomain
<1> HIDE DEF next
<1>8. \A m \in Known(next) : m \in Known(srv) \/ (m \in Controllers => clients[m].installed # 0)
  BY <1>5, <1>6
<1>9. /\ AInv' /\ inited' /\ Aboard' /\ Reported' /\ Told' /\ faults' = faults
      /\ srv'.posted \in Seq(WebEvent)
      /\ \A m \in Controllers : clients'[m].installed = clients[m].installed
  BY <1>1, <1>7, <1>8, Served
<1>10. Underway'
  <2>1. DOMAIN wire' = Controllers
    BY <1>1, <1>2
  <2>2. ASSUME NEW m \in Controllers
        PROVE  /\ wire'[m] \in Seq(Client(m)!Heartbeat)
               /\ \A i \in DOMAIN wire'[m] : wire'[m][i].version # 0 => clients[m].installed # 0
    <3>1. CASE m # n
      BY <1>1, <3>1 DEF RInv, Underway
    <3>2. CASE m = n
      <4>1. wire'[n] = Tail(wire[n])
        BY <1>1, <1>2
      <4>2. Tail(wire[n]) \in Seq(Client(n)!Heartbeat)
        BY <1>1, <1>2
      <4>3. \A i \in DOMAIN Tail(wire[n]) :
              i + 1 \in DOMAIN wire[n] /\ Tail(wire[n])[i] = wire[n][i + 1]
        BY <1>1, <1>2
      <4> QED
        BY <1>2, <3>2, <4>1, <4>2, <4>3
    <3> QED
      BY <3>1, <3>2
  <2> QED
    BY <1>9, <2>1, <2>2 DEF Underway
<1>11. Counted'
  <2>1. web' \in WebTask
    BY <1>1, <1>9, TaskedTyped DEF RInv, Counted
  <2> QED
    BY <1>1, <1>9, <2>1 DEF RInv, Counted
<1> QED
  BY <1>7, <1>9, <1>10, <1>11 DEF RInv

-----------------------------------------------------------------------------
(* The steps of a controller.                                              *)

\* What a step of a controller that has gone on from its state does to the rest.
LEMMA Acted ==
    ASSUME RInv, NEW n \in Controllers, NEW next, Past(n, clients[n], next),
           ClientStep(n, next)
    PROVE  /\ AInv' /\ inited' /\ Aboard' /\ Underway' /\ Reported' /\ Told'
           /\ srv' = srv /\ inited' = inited
           /\ (faults' \in 0..Faults => Counted')
<1> DEFINE quiet == [next EXCEPT !.sent = <<>>]
<1>1. /\ srv' = srv /\ inited' = inited /\ web' = web /\ offered' = offered
      /\ cancelled' = cancelled
      /\ clients' = [clients EXCEPT ![n] = quiet]
      /\ wire' = [wire EXCEPT ![n] = wire[n] \o next.sent]
  BY DEF ClientStep
<1>2. AInv' /\ inited'
  <2>1. [Next]_vars
    BY <1>1 DEF vars
  <2> QED
    BY <1>1, <2>1, ActionStep DEF RInv
<1>3. /\ DOMAIN clients = Controllers /\ DOMAIN wire = Controllers
      /\ wire[n] \in Seq(Client(n)!Heartbeat)
  BY DEF RInv, Aboard, Underway
<1>4. /\ Fit(n, next) /\ (clients[n].installed # 0 => next.installed # 0)
  BY DEF Past
<1>5. /\ Fit(n, quiet) /\ quiet.sent = <<>> /\ quiet.installed = next.installed
  <2>1. Client(n)!Quiet(next) = quiet
    BY DEF Client!Quiet
  <2> HIDE DEF quiet
  <2> QED
    BY <1>4, <2>1, QuietOnto DEF Onto
<1>6. next.sent \in Seq(Client(n)!Heartbeat)
      /\ \A i \in DOMAIN next.sent : next.sent[i].version # 0 => next.installed # 0
  BY <1>4 DEF Fit, Client!ClientHelper, Honest
<1> HIDE DEF quiet
<1>7. /\ clients'[n] = quiet
      /\ \A m \in Controllers : m # n => clients'[m] = clients[m]
  BY <1>1, <1>3
<1>8. \A m \in Controllers : clients[m].installed # 0 => clients'[m].installed # 0
  BY <1>4, <1>5, <1>7
<1>9. Aboard'
  <2>1. DOMAIN clients' = Controllers
    BY <1>1, <1>3
  <2>2. ASSUME NEW m \in Controllers
        PROVE  Fit(m, clients'[m]) /\ clients'[m].sent = <<>>
    <3>1. CASE m = n
      BY <1>5, <1>7, <3>1
    <3>2. CASE m # n
      BY <1>7, <3>2 DEF RInv, Aboard
    <3> QED
      BY <3>1, <3>2
  <2> QED
    BY <2>1, <2>2 DEF Aboard
<1>10. Underway'
  <2>1. DOMAIN wire' = Controllers
    BY <1>1, <1>3
  <2>2. ASSUME NEW m \in Controllers
        PROVE  /\ wire'[m] \in Seq(Client(m)!Heartbeat)
               /\ \A i \in DOMAIN wire'[m] : wire'[m][i].version # 0 => clients'[m].installed # 0
    <3>1. CASE m = n
      <4>1. wire'[n] = wire[n] \o next.sent
        BY <1>1, <1>3
      <4>2. wire'[n] \in Seq(Client(n)!Heartbeat)
        BY <1>3, <1>6, <4>1
      <4>3. ASSUME NEW i \in DOMAIN wire'[n], wire'[n][i].version # 0
            PROVE  clients'[n].installed # 0
        <5>1. CASE i \in DOMAIN wire[n]
          <6>1. wire'[n][i] = wire[n][i]
            BY <1>3, <1>6, <4>1, <5>1
          <6> QED
            BY <1>8, <4>3, <5>1, <6>1 DEF RInv, Underway
        <5>2. CASE i \notin DOMAIN wire[n]
          <6>1. i - Len(wire[n]) \in DOMAIN next.sent
                /\ wire'[n][i] = next.sent[i - Len(wire[n])]
            BY <1>3, <1>6, <4>1, <5>2
          <6> QED
            BY <1>5, <1>6, <1>7, <4>3, <6>1
        <5> QED
          BY <5>1, <5>2
      <4> QED
        BY <3>1, <4>2, <4>3
    <3>2. CASE m # n
      <4>1. wire'[m] = wire[m]
        BY <1>1, <1>3, <3>2
      <4> QED
        BY <1>8, <4>1 DEF RInv, Underway
    <3> QED
      BY <3>1, <3>2
  <2> QED
    BY <2>1, <2>2 DEF Underway
<1>11. Reported'
  BY <1>1, <1>8 DEF RInv, Reported
<1>12. Told'
  <2>1. ClosedFeeds' = ClosedFeeds
    BY <1>1 DEF ClosedFeeds
  <2>2. ASSUME NEW i \in ClosedFeeds, srv.posted[i].type = "TP_DEPLOY",
               srv.posted[i].result = "RS_SUCCESS"
        PROVE  \E u \in Upgrades : /\ u.id = srv.posted[i].id
                                   /\ \A m \in u.packages : clients'[m].installed # 0
    <3>1. PICK u \in Upgrades : /\ u.id = srv.posted[i].id
                                /\ \A m \in u.packages : clients[m].installed # 0
      BY <2>2 DEF RInv, Told
    <3>2. u.packages \subseteq Controllers
      BY DEF Controllers
    <3> QED
      BY <1>8, <3>1, <3>2
  <2> QED
    BY <1>1, <2>1, <2>2 DEF Told
<1>13. faults' \in 0..Faults => Counted'
  BY <1>1 DEF RInv, Counted
<1> QED
  BY <1>1, <1>2, <1>9, <1>10, <1>11, <1>12, <1>13

\* Each of a controller's threads, the transport and the faults.
LEMMA ControllerKeeps ==
    ASSUME RInv, NEW n \in Controllers,
           \/ HandleNext(n) \/ Beat(n) \/ Work(n) \/ WorkOn(n)
           \/ Connect(n) \/ Disconnect(n) \/ Reboot(n)
    PROVE  RInv' /\ UNCHANGED vars
<1> DEFINE c == clients[n]
<1>1. Fit(n, c) /\ Faults \in Nat /\ faults \in 0..Faults
  BY RolloutAssumption DEF RInv, Aboard, Counted
<1>2. PICK next :
        /\ ClientStep(n, next)
        /\ \/ \E d \in Client(n)!Handled(c) : d = next
           \/ \E d \in Client(n)!Beaten(c) : d = next
           \/ \E d \in Client(n)!Broken(c) \cup Client(n)!Ended(c, CanFail) : d = next
           \/ \E d \in Client(n)!LooseEnded(c, CanFail) : d = next
           \/ \E flag \in BOOLEAN : next = [c EXCEPT !.online = flag]
           \/ \E d \in Client(n)!Rebooted(c) : d = next
  BY DEF HandleNext, Beat, Work, TaskEnds, WorkOn, Connect, Disconnect, Reboot
<1>3. faults' \in 0..Faults
  BY <1>1 DEF HandleNext, Beat, Work, WorkOn, Connect, Disconnect, Reboot
<1> HIDE DEF c
<1>4. Past(n, c, next)
  BY <1>1, <1>2, HandledPast, BeatenPast, BrokenPast, EndedPast, LooseEndedPast,
     RebootedPast, FlagsOnto, OntoPast
<1> QED
  BY <1>2, <1>3, <1>4, Acted DEF RInv, vars, c

-----------------------------------------------------------------------------
(* The invariant is inductive.                                             *)

\* The server has begun and has its answer to REQ_INIT.
LEMMA RolloutStarts == RolloutInit => RInv
<1> SUFFICES ASSUME RolloutInit
             PROVE  RInv
  OBVIOUS
<1> DEFINE boot == Boot(NoFile)
           begun == OnInit(boot, TRUE)
<1>1. NoFile \in StatusFile
  BY DEF NoFile, StatusFile, ServerState
<1>2. /\ Typed(boot) /\ Sound(boot) /\ Silent(boot) /\ Cancelling(boot)
      /\ boot.state = "MR_OFFLINE" /\ Known(boot) = {}
  <2>1. Typed(boot) /\ Sound(boot)
    BY <1>1, BootTyped, BootSound
  <2>2. /\ Silent(boot) /\ Cancelling(boot) /\ boot.state = "MR_OFFLINE" /\ Known(boot) = {}
    BY DEF Boot, Silent, Cancelling, Known, Members
  <2> QED
    BY <2>1, <2>2
<1> HIDE DEF boot
<1>3. Typed(begun) /\ Sound(begun) /\ Cancelling(begun) /\ Known(begun) = {}
  BY <1>2, OnInitTyped, OnInitSound, OnInitFine, OnInitLearns DEF Fine, Learns
<1>4. srv = Fresh(begun) /\ inited = TRUE
  BY DEF RolloutInit, boot
<1> HIDE DEF begun
<1>5. Typed(srv) /\ Sound(srv) /\ Known(srv) = {}
  BY <1>3, <1>4, FreshTyped, FreshSound, FreshLearns
<1>6. Cancelling(srv) /\ srv.posted = <<>>
  BY <1>3, <1>4 DEF Typed, Server, Fresh, Cancelling
<1>7. AInv /\ inited
  BY <1>4, <1>5, <1>6 DEF AInv, IInv, TypeOK, Typed
<1>8. Reported /\ Told
  BY <1>5, <1>6 DEF Reported, Told, ClosedFeeds
<1>9. Aboard
  <2>1. ASSUME NEW n \in Controllers
        PROVE  Fit(n, clients[n]) /\ clients[n].sent = <<>>
    <3>1. clients[n] = Client(n)!Started(0, {})
      BY DEF RolloutInit
    <3>2. Fit(n, Client(n)!Started(0, {}))
      BY StartedFit
    <3>3. Client(n)!Started(0, {}).sent = <<>>
      BY DEF Client!Started
    <3> QED
      BY <3>1, <3>2, <3>3
  <2> QED
    BY <2>1 DEF Aboard, RolloutInit
<1>10. Underway
  BY DEF Underway, RolloutInit
<1>11. Counted
  BY RolloutAssumption DEF Counted, RolloutInit, WebTask
<1> QED
  BY <1>7, <1>8, <1>9, <1>10, <1>11 DEF RInv

\* Every step of the whole keeps it, and is a step of ServerEngine or none of the server.
LEMMA RolloutStep == RInv /\ [RolloutNext]_rolloutVars => RInv' /\ [Next]_vars
<1> SUFFICES ASSUME RInv, [RolloutNext]_rolloutVars
             PROVE  RInv' /\ [Next]_vars
  OBVIOUS
<1>1. ASSUME NEW upgrade \in Upgrades, Offer(upgrade)
      PROVE  RInv' /\ [Next]_vars
  BY <1>1, OfferKeeps
<1>2. ASSUME NEW id \in Ids, Withdraw(id)
      PROVE  RInv' /\ [Next]_vars
  BY <1>2, WithdrawKeeps
<1>3. CASE Downloaded \/ Verified \/ Distributed \/ WebError
  BY <1>3, WebKeeps
<1>4. CASE Pull
  BY <1>4, PullKeeps
<1>5. ASSUME NEW answer \in Answers, AnswerAsked(answer)
      PROVE  RInv' /\ [Next]_vars
  BY <1>5, AnswerKeeps
<1>6. ASSUME NEW late \in BOOLEAN, NEW silent \in SUBSET Members(srv),
             NEW overdue \in SUBSET Members(srv), ServerTick(late, silent, overdue)
      PROVE  RInv' /\ [Next]_vars
  BY <1>6, ServerTickKeeps
<1>7. ASSUME NEW n \in Controllers, Hear(n)
      PROVE  RInv' /\ [Next]_vars
  BY <1>7, HearKeeps
<1>8. ASSUME NEW n \in Controllers,
             \/ HandleNext(n) \/ Beat(n) \/ Work(n) \/ WorkOn(n)
             \/ Connect(n) \/ Disconnect(n) \/ Reboot(n)
      PROVE  RInv' /\ [Next]_vars
  BY <1>8, ControllerKeeps
<1>9. CASE UNCHANGED rolloutVars
  <2>1. /\ UNCHANGED <<srv, inited, clients, wire, web, offered, cancelled, faults>>
        /\ UNCHANGED vars
    BY <1>9 DEF rolloutVars, vars
  <2>2. AInv'
    BY <2>1, ActionStep DEF RInv
  <2>3. ClosedFeeds' = ClosedFeeds
    BY <2>1 DEF ClosedFeeds
  <2> QED
    BY <2>1, <2>2, <2>3 DEF RInv, Aboard, Underway, Reported, Told, Counted
<1> QED
  BY <1>1, <1>2, <1>3, <1>4, <1>5, <1>6, <1>7, <1>8, <1>9 DEF RolloutNext

\* The invariant of the whole: every package a controller works on was offered to it,
\* and whatever is said of a version, by a controller, a wire or the server, is so.
THEOREM RolloutInductive == RolloutSpec => []RInv
  BY RolloutStarts, RolloutStep, PTL DEF RolloutSpec

(***************************************************************************)
(* The type of the whole, for any number of controllers, upgrades and      *)
(* faults.  That no task runs and no result is handled without a package   *)
(* is part of it, and is why the invariant follows every package from the  *)
(* offer to the worker (Provided).                                         *)
(***************************************************************************)
THEOREM RolloutTypeCorrect == RolloutSpec => []RolloutTypeOK
<1>1. RInv => RolloutTypeOK
  BY DEF RInv, AInv, IInv, Aboard, Underway, Counted, Fit, RolloutTypeOK
<1> QED
  BY <1>1, RolloutInductive, PTL

(***************************************************************************)
(* In the rollout the server behaves as ServerEngine says: whatever the    *)
(* controllers send and whenever it arrives, it is one of the heartbeats   *)
(* ServerEngine explores alone, and every other step leaves the server as  *)
(* it is.                                                                  *)
(***************************************************************************)
THEOREM ServerImplements == RolloutSpec => [][Next]_vars
<1>1. RInv /\ RInv' /\ [RolloutNext]_rolloutVars => [Next]_vars
  BY RolloutStep
<1> QED
  BY <1>1, RolloutInductive, PTL DEF RolloutSpec

(***************************************************************************)
(* So what is proved of the server alone holds among its controllers:      *)
(* watchdog, details, sanctioned deployments and the control of those who  *)
(* rejoin,                                                                 *)
(***************************************************************************)
THEOREM ServerSafeAmongControllers ==
    RolloutSpec => [](WatchdogArmed /\ DetailsMatchUpgrade /\ DeploySanctioned /\ RejoinControl)
<1>1. RInv => WatchdogArmed /\ DetailsMatchUpgrade /\ DeploySanctioned /\ RejoinControl
  BY Strengthening DEF RInv, AInv
<1> QED
  BY <1>1, RolloutInductive, PTL

(***************************************************************************)
(* and every request closed once, never in silence, and as a success only  *)
(* when all have reported their target.                                    *)
(***************************************************************************)
THEOREM ServerAnswersAmongControllers ==
    RolloutSpec => NoSilentEnd /\ ClosesOnce /\ SuccessIsDeployed
<1>1. RInv => AInv
  BY DEF RInv
<1>2. AInv /\ [Next]_vars =>
        [\A i \in ClosedFeeds' :
           srv'.posted[i].type = "TP_DEPLOY" /\ srv'.posted[i].result = "RS_SUCCESS"
           => AllEqual(srv) /\ srv'.posted[i].id = srv.upgrade.id]_vars
  BY SuccessStep
<1> QED
  BY <1>1, <1>2, NoSilentEndStep, ClosesOnceStep, RolloutInductive, ServerImplements, PTL
     DEF NoSilentEnd, ClosesOnce, SuccessIsDeployed

(***************************************************************************)
(* When the update server is told that the upgrade has succeeded, every    *)
(* controller really runs its new version: through lost connections,       *)
(* restarts, late results and abandoned tasks, for any number of           *)
(* controllers.  Its hypothesis is that the update server has one upgrade  *)
(* to offer; with several, a later one may rightly have replaced it.       *)
(***************************************************************************)
THEOREM SuccessAlwaysReal ==
    ASSUME NEW u, Upgrades = {u}
    PROVE  RolloutSpec => []SuccessIsReal
<1>1. RInv => SuccessIsReal
  <2> SUFFICES ASSUME RInv, NEW i \in ClosedFeeds, srv.posted[i].type = "TP_DEPLOY",
                      srv.posted[i].result = "RS_SUCCESS", NEW n \in Controllers
               PROVE  clients[n].installed = Target[srv.posted[i].id]
    BY DEF SuccessIsReal
  <2>1. u.id = srv.posted[i].id /\ \A m \in u.packages : clients[m].installed # 0
    BY DEF RInv, Told
  <2>2. n \in u.packages
    BY DEF Controllers
  <2>3. clients[n].installed \in {0} \cup {Target[j] : j \in Held}
    BY DEF RInv, Aboard, Fit, Provided
  <2>4. Held = {u.id}
    BY DEF Held
  <2> QED
    BY <2>1, <2>2, <2>3, <2>4
<1> QED
  BY <1>1, RolloutInductive, PTL

-----------------------------------------------------------------------------
(* Nobody deploys while somebody is still preparing (NoEarlyDeploy).  The  *)
(* order goes out when every controller has said that it waits.  So whoever*)
(* says so must have nothing left to prepare (Orderly), which is why there *)
(* is only ever one thing a controller has to prepare: an event in its     *)
(* queue, the task of its worker or one that stop() let go; and it must    *)
(* never be told to download again.  The server says CTL_DOWNLOAD once to  *)
(* all, and to whoever introduces itself while it is its control: a        *)
(* controller does so once, and the download is not asked for before all   *)
(* have (Settled).  How far the upgrade is follows from what the server's  *)
(* record and the web queue show (Shown); Phased says what each phase tells*)
(* of everybody.                                                           *)

-----------------------------------------------------------------------------
(* What a controller has still to prepare: at most one thing at a time.    *)

\* A task of the preparation: what it does is void once the deployment begins.
Preparing(w) == w.task \in {"download", "verify", "patch"}

\* The events that lead to such a task, or end one well.
Prepares(event) ==
    \/ event.type \in {"RES_DOWNLOAD", "RES_VERIFY", "RES_PATCH"}
    \/ event.type = "REQ_CONTROL" /\ event.control = "CTL_DOWNLOAD"

\* The control that leads to a deployment.
Orders(event) == event.type = "REQ_CONTROL" /\ event.control = "CTL_DEPLOY"

\* What a controller has still to prepare: events to come, and tasks let go.
Coming(queue) == {i \in DOMAIN queue : Prepares(queue[i])}
Leftover(c) == {w \in c.loose : Preparing(w)}
Single(S) == \A x, y \in S : x = y

\* It has nothing to prepare; it has one thing at most, and that in one place.
None(c) == Coming(c.queue) = {} /\ ~Preparing(c.worker) /\ Leftover(c) = {}
One(c) == \/ Single(Coming(c.queue)) /\ ~Preparing(c.worker) /\ Leftover(c) = {}
          \/ Coming(c.queue) = {} /\ Leftover(c) = {}
          \/ Coming(c.queue) = {} /\ ~Preparing(c.worker) /\ Single(Leftover(c))

\* It deploys, or will when it reads its queue.
Deploys(c) == \/ \E w \in {c.worker} \cup c.loose : w.task = "deploy"
              \/ \E i \in DOMAIN c.queue : Orders(c.queue[i])

\* It says that it waits; it introduces itself.
Waits(c) == c.state = "WR_WAIT" \/ \E i \in DOMAIN c.sent : c.sent[i].state = "WR_WAIT"
Introduces(c) == c.needDiscovery \/ \E i \in DOMAIN c.sent : c.sent[i].discovery

Orderly(c) == One(c) /\ (Waits(c) \/ Deploys(c) => None(c))

\* It speaks only when connected, and introduces itself first.
Speaks(c) == /\ c.sent # <<>> => c.online /\ ~c.needDiscovery
             /\ \A i \in DOMAIN c.sent : c.sent[i].discovery => i = 1
             /\ ~c.needDiscovery => c.online

\* Once connected it stays so, and introduces itself no more.
Linked(c, d) == /\ Speaks(c) => Speaks(d)
                /\ c.online => d.online /\ (Introduces(d) => Introduces(c))

\* What the calls make of an orderly controller.
Kept(c, d) == /\ Orderly(d) /\ Linked(c, d)
              /\ (None(c) => None(d)) /\ (Deploys(d) => Deploys(c))
              /\ None(c) /\ ~Deploys(c) /\ ~Waits(c) => ~Waits(d)

\* d is c but for its state and what none of this is about.
Matches(c, d) == /\ d.queue = c.queue /\ d.worker = c.worker /\ d.loose = c.loose
                 /\ d.sent = c.sent /\ d.online = c.online
                 /\ d.needDiscovery = c.needDiscovery

\* Its state is then this.
Enters(c, d, state) == Matches(c, d) /\ d.state = state

\* A call that changes nothing.
LEMMA KeptSelf ==
    ASSUME NEW c, Orderly(c)
    PROVE  Kept(c, c)
  BY DEF Kept, Linked

\* Two in a row.
LEMMA KeptKept ==
    ASSUME NEW c, NEW d, NEW e, Kept(c, d), Kept(d, e)
    PROVE  Kept(c, e)
  BY DEF Kept, Linked

\* The same of calls that change nothing this is about,
LEMMA MatchesMatches ==
    ASSUME NEW c, NEW d, NEW e, Matches(c, d), Matches(d, e)
    PROVE  Matches(c, e)
  BY DEF Matches

\* and whoever does not start to wait by one is kept.
LEMMA MatchesKept ==
    ASSUME NEW c, NEW d, Orderly(c), Matches(c, d), d.state = c.state \/ d.state # "WR_WAIT"
    PROVE  Kept(c, d)
<1>1. (None(d) <=> None(c)) /\ (One(d) <=> One(c)) /\ (Deploys(d) <=> Deploys(c))
  BY DEF Matches, None, One, Deploys, Leftover
<1>2. (Waits(d) => Waits(c)) /\ (Introduces(d) <=> Introduces(c)) /\ d.online = c.online
  BY DEF Matches, Waits, Introduces
<1>3. Speaks(d) <=> Speaks(c)
  BY DEF Matches, Speaks
<1> QED
  BY <1>1, <1>2, <1>3 DEF Kept, Linked, Orderly

\* setDomainState changes the state only; and those who know, only what they know.
LEMMA setDomainStateMatches ==
    ASSUME NEW n, NEW c \in Client(n)!ClientHelper, NEW state
    PROVE  /\ Matches(c, Client(n)!setDomainState(c, state))
           /\ Client(n)!setDomainState(c, state).state = state
  BY DEF Client!ClientHelper, Client!setDomainState, Matches

\* These are the fields this is not about.
LEMMA FieldsMatch ==
    ASSUME NEW n, NEW c \in Client(n)!ClientHelper, NEW x, NEW y
    PROVE  /\ Matches(c, [c EXCEPT !.hasCancelAction = x])
           /\ Matches(c, [c EXCEPT !.error = x])
           /\ Matches(c, [c EXCEPT !.hasCancelAction = x, !.error = y])
           /\ Matches(c, [c EXCEPT !.patchNewFiles = x])
           /\ Matches(c, [c EXCEPT !.version = x])
           /\ Matches(c, [c EXCEPT !.installed = x])
           /\ Matches(c, [c EXCEPT !.files = x])
           /\ [c EXCEPT !.hasCancelAction = x].state = c.state
           /\ [c EXCEPT !.error = x].state = c.state
           /\ [c EXCEPT !.hasCancelAction = x, !.error = y].state = c.state
           /\ [c EXCEPT !.patchNewFiles = x].state = c.state
           /\ [c EXCEPT !.version = x].state = c.state
           /\ [c EXCEPT !.installed = x].state = c.state
           /\ [c EXCEPT !.files = x].state = c.state
  BY DEF Client!ClientHelper, Matches

-----------------------------------------------------------------------------
(* Queues.                                                                 *)

\* An event that leads to no task adds nothing; and one more than nothing is one.
LEMMA Appended ==
    ASSUME NEW S, NEW queue \in Seq(S), NEW event
    PROVE  /\ ~Prepares(event) => Coming(Append(queue, event)) = Coming(queue)
           /\ Coming(queue) = {} => Single(Coming(Append(queue, event)))
           /\ (\E i \in DOMAIN Append(queue, event) : Orders(Append(queue, event)[i]))
              => (\E i \in DOMAIN queue : Orders(queue[i])) \/ Orders(event)
<1> DEFINE longer == Append(queue, event)
<1>1. /\ DOMAIN queue = 1..Len(queue) /\ Len(queue) \in Nat
      /\ DOMAIN longer = 1..(Len(queue) + 1)
      /\ \A i \in DOMAIN queue : longer[i] = queue[i]
      /\ longer[Len(queue) + 1] = event
  OBVIOUS
<1>2. \A i \in DOMAIN longer : i \in DOMAIN queue \/ i = Len(queue) + 1
  BY <1>1
<1> HIDE DEF longer
<1>3. Coming(longer) \subseteq Coming(queue) \cup {Len(queue) + 1}
  BY <1>1, <1>2 DEF Coming
<1>4. ~Prepares(event) => Coming(longer) = Coming(queue)
  BY <1>1, <1>2 DEF Coming
<1>5. Coming(queue) = {} => Single(Coming(longer))
  BY <1>3 DEF Single
<1>6. (\E i \in DOMAIN longer : Orders(longer[i]))
      => (\E i \in DOMAIN queue : Orders(queue[i])) \/ Orders(event)
  BY <1>1, <1>2
<1> QED
  BY <1>4, <1>5, <1>6 DEF longer

\* The one thing to prepare may be at the head.
LEMMA Taken ==
    ASSUME NEW S, NEW queue \in Seq(S), queue # <<>>
    PROVE  /\ Coming(queue) = {} => Coming(Tail(queue)) = {} /\ ~Prepares(Head(queue))
           /\ Single(Coming(queue)) => Single(Coming(Tail(queue)))
           /\ Single(Coming(queue)) /\ Prepares(Head(queue)) => Coming(Tail(queue)) = {}
           /\ (\E i \in DOMAIN Tail(queue) : Orders(Tail(queue)[i])) \/ Orders(Head(queue))
              => (\E i \in DOMAIN queue : Orders(queue[i]))
<1> DEFINE rest == Tail(queue)
<1>1. /\ \A i \in DOMAIN rest : i \in Nat \ {0} /\ i + 1 \in DOMAIN queue /\ rest[i] = queue[i + 1]
      /\ 1 \in DOMAIN queue /\ queue[1] = Head(queue)
  OBVIOUS
<1> HIDE DEF rest
<1>2. \A i \in Coming(rest) : i \in Nat \ {0} /\ i + 1 \in Coming(queue)
  BY <1>1 DEF Coming
<1>3. Prepares(Head(queue)) => 1 \in Coming(queue)
  BY <1>1 DEF Coming
<1>4. Coming(queue) = {} => Coming(rest) = {} /\ ~Prepares(Head(queue))
  BY <1>2, <1>3
<1>5. ASSUME Single(Coming(queue))
      PROVE  Single(Coming(rest))
  <2>1. ASSUME NEW i \in Coming(rest), NEW j \in Coming(rest)
        PROVE  i = j
    <3>1. i \in Nat /\ j \in Nat /\ i + 1 = j + 1
      BY <1>2, <1>5 DEF Single
    <3> QED
      BY <3>1
  <2> QED
    BY <2>1 DEF Single
<1>6. ASSUME Single(Coming(queue)), Prepares(Head(queue))
      PROVE  Coming(rest) = {}
  <2>1. ASSUME NEW i \in Coming(rest)
        PROVE  FALSE
    <3>1. i \in Nat \ {0} /\ i + 1 = 1
      BY <1>2, <1>3, <1>6 DEF Single
    <3> QED
      BY <3>1
  <2> QED
    BY <2>1
<1>7. (\E i \in DOMAIN rest : Orders(rest[i])) \/ Orders(Head(queue))
      => (\E i \in DOMAIN queue : Orders(queue[i]))
  BY <1>1
<1> QED
  BY <1>4, <1>5, <1>6, <1>7 DEF rest

-----------------------------------------------------------------------------
(* The calls of a controller.                                              *)

\* A result that leads to nothing new is posted.
LEMMA postKept ==
    ASSUME NEW n, NEW c \in Client(n)!ClientHelper, Orderly(c),
           NEW type \in {"RES_ERROR", "RES_DEPLOY_DONE", "RES_CANCEL_DONE"}
    PROVE  Kept(c, Client(n)!postResult(c, type))
<1> DEFINE event == [type |-> type]
           d == [c EXCEPT !.queue = Append(c.queue, event)]
<1>1. ~Prepares(event) /\ ~Orders(event)
  BY DEF Prepares, Orders
<1>2. d = Client(n)!postResult(c, type)
  BY DEF Client!postResult, Client!postEvent
<1>3. c.queue \in Seq(Client(n)!ClientEvent)
  BY DEF Client!ClientHelper
<1> HIDE DEF event
<1>4. /\ d.queue = Append(c.queue, event) /\ d.worker = c.worker /\ d.loose = c.loose
      /\ d.sent = c.sent /\ d.online = c.online /\ d.state = c.state
      /\ d.needDiscovery = c.needDiscovery
  BY DEF Client!ClientHelper
<1> HIDE DEF d
<1>5. /\ Coming(d.queue) = Coming(c.queue)
      /\ (\E i \in DOMAIN d.queue : Orders(d.queue[i]))
         => (\E i \in DOMAIN c.queue : Orders(c.queue[i]))
  BY <1>1, <1>3, <1>4, Appended
<1>6. (None(d) <=> None(c)) /\ (One(d) <=> One(c)) /\ (Deploys(d) => Deploys(c))
  BY <1>4, <1>5 DEF None, One, Deploys, Leftover
<1>7. (Waits(d) <=> Waits(c)) /\ (Introduces(d) <=> Introduces(c)) /\ (Speaks(d) <=> Speaks(c))
  BY <1>4 DEF Waits, Introduces, Speaks
<1> QED
  BY <1>2, <1>4, <1>6, <1>7 DEF Kept, Linked, Orderly

\* A heartbeat says the state it is sent in.
LEMMA sendKept ==
    ASSUME NEW n, NEW c \in Client(n)!ClientHelper, Orderly(c)
    PROVE  Kept(c, Client(n)!sendDomainMessage(c))
<1> DEFINE heartbeat == [state |-> c.state, last |-> c.last, error |-> c.error,
                         version |-> c.version, discovery |-> c.needDiscovery]
           sent == Append(c.sent, heartbeat)
           d == [c EXCEPT !.needDiscovery = FALSE, !.sent = sent]
           e == [c EXCEPT !.needDiscovery = TRUE, !.heard = FALSE]
<1>1. Client(n)!sendDomainMessage(c) = IF c.online THEN d ELSE e
  BY DEF Client!sendDomainMessage
<1>2. heartbeat.state = c.state /\ heartbeat.discovery = c.needDiscovery
  OBVIOUS
<1> HIDE DEF heartbeat
<1>3. c.sent \in Seq(Client(n)!Heartbeat)
  BY DEF Client!ClientHelper
<1>4. \A i \in DOMAIN sent : \/ i \in DOMAIN c.sent /\ sent[i] = c.sent[i]
                             \/ sent[i] = heartbeat
  BY <1>3
<1> HIDE DEF sent
<1>5. /\ d.queue = c.queue /\ d.worker = c.worker /\ d.loose = c.loose
      /\ d.sent = sent /\ d.online = c.online /\ d.state = c.state
      /\ d.needDiscovery = FALSE
  BY DEF Client!ClientHelper
<1>6. /\ e.queue = c.queue /\ e.worker = c.worker /\ e.loose = c.loose
      /\ e.sent = c.sent /\ e.online = c.online /\ e.state = c.state
      /\ e.needDiscovery = TRUE
  BY DEF Client!ClientHelper
<1> HIDE DEF d, e
<1>7. /\ (None(d) <=> None(c)) /\ (One(d) <=> One(c)) /\ (Deploys(d) <=> Deploys(c))
      /\ (None(e) <=> None(c)) /\ (One(e) <=> One(c)) /\ (Deploys(e) <=> Deploys(c))
  BY <1>5, <1>6 DEF None, One, Deploys, Leftover
<1>8. (Waits(d) => Waits(c)) /\ (Waits(e) => Waits(c)) /\ (Introduces(d) => Introduces(c))
  BY <1>2, <1>4, <1>5, <1>6 DEF Waits, Introduces
<1>9. Speaks(c) /\ c.online => Speaks(d)
  <2> SUFFICES ASSUME Speaks(c), c.online, NEW i \in DOMAIN d.sent, d.sent[i].discovery
               PROVE  i = 1
    BY <1>5 DEF Speaks
  <2>1. CASE c.sent = <<>>
    BY <1>5, <2>1 DEF sent
  <2>2. CASE c.sent # <<>>
    BY <1>2, <1>4, <1>5, <2>2 DEF Speaks
  <2> QED
    BY <2>1, <2>2
<1>10. Speaks(c) /\ ~c.online => Speaks(e)
  BY <1>6 DEF Speaks
<1> QED
  BY <1>1, <1>5, <1>6, <1>7, <1>8, <1>9, <1>10 DEF Kept, Linked, Orderly

\* What was sent is on its way.
LEMMA QuietKept ==
    ASSUME NEW n, NEW c \in Client(n)!ClientHelper, Orderly(c)
    PROVE  Kept(c, Client(n)!Quiet(c)) /\ Client(n)!Quiet(c).sent = <<>>
<1> DEFINE d == [c EXCEPT !.sent = <<>>]
<1>1. d = Client(n)!Quiet(c)
  BY DEF Client!Quiet
<1>2. /\ d.queue = c.queue /\ d.worker = c.worker /\ d.loose = c.loose
      /\ d.sent = <<>> /\ d.online = c.online /\ d.state = c.state
      /\ d.needDiscovery = c.needDiscovery
  BY DEF Client!ClientHelper
<1> HIDE DEF d
<1>3. (None(d) <=> None(c)) /\ (One(d) <=> One(c)) /\ (Deploys(d) <=> Deploys(c))
  BY <1>2 DEF None, One, Deploys, Leftover
<1>4. (Waits(d) => Waits(c)) /\ (Introduces(d) => Introduces(c)) /\ (Speaks(c) => Speaks(d))
  BY <1>2 DEF Waits, Introduces, Speaks
<1> QED
  BY <1>1, <1>2, <1>3, <1>4 DEF Kept, Linked, Orderly

\* What the end of its task makes of c: at most a result, of a task that prepares if it
\* leads to another.
Outcome(c, e) ==
    /\ e.worker = c.worker /\ e.loose = c.loose /\ e.sent = c.sent /\ e.online = c.online
    /\ e.needDiscovery = c.needDiscovery /\ e.state = c.state
    /\ \/ e.queue = c.queue
       \/ \E event : /\ e.queue = Append(c.queue, event)
                     /\ ~Orders(event) /\ (Prepares(event) => Preparing(c.worker))

\* It posts a result, or the state forbids it.
LEMMA resultOutcome ==
    ASSUME NEW n, NEW c, NEW d \in Client(n)!ClientHelper, Matches(c, d), d.state = c.state,
           NEW type \in {"RES_ERROR", "RES_DOWNLOAD", "RES_VERIFY", "RES_PATCH",
                         "RES_DEPLOY_DONE", "RES_CANCEL_DONE"},
           Preparing(c.worker) \/ type \notin {"RES_DOWNLOAD", "RES_VERIFY", "RES_PATCH"}
    PROVE  Outcome(c, Client(n)!postResult(d, type))
<1> DEFINE event == [type |-> type]
           e == [d EXCEPT !.queue = Append(d.queue, event)]
<1>1. e = Client(n)!postResult(d, type)
  BY DEF Client!postResult, Client!postEvent
<1>2. ~Orders(event) /\ (Prepares(event) => Preparing(c.worker))
  BY DEF Prepares, Orders
<1> HIDE DEF event
<1>3. /\ e.queue = Append(d.queue, event) /\ e.worker = d.worker /\ e.loose = d.loose
      /\ e.sent = d.sent /\ e.online = d.online /\ e.state = d.state
      /\ e.needDiscovery = d.needDiscovery
  BY DEF Client!ClientHelper
<1> QED
  BY <1>1, <1>2, <1>3 DEF Outcome, Matches

\* So do all the ways a task may end.
LEMMA OutcomeOf ==
    ASSUME NEW n, NEW c, Fit(n, c), c.worker.task # "none",
           NEW e \in Client(n)!Success(c) \cup Client(n)!Failure(c)
                     \cup Client(n)!Stopped(c) \cup Client(n)!Cancelled(c)
    PROVE  Outcome(c, e)
<1> DEFINE got == [c EXCEPT !.files = c.files \cup {<<c.worker.upgrade, c.worker.package>>}]
           patched == [c EXCEPT !.patchNewFiles = TRUE]
           installed == [c EXCEPT !.installed = Target[c.worker.package]]
<1>1. c \in Client(n)!ClientHelper
  BY DEF Fit
<1>2. /\ Matches(c, c) /\ Matches(c, got) /\ Matches(c, patched) /\ Matches(c, installed)
      /\ got.state = c.state /\ patched.state = c.state /\ installed.state = c.state
  BY <1>1, FieldsMatch DEF Matches
<1>3. /\ c.package # NoId /\ c.worker.package \in Ids /\ c.worker.upgrade \in Ids \cup {NoId}
  BY AtWorkProvided
<1>4. /\ got \in Client(n)!ClientHelper /\ patched \in Client(n)!ClientHelper
      /\ installed \in Client(n)!ClientHelper
  <2>1. c.files \cup {<<c.worker.upgrade, c.worker.package>>} \in SUBSET ((Ids \cup {NoId}) \X Ids)
    BY <1>1, <1>3 DEF Client!ClientHelper
  <2>2. got \in Client(n)!ClientHelper
    BY <1>1, <2>1 DEF Client!ClientHelper
  <2>3. patched \in Client(n)!ClientHelper
    BY <1>1 DEF Client!ClientHelper
  <2>4. Target[c.worker.package] \in Client(n)!Versions
    BY <1>3, RolloutAssumption DEF Client!Versions
  <2>5. installed \in Client(n)!ClientHelper
    BY <1>1, <2>4 DEF Client!ClientHelper
  <2> QED
    BY <2>2, <2>3, <2>5
<1>5. \/ e = c
      \/ e = Client(n)!postResult(got, "RES_DOWNLOAD") /\ Preparing(c.worker)
      \/ e = Client(n)!postResult(c, "RES_VERIFY") /\ Preparing(c.worker)
      \/ e = Client(n)!postResult(patched, "RES_PATCH") /\ Preparing(c.worker)
      \/ e = Client(n)!postDeployDone(installed, TRUE)
      \/ e = Client(n)!postDeployDone(c, FALSE)
      \/ e = Client(n)!postResult(c, "RES_ERROR")
      \/ e = Client(n)!postResult(c, "RES_CANCEL_DONE")
      \/ \E success \in BOOLEAN : e = Client(n)!postCancelDone(c, success)
  BY DEF Client!Success, Client!Failure, Client!Stopped, Client!Cancelled, Preparing
<1> HIDE DEF got, patched, installed
<1>6. e = installed \/ e = c => Outcome(c, e)
  BY <1>2 DEF Outcome, Matches
<1>7. \/ e \in {c, installed}
      \/ e = Client(n)!postResult(got, "RES_DOWNLOAD") /\ Preparing(c.worker)
      \/ e = Client(n)!postResult(c, "RES_VERIFY") /\ Preparing(c.worker)
      \/ e = Client(n)!postResult(patched, "RES_PATCH") /\ Preparing(c.worker)
      \/ e = Client(n)!postResult(installed, "RES_DEPLOY_DONE")
      \/ e = Client(n)!postResult(c, "RES_ERROR")
      \/ e = Client(n)!postResult(c, "RES_CANCEL_DONE")
  BY <1>5 DEF Client!postDeployDone, Client!postCancelDone
<1> QED
  BY <1>1, <1>2, <1>4, <1>6, <1>7, resultOutcome

\* The task of the thread ends.
LEMMA RestKept ==
    ASSUME NEW n, NEW c, Fit(n, c), Orderly(c), NEW e \in Client(n)!ClientHelper, Outcome(c, e)
    PROVE  /\ Kept(c, Client(n)!Rest(e))
           /\ Client(n)!Rest(e).state = c.state /\ Client(n)!Rest(e).sent = c.sent
<1> DEFINE d == [e EXCEPT !.worker = Client(n)!NoWorker]
<1>1. d = Client(n)!Rest(e)
  BY DEF Client!Rest
<1>2. /\ d.queue = e.queue /\ d.worker = Client(n)!NoWorker /\ d.loose = c.loose
      /\ d.sent = c.sent /\ d.online = c.online /\ d.state = c.state
      /\ d.needDiscovery = c.needDiscovery
  BY DEF Client!ClientHelper, Outcome
<1> HIDE DEF d
<1>3. c.queue \in Seq(Client(n)!ClientEvent)
  BY DEF Fit, Client!ClientHelper
<1>4. ~Preparing(d.worker) /\ d.worker.task # "deploy" /\ Leftover(d) = Leftover(c)
  BY <1>2 DEF Client!NoWorker, Preparing, Leftover
<1>5. CASE e.queue = c.queue
  <2>1. (None(c) => None(d)) /\ (One(c) => One(d)) /\ (Deploys(d) => Deploys(c))
    BY <1>2, <1>4, <1>5 DEF None, One, Deploys, Single
  <2>2. (Waits(d) <=> Waits(c)) /\ (Introduces(d) <=> Introduces(c)) /\ (Speaks(d) <=> Speaks(c))
    BY <1>2 DEF Waits, Introduces, Speaks
  <2> QED
    BY <1>1, <1>2, <2>1, <2>2 DEF Kept, Linked, Orderly
<1>6. ASSUME NEW event, e.queue = Append(c.queue, event),
             ~Orders(event), Prepares(event) => Preparing(c.worker)
      PROVE  Kept(c, d)
  <2>1. /\ ~Prepares(event) => Coming(d.queue) = Coming(c.queue)
        /\ Coming(c.queue) = {} => Single(Coming(d.queue))
        /\ (\E i \in DOMAIN d.queue : Orders(d.queue[i]))
           => (\E i \in DOMAIN c.queue : Orders(c.queue[i]))
    BY <1>2, <1>3, <1>6, Appended
  <2>2. (None(c) => None(d)) /\ (Deploys(d) => Deploys(c))
    BY <1>2, <1>4, <1>6, <2>1 DEF None, Deploys
  <2>3. One(c) => One(d)
    BY <1>4, <1>6, <2>1 DEF One
  <2>4. (Waits(d) <=> Waits(c)) /\ (Introduces(d) <=> Introduces(c)) /\ (Speaks(d) <=> Speaks(c))
    BY <1>2 DEF Waits, Introduces, Speaks
  <2> QED
    BY <1>2, <2>2, <2>3, <2>4 DEF Kept, Linked, Orderly
<1> QED
  BY <1>1, <1>2, <1>5, <1>6 DEF Outcome

\* A task that lasts is let go.
LEMMA LetGoKept ==
    ASSUME NEW n, NEW c, Fit(n, c), Orderly(c), NEW e \in Client(n)!LetGo(c)
    PROVE  /\ Kept(c, Client(n)!Rest(e))
           /\ Client(n)!Rest(e).state = c.state /\ Client(n)!Rest(e).sent = c.sent
<1> DEFINE loose == c.loose \cup {c.worker}
           d == [e EXCEPT !.worker = Client(n)!NoWorker]
<1>1. d = Client(n)!Rest(e) /\ e = [c EXCEPT !.loose = loose]
  BY DEF Client!Rest, Client!LetGo
<1> HIDE DEF loose
<1>2. c \in Client(n)!ClientHelper
  BY DEF Fit
<1>3. /\ d.queue = c.queue /\ d.worker = Client(n)!NoWorker /\ d.loose = loose
      /\ d.sent = c.sent /\ d.online = c.online /\ d.state = c.state
      /\ d.needDiscovery = c.needDiscovery
  BY <1>1, <1>2 DEF Client!ClientHelper
<1> HIDE DEF d
<1>4. /\ ~Preparing(d.worker) /\ d.worker.task # "deploy"
      /\ Leftover(d) = Leftover(c) \cup (IF Preparing(c.worker) THEN {c.worker} ELSE {})
  BY <1>3 DEF Client!NoWorker, Preparing, Leftover, loose
<1>5. (None(c) => None(d)) /\ (Deploys(d) => Deploys(c))
  BY <1>3, <1>4 DEF None, Deploys, loose
<1>6. One(c) => One(d)
  BY <1>3, <1>4 DEF One, Single
<1>7. (Waits(d) <=> Waits(c)) /\ (Introduces(d) <=> Introduces(c)) /\ (Speaks(d) <=> Speaks(c))
  BY <1>3 DEF Waits, Introduces, Speaks
<1> QED
  BY <1>1, <1>3, <1>5, <1>6, <1>7 DEF Kept, Linked, Orderly

\* The thread is free again.
LEMMA stopThreadKept ==
    ASSUME NEW n, NEW c, Fit(n, c), Orderly(c), NEW d \in Client(n)!stopThread(c)
    PROVE  Kept(c, d) /\ d.state = c.state /\ d.sent = c.sent
<1>1. CASE c.worker.task = "none"
  BY <1>1, KeptSelf DEF Client!stopThread
<1>2. CASE c.worker.task # "none"
  <2>1. PICK e : /\ d = Client(n)!Rest(e)
                 /\ e \in Client(n)!LetGo(c) \cup Client(n)!Stopped(c) \cup Client(n)!Cancelled(c)
                          \cup Client(n)!Success(c) \cup Client(n)!Failure(c)
    BY <1>2 DEF Client!stopThread
  <2>2. CASE e \in Client(n)!LetGo(c)
    BY <2>1, <2>2, LetGoKept
  <2>3. CASE e \notin Client(n)!LetGo(c)
    <3>1. Outcome(c, e) /\ Onto(n, c, e)
      BY <1>2, <2>1, <2>3, OutcomeOf, StoppedOnto, CancelledOnto, SuccessOnto, FailureOnto
    <3>2. e \in Client(n)!ClientHelper
      BY <3>1 DEF Onto, Fit
    <3> QED
      BY <2>1, <3>1, <3>2, RestKept
  <2> QED
    BY <2>2, <2>3
<1> QED
  BY <1>1, <1>2

\* A task is started in place of that of the thread.
LEMMA startEffect ==
    ASSUME NEW n, NEW c \in Client(n)!ClientHelper, NEW task
    PROVE  LET d == Client(n)!start(c, task)
           IN /\ d.queue = c.queue /\ d.worker.task = task /\ d.loose = c.loose
              /\ d.sent = c.sent /\ d.online = c.online /\ d.state = c.state
              /\ d.needDiscovery = c.needDiscovery
  BY DEF Client!ClientHelper, Client!start

\* The first preparation of who has none to do, and none to deploy.
LEMMA PrepareKept ==
    ASSUME NEW n, NEW c \in Client(n)!ClientHelper, None(c), ~Deploys(c), ~Waits(c),
           NEW task \in {"download", "verify", "patch"}
    PROVE  LET d == Client(n)!start(c, task)
           IN Orderly(d) /\ ~Deploys(d) /\ Linked(c, d)
<1> DEFINE d == Client(n)!start(c, task)
<1>1. /\ d.queue = c.queue /\ d.worker.task = task /\ d.loose = c.loose
      /\ d.sent = c.sent /\ d.online = c.online /\ d.state = c.state
      /\ d.needDiscovery = c.needDiscovery
  BY startEffect
<1> HIDE DEF d
<1>2. One(d) /\ ~Deploys(d) /\ ~Waits(d)
  BY <1>1 DEF None, One, Deploys, Waits, Leftover
<1>3. (Introduces(d) <=> Introduces(c)) /\ (Speaks(d) <=> Speaks(c))
  BY <1>1 DEF Introduces, Speaks
<1> QED
  BY <1>1, <1>2, <1>3 DEF Orderly, Linked, d

\* A deployment of who has nothing to prepare.
LEMMA DeployNone ==
    ASSUME NEW n, NEW c \in Client(n)!ClientHelper, None(c)
    PROVE  LET d == Client(n)!start(c, "deploy")
           IN None(d) /\ Linked(c, d)
<1> DEFINE d == Client(n)!start(c, "deploy")
<1>1. /\ d.queue = c.queue /\ d.worker.task = "deploy" /\ d.loose = c.loose
      /\ d.sent = c.sent /\ d.online = c.online /\ d.needDiscovery = c.needDiscovery
  BY startEffect
<1> HIDE DEF d
<1>2. None(d) /\ (Introduces(d) <=> Introduces(c)) /\ (Speaks(d) <=> Speaks(c))
  BY <1>1 DEF None, Introduces, Leftover, Preparing, Speaks
<1> QED
  BY <1>1, <1>2 DEF Linked, d

-----------------------------------------------------------------------------
(* The controls and the results.                                           *)

\* Who has nothing to prepare is orderly.
LEMMA NoneOrderly ==
    ASSUME NEW c, None(c)
    PROVE  Orderly(c)
  BY DEF None, One, Orderly

\* A control that is taken, and a new state.
LEMMA ToldMatches ==
    ASSUME NEW n, NEW c, Fit(n, c), NEW flag \in BOOLEAN, NEW state \in Client(n)!ClientState
    PROVE  LET told == [c EXCEPT !.hasCancelAction = flag]
               enters == Client(n)!setDomainState([told EXCEPT !.error = FALSE], state)
           IN Enters(c, enters, state)
<1> DEFINE told == [c EXCEPT !.hasCancelAction = flag]
           clear == [told EXCEPT !.error = FALSE]
           enters == Client(n)!setDomainState(clear, state)
<1>1. Fit(n, told)
  BY ToldOnto DEF Onto
<1>2. Matches(c, told)
  BY FieldsMatch DEF Fit
<1> HIDE DEF told
<1>3. Matches(told, clear) /\ clear \in Client(n)!ClientHelper
  BY <1>1, FieldsMatch, FlagsOnto DEF Fit, Onto
<1> HIDE DEF clear
<1>4. Matches(clear, enters) /\ enters.state = state
  BY <1>3, setDomainStateMatches
<1> HIDE DEF enters
<1>5. Matches(c, enters)
  BY <1>2, <1>3, <1>4, MatchesMatches
<1> QED
  BY <1>4, <1>5 DEF Enters, told, clear, enters

\* One that is not WR_WAIT.
LEMMA ToldKept ==
    ASSUME NEW n, NEW c, Fit(n, c), Orderly(c), NEW flag \in BOOLEAN,
           NEW state \in Client(n)!ClientState, state # "WR_WAIT"
    PROVE  LET told == [c EXCEPT !.hasCancelAction = flag]
               enters == Client(n)!setDomainState([told EXCEPT !.error = FALSE], state)
           IN Fit(n, told) /\ Fit(n, enters) /\ Kept(c, told) /\ Kept(c, enters)
<1> DEFINE told == [c EXCEPT !.hasCancelAction = flag]
           enters == Client(n)!setDomainState([told EXCEPT !.error = FALSE], state)
<1>1. Fit(n, told) /\ Fit(n, enters)
  BY ToldOnto DEF Onto
<1>2. Matches(c, told) /\ told.state = c.state
  BY FieldsMatch DEF Fit
<1>3. Enters(c, enters, state)
  BY ToldMatches
<1> HIDE DEF told, enters
<1>4. Kept(c, told) /\ Kept(c, enters)
  BY <1>2, <1>3, MatchesKept DEF Enters
<1> QED
  BY <1>1, <1>4 DEF told, enters

\* A new state that is not WR_WAIT.
LEMMA EntersKept ==
    ASSUME NEW n, NEW c, Fit(n, c), Orderly(c),
           NEW state \in Client(n)!ClientState, state # "WR_WAIT"
    PROVE  LET d == Client(n)!setDomainState(c, state)
           IN Fit(n, d) /\ Kept(c, d) /\ Matches(c, d) /\ d.state = state
<1> DEFINE d == Client(n)!setDomainState(c, state)
<1>1. Fit(n, d)
  BY setDomainStateOnto DEF Onto
<1>2. Matches(c, d) /\ d.state = state
  BY setDomainStateMatches DEF Fit
<1> HIDE DEF d
<1>3. Kept(c, d)
  BY <1>2, MatchesKept
<1> QED
  BY <1>1, <1>2, <1>3 DEF d

\* case CTL_RESET.
LEMMA OnResetKept ==
    ASSUME NEW n, NEW c, Fit(n, c), Orderly(c), NEW d \in Client(n)!OnReset(c)
    PROVE  Kept(c, d)
<1> DEFINE reset == [c EXCEPT !.hasCancelAction = FALSE, !.error = FALSE]
<1>1. \/ d = reset /\ c.state # "WR_OFFLINE"
      \/ d = Client(n)!setDomainState(reset, "WR_IDLE") /\ c.state = "WR_OFFLINE"
  BY DEF Client!OnReset
<1>2. reset \in Client(n)!ClientHelper
  BY DEF Fit, Client!ClientHelper
<1>3. Matches(c, reset) /\ reset.state = c.state
  BY FieldsMatch DEF Fit
<1> HIDE DEF reset
<1>4. /\ Matches(reset, Client(n)!setDomainState(reset, "WR_IDLE"))
      /\ Client(n)!setDomainState(reset, "WR_IDLE").state = "WR_IDLE"
  BY <1>2, setDomainStateMatches
<1> QED
  BY <1>1, <1>3, <1>4, MatchesMatches, MatchesKept

\* case CTL_CANCEL.
LEMMA OnCancelKept ==
    ASSUME NEW n, NEW c, Fit(n, c), Orderly(c), NEW d \in Client(n)!OnCancel(c)
    PROVE  Kept(c, d)
<1> DEFINE told == [c EXCEPT !.hasCancelAction = TRUE]
           cancels == Client(n)!setDomainState([told EXCEPT !.error = FALSE], "WR_CANCEL")
<1>1. Kept(c, told) /\ Kept(c, cancels) /\ Fit(n, cancels)
  BY ToldKept DEF Client!ClientState
<1>2. \/ d = told \/ d = cancels
      \/ d = Client(n)!postResult(cancels, "RES_ERROR")
      \/ d = Client(n)!postResult(cancels, "RES_CANCEL_DONE")
  BY DEF Client!OnCancel
<1> HIDE DEF told, cancels
<1>3. /\ Kept(cancels, Client(n)!postResult(cancels, "RES_ERROR"))
      /\ Kept(cancels, Client(n)!postResult(cancels, "RES_CANCEL_DONE"))
  BY <1>1, postKept DEF Fit, Kept
<1> QED
  BY <1>1, <1>2, <1>3, KeptKept

\* case CTL_CLEAR.
LEMMA OnClearKept ==
    ASSUME NEW n, NEW c, Fit(n, c), Orderly(c), NEW d \in Client(n)!OnClear(c)
    PROVE  Kept(c, d)
<1> DEFINE told == [c EXCEPT !.hasCancelAction = FALSE]
<1>1. Kept(c, told) /\ Fit(n, told)
  BY ToldKept DEF Client!ClientState
<1>2. PICK e \in Client(n)!stopThread(told) : d = Client(n)!setDomainState(e, "WR_IDLE")
  BY DEF Client!OnClear
<1> HIDE DEF told
<1>3. Kept(told, e) /\ Fit(n, e)
  BY <1>1, stopThreadKept, stopThreadOnto DEF Kept, Onto
<1>4. Kept(e, d)
  BY <1>2, <1>3, EntersKept DEF Kept, Client!ClientState
<1> QED
  BY <1>1, <1>3, <1>4, KeptKept

\* Of the preparation that begins.
Begun(c, d) == Orderly(d) /\ ~Deploys(d) /\ Linked(c, d)

\* or before one.
LEMMA BegunKept ==
    ASSUME NEW c, NEW d, NEW e, Begun(c, d), Kept(d, e)
    PROVE  Begun(c, e)
  BY DEF Begun, Kept, Linked

\* A task may be begun after a call that keeps,
LEMMA KeptBegun ==
    ASSUME NEW c, NEW d, NEW e, Kept(c, d), Begun(d, e)
    PROVE  Begun(c, e)
  BY DEF Begun, Kept, Linked

\* The worker takes up the one thing to prepare.
LEMMA BeginsTask ==
    ASSUME NEW n, NEW c, Fit(n, c), None(c), ~Deploys(c), ~Waits(c), c.package # NoId,
           NEW d \in Client(n)!stopThread(c), NEW task \in {"download", "verify", "patch"}
    PROVE  LET e == Client(n)!start(d, task)
           IN Begun(c, e) /\ Fit(n, e) /\ e.state = c.state
<1>1. Fit(n, d) /\ d.package # NoId
  BY stopThreadOnto DEF Onto
<1>2. Kept(c, d) /\ d.state = c.state
  BY NoneOrderly, stopThreadKept
<1>3. None(d) /\ ~Deploys(d) /\ ~Waits(d)
  BY <1>2 DEF Kept
<1> DEFINE e == Client(n)!start(d, task)
<1>4. Fit(n, e)
  BY <1>1, startOnto DEF Onto
<1>5. Begun(d, e) /\ e.state = d.state
  BY <1>1, <1>3, PrepareKept, startEffect DEF Begun, Fit
<1> HIDE DEF e
<1> QED
  BY <1>2, <1>4, <1>5, KeptBegun DEF e

\* case CTL_DOWNLOAD, of who has nothing to prepare.
LEMMA OnDownloadBegun ==
    ASSUME NEW n, NEW c, Fit(n, c), None(c), ~Deploys(c), c.sent = <<>>,
           NEW d \in Client(n)!OnDownload(c)
    PROVE  Begun(c, d)
<1> DEFINE told == [c EXCEPT !.hasCancelAction = FALSE]
           downloads == Client(n)!setDomainState([told EXCEPT !.error = FALSE], "WR_DOWNLOAD")
<1>1. Kept(c, told) /\ Kept(c, downloads) /\ Fit(n, downloads)
  <2>1. Orderly(c) /\ FALSE \in BOOLEAN /\ "WR_DOWNLOAD" \in Client(n)!ClientState
    BY NoneOrderly DEF Client!ClientState
  <2> QED
    BY <2>1, ToldKept
<1>2. Onto(n, c, downloads)
  BY ToldOnto DEF Client!ClientState
<1>3. Enters(c, downloads, "WR_DOWNLOAD")
  BY ToldMatches DEF Client!ClientState
<1>4. \/ d = told
      \/ /\ c.package # NoId
         /\ \E e \in Client(n)!stopThread(downloads) : d = Client(n)!start(e, "download")
  BY DEF Client!OnDownload
<1> HIDE DEF told, downloads
<1>5. Begun(c, told)
  BY <1>1 DEF Begun, Kept
<1>6. ASSUME NEW e \in Client(n)!stopThread(downloads), c.package # NoId
      PROVE  Begun(c, Client(n)!start(e, "download"))
  <2>1. None(downloads) /\ ~Deploys(downloads)
    BY <1>1 DEF Kept
  <2>2. ~Waits(downloads) /\ downloads.package # NoId
    BY <1>2, <1>6, <1>3 DEF Waits, Enters, Matches, Onto
  <2>3. Begun(downloads, Client(n)!start(e, "download"))
    BY <1>1, <2>1, <2>2, BeginsTask
  <2> QED
    BY <1>1, <2>3, KeptBegun
<1> QED
  BY <1>4, <1>5, <1>6

\* cases RES_DOWNLOAD and RES_PATCH, of who has nothing else to prepare.
LEMMA OnVerifiableBegun ==
    ASSUME NEW n, NEW c, Fit(n, c), None(c), ~Deploys(c), c.sent = <<>>, c.package # NoId,
           NEW d \in Client(n)!OnVerifiable(c)
    PROVE  Begun(c, d)
<1> DEFINE e == Client(n)!setDomainState(c, "WR_VERIFY")
<1>1. Onto(n, c, e)
  BY setDomainStateOnto DEF Client!ClientState
<1>2. Kept(c, e) /\ Matches(c, e) /\ e.state = "WR_VERIFY"
  BY NoneOrderly, EntersKept DEF Client!ClientState
<1>3. PICK f \in Client(n)!stopThread(e) :
        d = Client(n)!sendDomainMessage(Client(n)!start(f, "verify"))
  BY DEF Client!OnVerifiable
<1> HIDE DEF e
<1>4. /\ Fit(n, e) /\ e.package # NoId /\ None(e) /\ ~Deploys(e) /\ ~Waits(e)
  BY <1>1, <1>2 DEF Onto, Kept, Waits, Matches
<1> DEFINE g == Client(n)!start(f, "verify")
<1>5. Begun(e, g) /\ Fit(n, g)
  BY <1>4, BeginsTask
<1> HIDE DEF g
<1>6. Kept(g, Client(n)!sendDomainMessage(g))
  BY <1>5, sendKept DEF Begun, Fit
<1> QED
  BY <1>2, <1>3, <1>5, <1>6, BegunKept, KeptBegun DEF g

\* case RES_VERIFY, of who has nothing else to prepare: it waits, or begins to patch.
LEMMA OnVerifyBegun ==
    ASSUME NEW n, NEW c, Fit(n, c), None(c), ~Deploys(c), c.sent = <<>>, c.package # NoId,
           NEW d \in Client(n)!OnVerify(c)
    PROVE  Begun(c, d)
<1> DEFINE unpatched == [c EXCEPT !.patchNewFiles = FALSE]
           waits == Client(n)!setDomainState(unpatched, "WR_WAIT")
           e == Client(n)!setDomainState(c, "WR_PATCH")
<1>1. Onto(n, c, e) /\ Onto(n, c, unpatched)
  BY FlagsOnto, setDomainStateOnto DEF Client!ClientState
<1>2. Kept(c, e) /\ Matches(c, e) /\ e.state = "WR_PATCH"
  <2>1. Orderly(c) /\ "WR_PATCH" \in Client(n)!ClientState
    BY NoneOrderly DEF Client!ClientState
  <2> QED
    BY <2>1, EntersKept
<1>3. Matches(c, unpatched)
  BY FieldsMatch DEF Fit
<1>4. \/ d = Client(n)!sendDomainMessage(waits)
      \/ \E f \in Client(n)!stopThread(e) :
           d = Client(n)!sendDomainMessage([Client(n)!start(f, "patch")
                                             EXCEPT !.patchNewFiles = FALSE])
  BY DEF Client!OnVerify
<1> HIDE DEF unpatched, e
<1>5. Matches(unpatched, waits) /\ waits \in Client(n)!ClientHelper
  <2>1. Fit(n, unpatched) /\ "WR_WAIT" \in Client(n)!ClientState
    BY <1>1 DEF Onto, Client!ClientState
  <2> QED
    BY <2>1, setDomainStateMatches, setDomainStateOnto DEF Onto, Fit
<1> HIDE DEF waits
<1>6. Begun(c, waits)
  <2>1. Matches(c, waits)
    BY <1>3, <1>5, MatchesMatches
  <2>2. None(waits) /\ ~Deploys(waits) /\ Linked(c, waits)
    BY <2>1 DEF None, Deploys, Linked, Matches, Leftover, Introduces, Speaks
  <2> QED
    BY <2>2, NoneOrderly DEF Begun
<1>7. CASE d = Client(n)!sendDomainMessage(waits)
  <2>1. Kept(waits, d)
    BY <1>5, <1>6, <1>7, sendKept DEF Begun
  <2> QED
    BY <1>6, <2>1, BegunKept
<1>8. ASSUME NEW f \in Client(n)!stopThread(e),
             d = Client(n)!sendDomainMessage([Client(n)!start(f, "patch")
                                               EXCEPT !.patchNewFiles = FALSE])
      PROVE  Begun(c, d)
  <2>1. /\ Fit(n, e) /\ e.package # NoId /\ None(e) /\ ~Deploys(e) /\ ~Waits(e)
    BY <1>1, <1>2 DEF Onto, Kept, Waits, Matches
  <2> DEFINE g == Client(n)!start(f, "patch")
             h == [g EXCEPT !.patchNewFiles = FALSE]
  <2>2. Begun(e, g) /\ Fit(n, g) /\ g.state = e.state
    BY <2>1, BeginsTask
  <2>3. d = Client(n)!sendDomainMessage(h)
    BY <1>8
  <2> HIDE DEF g
  <2>4. Matches(g, h) /\ h.state = g.state /\ h \in Client(n)!ClientHelper
    BY <2>2, FieldsMatch, FlagsOnto DEF Fit, Onto
  <2> HIDE DEF h
  <2>5. Kept(g, h)
    BY <2>2, <2>4, MatchesKept DEF Begun
  <2>6. Kept(h, d)
    BY <2>3, <2>4, <2>5, sendKept DEF Kept
  <2> QED
    BY <1>2, <2>2, <2>5, <2>6, BegunKept, KeptBegun
<1> QED
  BY <1>4, <1>7, <1>8

\* Of who has nothing to prepare and is told to deploy.
Calm(c, d) == None(d) /\ Linked(c, d)

\* Calls that keep whoever has nothing to prepare leave it so.
LEMMA KeptCalm ==
    ASSUME NEW c, NEW d, NEW e, None(c), Kept(c, d), Calm(d, e)
    PROVE  Calm(c, e)
  BY DEF Kept, Calm, Linked

\* The same after,
LEMMA CalmKept ==
    ASSUME NEW c, NEW d, NEW e, Calm(c, d), Kept(d, e)
    PROVE  Calm(c, e)
  BY DEF Kept, Calm, Linked

\* and of those that change nothing this is about.
LEMMA MatchesCalm ==
    ASSUME NEW c, NEW d, None(c), Matches(c, d)
    PROVE  Calm(c, d)
  BY DEF None, Calm, Linked, Matches, Leftover, Introduces, Speaks

\* case CTL_DEPLOY.
LEMMA OnDeployCalm ==
    ASSUME NEW n, NEW c, Fit(n, c), None(c), NEW depends, NEW d \in Client(n)!OnDeploy(c, depends)
    PROVE  Calm(c, d)
<1> DEFINE told == [c EXCEPT !.hasCancelAction = FALSE]
           waits == IF c.state = "WR_IDLE" THEN Client(n)!setDomainState(told, "WR_WAIT")
                    ELSE told
           clear == [waits EXCEPT !.error = FALSE]
           deploys == Client(n)!setDomainState(clear, "WR_DEPLOY")
<1>1. \/ d = told
      \/ d = waits
      \/ /\ c.package # NoId
         /\ \E e \in Client(n)!stopThread(deploys) :
              d = IF Client(n)!VersionEqual(e)
                  THEN Client(n)!postResult(e, "RES_DEPLOY_DONE")
                  ELSE IF ~Client(n)!VersionVaild(e)
                  THEN Client(n)!postResult(e, "RES_ERROR") ELSE Client(n)!start(e, "deploy")
  BY DEF Client!OnDeploy
<1>2. Onto(n, c, told) /\ Matches(c, told)
  BY FlagsOnto, FieldsMatch DEF Fit
<1> HIDE DEF told
<1>3. Fit(n, waits) /\ Matches(c, waits)
  <2>1. Fit(n, told) /\ "WR_WAIT" \in Client(n)!ClientState
    BY <1>2 DEF Onto, Client!ClientState
  <2>2. /\ Fit(n, Client(n)!setDomainState(told, "WR_WAIT"))
        /\ Matches(told, Client(n)!setDomainState(told, "WR_WAIT"))
    BY <2>1, setDomainStateOnto, setDomainStateMatches DEF Onto, Fit
  <2> QED
    BY <1>2, <2>1, <2>2, MatchesMatches
<1> HIDE DEF waits
<1>4. Fit(n, clear) /\ Matches(c, clear)
  BY <1>3, FlagsOnto, FieldsMatch, MatchesMatches DEF Onto, Fit
<1> HIDE DEF clear
<1>5. Fit(n, deploys) /\ Matches(c, deploys)
  <2>1. "WR_DEPLOY" \in Client(n)!ClientState
    BY DEF Client!ClientState
  <2> QED
    BY <1>4, <2>1, setDomainStateOnto, setDomainStateMatches, MatchesMatches DEF Onto, Fit
<1> HIDE DEF deploys
<1>6. Calm(c, told) /\ Calm(c, waits) /\ Calm(c, deploys)
  BY <1>2, <1>3, <1>5, MatchesCalm
<1>7. ASSUME NEW e \in Client(n)!stopThread(deploys)
      PROVE  /\ Calm(c, Client(n)!postResult(e, "RES_DEPLOY_DONE"))
             /\ Calm(c, Client(n)!postResult(e, "RES_ERROR"))
             /\ Calm(c, Client(n)!start(e, "deploy"))
  <2>1. Kept(deploys, e) /\ e \in Client(n)!ClientHelper
    BY <1>5, <1>6, NoneOrderly, stopThreadKept, stopThreadOnto DEF Calm, Onto, Fit
  <2>2. Calm(c, e) /\ Orderly(e)
    BY <1>6, <2>1, CalmKept DEF Kept
  <2>3. /\ Kept(e, Client(n)!postResult(e, "RES_DEPLOY_DONE"))
        /\ Kept(e, Client(n)!postResult(e, "RES_ERROR"))
    BY <2>1, <2>2, postKept
  <2>4. None(e)
    BY <2>2 DEF Calm
  <2>5. Calm(e, Client(n)!start(e, "deploy"))
    BY <2>1, <2>4, DeployNone DEF Calm
  <2>6. Calm(c, Client(n)!start(e, "deploy"))
    BY <2>2, <2>5 DEF Calm, Linked
  <2> QED
    BY <2>2, <2>3, <2>6, CalmKept
<1> QED
  BY <1>1, <1>6, <1>7

\* A control, with the upgrade it is about.
LEMMA TakenMatches ==
    ASSUME NEW n, NEW c \in Client(n)!ClientHelper, NEW x, NEW y
    PROVE  Enters(c, [c EXCEPT !.upgrade = x, !.package = y], c.state)
  BY DEF Client!ClientHelper, Enters, Matches

\* What a control makes of c.
LEMMA OnControlOrderly ==
    ASSUME NEW n, NEW c, Fit(n, c), Orderly(c), c.sent = <<>>, NEW event \in Order(n),
           event.control = "CTL_DOWNLOAD" => None(c) /\ ~Deploys(c),
           event.control = "CTL_DEPLOY" => None(c),
           NEW d \in Client(n)!OnControl(c, event)
    PROVE  /\ event.control = "CTL_DOWNLOAD" => Begun(c, d)
           /\ event.control = "CTL_DEPLOY" => Calm(c, d)
           /\ event.control \notin {"CTL_DOWNLOAD", "CTL_DEPLOY"} => Kept(c, d)
<1> DEFINE taken == [c EXCEPT !.upgrade = event.upgrade,
                              !.package = IF event.holds THEN event.upgrade ELSE c.package]
<1>1. /\ Fit(n, taken)
      /\ taken.sent = c.sent /\ taken.version = c.version /\ taken.worker = c.worker
      /\ taken.installed = c.installed
      /\ (c.package # NoId => taken.package # NoId)
  BY TakenFit, Zenon
<1>2. PICK e \in Client(n)!Obeyed(taken, event) : d = Client(n)!sendDomainMessage(e)
  BY DEF Client!OnControl
<1>3. Enters(c, taken, c.state)
  <2>1. c \in Client(n)!ClientHelper
    BY DEF Fit
  <2> QED
    BY <2>1, TakenMatches
<1> HIDE DEF taken
<1>4. Kept(c, taken)
  BY <1>3, MatchesKept DEF Enters
<1>5. /\ Orderly(taken) /\ (None(c) => None(taken)) /\ (~Deploys(c) => ~Deploys(taken))
  BY <1>4 DEF Kept
<1>6. e \in Client(n)!ClientHelper
  <2>1. \/ e \in Client(n)!OnReset(taken) \/ e \in Client(n)!OnDownload(taken)
        \/ e \in Client(n)!OnDeploy(taken, event.depends) \/ e \in Client(n)!OnCancel(taken)
        \/ e \in Client(n)!OnClear(taken) \/ e = taken
    BY <1>2 DEF Client!Obeyed
  <2>2. Fit(n, e)
    BY <1>1, <2>1, OnResetOnto, OnDownloadOnto, OnDeployOnto, OnCancelOnto, OnClearOnto DEF Onto
  <2> QED
    BY <2>2 DEF Fit
<1>7. CASE event.control = "CTL_DOWNLOAD"
  <2>1. e \in Client(n)!OnDownload(taken)
    BY <1>2, <1>7 DEF Client!Obeyed
  <2>2. Begun(taken, e)
    BY <1>1, <1>5, <1>7, <2>1, OnDownloadBegun
  <2>3. Kept(e, d)
    BY <1>2, <1>6, <2>2, sendKept DEF Begun
  <2> QED
    BY <1>4, <1>7, <2>2, <2>3, BegunKept, KeptBegun
<1>8. CASE event.control = "CTL_DEPLOY"
  <2>1. e \in Client(n)!OnDeploy(taken, event.depends)
    BY <1>2, <1>8 DEF Client!Obeyed
  <2>2. Calm(taken, e)
    BY <1>1, <1>5, <1>8, <2>1, OnDeployCalm
  <2>3. Kept(e, d)
    BY <1>2, <1>6, <2>2, sendKept, NoneOrderly DEF Calm
  <2> QED
    BY <1>4, <1>8, <2>2, <2>3, CalmKept, KeptCalm
<1>9. CASE event.control \notin {"CTL_DOWNLOAD", "CTL_DEPLOY"}
  <2>1. \/ e \in Client(n)!OnReset(taken) \/ e \in Client(n)!OnCancel(taken)
        \/ e \in Client(n)!OnClear(taken) \/ e = taken
    BY <1>2, <1>9 DEF Client!Obeyed
  <2>2. Kept(taken, e)
    BY <1>1, <1>5, <2>1, OnResetKept, OnCancelKept, OnClearKept, KeptSelf
  <2>3. Kept(e, d)
    BY <1>2, <1>6, <2>2, sendKept DEF Kept
  <2> QED
    BY <1>4, <1>9, <2>2, <2>3, KeptKept
<1> QED
  BY <1>7, <1>8, <1>9

-----------------------------------------------------------------------------
(* The steps of a controller keep it orderly.                              *)

\* The first event is taken out of the queue.
Popped(c, e) ==
    /\ Kept(c, e) /\ e.sent = <<>>
    /\ Prepares(Head(c.queue)) => ~None(c) /\ None(e) /\ ~Deploys(e)
    /\ Orders(Head(c.queue)) => Deploys(c)

\* Most handlers go on from the queue without its head as from the queue itself.
LEMMA PoppedKept ==
    ASSUME NEW n, NEW c, Fit(n, c), Orderly(c), c.queue # <<>>
    PROVE  Popped(c, [Client(n)!Quiet(c) EXCEPT !.queue = Tail(c.queue)])
<1> DEFINE q == Client(n)!Quiet(c)
           rest == Tail(c.queue)
           e == [q EXCEPT !.queue = rest]
<1>1. Onto(n, c, q) /\ q.queue = c.queue
  BY QuietOnto
<1>2. Kept(c, q) /\ q.sent = <<>>
  BY QuietKept DEF Fit
<1>3. q \in Client(n)!ClientHelper /\ q.queue \in Seq(Client(n)!ClientEvent)
  BY <1>1 DEF Onto, Fit, Client!ClientHelper
<1> HIDE DEF q
<1>4. /\ e.queue = rest /\ e.worker = q.worker /\ e.loose = q.loose /\ e.sent = q.sent
      /\ e.online = q.online /\ e.state = q.state /\ e.needDiscovery = q.needDiscovery
  BY <1>3 DEF Client!ClientHelper
<1> HIDE DEF e
<1>5. /\ Coming(q.queue) = {} => Coming(rest) = {} /\ ~Prepares(Head(q.queue))
      /\ Single(Coming(q.queue)) => Single(Coming(rest))
      /\ Single(Coming(q.queue)) /\ Prepares(Head(q.queue)) => Coming(rest) = {}
      /\ (\E i \in DOMAIN rest : Orders(rest[i])) \/ Orders(Head(q.queue))
         => (\E i \in DOMAIN q.queue : Orders(q.queue[i]))
  BY <1>1, <1>3, Taken
<1> HIDE DEF rest
<1>6. (None(q) => None(e)) /\ (One(q) => One(e)) /\ (Deploys(e) => Deploys(q))
  BY <1>4, <1>5 DEF None, One, Deploys, Leftover
<1>7. (Waits(e) <=> Waits(q)) /\ (Introduces(e) <=> Introduces(q)) /\ (Speaks(e) <=> Speaks(q))
  BY <1>4 DEF Waits, Introduces, Speaks
<1>8. Kept(q, e)
  BY <1>2, <1>4, <1>6, <1>7 DEF Kept, Linked, Orderly
<1>9. Kept(c, e)
  BY <1>2, <1>8, KeptKept
<1>10. ASSUME Prepares(Head(c.queue))
       PROVE  ~None(c) /\ None(e) /\ ~Deploys(e)
  <2>1. Coming(q.queue) # {} /\ ~None(q)
    BY <1>1, <1>5, <1>10 DEF None
  <2>2. ~None(c) /\ ~Deploys(q)
    BY <1>2, <2>1 DEF Kept, Orderly
  <2>3. Single(Coming(q.queue)) /\ ~Preparing(q.worker) /\ Leftover(q) = {}
    BY <1>2, <2>1 DEF Kept, Orderly, One
  <2>4. None(e)
    BY <1>1, <1>4, <1>5, <1>10, <2>3 DEF None, Leftover
  <2> QED
    BY <1>6, <2>2, <2>4
<1>11. Orders(Head(c.queue)) => Deploys(c)
  BY <1>1, <1>5 DEF Deploys
<1> QED
  BY <1>2, <1>4, <1>9, <1>10, <1>11 DEF Popped, e, q, rest

\* case RES_ERROR.
LEMMA OnErrorKept ==
    ASSUME NEW n, NEW c, Fit(n, c), Orderly(c), NEW d \in Client(n)!OnError(c)
    PROVE  Kept(c, d)
<1> DEFINE e == Client(n)!setDomainState(c, "WR_ERROR")
           f == [e EXCEPT !.error = TRUE]
<1>1. Fit(n, e) /\ Kept(c, e)
  <2>1. "WR_ERROR" \in Client(n)!ClientState
    BY DEF Client!ClientState
  <2> QED
    BY <2>1, EntersKept
<1>2. d = Client(n)!sendDomainMessage(f)
  BY DEF Client!OnError
<1> HIDE DEF e
<1>3. f \in Client(n)!ClientHelper /\ Kept(e, f)
  <2>1. Matches(e, f) /\ f.state = e.state
    BY <1>1, FieldsMatch DEF Fit
  <2>2. f \in Client(n)!ClientHelper
    BY <1>1, FlagsOnto DEF Onto, Fit
  <2> HIDE DEF f
  <2> QED
    BY <1>1, <2>1, <2>2, MatchesKept DEF Kept
<1> HIDE DEF f
<1>4. Kept(f, d)
  BY <1>2, <1>3, sendKept DEF Kept
<1> QED
  BY <1>1, <1>3, <1>4, KeptKept

\* cases RES_DEPLOY_DONE and RES_CANCEL_DONE.
LEMMA DoneKept ==
    ASSUME NEW n, NEW c, Fit(n, c), Orderly(c),
           NEW d \in Client(n)!OnDeployDone(c) \cup Client(n)!OnCancelDone(c),
           d \in Client(n)!OnDeployDone(c) => c.package # NoId
    PROVE  Kept(c, d)
<1> DEFINE target == Target[c.package]
           installs == [c EXCEPT !.version = target]
<1>1. /\ Matches(c, installs) /\ installs.state = c.state /\ Matches(c, c)
  BY FieldsMatch DEF Fit, Matches
<1>2. \E e \in {c, installs} :
        /\ d = Client(n)!sendDomainMessage(Client(n)!setDomainState(e, "WR_IDLE"))
        /\ e = installs => c.package # NoId
  BY DEF Client!OnDeployDone, Client!OnCancelDone
<1>3. c.package # NoId => installs \in Client(n)!ClientHelper
  <2>1. c.package # NoId => target \in Client(n)!Versions
    BY HeldIds DEF Fit, Provided, Client!Versions
  <2> HIDE DEF target
  <2> QED
    BY <2>1 DEF Fit, Client!ClientHelper
<1> HIDE DEF installs, target
<1>4. PICK e \in {c, installs} :
        /\ d = Client(n)!sendDomainMessage(Client(n)!setDomainState(e, "WR_IDLE"))
        /\ e = installs => c.package # NoId
  BY <1>2
<1> DEFINE f == Client(n)!setDomainState(e, "WR_IDLE")
<1>5. e \in Client(n)!ClientHelper /\ Matches(c, e)
  BY <1>1, <1>3, <1>4 DEF Fit
<1>6. /\ Matches(e, f) /\ f.state = "WR_IDLE" /\ f \in Client(n)!ClientHelper
  <2>1. "WR_IDLE" \in Client(n)!ClientState
    BY DEF Client!ClientState
  <2>2. f \in Client(n)!ClientHelper
    BY <1>5, <2>1 DEF Client!ClientHelper, Client!setDomainState
  <2>3. Enters(e, f, "WR_IDLE")
    BY <1>5, setDomainStateMatches DEF Enters
  <2> HIDE DEF f
  <2> QED
    BY <2>2, <2>3 DEF Enters
<1>7. d = Client(n)!sendDomainMessage(f)
  BY <1>4
<1> HIDE DEF f
<1>8. Kept(c, f)
  BY <1>5, <1>6, MatchesMatches, MatchesKept
<1>9. Kept(f, d)
  BY <1>6, <1>7, <1>8, sendKept DEF Kept
<1> QED
  BY <1>8, <1>9, KeptKept

\* The engine's thread.
LEMMA HandledKept ==
    ASSUME NEW n, NEW c, Fit(n, c), Orderly(c), NEW d \in Client(n)!Handled(c)
    PROVE  Kept(c, d)
<1> DEFINE event == Head(c.queue)
           e == [Client(n)!Quiet(c) EXCEPT !.queue = Tail(c.queue)]
<1>1. c.queue # <<>> /\ d \in Client(n)!Handle(e, event)
  BY HandledFrom
<1>2. /\ Fit(n, e) /\ (c.installed # 0 => e.installed # 0)
      /\ event.type \in {"REQ_CONTROL", "RES_ERROR", "RES_DOWNLOAD", "RES_PATCH",
                         "RES_VERIFY", "RES_DEPLOY_DONE", "RES_CANCEL_DONE"}
      /\ event.type = "REQ_CONTROL" => event \in Order(n)
      /\ event.type # "REQ_CONTROL" => e.package # NoId
      /\ event.type = "RES_DEPLOY_DONE" => e.installed # 0
  BY <1>1, PoppedFit
<1>3. Popped(c, e)
  BY <1>1, PoppedKept
<1> HIDE DEF e
<1>4. /\ Kept(c, e) /\ e.sent = <<>> /\ Orderly(e)
      /\ Prepares(event) => ~None(c) /\ None(e) /\ ~Deploys(e)
      /\ Orders(event) => Deploys(c)
  BY <1>3 DEF Popped, Kept
<1> HIDE DEF event
<1>5. Kept(e, d) => Kept(c, d)
  BY <1>4, KeptKept
<1>6. Begun(e, d) /\ Prepares(event) => Kept(c, d)
  BY <1>4 DEF Begun, Kept, Linked
<1>7. CASE event.type = "REQ_CONTROL"
  <2>1. event \in Order(n) /\ d \in Client(n)!OnControl(e, event)
    BY <1>1, <1>2, <1>7 DEF Client!Handle
  <2>2. /\ event.control = "CTL_DOWNLOAD" => Prepares(event)
        /\ event.control = "CTL_DEPLOY" => Orders(event)
    BY <1>7 DEF Prepares, Orders
  <2>3. event.control = "CTL_DEPLOY" => Deploys(c)
    BY <1>4, <2>2
  <2>4. event.control = "CTL_DEPLOY" => None(c) /\ None(e)
    BY <1>4, <2>3 DEF Kept, Orderly
  <2>5. /\ event.control = "CTL_DOWNLOAD" => Begun(e, d)
        /\ event.control = "CTL_DEPLOY" => Calm(e, d)
        /\ event.control \notin {"CTL_DOWNLOAD", "CTL_DEPLOY"} => Kept(e, d)
    BY <1>2, <1>4, <2>1, <2>2, <2>4, OnControlOrderly
  <2>6. Calm(e, d) /\ Deploys(c) => Kept(c, d)
    BY <1>4, NoneOrderly DEF Calm, Kept, Linked
  <2> QED
    BY <1>5, <1>6, <2>2, <2>3, <2>5, <2>6
<1>8. CASE event.type = "RES_ERROR"
  BY <1>1, <1>2, <1>4, <1>5, <1>8, OnErrorKept DEF Client!Handle
<1>9. CASE event.type \in {"RES_DOWNLOAD", "RES_PATCH"}
  <2>1. d \in Client(n)!OnVerifiable(e) /\ Prepares(event) /\ e.package # NoId
    BY <1>1, <1>2, <1>9 DEF Client!Handle, Prepares
  <2>2. Begun(e, d)
    BY <1>2, <1>4, <2>1, OnVerifiableBegun
  <2> QED
    BY <1>6, <2>1, <2>2
<1>10. CASE event.type = "RES_VERIFY"
  <2>1. d \in Client(n)!OnVerify(e) /\ Prepares(event) /\ e.package # NoId
    BY <1>1, <1>2, <1>10 DEF Client!Handle, Prepares
  <2>2. Begun(e, d)
    BY <1>2, <1>4, <2>1, OnVerifyBegun
  <2> QED
    BY <1>6, <2>1, <2>2
<1>11. CASE event.type = "RES_DEPLOY_DONE"
  BY <1>1, <1>2, <1>4, <1>5, <1>11, DoneKept DEF Client!Handle
<1>12. CASE event.type = "RES_CANCEL_DONE"
  <2>1. d \in Client(n)!OnCancelDone(e) /\ e.package # NoId
    BY <1>1, <1>2, <1>12 DEF Client!Handle
  <2> QED
    BY <1>2, <1>4, <1>5, <2>1, DoneKept
<1> QED
  BY <1>2, <1>7, <1>8, <1>9, <1>10, <1>11, <1>12

\* The timer.
LEMMA BeatenKept ==
    ASSUME NEW n, NEW c, Fit(n, c), Orderly(c), NEW d \in Client(n)!Beaten(c)
    PROVE  Kept(c, d)
<1> DEFINE q == Client(n)!Quiet(c)
<1>1. Onto(n, c, q) /\ d = Client(n)!sendDomainMessage(q) /\ Kept(c, q)
  BY QuietOnto, QuietKept DEF Client!Beaten, Fit
<1> HIDE DEF q
<1>2. Kept(q, d)
  BY <1>1, sendKept DEF Onto, Fit, Kept
<1> QED
  BY <1>1, <1>2, KeptKept

\* The worker that sees that it is to stop.
LEMMA BrokenKept ==
    ASSUME NEW n, NEW c, Fit(n, c), Orderly(c), NEW d \in Client(n)!Broken(c)
    PROVE  Kept(c, d)
<1> DEFINE q == Client(n)!Quiet(c)
           w == [q.worker EXCEPT !.broken = TRUE]
<1>1. c.worker.task \in {"download", "verify"} /\ d = [q EXCEPT !.worker = w]
  BY DEF Client!Broken
<1>2. Onto(n, c, q) /\ Kept(c, q) /\ q.worker = c.worker
  BY QuietOnto, QuietKept DEF Client!Quiet, Fit
<1> HIDE DEF q
<1>3. q \in Client(n)!ClientHelper /\ q.worker \in Client(n)!Worker
  BY <1>2 DEF Onto, Fit, Client!ClientHelper
<1>4. w.task = q.worker.task
  BY <1>3 DEF Client!Worker, Client!NoWorker
<1> HIDE DEF w
<1>5. /\ d.queue = q.queue /\ d.worker = w /\ d.loose = q.loose /\ d.sent = q.sent
      /\ d.online = q.online /\ d.state = q.state /\ d.needDiscovery = q.needDiscovery
  BY <1>1, <1>3 DEF Client!ClientHelper
<1>6. /\ (None(d) <=> None(q)) /\ (One(d) <=> One(q)) /\ (Deploys(d) <=> Deploys(q))
      /\ (Waits(d) <=> Waits(q)) /\ (Introduces(d) <=> Introduces(q))
  BY <1>4, <1>5 DEF None, One, Deploys, Leftover, Preparing, Waits, Introduces
<1>7. Speaks(d) <=> Speaks(q)
  BY <1>5 DEF Speaks
<1>8. Kept(q, d)
  BY <1>2, <1>5, <1>6, <1>7 DEF Kept, Linked, Orderly
<1> QED
  BY <1>2, <1>8, KeptKept

\* Its task that ends.
LEMMA EndedKept ==
    ASSUME NEW n, NEW c, Fit(n, c), Orderly(c), NEW fails, NEW d \in Client(n)!Ended(c, fails)
    PROVE  Kept(c, d)
<1>1. PICK e \in Client(n)!Success(c) \cup Client(n)!Failure(c) \cup Client(n)!Stopped(c)
                 \cup Client(n)!Cancelled(c) :
        d = Client(n)!Quiet(Client(n)!Rest(e))
  BY DEF Client!Ended
<1>2. c.worker.task # "none"
  BY <1>1 DEF Client!Success, Client!Failure, Client!Stopped, Client!Cancelled
<1>3. Onto(n, c, e) /\ Outcome(c, e)
  BY <1>1, <1>2, OutcomeOf, StoppedOnto, SuccessOnto, CancelledOnto, FailureOnto
<1> DEFINE r == Client(n)!Rest(e)
<1>4. Onto(n, e, r) /\ Kept(c, r)
  BY <1>3, RestOnto, RestKept DEF Onto, Fit
<1>5. d = Client(n)!Quiet(r)
  BY <1>1
<1> HIDE DEF r
<1>6. Kept(r, d)
  BY <1>4, <1>5, QuietKept DEF Onto, Fit, Kept
<1> QED
  BY <1>4, <1>6, KeptKept

\* A task that stop() has let go ends.
LEMMA LooseEndedKept ==
    ASSUME NEW n, NEW c, Fit(n, c), Orderly(c), NEW fails,
           NEW d \in Client(n)!LooseEnded(c, fails)
    PROVE  Kept(c, d)
<1>1. PICK w \in c.loose :
        \E e \in Client(n)!Success([c EXCEPT !.worker = w])
                 \cup Client(n)!Cancelled([c EXCEPT !.worker = w])
                 \cup Client(n)!Stopped([c EXCEPT !.worker = w])
                 \cup Client(n)!Failure([c EXCEPT !.worker = w]) :
          d = [Client(n)!Quiet(e) EXCEPT !.worker = c.worker, !.loose = @ \ {w}]
  BY ZenonT(60) DEF Client!LooseEnded
<1> DEFINE at == [c EXCEPT !.worker = w]
<1>2. PICK e \in Client(n)!Success(at) \cup Client(n)!Cancelled(at)
                 \cup Client(n)!Stopped(at) \cup Client(n)!Failure(at) :
        d = [Client(n)!Quiet(e) EXCEPT !.worker = c.worker, !.loose = @ \ {w}]
  BY <1>1
<1>3. /\ w \in Client(n)!Worker /\ w.task # "none" /\ w.package \in Held /\ c.package # NoId
      /\ c \in Client(n)!ClientHelper /\ c.queue \in Seq(Client(n)!ClientEvent)
  BY <1>1 DEF Fit, Provided, Client!ClientHelper
<1>4. Onto(n, c, at)
  BY <1>3, ReworkOnto
<1>5. /\ at.worker = w /\ at.queue = c.queue /\ at.loose = c.loose /\ at.sent = c.sent
      /\ at.online = c.online /\ at.needDiscovery = c.needDiscovery /\ at.state = c.state
  BY <1>3 DEF Client!ClientHelper
<1> HIDE DEF at
<1>6. Outcome(at, e) /\ Onto(n, at, e)
  BY <1>2, <1>3, <1>4, <1>5, OutcomeOf, StoppedOnto, SuccessOnto, CancelledOnto, FailureOnto
     DEF Onto
<1> DEFINE loose == e.loose \ {w}
<1>7. d = [e EXCEPT !.sent = <<>>, !.worker = c.worker, !.loose = loose]
  BY <1>2, <1>6 DEF Client!Quiet, Onto, Fit, Client!ClientHelper
<1>8. /\ d.queue = e.queue /\ d.worker = c.worker /\ d.loose = c.loose \ {w}
      /\ d.sent = <<>> /\ d.online = c.online /\ d.state = c.state
      /\ d.needDiscovery = c.needDiscovery
  BY <1>5, <1>6, <1>7 DEF Client!ClientHelper, Onto, Fit, Outcome
<1>9. /\ Leftover(d) = Leftover(c) \ {w}
      /\ (Waits(d) => Waits(c)) /\ (Introduces(d) => Introduces(c))
      /\ (Speaks(c) => Speaks(d))
  BY <1>8 DEF Leftover, Waits, Introduces, Speaks
<1>10. CASE e.queue = c.queue
  <2>1. (None(c) => None(d)) /\ (One(c) => One(d)) /\ (Deploys(d) => Deploys(c))
    BY <1>8, <1>9, <1>10 DEF None, One, Deploys, Single
  <2> QED
    BY <1>8, <1>9, <2>1 DEF Kept, Linked, Orderly
<1>11. ASSUME NEW event, e.queue = Append(c.queue, event),
              ~Orders(event), Prepares(event) => Preparing(w)
       PROVE  Kept(c, d)
  <2>1. /\ ~Prepares(event) => Coming(d.queue) = Coming(c.queue)
        /\ Coming(c.queue) = {} => Single(Coming(d.queue))
        /\ (\E i \in DOMAIN d.queue : Orders(d.queue[i]))
           => (\E i \in DOMAIN c.queue : Orders(c.queue[i]))
    BY <1>3, <1>8, <1>11, Appended
  <2>2. Prepares(event) => w \in Leftover(c)
    BY <1>1, <1>11 DEF Leftover
  <2>3. (None(c) => None(d)) /\ (Deploys(d) => Deploys(c))
    BY <1>8, <1>9, <2>1, <2>2 DEF None, Deploys
  <2>4. One(c) => One(d)
    BY <1>8, <1>9, <2>1, <2>2 DEF One, Single
  <2> QED
    BY <1>8, <1>9, <2>3, <2>4 DEF Kept, Linked, Orderly
<1> QED
  BY <1>5, <1>6, <1>10, <1>11 DEF Outcome

\* The transport has a connection again.
LEMMA ConnectedKept ==
    ASSUME NEW n, NEW c, Fit(n, c), Orderly(c)
    PROVE  Kept(c, [c EXCEPT !.online = TRUE])
<1> DEFINE d == [c EXCEPT !.online = TRUE]
<1>1. /\ d.queue = c.queue /\ d.worker = c.worker /\ d.loose = c.loose
      /\ d.sent = c.sent /\ d.online = TRUE /\ d.state = c.state
      /\ d.needDiscovery = c.needDiscovery
  BY DEF Fit, Client!ClientHelper
<1> HIDE DEF d
<1>2. (None(d) <=> None(c)) /\ (One(d) <=> One(c)) /\ (Deploys(d) <=> Deploys(c))
  BY <1>1 DEF None, One, Deploys, Leftover
<1>3. (Waits(d) <=> Waits(c)) /\ (Introduces(d) <=> Introduces(c)) /\ (Speaks(c) => Speaks(d))
  BY <1>1 DEF Waits, Introduces, Speaks
<1>4. Kept(c, d)
  BY <1>1, <1>2, <1>3 DEF Kept, Linked, Orderly
<1> QED
  BY <1>4 DEF d

-----------------------------------------------------------------------------
(* What is broadcast.                                                      *)

\* d is c with some of these broadcasts in its queue.
Grown(c, d, broadcasts) ==
    /\ d.worker = c.worker /\ d.loose = c.loose /\ d.sent = c.sent /\ d.state = c.state
    /\ d.online = c.online /\ d.needDiscovery = c.needDiscovery
    /\ \A i \in DOMAIN c.queue : i \in DOMAIN d.queue /\ d.queue[i] = c.queue[i]
    /\ \A i \in DOMAIN d.queue \ DOMAIN c.queue :
         /\ d.queue[i].type = "REQ_CONTROL"
         /\ \E j \in DOMAIN broadcasts : d.queue[i].control = broadcasts[j].control

\* By no more than there are of them.
Longer(c, d, k) == Len(d.queue) <= Len(c.queue) + k

\* One broadcast more.
LEMMA ReceivedGrown ==
    ASSUME NEW n, NEW c, NEW d \in Client(n)!ClientHelper, NEW broadcasts, NEW k \in Nat,
           NEW i \in DOMAIN broadcasts, Len(c.queue) \in Nat,
           Grown(c, d, broadcasts), Longer(c, d, k)
    PROVE  LET e == Client(n)!Received(d, ControlEvent(n, broadcasts[i]), broadcasts[i].again)
           IN Grown(c, e, broadcasts) /\ Longer(c, e, k + 1)
<1> DEFINE event == ControlEvent(n, broadcasts[i])
           again == broadcasts[i].again
           e == Client(n)!Received(d, event, again)
           queue == Append(d.queue, event)
           missed == [d EXCEPT !.heard = d.heard /\ again]
           heard == [d EXCEPT !.heard = TRUE]
           taken == [heard EXCEPT !.queue = queue]
<1>1. d.queue \in Seq(Client(n)!ClientEvent) /\ Len(d.queue) \in Nat
  BY DEF Client!ClientHelper
<1>2. event.type = "REQ_CONTROL" /\ event.control = broadcasts[i].control
  BY DEF ControlEvent
<1>3. e = missed \/ e = d \/ e = taken
  BY DEF Client!Received, Client!postEvent, Client!ClientHelper
<1> HIDE DEF event
<1>4. /\ Len(queue) = Len(d.queue) + 1
      /\ \A j \in DOMAIN d.queue : j \in DOMAIN queue /\ queue[j] = d.queue[j]
      /\ \A j \in DOMAIN queue \ DOMAIN d.queue : queue[j] = event
  BY <1>1
<1> HIDE DEF queue, again
<1>5. \/ Matches(d, e) /\ e.state = d.state
      \/ /\ e.queue = queue /\ e.worker = d.worker /\ e.loose = d.loose /\ e.sent = d.sent
         /\ e.online = d.online /\ e.needDiscovery = d.needDiscovery /\ e.state = d.state
  BY <1>3 DEF Client!ClientHelper, Matches
<1> HIDE DEF e
<1>6. Grown(c, e, broadcasts)
  BY <1>2, <1>4, <1>5 DEF Grown, Matches
<1>7. Longer(c, e, k + 1)
  <2>1. Len(e.queue) = Len(d.queue) \/ Len(e.queue) = Len(d.queue) + 1
    BY <1>4, <1>5 DEF Matches
  <2>2. Len(d.queue) <= Len(c.queue) + k
    BY DEF Longer
  <2>3. Len(e.queue) <= Len(c.queue) + (k + 1)
    <3>1. \A y, z \in Nat : y <= z + k => y <= z + (k + 1) /\ y + 1 <= z + (k + 1)
      OBVIOUS
    <3>2. Len(d.queue) \in Nat /\ Len(c.queue) \in Nat
      BY <1>1
    <3>3. /\ Len(d.queue) <= Len(c.queue) + (k + 1)
          /\ Len(d.queue) + 1 <= Len(c.queue) + (k + 1)
      BY <2>2, <3>1, <3>2
    <3> QED
      BY <2>1, <3>3
  <2> QED
    BY <2>3 DEF Longer
<1> QED
  BY <1>6, <1>7 DEF e, event, again

\* All of a step.
LEMMA DeliveredGrown ==
    ASSUME NEW n, Fit(n, clients[n]), NEW broadcasts \in Seq(Broadcast)
    PROVE  LET d == Delivered(n, broadcasts)
           IN Grown(clients[n], d, broadcasts) /\ Longer(clients[n], d, Len(broadcasts))
<1> DEFINE c == clients[n]
           N == Len(broadcasts)
<1>1. PICK f : Deliveries(n, broadcasts, f)
  BY DeliveriesMade
<1> DEFINE S == {i \in 0..N : Grown(c, f[i], broadcasts) /\ Longer(c, f[i], i)}
<1>2. N \in Nat /\ DOMAIN broadcasts = 1..N
  OBVIOUS
<1>3. \A i \in 0..N : f[i] \in Client(n)!ClientHelper
  BY <1>1 DEF Deliveries, Onto, Fit
<1>4. Len(c.queue) \in Nat
  BY DEF Fit, Client!ClientHelper
<1>5. 0 \in S
  BY <1>1, <1>2, <1>4 DEF Deliveries, Grown, Longer
<1>6. ASSUME NEW i \in 1..N, i - 1 \in S
      PROVE  i \in S
  <2>1. f[i] = Client(n)!Received(f[i - 1], ControlEvent(n, broadcasts[i]),
                                  broadcasts[i].again)
    BY <1>1 DEF Deliveries
  <2>2. i - 1 \in Nat /\ i - 1 + 1 = i /\ f[i - 1] \in Client(n)!ClientHelper
    BY <1>3, <1>6
  <2>3. Grown(c, f[i], broadcasts) /\ Longer(c, f[i], i - 1 + 1)
    BY <1>2, <1>4, <1>6, <2>1, <2>2, ReceivedGrown
  <2> QED
    BY <2>2, <2>3
<1> HIDE DEF S, N
<1>7. N \in S
  <2>1. 0..N \subseteq S
    BY <1>2, <1>5, <1>6, Upto
  <2> QED
    BY <1>2, <2>1
<1>8. f[N] = Delivered(n, broadcasts)
  BY <1>1 DEF Deliveries, N
<1> QED
  BY <1>7, <1>8 DEF S, N

\* Whoever is not told to download has no more to prepare than before.
LEMMA GrownKept ==
    ASSUME NEW c, NEW d, NEW broadcasts, Orderly(c), Grown(c, d, broadcasts),
           \A i \in DOMAIN broadcasts : broadcasts[i].control # "CTL_DOWNLOAD",
           (\E i \in DOMAIN broadcasts : broadcasts[i].control = "CTL_DEPLOY") => None(c)
    PROVE  /\ Orderly(d) /\ (None(c) => None(d))
           /\ Deploys(d) => \/ Deploys(c)
                            \/ \E i \in DOMAIN broadcasts : broadcasts[i].control = "CTL_DEPLOY"
<1>1. \A i \in DOMAIN d.queue :
        \/ i \in DOMAIN c.queue /\ d.queue[i] = c.queue[i]
        \/ d.queue[i].type = "REQ_CONTROL" /\ d.queue[i].control # "CTL_DOWNLOAD"
  BY DEF Grown
<1>2. Coming(d.queue) \subseteq Coming(c.queue)
  BY <1>1 DEF Coming, Prepares
<1>3. /\ d.worker = c.worker /\ Leftover(d) = Leftover(c) /\ d.loose = c.loose
      /\ (Waits(d) <=> Waits(c))
  BY DEF Grown, Leftover, Waits
<1>4. (None(c) => None(d)) /\ (One(c) => One(d))
  BY <1>2, <1>3 DEF None, One, Single
<1>5. ASSUME Deploys(d), ~Deploys(c)
      PROVE  \E i \in DOMAIN broadcasts : broadcasts[i].control = "CTL_DEPLOY"
  <2>1. PICK i \in DOMAIN d.queue : Orders(d.queue[i])
    BY <1>3, <1>5 DEF Deploys
  <2>2. i \notin DOMAIN c.queue
    BY <1>5, <2>1 DEF Deploys, Grown
  <2> QED
    BY <2>1, <2>2 DEF Grown, Orders
<1> QED
  BY <1>3, <1>4, <1>5 DEF Orderly

\* One control to download, at most, gives whoever has nothing to prepare one thing.
LEMMA GrownOnce ==
    ASSUME NEW n, NEW c \in Client(n)!ClientHelper, NEW d \in Client(n)!ClientHelper,
           NEW broadcasts, Grown(c, d, broadcasts), Longer(c, d, 1),
           \A i \in DOMAIN broadcasts : broadcasts[i].control # "CTL_DEPLOY",
           None(c), ~Deploys(c), ~Waits(c)
    PROVE  Orderly(d) /\ ~Deploys(d)
<1>1. /\ c.queue \in Seq(Client(n)!ClientEvent) /\ d.queue \in Seq(Client(n)!ClientEvent)
      /\ Len(c.queue) \in Nat /\ Len(d.queue) \in Nat
      /\ DOMAIN c.queue = 1..Len(c.queue) /\ DOMAIN d.queue = 1..Len(d.queue)
  BY DEF Client!ClientHelper
<1>2. \A i \in Coming(d.queue) : i \in DOMAIN d.queue \ DOMAIN c.queue
  BY DEF None, Coming, Grown
<1>3. \A i \in Coming(d.queue) : i = Len(c.queue) + 1
  <2>1. \A y, z \in Nat : \A i \in (1..z) \ (1..y) : z <= y + 1 => i = y + 1
    OBVIOUS
  <2>2. Len(d.queue) <= Len(c.queue) + 1
    BY DEF Longer
  <2> QED
    BY <1>1, <1>2, <2>1, <2>2
<1>4. Single(Coming(d.queue))
  BY <1>3 DEF Single
<1>5. /\ d.worker = c.worker /\ Leftover(d) = Leftover(c) /\ d.loose = c.loose
      /\ (Waits(d) <=> Waits(c))
  BY DEF Grown, Leftover, Waits
<1>6. ~Deploys(d)
  BY <1>5 DEF Deploys, Grown, Orders
<1>7. One(d)
  BY <1>4, <1>5 DEF One, None
<1> QED
  BY <1>5, <1>6, <1>7 DEF Orderly

-----------------------------------------------------------------------------
(* What the server's handlers lead to.                                     *)

\* The requests by which the files reach the server's disk and the controllers.
PreparingTask == {"REQ_DOWNLOAD", "REQ_VERIFY", "REQ_DISTRIBUTE"}

\* What marks the deployment.
DeployMarks == {"CTL_DEPLOY", "MR_DEPLOY", "MR_DEPLOY_ASK"}

\* The states, controls and requests that say how far the upgrade is.
Marked == Gathering \cup PreparingTask \cup DeployMarks
            \cup {"MR_RESUME_ASK", "CTL_DOWNLOAD", "distributing"}

\* Those that a server shows, in its record or its requests; those it broadcasts.
Marks(s) == Marked \cap ({s.control, s.state} \cup {s.posted[i].req : i \in DOMAIN s.posted})
Broadcasts(s) == Marked \cap {s.sent[i].control : i \in DOMAIN s.sent}

\* The controllers that have said that they wait, and those that have said anything.
Waiters(s) == {n \in Members(s) : s.details[n].state = "WR_WAIT"}
Met(s) == {n \in Members(s) : s.details[n].state = "WR_WAIT" \/ s.details[n].version # "empty"}

\* A handler that makes r of s leads to no mark but those in E, and hears nobody.
Leads(s, r, E) ==
    /\ Typed(r)
    /\ Marks(r) \subseteq Marks(s) \cup E /\ Broadcasts(r) \subseteq Broadcasts(s) \cup E
    /\ Waiters(r) \subseteq Waiters(s) /\ Met(r) \subseteq Met(s)
    /\ r.hasNewId = s.hasNewId /\ r.lastlId = s.lastlId /\ r.cacheState = s.cacheState

\* Two calls in a row.
LEMMA LeadsLeads ==
    ASSUME NEW s, NEW q, NEW r, NEW E, Leads(s, q, E), Leads(q, r, E)
    PROVE  Leads(s, r, E)
  BY DEF Leads

\* More marks may be allowed than are needed.
LEMMA LeadsMore ==
    ASSUME NEW s, NEW r, NEW E, NEW F, Leads(s, r, E), E \subseteq F
    PROVE  Leads(s, r, F)
  BY DEF Leads

\* r is s as far as Leads reads it.
Twin(s, r) ==
    /\ r.control = s.control /\ r.state = s.state /\ r.posted = s.posted /\ r.sent = s.sent
    /\ r.details = s.details
    /\ r.hasNewId = s.hasNewId /\ r.lastlId = s.lastlId /\ r.cacheState = s.cacheState

\* Calls that Leads does not notice.
LEMMA TwinLeads ==
    ASSUME NEW s, NEW r, Typed(r), Twin(s, r), NEW E
    PROVE  Leads(s, r, E)
  BY DEF Leads, Twin, Marks, Broadcasts, Waiters, Met, Members

\* A call that changes nothing.
LEMMA SelfLeads ==
    ASSUME NEW s, Typed(s), NEW E
    PROVE  Leads(s, s, E)
  BY DEF Leads

\* Post.
LEMMA PostLeads ==
    ASSUME NEW s, Typed(s), NEW event \in WebEvent, NEW E,
           event.req \in Marked => event.req \in E
    PROVE  Leads(s, Post(s, event), E)
<1> DEFINE posted == Append(s.posted, event)
           r == [s EXCEPT !.posted = posted]
<1>1. Typed(r) /\ r = Post(s, event)
  BY PostTyped DEF Post
<1>2. s.posted \in Seq(WebEvent)
  BY DEF Typed, Server
<1>3. \A i \in DOMAIN posted : \/ i \in DOMAIN s.posted /\ posted[i] = s.posted[i]
                               \/ posted[i] = event
  BY <1>2
<1> HIDE DEF posted
<1>4. /\ r.control = s.control /\ r.state = s.state /\ r.posted = posted /\ r.sent = s.sent
      /\ r.details = s.details
      /\ r.hasNewId = s.hasNewId /\ r.lastlId = s.lastlId /\ r.cacheState = s.cacheState
  BY DEF Typed, Server
<1> HIDE DEF r
<1>5. Marks(r) \subseteq Marks(s) \cup E
  BY <1>3, <1>4 DEF Marks
<1>6. Broadcasts(r) = Broadcasts(s) /\ Waiters(r) = Waiters(s) /\ Met(r) = Met(s)
  BY <1>4 DEF Broadcasts, Waiters, Met, Members
<1> QED
  BY <1>1, <1>4, <1>5, <1>6 DEF Leads

\* sendControlMessage, and with "cache".
LEMMA sendControlLeads ==
    ASSUME NEW s, Typed(s), NEW control \in Control, NEW E, control \in Marked => control \in E
    PROVE  Leads(s, sendControlMessage(s, control), E)
<1> DEFINE message == ControlMessage(s, control, FALSE)
           sent == Append(s.sent, message)
           r == [s EXCEPT !.control = control, !.sent = sent]
<1>1. Typed(sendControlMessage(s, control)) /\ sendControlMessage(s, control) \in {s, r}
  BY sendControlTyped DEF sendControlMessage
<1>2. s.sent \in Seq(Broadcast) /\ message.control = control
  BY DEF Typed, Server, ControlMessage
<1> HIDE DEF message
<1>3. \A i \in DOMAIN sent : \/ i \in DOMAIN s.sent /\ sent[i] = s.sent[i]
                             \/ sent[i] = message
  BY <1>2
<1> HIDE DEF sent
<1>4. /\ r.control = control /\ r.state = s.state /\ r.posted = s.posted /\ r.sent = sent
      /\ r.details = s.details
      /\ r.hasNewId = s.hasNewId /\ r.lastlId = s.lastlId /\ r.cacheState = s.cacheState
  BY DEF Typed, Server
<1> HIDE DEF r
<1>5. Marks(r) \subseteq Marks(s) \cup E
  BY <1>4 DEF Marks
<1>6. Broadcasts(r) \subseteq Broadcasts(s) \cup E
  BY <1>2, <1>3, <1>4 DEF Broadcasts
<1>7. Waiters(r) = Waiters(s) /\ Met(r) = Met(s)
  BY <1>4 DEF Waiters, Met, Members
<1>8. Typed(r) => Leads(s, r, E)
  BY <1>4, <1>5, <1>6, <1>7 DEF Leads
<1> QED
  BY <1>1, <1>8, SelfLeads

\* A control repeated.
LEMMA resendControlLeads ==
    ASSUME NEW s, Typed(s), NEW E, s.control \in Marked => s.control \in E
    PROVE  Leads(s, resendControlMessage(s), E)
<1> DEFINE message == ControlMessage(s, s.control, TRUE)
           sent == Append(s.sent, message)
           r == [s EXCEPT !.sent = sent]
<1>1. Typed(resendControlMessage(s)) /\ resendControlMessage(s) \in {s, r}
  BY resendControlTyped DEF resendControlMessage
<1>2. s.sent \in Seq(Broadcast) /\ message.control = s.control
  BY DEF Typed, Server, ControlMessage
<1> HIDE DEF message
<1>3. \A i \in DOMAIN sent : \/ i \in DOMAIN s.sent /\ sent[i] = s.sent[i]
                             \/ sent[i] = message
  BY <1>2
<1> HIDE DEF sent
<1>4. /\ r.control = s.control /\ r.state = s.state /\ r.posted = s.posted /\ r.sent = sent
      /\ r.details = s.details
      /\ r.hasNewId = s.hasNewId /\ r.lastlId = s.lastlId /\ r.cacheState = s.cacheState
  BY DEF Typed, Server
<1> HIDE DEF r
<1>5. Broadcasts(r) \subseteq Broadcasts(s) \cup E
  BY <1>2, <1>3, <1>4 DEF Broadcasts
<1>6. Marks(r) = Marks(s) /\ Waiters(r) = Waiters(s) /\ Met(r) = Met(s)
  BY <1>4 DEF Marks, Waiters, Met, Members
<1>7. Typed(r) => Leads(s, r, E)
  BY <1>4, <1>5, <1>6 DEF Leads
<1> QED
  BY <1>1, <1>7, SelfLeads

\* setState.
LEMMA setStateLeads ==
    ASSUME NEW s, Typed(s), NEW state \in ServerState, NEW E, state \in Marked => state \in E
    PROVE  Leads(s, setState(s, state), E)
<1> DEFINE file == [exists |-> TRUE, state |-> state, depends |-> s.depends]
           entered == [s EXCEPT !.lastState = s.state, !.state = state, !.file = file]
           type == IF s.feedType = "TP_DEPLOY" THEN "TP_DEPLOY" ELSE "TP_CANCEL"
           feed == Feed(entered, type, "EXE_PROCEEDING", "RS_SUCCESS")
<1>1. setState(s, state) \in {s, entered, Post(entered, feed)}
  BY DEF setState
<1>2. PICK S \in SUBSET Names : s \in Server(S)
  BY DEF Typed
<1>3. file \in StatusFile
  BY <1>2 DEF Server, StatusFile
<1> HIDE DEF file
<1>4. Typed(entered)
  <2>1. entered \in Server(S)
    BY <1>2, <1>3 DEF Server
  <2> QED
    BY <2>1 DEF Typed
<1>5. /\ entered.control = s.control /\ entered.state = state
      /\ entered.posted = s.posted /\ entered.sent = s.sent /\ entered.details = s.details
      /\ entered.hasNewId = s.hasNewId /\ entered.lastlId = s.lastlId
      /\ entered.cacheState = s.cacheState
  BY <1>2 DEF Server
<1> HIDE DEF entered
<1>6. Marks(entered) \subseteq Marks(s) \cup E
  BY <1>5 DEF Marks
<1>7. /\ Broadcasts(entered) = Broadcasts(s) /\ Waiters(entered) = Waiters(s)
      /\ Met(entered) = Met(s)
  BY <1>5 DEF Broadcasts, Waiters, Met, Members
<1>8. Leads(s, entered, E)
  BY <1>4, <1>5, <1>6, <1>7 DEF Leads
<1>9. feed \in WebEvent /\ feed.req \notin Marked
  <2>1. type \in FeedType
    BY DEF FeedType
  <2>2. feed.req = "REQ_FEEDBACK"
    BY DEF Feed
  <2> HIDE DEF type
  <2> QED
    BY <1>4, <2>1, <2>2, FeedTyped DEF Marked, Gathering, PreparingTask, DeployMarks
<1> HIDE DEF feed
<1>10. Leads(s, Post(entered, feed), E)
  BY <1>4, <1>8, <1>9, PostLeads, LeadsLeads
<1> QED
  BY <1>1, <1>8, <1>10, SelfLeads

\* Who has heard nobody waits for nobody.
LEMMA idleLeads ==
    ASSUME NEW s, Typed(s), NEW E
    PROVE  Leads(s, idle(s), E)
<1> DEFINE cleared == [s EXCEPT !.depends = {}, !.details = [n \in {} |-> {}],
                                !.detailSubscribed = FALSE, !.upgrade = NoUpgrade,
                                !.cancelId = NoId]
<1>1. PICK S \in SUBSET Names : s \in Server(S)
  BY DEF Typed
<1>2. Typed(cleared)
  <2>1. [n \in {} |-> {}] \in [{} -> Detail]
    OBVIOUS
  <2>2. cleared \in Server({})
    BY <1>1, <2>1, UpgradesTyped DEF Server
  <2> QED
    BY <2>2 DEF Typed
<1>3. /\ cleared.control = s.control /\ cleared.state = s.state /\ cleared.posted = s.posted
      /\ cleared.sent = s.sent /\ DOMAIN cleared.details = {}
      /\ cleared.hasNewId = s.hasNewId /\ cleared.lastlId = s.lastlId
      /\ cleared.cacheState = s.cacheState
  BY <1>1 DEF Server
<1>4. idle(s) = s \/ idle(s) = setState(cleared, "MR_IDLE")
  BY DEF idle
<1> HIDE DEF cleared
<1>5. Leads(s, cleared, E)
  BY <1>2, <1>3 DEF Leads, Marks, Broadcasts, Waiters, Met, Members
<1>6. "MR_IDLE" \in ServerState /\ "MR_IDLE" \notin Marked
  BY DEF ServerState, Marked, Gathering, PreparingTask, DeployMarks
<1>7. Leads(s, setState(cleared, "MR_IDLE"), E)
  BY <1>2, <1>5, <1>6, setStateLeads, LeadsLeads
<1> QED
  BY <1>4, <1>7, SelfLeads

\* deploy and download.
LEMMA deployLeads ==
    ASSUME NEW s, Typed(s), NEW E, {"CTL_DEPLOY", "MR_DEPLOY"} \subseteq E
    PROVE  Leads(s, deploy(s), E)
<1> DEFINE told == sendControlMessage(s, "CTL_DEPLOY")
<1>1. Leads(s, told, E)
  BY sendControlLeads DEF Control
<1>2. deploy(s) = setState(told, "MR_DEPLOY")
  BY DEF deploy
<1> HIDE DEF told
<1>3. Leads(told, setState(told, "MR_DEPLOY"), E)
  BY <1>1, setStateLeads DEF Leads, ServerState
<1> QED
  BY <1>1, <1>2, <1>3, LeadsLeads

\* A state and its request.
LEMMA postAfterLeads ==
    ASSUME NEW s, Typed(s), NEW state \in ServerState, NEW req \in PreparingTask, NEW E,
           state \in Marked => state \in E, req \in E
    PROVE  Leads(s, Post(setState(s, state), Request(req)), E)
<1> DEFINE t == setState(s, state)
           event == Request(req)
<1>1. Leads(s, t, E)
  BY setStateLeads
<1>2. event \in WebEvent /\ event.req = req
  BY DEF Request, WebEvent, WebRequest, PreparingTask
<1> HIDE DEF t, event
<1>3. Leads(t, Post(t, event), E)
  BY <1>1, <1>2, PostLeads DEF Leads
<1>4. Leads(s, Post(t, event), E)
  BY <1>1, <1>3, LeadsLeads
<1> QED
  BY <1>4 DEF t, event

\* The download begins.
LEMMA downloadLeads ==
    ASSUME NEW s, Typed(s), NEW E, "REQ_DOWNLOAD" \in E
    PROVE  Leads(s, download(s), E)
<1>1. /\ "MR_DOWNLOAD" \in ServerState /\ "MR_DOWNLOAD" \notin Marked
      /\ "REQ_DOWNLOAD" \in PreparingTask
  BY DEF ServerState, Marked, Gathering, PreparingTask, DeployMarks
<1> QED
  BY <1>1, postAfterLeads DEF download

\* feedback.
LEMMA feedbackLeads ==
    ASSUME NEW s, Typed(s), NEW finished \in BOOLEAN, NEW E
    PROVE  Leads(s, feedback(s, finished), E)
<1> DEFINE closed == [s EXCEPT !.hasFeed = TRUE, !.errorCode = IF finished THEN 0 ELSE 1]
           cleared == sendControlMessage(closed, "CTL_CLEAR")
           stopped == Post(cleared, Request("REQ_STOP"))
           result == IF finished THEN "RS_SUCCESS" ELSE "RS_FAILURE"
           feed == Feed(closed, s.feedType, "EXE_CLOSED", result)
           told == Post(stopped, feed)
           state == IF finished THEN "MR_DONE_ASK" ELSE "MR_ERROR_ASK"
<1>1. PICK S \in SUBSET Names : s \in Server(S)
  BY DEF Typed
<1>2. Typed(closed) /\ Twin(s, closed)
  <2>1. closed \in Server(S)
    BY <1>1, ZenonT(60) DEF Server
  <2>2. Twin(s, closed)
    BY <1>1 DEF Server, Twin
  <2> QED
    BY <2>1, <2>2 DEF Typed
<1>3. feed \in WebEvent /\ feed.req = "REQ_FEEDBACK"
  <2>1. s.feedType \in FeedType /\ result \in {"RS_SUCCESS", "RS_FAILURE"}
    BY <1>1 DEF Server
  <2>2. feed.req = "REQ_FEEDBACK"
    BY DEF Feed
  <2> HIDE DEF closed, result
  <2> QED
    BY <1>2, <2>1, <2>2, FeedTyped
<1>4. feedback(s, finished) \in {s, setState(told, state), idle(told)}
  BY DEF feedback
<1> HIDE DEF closed, feed
<1>5. /\ "CTL_CLEAR" \in Control /\ "CTL_CLEAR" \notin Marked /\ "REQ_FEEDBACK" \notin Marked
      /\ Request("REQ_STOP") \in WebEvent /\ Request("REQ_STOP").req \notin Marked
      /\ state \in ServerState /\ state \notin Marked
  BY DEF Control, Marked, Gathering, PreparingTask, DeployMarks, Request, WebEvent, WebRequest,
         ServerState
<1> HIDE DEF state
<1>6. Leads(s, closed, E)
  BY <1>2, TwinLeads
<1>7. Leads(closed, cleared, E)
  BY <1>2, <1>5, sendControlLeads
<1> HIDE DEF cleared
<1>8. Leads(cleared, stopped, E)
  BY <1>5, <1>7, PostLeads DEF Leads
<1> HIDE DEF stopped
<1>9. Leads(stopped, told, E)
  <2>1. Typed(stopped) /\ feed \in WebEvent /\ feed.req \notin Marked
    BY <1>3, <1>5, <1>8 DEF Leads
  <2> QED
    BY <2>1, PostLeads
<1> HIDE DEF told
<1>10. Leads(s, told, E)
  BY <1>6, <1>7, <1>8, <1>9, LeadsLeads
<1>11. Leads(told, setState(told, state), E) /\ Leads(told, idle(told), E)
  BY <1>5, <1>10, setStateLeads, idleLeads DEF Leads
<1> QED
  BY <1>4, <1>10, <1>11, SelfLeads, LeadsLeads

\* cancel.
LEMMA cancelLeads ==
    ASSUME NEW s, Typed(s), NEW E
    PROVE  Leads(s, cancel(s), E)
<1> DEFINE told == sendControlMessage(s, "CTL_CANCEL")
           ended == setState(told, "MR_CANCEL")
<1>1. /\ "CTL_CANCEL" \in Control /\ "CTL_CANCEL" \notin Marked
      /\ "MR_CANCEL" \in ServerState /\ "MR_CANCEL" \notin Marked
  BY DEF Control, ServerState, Marked, Gathering, PreparingTask, DeployMarks
<1>2. Leads(s, told, E)
  BY <1>1, sendControlLeads
<1>3. cancel(s) = ended \/ cancel(s) = feedback(ended, TRUE)
  BY DEF cancel
<1> HIDE DEF told
<1>4. Leads(told, ended, E)
  BY <1>1, <1>2, setStateLeads DEF Leads
<1> HIDE DEF ended
<1>5. Leads(s, ended, E)
  BY <1>2, <1>4, LeadsLeads
<1>6. Leads(ended, feedback(ended, TRUE), E)
  BY <1>5, feedbackLeads DEF Leads
<1> QED
  BY <1>3, <1>5, <1>6, LeadsLeads

\* The answer to a dialog, which is not about resuming.
LEMMA configAnswerLeads ==
    ASSUME NEW s, Typed(s), NEW answer, s.state # "MR_RESUME_ASK", NEW E,
           s.state = "MR_DOWNLOAD_ASK" => "REQ_DOWNLOAD" \in E,
           s.state = "MR_DEPLOY_ASK" => {"CTL_DEPLOY", "MR_DEPLOY"} \subseteq E
    PROVE  Leads(s, configAnswer(s, answer), E)
<1>1. \/ configAnswer(s, answer) \in {s, cancel(s), idle(s), feedback(s, FALSE)}
      \/ s.state = "MR_DOWNLOAD_ASK" /\ configAnswer(s, answer) = download(s)
      \/ s.state = "MR_DEPLOY_ASK" /\ configAnswer(s, answer) = deploy(s)
  BY DEF configAnswer, FinalAsk
<1> QED
  BY <1>1, SelfLeads, cancelLeads, idleLeads, feedbackLeads, downloadLeads, deployLeads

-----------------------------------------------------------------------------
(* What its handlers lead to.                                              *)

\* A cancellation.
LEMMA OnCancelLeads ==
    ASSUME NEW s, Typed(s), NEW id \in Ids, NEW E
    PROVE  Leads(s, OnCancel(s, id), E)
<1> DEFINE breaked == s.hasDeployBreaked \/ s.state = "MR_DEPLOY"
           asked == [s EXCEPT !.hasFeed = FALSE, !.feedType = "TP_CANCEL",
                              !.cancelId = id, !.lastCancelId = id,
                              !.hasDeployBreaked = breaked]
           refused == feedback(asked, FALSE)
           closed == [req |-> "REQ_FEEDBACK", type |-> "TP_DEPLOY",
                      execution |-> "EXE_CLOSED", result |-> "RS_FAILURE",
                      id |-> refused.cancelId]
<1>1. PICK S \in SUBSET Names : s \in Server(S)
  BY DEF Typed
<1>2. breaked \in BOOLEAN
  BY <1>1 DEF Server
<1>3. OnCancel(s, id) \in {feedback(asked, TRUE), setState(asked, "MR_CANCEL_ASK"),
                           Post(refused, closed)}
  BY DEF OnCancel
<1>4. Typed(asked) /\ Twin(s, asked)
  <2> HIDE DEF breaked
  <2>1. asked \in Server(S)
    BY <1>1, <1>2, AskedTyped
  <2>2. Twin(s, asked)
    BY <1>1 DEF Server, Twin
  <2> QED
    BY <2>1, <2>2 DEF Typed
<1> HIDE DEF asked
<1>5. Leads(s, asked, E)
  BY <1>4, TwinLeads
<1>6. Leads(asked, refused, E) /\ Leads(asked, feedback(asked, TRUE), E)
  BY <1>4, feedbackLeads
<1>7. closed \in WebEvent /\ closed.req \notin Marked
  <2>1. Typed(refused)
    BY <1>6 DEF Leads
  <2> HIDE DEF refused
  <2>2. refused.cancelId \in Ids \cup {NoId}
    BY <2>1 DEF Typed, Server
  <2>3. closed \in WebEvent
    BY <2>2 DEF WebEvent, WebFeed, FeedType
  <2>4. closed.req \notin Marked
    BY DEF Marked, Gathering, PreparingTask, DeployMarks
  <2> QED
    BY <2>3, <2>4
<1> HIDE DEF refused, closed
<1>8. Leads(refused, Post(refused, closed), E)
  BY <1>6, <1>7, PostLeads DEF Leads
<1>9. "MR_CANCEL_ASK" \in ServerState /\ "MR_CANCEL_ASK" \notin Marked
  BY DEF ServerState, Marked, Gathering, PreparingTask, DeployMarks
<1>10. Leads(asked, setState(asked, "MR_CANCEL_ASK"), E)
  BY <1>4, <1>9, setStateLeads
<1> QED
  BY <1>3, <1>5, <1>6, <1>8, <1>10, LeadsLeads

\* The web queue distributes: one control at most, and nobody gathers any more.
LEMMA OnPullLeads ==
    ASSUME NEW s, Typed(s)
    PROVE  LET r == OnPull(s, TRUE)
           IN /\ Leads(s, r, {"CTL_DOWNLOAD"}) /\ r.state \notin Gathering
              /\ Len(r.sent) <= Len(s.sent) + 1
<1> DEFINE told == sendControlMessage(s, "CTL_DOWNLOAD")
           E == {"CTL_DOWNLOAD"}
<1>1. Typed(told) /\ Leads(s, told, E)
  BY sendControlLeads DEF Control, Leads
<1>2. s.sent \in Seq(Broadcast) /\ Len(s.sent) \in Nat
  BY DEF Typed, Server
<1>3. told.sent = Append(s.sent, ControlMessage(s, "CTL_DOWNLOAD", FALSE))
  BY DEF sendControlMessage, Typed, Server
<1>4. Len(told.sent) = Len(s.sent) + 1
  BY <1>2, <1>3
<1>5. \/ FinalAsk(s) /\ OnPull(s, TRUE) = s
      \/ OnPull(s, TRUE) = setState(told, "MR_DISTRIBUTE")
      \/ OnPull(s, TRUE) = setState(s, "MR_DISTRIBUTE")
  BY DEF OnPull
<1> HIDE DEF told
<1>6. "MR_DISTRIBUTE" \in ServerState /\ "MR_DISTRIBUTE" \notin Marked
      /\ Gathering \subseteq Marked /\ (FinalAsk(s) => s.state \notin Gathering)
  BY DEF ServerState, Marked, Gathering, PreparingTask, DeployMarks, FinalAsk
<1> HIDE DEF E
<1>7. ASSUME NEW t, Typed(t)
      PROVE  /\ Leads(t, setState(t, "MR_DISTRIBUTE"), E)
             /\ setState(t, "MR_DISTRIBUTE").state = "MR_DISTRIBUTE"
             /\ setState(t, "MR_DISTRIBUTE").sent = t.sent
  <2>1. Leads(t, setState(t, "MR_DISTRIBUTE"), E)
    BY <1>6, <1>7, setStateLeads
  <2>2. setState(t, "MR_DISTRIBUTE").state = "MR_DISTRIBUTE"
    BY <1>6, <1>7, setStateEffect
  <2>3. setState(t, "MR_DISTRIBUTE").sent = t.sent
    BY <1>7 DEF setState, Post, Typed, Server
  <2> QED
    BY <2>1, <2>2, <2>3
<1>8. Leads(s, setState(told, "MR_DISTRIBUTE"), E)
  BY <1>1, <1>7, LeadsLeads
<1>9. Len(s.sent) <= Len(s.sent) + 1
  <2>1. \A y \in Nat : y <= y + 1
    OBVIOUS
  <2> QED
    BY <1>2, <2>1
<1>10. Len(told.sent) <= Len(s.sent) + 1
  <2>1. \A y \in Nat : y + 1 <= y + 1
    OBVIOUS
  <2> QED
    BY <1>2, <1>4, <2>1
<1>11. Leads(s, s, E) /\ Leads(s, setState(s, "MR_DISTRIBUTE"), E)
  BY <1>7, SelfLeads
<1>12. Leads(s, OnPull(s, TRUE), E)
  BY <1>5, <1>8, <1>11
<1>13. OnPull(s, TRUE).state \notin Gathering
  BY <1>1, <1>5, <1>6, <1>7
<1>14. Len(OnPull(s, TRUE).sent) <= Len(s.sent) + 1
  BY <1>1, <1>5, <1>7, <1>9, <1>10
<1> QED
  BY <1>12, <1>13, <1>14 DEF E

\* Its results.
LEMMA OnResultLeads ==
    ASSUME NEW s, Typed(s)
    PROVE  /\ Leads(s, OnDownloadDone(s), {"REQ_VERIFY"})
           /\ Leads(s, OnVerifyDone(s), {"REQ_DISTRIBUTE"})
           /\ Leads(s, OnDistributeDone(s), {})
<1>1. /\ "MR_VERIFY" \in ServerState \ Marked /\ "MR_DISTRIBUTE" \in ServerState \ Marked
      /\ "MR_WAIT" \in ServerState \ Marked
      /\ "REQ_VERIFY" \in PreparingTask /\ "REQ_DISTRIBUTE" \in PreparingTask
  BY DEF ServerState, Marked, Gathering, PreparingTask, DeployMarks
<1>2. Leads(s, Post(setState(s, "MR_VERIFY"), Request("REQ_VERIFY")), {"REQ_VERIFY"})
  BY <1>1, postAfterLeads
<1>3. Leads(s, Post(setState(s, "MR_DISTRIBUTE"), Request("REQ_DISTRIBUTE")),
            {"REQ_DISTRIBUTE"})
  BY <1>1, postAfterLeads
<1>4. Leads(s, setState(s, "MR_WAIT"), {})
  BY <1>1, setStateLeads
<1> QED
  BY <1>2, <1>3, <1>4, SelfLeads DEF OnDownloadDone, OnVerifyDone, OnDistributeDone

\* Its failures, unless the download is tried again.
LEMMA OnErrorLeads ==
    ASSUME NEW s, Typed(s), OnError(s).retryTimes = 0, NEW E
    PROVE  Leads(s, OnError(s), E)
<1> DEFINE d == download(s)
           retried == [d EXCEPT !.retryTimes = d.retryTimes + 1]
           reset == [s EXCEPT !.retryTimes = 0]
<1>1. OnError(s) \in {feedback(s, FALSE), feedback(reset, FALSE), retried}
  BY DEF OnError
<1>2. Typed(d)
  BY downloadTyped
<1> HIDE DEF d
<1>3. retried.retryTimes # 0
  <2>1. d.retryTimes \in Nat /\ retried.retryTimes = d.retryTimes + 1
    BY <1>2 DEF Typed, Server
  <2> HIDE DEF retried
  <2> QED
    BY <2>1
<1> HIDE DEF retried
<1>4. Typed(reset) /\ Twin(s, reset)
  <2>1. PICK S \in SUBSET Names : s \in Server(S)
    BY DEF Typed
  <2>2. 0 \in 0..RetryTimes
    BY ServerAssumption
  <2>3. reset \in Server(S)
    BY <2>1, <2>2 DEF Server
  <2>4. Twin(s, reset)
    BY <2>1 DEF Server, Twin
  <2> QED
    BY <2>3, <2>4 DEF Typed
<1> HIDE DEF reset
<1>5. Leads(s, reset, E) /\ Leads(reset, feedback(reset, FALSE), E)
      /\ Leads(s, feedback(s, FALSE), E)
  BY <1>4, TwinLeads, feedbackLeads
<1>6. Leads(s, feedback(reset, FALSE), E)
  BY <1>5, LeadsLeads
<1> QED
  BY <1>1, <1>3, <1>5, <1>6

\* A heartbeat: the server repeats its control to whoever introduces itself, and learns
\* of the sender.
Hears(s, r, msg) ==
    /\ Typed(r) /\ Marks(r) \subseteq Marks(s)
    /\ Broadcasts(r) \subseteq
         Broadcasts(s) \cup (IF msg.discovery THEN Marked \cap {s.control} ELSE {})
    /\ Waiters(r) \subseteq
         Waiters(s) \cup (IF msg.report.state = "WR_WAIT" THEN {msg.name} ELSE {})
    /\ Met(r) \subseteq Met(s) \cup {msg.name} /\ Members(r) = Members(s)
    /\ r.state = s.state /\ r.posted = s.posted
    /\ r.hasNewId = s.hasNewId /\ r.lastlId = s.lastlId /\ r.cacheState = s.cacheState

\* Whatever the heartbeat says.
LEMMA HeardHears ==
    ASSUME NEW s, Typed(s), NEW msg \in Messages
    PROVE  Hears(s, Heard(s, msg), msg)
<1> DEFINE known == msg.name \in Members(s)
           subscribed == [s EXCEPT !.detailSubscribed = @ \/ msg.watcher]
           resent == IF msg.discovery /\ (known \/ msg.watcher)
                     THEN resendControlMessage(subscribed) ELSE subscribed
           heard == [resent EXCEPT !.details[msg.name] = Updated(@, msg.report)]
           r == Heard(s, msg)
           E == IF msg.discovery THEN Marked \cap {s.control} ELSE {}
<1>1. PICK S \in SUBSET Names : s \in Server(S)
  BY DEF Typed
<1>2. Typed(r)
  BY HeardTyped
<1>3. Typed(subscribed) /\ Twin(s, subscribed)
  <2>1. subscribed \in Server(S)
    BY <1>1, ZenonT(60) DEF Server
  <2>2. Twin(s, subscribed)
    BY <1>1 DEF Server, Twin
  <2> QED
    BY <2>1, <2>2 DEF Typed
<1>4. r = IF known THEN heard ELSE resent
  BY DEF Heard
<1> HIDE DEF subscribed, r
<1>5. Leads(s, subscribed, E)
  BY <1>3, TwinLeads
<1>6. /\ Leads(subscribed, resent, E) /\ resent.state = s.state /\ resent.posted = s.posted
      /\ resent.control = s.control /\ resent.details = s.details
  <2>1. CASE ~(msg.discovery /\ (known \/ msg.watcher))
    BY <1>3, <2>1, SelfLeads DEF Twin
  <2>2. CASE msg.discovery /\ (known \/ msg.watcher)
    <3>1. resent = resendControlMessage(subscribed)
      BY <2>2
    <3>2. subscribed.control \in Marked => subscribed.control \in E
      BY <1>3, <2>2 DEF Twin
    <3> HIDE DEF resent, E
    <3>3. Leads(subscribed, resent, E)
      BY <1>3, <3>1, <3>2, resendControlLeads
    <3>4. /\ resent.state = subscribed.state /\ resent.control = subscribed.control
          /\ resent.details = subscribed.details
      BY <1>3, <3>1, resendControlEffect
    <3>5. resent.posted = subscribed.posted
      BY <1>3, <3>1 DEF resendControlMessage, Typed, Server
    <3> QED
      BY <1>3, <3>3, <3>4, <3>5 DEF Twin
  <2> QED
    BY <2>1, <2>2
<1> HIDE DEF resent
<1>7. Leads(s, resent, E)
  BY <1>5, <1>6, LeadsLeads
<1>8. /\ heard.state = resent.state /\ heard.posted = resent.posted /\ heard.sent = resent.sent
      /\ heard.control = resent.control /\ heard.hasNewId = resent.hasNewId
      /\ heard.lastlId = resent.lastlId /\ heard.cacheState = resent.cacheState
      /\ DOMAIN heard.details = DOMAIN resent.details
      /\ \A n \in DOMAIN resent.details : n # msg.name => heard.details[n] = resent.details[n]
      /\ msg.name \in DOMAIN resent.details =>
           heard.details[msg.name].state = msg.report.state
  BY <1>7 DEF Leads, Typed, Server, Updated
<1> HIDE DEF heard
<1>9. /\ r.state = resent.state /\ r.posted = resent.posted /\ r.sent = resent.sent
      /\ r.control = resent.control /\ r.hasNewId = resent.hasNewId
      /\ r.lastlId = resent.lastlId /\ r.cacheState = resent.cacheState
      /\ Members(r) = Members(s)
      /\ \A n \in Members(s) : n # msg.name => r.details[n] = s.details[n]
      /\ msg.name \in Members(s) => r.details[msg.name].state = msg.report.state
  BY <1>4, <1>6, <1>8 DEF Members
<1>10. Marks(r) = Marks(resent) /\ Broadcasts(r) = Broadcasts(resent)
  BY <1>9 DEF Marks, Broadcasts
<1>11. Marked \cap {s.control} \subseteq Marks(s) /\ Broadcasts(s) \cup E = Broadcasts(s) \cup E
  BY DEF Marks
<1>12. Marks(r) \subseteq Marks(s) /\ Broadcasts(r) \subseteq Broadcasts(s) \cup E
  BY <1>7, <1>10, <1>11 DEF Leads
<1>13. /\ Waiters(r) \subseteq
            Waiters(s) \cup (IF msg.report.state = "WR_WAIT" THEN {msg.name} ELSE {})
       /\ Met(r) \subseteq Met(s) \cup {msg.name}
  BY <1>9 DEF Waiters, Met
<1> QED
  BY <1>2, <1>6, <1>7, <1>9, <1>12, <1>13 DEF Hears, Leads, r

\* Who is not of the upgrade and does not introduce itself leads to nothing.
LEMMA HeardLeads ==
    ASSUME NEW s, Typed(s), NEW msg \in Messages, ~msg.discovery, msg.name \notin Members(s),
           NEW E
    PROVE  Leads(s, Heard(s, msg), E) /\ Heard(s, msg).state = s.state
<1>1. Hears(s, Heard(s, msg), msg)
  BY HeardHears
<1> DEFINE r == Heard(s, msg)
<1> HIDE DEF r
<1>2. Hears(s, r, msg)
  BY <1>1 DEF r
<1>3. Waiters(r) \subseteq Waiters(s) /\ Met(r) \subseteq Met(s)
  BY <1>2 DEF Hears, Waiters, Met
<1>4. Leads(s, r, E) /\ r.state = s.state
  BY <1>2, <1>3 DEF Hears, Leads
<1> QED
  BY <1>4 DEF r

-----------------------------------------------------------------------------
(* What the tick leads to.                                                 *)

\* What is put behind a sequence.
LEMMA Joined ==
    ASSUME NEW S, NEW T, NEW a \in Seq(S), NEW b \in Seq(T)
    PROVE  \A i \in DOMAIN (a \o b) : \/ i \in DOMAIN a /\ (a \o b)[i] = a[i]
                                      \/ \E j \in DOMAIN b : (a \o b)[i] = b[j]
<1> SUFFICES ASSUME NEW i \in DOMAIN (a \o b), i \notin DOMAIN a
             PROVE  \E j \in DOMAIN b : (a \o b)[i] = b[j]
  OBVIOUS
<1>1. i - Len(a) \in DOMAIN b /\ (a \o b)[i] = b[i - Len(a)]
  OBVIOUS
<1> QED
  BY <1>1

\* Its loop: those who deploy are told of each that has finished.
LEMMA LoopedLeads ==
    ASSUME NEW s, Typed(s), NEW silent \in SUBSET Members(s), NEW overdue \in SUBSET Members(s),
           NEW E, s.control = "CTL_DEPLOY" => "CTL_DEPLOY" \in E
    PROVE  Leads(s, Looped(s, silent, overdue), E)
<1> DEFINE started == Started(s, silent, overdue)
           finishing == Finishing(s, silent, overdue)
           visited == Visited(s, silent, overdue)
           count == IF s.control = "CTL_DEPLOY" THEN Cardinality(finishing) ELSE 0
           resends == 1..count
           body(n) == IF n \in visited THEN Seen(s, silent)[n] ELSE s.details[n]
           details == [n \in Members(s) |->
              [body(n) EXCEPT !.deploy = (@ /\ n \notin finishing) \/ started[n]]]
           depends == DependsAt(s, silent, overdue, started, Members(s))
           resent == [i \in resends |-> Resent(s, silent, overdue, started, i)]
           feed == Feed(s, "TP_DEPLOY", "EXE_SCHEDULED", "RS_SUCCESS")
           feeds == [i \in resends |-> feed]
           sent == s.sent \o resent
           posted == s.posted \o feeds
           r == Looped(s, silent, overdue)
<1>1. PICK S \in SUBSET Names : s \in Server(S)
  BY DEF Typed
<1>2. Members(s) = S /\ s.details \in [S -> Detail]
  BY <1>1, MembersTyped DEF Server
<1>3. Typed(r)
  BY <1>1, <1>2, LoopedTyped DEF Typed
<1>4. r = [s EXCEPT !.details = details, !.depends = depends, !.sent = sent,
                    !.posted = posted]
  BY DEF Looped
<1>5. DOMAIN details = Members(s)
  OBVIOUS
<1>6. ASSUME NEW n \in Members(s)
      PROVE  /\ details[n].version = s.details[n].version
             /\ details[n].state = "WR_WAIT" => s.details[n].state = "WR_WAIT"
  <2>1. s.details[n] \in Detail
    BY <1>2
  <2>2. /\ Seen(s, silent)[n] \in Detail /\ Seen(s, silent)[n].version = s.details[n].version
        /\ Seen(s, silent)[n].state = "WR_WAIT" => s.details[n].state = "WR_WAIT"
    <3>1. Seen(s, silent)[n] \in Detail
      BY <1>1, <1>2, SeenTyped
    <3>2. /\ Seen(s, silent)[n].version = s.details[n].version
          /\ Seen(s, silent)[n].state = "WR_WAIT" => s.details[n].state = "WR_WAIT"
      BY <2>1 DEF Seen, Detail
    <3> QED
      BY <3>1, <3>2
  <2>3. /\ body(n) \in Detail /\ body(n).version = s.details[n].version
        /\ body(n).state = "WR_WAIT" => s.details[n].state = "WR_WAIT"
    BY <2>1, <2>2
  <2> HIDE DEF body, started, finishing
  <2>4. details[n] = [body(n) EXCEPT !.deploy = (@ /\ n \notin finishing) \/ started[n]]
    OBVIOUS
  <2> HIDE DEF details
  <2> QED
    BY <2>3, <2>4 DEF Detail
<1>7. count \in Nat /\ (count # 0 => s.control = "CTL_DEPLOY")
  BY <1>1, FinishingFinite
<1>8. /\ s.sent \in Seq(Broadcast) /\ s.posted \in Seq(WebEvent)
  BY <1>1 DEF Server
<1>9. \A i \in resends : Resent(s, silent, overdue, started, i).control = "CTL_DEPLOY"
  BY DEF Resent, ControlMessage
<1>10. feed.req = "REQ_FEEDBACK"
  BY DEF Feed
<1> HIDE DEF details, depends, feed, count, started
<1>11. /\ resent \in Seq({Resent(s, silent, overdue, started, i) : i \in resends})
       /\ feeds \in Seq({feed})
  BY <1>7
<1>12. \A i \in DOMAIN resent : resent[i].control \in E
  <2>1. \A i \in DOMAIN resent : resent[i].control = "CTL_DEPLOY" /\ count # 0
    BY <1>7, <1>9
  <2> QED
    BY <1>7, <2>1
<1>13. \A i \in DOMAIN feeds : feeds[i].req = "REQ_FEEDBACK"
  BY <1>10
<1> HIDE DEF resent, feeds
<1>14. /\ \A i \in DOMAIN sent : \/ i \in DOMAIN s.sent /\ sent[i] = s.sent[i]
                                 \/ \E j \in DOMAIN resent : sent[i] = resent[j]
       /\ \A i \in DOMAIN posted : \/ i \in DOMAIN s.posted /\ posted[i] = s.posted[i]
                                   \/ \E j \in DOMAIN feeds : posted[i] = feeds[j]
  BY <1>8, <1>11, Joined
<1> HIDE DEF sent, posted, r
<1>15. /\ r.details = details /\ r.sent = sent /\ r.posted = posted /\ r.state = s.state
       /\ r.control = s.control
       /\ r.hasNewId = s.hasNewId /\ r.lastlId = s.lastlId /\ r.cacheState = s.cacheState
  BY <1>1, <1>4 DEF Server
<1>16. Broadcasts(r) \subseteq Broadcasts(s) \cup E
  BY <1>12, <1>14, <1>15 DEF Broadcasts
<1>17. Marks(r) \subseteq Marks(s) \cup E
  <2>1. "REQ_FEEDBACK" \notin Marked
    BY DEF Marked, Gathering, PreparingTask, DeployMarks
  <2> QED
    BY <1>13, <1>14, <1>15, <2>1 DEF Marks
<1>18. Waiters(r) \subseteq Waiters(s) /\ Met(r) \subseteq Met(s)
  BY <1>5, <1>6, <1>15 DEF Waiters, Met, Members
<1>19. Leads(s, r, E)
  BY <1>3, <1>15, <1>16, <1>17, <1>18 DEF Leads
<1> QED
  BY <1>19 DEF r

\* What follows the loop.
LEMMA GatheredLeads ==
    ASSUME NEW s, Typed(s), NEW vaild \in BOOLEAN, NEW E,
           s.hasNewId, s.cacheState = "MR_UNKNOWN",
           s.state \in Gathering => {"MR_PENDING", "MR_READY"} \subseteq E,
           vaild => {"REQ_DOWNLOAD", "MR_DOWNLOAD_ASK"} \subseteq E
    PROVE  Leads(s, Gathered(s, vaild), E)
<1>1. /\ "MR_READY" \in ServerState /\ "MR_DOWNLOAD_ASK" \in ServerState
      /\ "MR_PENDING" \in ServerState
      /\ "MR_PENDING" \in Gathering /\ "MR_DOWNLOAD_ASK" \in Gathering
  BY DEF ServerState, Gathering
<1>2. \/ Gathered(s, vaild) = s
      \/ s.state = "MR_PENDING" /\ Gathered(s, vaild) = setState(s, "MR_READY")
      \/ vaild /\ Gathered(s, vaild) \in {download(s), setState(s, "MR_DOWNLOAD_ASK")}
      \/ s.state = "MR_DOWNLOAD_ASK" /\ Gathered(s, vaild) = setState(s, "MR_PENDING")
  BY DEF Gathered
<1> QED
  BY <1>1, <1>2, SelfLeads, setStateLeads, downloadLeads

\* What the tick does when it has been through the details.
LEMMA WaitedLeads ==
    ASSUME NEW s, Typed(s), NEW waiting \in BOOLEAN, NEW E, waiting => DeployMarks \subseteq E
    PROVE  Leads(s, Waited(s, waiting), E)
<1>1. /\ "MR_DEPLOY_ASK" \in ServerState /\ "MR_WAIT" \in ServerState
      /\ "MR_WAIT" \notin Marked
      /\ DeployMarks = {"CTL_DEPLOY", "MR_DEPLOY", "MR_DEPLOY_ASK"}
  BY DEF ServerState, Marked, Gathering, PreparingTask, DeployMarks
<1>2. \/ Waited(s, waiting) = s
      \/ waiting /\ Waited(s, waiting) \in {deploy(s), setState(s, "MR_DEPLOY_ASK")}
      \/ Waited(s, waiting) = setState(s, "MR_WAIT")
  BY DEF Waited
<1> QED
  BY <1>1, <1>2, SelfLeads, setStateLeads, deployLeads

\* The whole tick.
LEMMA processDomainsLeads ==
    ASSUME NEW s, Typed(s), NEW late \in BOOLEAN,
           NEW silent \in SUBSET Members(s), NEW overdue \in SUBSET Members(s), NEW E,
           s.hasNewId, s.cacheState = "MR_UNKNOWN",
           s.control = "CTL_DEPLOY" => "CTL_DEPLOY" \in E,
           s.state \in Gathering => {"MR_PENDING", "MR_READY"} \subseteq E,
           AllVaild(s, silent) => {"REQ_DOWNLOAD", "MR_DOWNLOAD_ASK"} \subseteq E,
           AllWaiting(s, silent) => DeployMarks \subseteq E
    PROVE  Leads(s, processDomains(s, late, silent, overdue), E)
<1> DEFINE looped == Looped(s, silent, overdue)
           vaild == AllVaild(s, silent)
           waiting == AllWaiting(s, silent)
           gathered == Gathered(looped, vaild)
           waited == Waited(gathered, waiting)
<1>1. vaild \in BOOLEAN /\ waiting \in BOOLEAN
  BY DEF AllVaild, AllWaiting
<1>2. processDomains(s, late, silent, overdue) \in
        {feedback(s, FALSE), feedback(looped, FALSE), feedback(gathered, TRUE),
         feedback(waited, TRUE), feedback(waited, FALSE), waited}
  BY DEF processDomains
<1>3. Leads(s, looped, E) /\ looped.state = s.state
  BY LoopedLeads, LoopedNear DEF Near
<1>4. /\ vaild => {"REQ_DOWNLOAD", "MR_DOWNLOAD_ASK"} \subseteq E
      /\ waiting => DeployMarks \subseteq E
  OBVIOUS
<1> HIDE DEF looped, vaild, waiting
<1>5. Leads(looped, gathered, E)
  BY <1>1, <1>3, <1>4, GatheredLeads DEF Leads
<1> HIDE DEF gathered
<1>6. Leads(s, gathered, E)
  BY <1>3, <1>5, LeadsLeads
<1>7. Leads(gathered, waited, E)
  BY <1>1, <1>4, <1>6, WaitedLeads DEF Leads
<1> HIDE DEF waited
<1>8. Leads(s, waited, E)
  BY <1>6, <1>7, LeadsLeads
<1>9. ASSUME NEW t, Leads(s, t, E), NEW result \in BOOLEAN
      PROVE  Leads(s, feedback(t, result), E)
  <2>1. Leads(t, feedback(t, result), E)
    BY <1>9, feedbackLeads DEF Leads
  <2> QED
    BY <1>9, <2>1, LeadsLeads
<1>10. Leads(s, s, E)
  BY SelfLeads
<1> QED
  BY <1>2, <1>3, <1>6, <1>8, <1>9, <1>10

\* The first upgrade that is offered.
Taking(s, r) ==
    /\ Typed(r) /\ Marks(r) \subseteq Marks(s) \cup {"MR_PENDING"}
    /\ Broadcasts(r) \subseteq Broadcasts(s) \cup {"MR_PENDING"}
    /\ Waiters(r) = {} /\ Met(r) = {}
    /\ r.hasNewId /\ r.cacheState = s.cacheState

\* No controller has said anything of an upgrade that is new.
LEMMA OnUpgradeTaking ==
    ASSUME NEW s, Typed(s), NEW upgrade \in Upgrades, s.state = "MR_IDLE",
           s.lastlId # upgrade.id
    PROVE  Taking(s, OnUpgrade(s, upgrade))
<1> DEFINE again == ~TRUE /\ s.lastCancelId = upgrade.id
           breaked == s.hasDeployBreaked /\ ~TRUE
           taken == [s EXCEPT !.hasFeed = FALSE, !.feedType = "TP_DEPLOY",
                              !.hasNewId = TRUE, !.upgrade = upgrade,
                              !.cancelResume = again, !.lastlId = upgrade.id,
                              !.hasDeployBreaked = breaked]
           packages == taken.upgrade.packages
           details == [n \in packages |-> NewDetail]
           cleared == [taken EXCEPT !.errorCode = 0, !.depends = packages,
                                    !.details = details]
           told == sendControlMessage(cleared, "CTL_RESET")
           E == {"MR_PENDING"}
<1>1. PICK S \in SUBSET Names : s \in Server(S)
  BY DEF Typed
<1>2. OnUpgrade(s, upgrade) = pending(taken)
  <2>1. (s.lastlId # upgrade.id) = TRUE
    OBVIOUS
  <2> QED
    BY <2>1 DEF OnUpgrade, FinalAsk
<1>3. pending(taken) = setState(told, "MR_PENDING")
  BY DEF pending
<1>4. Typed(taken) /\ taken \in Server(S)
  <2>1. upgrade \in Current /\ upgrade.id \in Ids \cup {NoId}
    BY ServerAssumption DEF Current
  <2>2. again \in BOOLEAN /\ breaked \in BOOLEAN
    OBVIOUS
  <2> HIDE DEF again, breaked
  <2>3. taken \in Server(S)
    BY <1>1, <2>1, <2>2, ZenonT(60) DEF Server, FeedType
  <2> QED
    BY <2>3 DEF Typed
<1>5. /\ taken.control = s.control /\ taken.state = s.state /\ taken.posted = s.posted
      /\ taken.sent = s.sent /\ taken.hasNewId = TRUE /\ taken.cacheState = s.cacheState
  BY <1>1 DEF Server
<1> HIDE DEF taken
<1>6. packages \in SUBSET Names
  BY <1>4, UpgradeTyped DEF Upgrade
<1>7. details \in [packages -> Detail]
  <2>1. NewDetail \in Detail
    BY DEF NewDetail, Detail, ClientState, Version
  <2> QED
    BY <2>1
<1>8. \A n \in DOMAIN details : details[n].version = "empty" /\ details[n].state # "WR_WAIT"
  BY DEF NewDetail
<1> HIDE DEF packages, details
<1>9. cleared \in Server(packages)
  BY <1>4, <1>6, <1>7 DEF Server
<1>10. /\ cleared.control = s.control /\ cleared.state = s.state /\ cleared.posted = s.posted
       /\ cleared.sent = s.sent /\ cleared.hasNewId = TRUE
       /\ cleared.cacheState = s.cacheState /\ cleared.details = details
  BY <1>4, <1>5 DEF Server
<1>11. Typed(cleared)
  BY <1>6, <1>9 DEF Typed
<1> HIDE DEF cleared
<1>12. /\ Marks(cleared) = Marks(s) /\ Broadcasts(cleared) = Broadcasts(s)
       /\ Waiters(cleared) = {} /\ Met(cleared) = {}
  BY <1>8, <1>10 DEF Marks, Broadcasts, Waiters, Met, Members
<1>13. "CTL_RESET" \in Control /\ "CTL_RESET" \notin Marked /\ "MR_PENDING" \in ServerState
  BY DEF Control, ServerState, Marked, Gathering, PreparingTask, DeployMarks
<1>14. Leads(cleared, told, E)
  BY <1>11, <1>13, sendControlLeads
<1> HIDE DEF told
<1>15. Leads(told, setState(told, "MR_PENDING"), E)
  BY <1>13, <1>14, setStateLeads DEF Leads
<1>16. Leads(cleared, OnUpgrade(s, upgrade), E)
  BY <1>2, <1>3, <1>14, <1>15, LeadsLeads
<1> QED
  BY <1>10, <1>12, <1>16 DEF Leads, Taking

\* What a handler is given.
LEMMA FreshLeads ==
    ASSUME Typed(srv)
    PROVE  LET s == Fresh(srv)
           IN /\ Typed(s) /\ Marks(s) = Marked \cap {srv.control, srv.state}
              /\ Broadcasts(s) = {} /\ Waiters(s) = Waiters(srv) /\ Met(s) = Met(srv)
              /\ s.hasNewId = srv.hasNewId /\ s.lastlId = srv.lastlId
              /\ s.cacheState = srv.cacheState
              /\ s.state = srv.state /\ s.control = srv.control
              /\ s.posted = <<>> /\ s.sent = <<>> /\ s.details = srv.details
<1> DEFINE s == Fresh(srv)
<1>1. Typed(s)
  BY FreshTyped
<1>2. /\ s.hasNewId = srv.hasNewId /\ s.lastlId = srv.lastlId
      /\ s.cacheState = srv.cacheState
      /\ s.state = srv.state /\ s.control = srv.control
      /\ s.posted = <<>> /\ s.sent = <<>> /\ s.details = srv.details
  BY DEF Typed, Server, Fresh
<1> HIDE DEF s
<1>3. /\ Marks(s) = Marked \cap {srv.control, srv.state} /\ Broadcasts(s) = {}
      /\ Waiters(s) = Waiters(srv) /\ Met(s) = Met(srv)
  BY <1>2 DEF Marks, Broadcasts, Waiters, Met, Members
<1>4. /\ Typed(s) /\ Marks(s) = Marked \cap {srv.control, srv.state}
      /\ Broadcasts(s) = {} /\ Waiters(s) = Waiters(srv) /\ Met(s) = Met(srv)
      /\ s.hasNewId = srv.hasNewId /\ s.lastlId = srv.lastlId
      /\ s.cacheState = srv.cacheState
      /\ s.state = srv.state /\ s.control = srv.control
      /\ s.posted = <<>> /\ s.sent = <<>> /\ s.details = srv.details
  BY <1>1, <1>2, <1>3
<1> QED
  BY <1>4 DEF s

\* The web queue's task is what it was or what it has been asked for.
LEMMA TaskedFrom ==
    ASSUME NEW task, NEW posted \in Seq(WebEvent)
    PROVE  Tasked(task, posted) \in {task} \cup {posted[i].req : i \in DOMAIN posted}
<1> DEFINE requests == {i \in DOMAIN posted : posted[i].req # "REQ_FEEDBACK"}
           last == CHOOSE i \in requests : \A j \in requests : j <= i
<1>1. Tasked(task, posted) = IF requests = {} THEN task ELSE posted[last].req
  BY DEF Tasked
<1>2. requests \in SUBSET (1..Len(posted)) /\ Len(posted) \in Nat
  OBVIOUS
<1>3. ASSUME requests # {}
      PROVE  last \in DOMAIN posted
  <2>1. requests \subseteq DOMAIN posted
    OBVIOUS
  <2> HIDE DEF requests
  <2>2. last \in requests
    BY <1>2, <1>3, Greatest
  <2> QED
    BY <2>1, <2>2
<1> QED
  BY <1>1, <1>3

-----------------------------------------------------------------------------
(* The invariant: how far the upgrade is, and what this says of everybody. *)

\* The marks of the phase.
Shown == Marked \cap {srv.control, srv.state, web}

\* Those that all controllers have been met for.
Settling == {"CTL_DOWNLOAD", "CTL_DEPLOY", "distributing", "MR_DOWNLOAD_ASK", "MR_DEPLOY",
             "MR_DEPLOY_ASK"} \cup PreparingTask

\* Those of the time before the controllers are told to download.
Beginning == Gathering \cup PreparingTask

\* n has a connection, and nothing it has said introduces itself.
Settled(n) == /\ clients[n].online /\ ~clients[n].needDiscovery
              /\ \A i \in DOMAIN wire[n] : ~wire[n][i].discovery

\* Its wait has been or will be heard.
Awaiting(n) == n \in Waiters(srv) \/ \E i \in DOMAIN wire[n] : wire[n][i].state = "WR_WAIT"

\* Before the controllers are told to download; and when they are told to deploy.
Early == offered = {} \/ Shown \cap Beginning # {}
Late == Shown \cap DeployMarks # {} \/ \E n \in Controllers : Deploys(clients[n])

\* The server resumes nothing and knows no upgrade before the first is offered.
Anew == /\ "MR_RESUME_ASK" \notin Shown /\ srv.cacheState = "MR_UNKNOWN"
        /\ offered \subseteq {v.id : v \in Upgrades}
        /\ offered = {} => srv.state = "MR_IDLE" /\ web = "REQ_STOP" /\ srv.lastlId = NoId
        /\ offered # {} => srv.hasNewId

\* A controller introduces itself once, before anything else; what it says of itself when
\* it waits is that it has nothing to prepare any more.
Spoken(n) == /\ Orderly(clients[n]) /\ Speaks(clients[n])
             /\ wire[n] # <<>> => clients[n].online /\ ~clients[n].needDiscovery
             /\ \A i \in DOMAIN wire[n] : wire[n][i].discovery => i = 1
             /\ n \in Met(srv) => Settled(n)
             /\ Awaiting(n) => None(clients[n])

\* What each phase says of everybody.
Phased == /\ Shown \cap Settling # {} => \A n \in Controllers : Settled(n)
          /\ Early => \A n \in Controllers :
                        None(clients[n]) /\ ~Waits(clients[n]) /\ ~Awaiting(n)
          /\ Late => ~Early /\ \A n \in Controllers : None(clients[n])

\* The invariant.
OInv == Anew /\ (\A n \in Controllers : Spoken(n)) /\ Phased

\* What marks a step of the server may add.
Allowed(E) ==
    /\ "MR_RESUME_ASK" \notin E
    /\ E \cap Settling # {} => \A n \in Controllers : Settled(n)
    /\ E \cap DeployMarks # {} => ~Early /\ \A n \in Controllers : None(clients[n])
    /\ E \cap Beginning # {} => Early

-----------------------------------------------------------------------------
(* The steps of the server keep it.                                        *)

\* A step of the server shows what it has marked.
LEMMA Shows ==
    ASSUME NEW E, Marks(srv') \subseteq Shown \cup E,
           web' \in {web, "REQ_STOP"} \cup {srv'.posted[i].req : i \in DOMAIN srv'.posted}
    PROVE  Shown' \subseteq Shown \cup E
<1>1. "REQ_STOP" \notin Marked
  BY DEF Marked, Gathering, PreparingTask, DeployMarks
<1>2. Shown' = Marked \cap {srv'.control, srv'.state, web'}
  BY DEF Shown
<1>3. Marked \cap {web} \subseteq Shown
  BY DEF Shown
<1>4. Marked \cap {srv'.control, srv'.state} \subseteq Marks(srv')
  BY DEF Marks
<1>5. Marked \cap {srv'.posted[i].req : i \in DOMAIN srv'.posted} \subseteq Marks(srv')
  BY DEF Marks
<1> QED
  BY <1>1, <1>2, <1>3, <1>4, <1>5

\* What such a step does to controller n and its wire.
Guided(n, E) ==
    /\ clients'[n].online = clients[n].online /\ clients'[n].sent = clients[n].sent
    /\ clients'[n].needDiscovery = clients[n].needDiscovery
    /\ clients'[n].state = clients[n].state
    /\ Orderly(clients'[n])
    /\ Deploys(clients'[n]) => Deploys(clients[n]) \/ "CTL_DEPLOY" \in E
    /\ (~Early \/ Early') /\ None(clients[n]) => None(clients'[n])
    /\ wire'[n] = wire[n] \/ (wire[n] # <<>> /\ wire'[n] = Tail(wire[n]))
    /\ n \in Waiters(srv') => Awaiting(n)
    /\ n \in Met(srv') => n \in Met(srv) \/ (wire[n] # <<>> /\ wire'[n] = Tail(wire[n]))

\* The wire holds no more than before.
LEMMA WireGuided ==
    ASSUME RInv, NEW n \in Controllers, NEW E, Guided(n, E), Spoken(n)
    PROVE  /\ wire'[n] # <<>> => wire[n] # <<>>
           /\ \A i \in DOMAIN wire'[n] : \E j \in DOMAIN wire[n] : wire'[n][i] = wire[n][j]
           /\ \A i \in DOMAIN wire'[n] : wire'[n][i].discovery => i = 1
           /\ wire[n] # <<>> /\ wire'[n] = Tail(wire[n])
              => \A i \in DOMAIN wire'[n] : ~wire'[n][i].discovery
<1>1. wire[n] \in Seq(Client(n)!Heartbeat)
  BY DEF RInv, Underway
<1>2. \A i \in DOMAIN wire[n] : wire[n][i].discovery => i = 1
  BY DEF Spoken
<1>3. CASE wire'[n] = wire[n] /\ ~(wire[n] # <<>> /\ wire'[n] = Tail(wire[n]))
  BY <1>2, <1>3
<1>4. CASE wire[n] # <<>> /\ wire'[n] = Tail(wire[n])
  <2>1. \A i \in DOMAIN Tail(wire[n]) : /\ i + 1 \in DOMAIN wire[n] /\ i + 1 # 1
                                        /\ Tail(wire[n])[i] = wire[n][i + 1]
    BY <1>1, <1>4
  <2>2. \A i \in DOMAIN wire'[n] : ~wire'[n][i].discovery
    BY <1>2, <1>4, <2>1
  <2>3. \A i \in DOMAIN wire'[n] : \E j \in DOMAIN wire[n] : wire'[n][i] = wire[n][j]
    BY <1>4, <2>1
  <2> QED
    BY <1>4, <2>2, <2>3
<1> QED
  BY <1>3, <1>4 DEF Guided

\* Such a step keeps what is said of a controller,
LEMMA SpokenGuided ==
    ASSUME RInv, OInv, NEW n \in Controllers, NEW E, Guided(n, E)
    PROVE  /\ Spoken(n)' /\ (Settled(n) => Settled(n)') /\ (Awaiting(n)' => Awaiting(n))
           /\ (Waits(clients'[n]) => Waits(clients[n]))
<1> DEFINE c == clients[n]
           d == clients'[n]
<1>1. Spoken(n) /\ (Early => ~Awaiting(n))
  BY DEF OInv, Phased
<1>2. /\ wire'[n] # <<>> => wire[n] # <<>>
      /\ \A i \in DOMAIN wire'[n] : \E j \in DOMAIN wire[n] : wire'[n][i] = wire[n][j]
      /\ \A i \in DOMAIN wire'[n] : wire'[n][i].discovery => i = 1
      /\ wire[n] # <<>> /\ wire'[n] = Tail(wire[n])
         => \A i \in DOMAIN wire'[n] : ~wire'[n][i].discovery
  BY <1>1, WireGuided
<1>3. /\ d.online = c.online /\ d.sent = c.sent /\ d.needDiscovery = c.needDiscovery
      /\ d.state = c.state
  BY DEF Guided
<1>4. Speaks(d) /\ (Waits(d) => Waits(c))
  BY <1>1, <1>3 DEF Spoken, Speaks, Waits
<1>5. wire'[n] # <<>> => d.online /\ ~d.needDiscovery
  BY <1>1, <1>2, <1>3 DEF Spoken
<1>6. Settled(n) => Settled(n)'
  BY <1>2, <1>3 DEF Settled
<1>7. wire[n] # <<>> /\ wire'[n] = Tail(wire[n]) => Settled(n)'
  BY <1>1, <1>2, <1>3 DEF Settled, Spoken
<1>8. n \in Met(srv') => Settled(n)'
  BY <1>1, <1>6, <1>7 DEF Guided, Spoken
<1>9. Awaiting(n)' => Awaiting(n)
  <2>1. Awaiting(n)' <=> n \in Waiters(srv')
                         \/ \E i \in DOMAIN wire'[n] : wire'[n][i].state = "WR_WAIT"
    BY DEF Awaiting
  <2>2. (\E i \in DOMAIN wire'[n] : wire'[n][i].state = "WR_WAIT") => Awaiting(n)
    BY <1>2 DEF Awaiting
  <2> QED
    BY <2>1, <2>2 DEF Guided
<1>10. Awaiting(n)' => None(d)
  BY <1>1, <1>9 DEF Spoken, Guided
<1>11. Orderly(d)
  BY DEF Guided
<1> QED
  BY <1>2, <1>4, <1>5, <1>6, <1>8, <1>9, <1>10, <1>11 DEF Spoken

\* and of all of them.
LEMMA OrderGuided ==
    ASSUME RInv, OInv, NEW E, Allowed(E), Shown' \subseteq Shown \cup E,
           offered' = {} => offered = {},
           \A n \in Controllers : Guided(n, E)
    PROVE  (\A n \in Controllers : Spoken(n)') /\ Phased'
<1>1. \A n \in Controllers :
        /\ Spoken(n)' /\ (Settled(n) => Settled(n)') /\ (Awaiting(n)' => Awaiting(n))
        /\ (Waits(clients'[n]) => Waits(clients[n]))
  BY SpokenGuided
<1>2. Phased
  BY DEF OInv
<1>3. Shown' \cap Settling # {} => \A n \in Controllers : Settled(n)'
  BY <1>1, <1>2 DEF Phased, Allowed
<1>4. Early' => Early
  <2>1. Shown' \cap Beginning # {} => Early
    BY DEF Early, Allowed
  <2> QED
    BY <2>1 DEF Early
<1>5. ASSUME Early'
      PROVE  \A n \in Controllers : None(clients'[n]) /\ ~Waits(clients'[n]) /\ ~Awaiting(n)'
  BY <1>1, <1>2, <1>4, <1>5 DEF Phased, Guided
<1>6. ASSUME Late'
      PROVE  ~Early' /\ \A n \in Controllers : None(clients'[n])
  <2>1. Late' => \/ Shown' \cap DeployMarks # {}
                 \/ \E n \in Controllers : Deploys(clients'[n])
    BY DEF Late
  <2>2. Late \/ E \cap DeployMarks # {}
    <3>1. "CTL_DEPLOY" \in DeployMarks
      BY DEF DeployMarks
    <3> QED
      BY <1>6, <2>1, <3>1 DEF Late, Guided
  <2>3. ~Early /\ \A n \in Controllers : None(clients[n])
    BY <1>2, <2>2 DEF Phased, Allowed
  <2> QED
    BY <1>4, <2>3 DEF Guided
<1>7. Phased'
  <2>1. Late' => ~Early' /\ \A n \in Controllers : None(clients[n])'
    BY <1>6
  <2>2. Early' => \A n \in Controllers :
                    None(clients[n])' /\ ~Waits(clients[n])' /\ ~Awaiting(n)'
    BY <1>5
  <2> QED
    BY <1>3, <2>1, <2>2 DEF Phased
<1> QED
  BY <1>1, <1>7

\* Unless it tells them to download, a step of the server guides every controller.
LEMMA ServedOrder ==
    ASSUME RInv, OInv, NEW next, ServerStep(next), Typed(next),
           NEW E, Allowed(E), "CTL_DOWNLOAD" \notin E,
           Marks(next) \subseteq Shown \cup E, Broadcasts(next) \subseteq E,
           web' \in {web, "REQ_STOP"} \cup {next.posted[i].req : i \in DOMAIN next.posted},
           offered' = {} => offered = {},
           \A n \in Controllers :
             /\ wire'[n] = wire[n] \/ (wire[n] # <<>> /\ wire'[n] = Tail(wire[n]))
             /\ n \in Waiters(next) => Awaiting(n)
             /\ n \in Met(next) =>
                  n \in Met(srv) \/ (wire[n] # <<>> /\ wire'[n] = Tail(wire[n]))
    PROVE  (\A n \in Controllers : Spoken(n)') /\ Phased' /\ Shown' \subseteq Shown \cup E
<1> DEFINE sent == next.sent
<1>1. srv' = next /\ clients' = [n \in Controllers |-> Delivered(n, sent)]
  BY DEF ServerStep
<1>2. Shown' \subseteq Shown \cup E
  BY <1>1, Shows
<1>3. sent \in Seq(Broadcast)
  BY DEF Typed, Server
<1>4. /\ \A i \in DOMAIN sent : sent[i].control # "CTL_DOWNLOAD"
      /\ (\E i \in DOMAIN sent : sent[i].control = "CTL_DEPLOY") => "CTL_DEPLOY" \in E
  <2>1. "CTL_DOWNLOAD" \in Marked /\ "CTL_DEPLOY" \in Marked
    BY DEF Marked, DeployMarks
  <2> QED
    BY <2>1 DEF Broadcasts
<1>5. "CTL_DEPLOY" \in E => ~Early /\ \A n \in Controllers : None(clients[n])
  BY DEF Allowed, DeployMarks
<1> HIDE DEF sent
<1>6. ASSUME NEW n \in Controllers
      PROVE  Guided(n, E)
  <2> DEFINE c == clients[n]
             d == clients'[n]
  <2>1. Fit(n, c) /\ Orderly(c)
    BY DEF RInv, Aboard, OInv, Spoken
  <2>2. d = Delivered(n, sent)
    BY <1>1
  <2>3. Grown(c, d, sent)
    BY <1>3, <2>1, <2>2, DeliveredGrown
  <2>4. /\ Orderly(d) /\ (None(c) => None(d))
        /\ Deploys(d) => \/ Deploys(c)
                         \/ \E i \in DOMAIN sent : sent[i].control = "CTL_DEPLOY"
    BY <1>4, <1>5, <2>1, <2>3, GrownKept
  <2>5. /\ d.online = c.online /\ d.sent = c.sent /\ d.needDiscovery = c.needDiscovery
        /\ d.state = c.state
    BY <2>3 DEF Grown
  <2> QED
    BY <1>1, <1>4, <2>4, <2>5 DEF Guided
<1> QED
  BY <1>2, <1>6, OrderGuided

\* The steps of the server that hear nobody.
LEMMA LedOrder ==
    ASSUME RInv, OInv, offered # {}, NEW next, ServerStep(next),
           NEW E, Leads(Fresh(srv), next, E), Allowed(E), "CTL_DOWNLOAD" \notin E,
           wire' = wire, offered' = offered,
           NEW task \in {web, "REQ_STOP"}, web' = Tasked(task, next.posted)
    PROVE  OInv'
<1>1. Typed(srv)
  BY DEF RInv, AInv, IInv, TypeOK, Typed
<1> DEFINE s == Fresh(srv)
<1>2. /\ Marks(s) \subseteq Shown /\ Broadcasts(s) = {} /\ Waiters(s) = Waiters(srv)
      /\ Met(s) = Met(srv) /\ s.hasNewId = srv.hasNewId /\ s.cacheState = srv.cacheState
  BY <1>1, FreshLeads DEF Shown
<1> HIDE DEF s
<1>3. /\ Typed(next) /\ Marks(next) \subseteq Shown \cup E /\ Broadcasts(next) \subseteq E
      /\ Waiters(next) \subseteq Waiters(srv) /\ Met(next) \subseteq Met(srv)
      /\ next.hasNewId = srv.hasNewId /\ next.cacheState = srv.cacheState
  BY <1>2 DEF Leads, s
<1>4. web' \in {web, "REQ_STOP"} \cup {next.posted[i].req : i \in DOMAIN next.posted}
  <2>1. next.posted \in Seq(WebEvent)
    BY <1>3 DEF Typed, Server
  <2> QED
    BY <2>1, TaskedFrom
<1>5. (\A n \in Controllers : Spoken(n)') /\ Phased' /\ Shown' \subseteq Shown \cup E
  <2>1. \A n \in Controllers : n \in Waiters(next) => Awaiting(n)
    BY <1>3 DEF Awaiting
  <2> QED
    BY <1>3, <1>4, <2>1, ServedOrder
<1>6. Anew'
  <2>1. srv' = next
    BY DEF ServerStep
  <2> QED
    BY <1>3, <1>5, <2>1 DEF OInv, Anew, Allowed
<1> QED
  BY <1>5, <1>6 DEF OInv

-----------------------------------------------------------------------------
(* One by one.                                                             *)

\* Marks of the phase that is shown may be followed.
LEMMA AllowedShown ==
    ASSUME OInv, NEW m \in Shown, NEW E, "MR_RESUME_ASK" \notin E,
           m \in Settling \/ E \cap Settling = {},
           m \in Beginning \/ E \cap Beginning = {},
           m \in DeployMarks \/ E \cap DeployMarks = {}
    PROVE  Allowed(E)
  BY DEF OInv, Phased, Allowed, Early, Late

\* A cancellation marks nothing.
LEMMA WithdrawOrder ==
    ASSUME RInv, OInv, NEW id \in Ids, Withdraw(id)
    PROVE  OInv'
<1> DEFINE next == OnCancel(Fresh(srv), id)
<1>1. Leads(Fresh(srv), next, {})
  BY FreshServer, OnCancelLeads
<1>2. /\ ServerStep(next) /\ web' = Tasked(web, next.posted) /\ wire' = wire
      /\ offered' = offered /\ offered # {}
  BY DEF Withdraw, ServerStep
<1>3. Allowed({})
  BY DEF Allowed
<1> HIDE DEF next
<1> QED
  BY <1>1, <1>2, <1>3, LedOrder

\* The results of the web queue; a failure is the end, as nothing is retried.
LEMMA WebOrder ==
    ASSUME RInv, OInv, srv'.retryTimes = 0, Downloaded \/ Verified \/ Distributed \/ WebError
    PROVE  OInv'
<1> DEFINE s == Fresh(srv)
<1>1. Typed(s)
  BY FreshServer
<1>2. /\ Leads(s, OnDownloadDone(s), {"REQ_VERIFY"}) /\ Leads(s, OnVerifyDone(s), {"REQ_DISTRIBUTE"})
      /\ Leads(s, OnDistributeDone(s), {})
  <2> HIDE DEF s
  <2> QED
    BY <1>1, OnResultLeads
<1>3. OnError(s).retryTimes = 0 => Leads(s, OnError(s), {})
  <2> HIDE DEF s
  <2> QED
    BY <1>1, OnErrorLeads
<1>4. web # "REQ_STOP" => offered # {}
  BY DEF OInv, Anew
<1>5. ASSUME NEW task, NEW next, NEW E, WebResult(task, next), Leads(s, next, E), Allowed(E),
             "CTL_DOWNLOAD" \notin E, task # "REQ_STOP"
      PROVE  OInv'
  <2>1. /\ ServerStep(next) /\ web' = Tasked("REQ_STOP", next.posted) /\ wire' = wire
        /\ offered' = offered /\ offered # {}
    BY <1>4, <1>5 DEF WebResult
  <2> QED
    BY <1>5, <2>1, LedOrder
<1>6. Allowed({})
  BY DEF Allowed
<1>7. /\ web = "REQ_DOWNLOAD" => Allowed({"REQ_VERIFY"})
      /\ web = "REQ_VERIFY" => Allowed({"REQ_DISTRIBUTE"})
  <2>1. ASSUME NEW task \in PreparingTask, web = task, NEW E, E \subseteq PreparingTask
        PROVE  Allowed(E)
    <3>1. PreparingTask \cap DeployMarks = {} /\ "MR_RESUME_ASK" \notin PreparingTask
      BY DEF PreparingTask, DeployMarks
    <3>2. task \in Shown /\ task \in Settling /\ task \in Beginning
      BY <2>1 DEF Shown, Marked, Settling, Beginning
    <3> QED
      BY <2>1, <3>1, <3>2, AllowedShown
  <2> QED
    BY <2>1 DEF PreparingTask
<1>8. CASE Downloaded
  <2>1. WebResult("REQ_DOWNLOAD", OnDownloadDone(s)) /\ web = "REQ_DOWNLOAD"
    BY <1>8 DEF Downloaded, WebResult
  <2> HIDE DEF s
  <2> QED
    BY <1>2, <1>5, <1>7, <2>1
<1>9. CASE Verified
  <2>1. WebResult("REQ_VERIFY", OnVerifyDone(s)) /\ web = "REQ_VERIFY"
    BY <1>9 DEF Verified, WebResult
  <2> HIDE DEF s
  <2> QED
    BY <1>2, <1>5, <1>7, <2>1
<1>10. CASE Distributed
  <2>1. WebResult("distributing", OnDistributeDone(s))
    BY <1>10 DEF Distributed
  <2> HIDE DEF s
  <2> QED
    BY <1>2, <1>5, <1>6, <2>1
<1>11. CASE WebError
  <2>1. WebResult(web, OnError(s)) /\ web # "REQ_STOP" /\ srv' = OnError(s)
    BY <1>11 DEF WebError, WebResult, ServerStep
  <2> HIDE DEF s
  <2> QED
    BY <1>3, <1>5, <1>6, <2>1
<1> QED
  BY <1>8, <1>9, <1>10, <1>11

\* A viewer's answer.
LEMMA AnswerOrder ==
    ASSUME RInv, OInv, NEW answer \in Answers, AnswerAsked(answer)
    PROVE  OInv'
<1> DEFINE msg == [name |-> "viewer", watcher |-> TRUE, discovery |-> FALSE,
                   answer |-> answer,
                   report |-> [state |-> "WR_IDLE", last |-> "WR_OFFLINE", error |-> FALSE,
                               version |-> "older"]]
           s == Fresh(srv)
           h == Heard(s, msg)
           next == configAnswer(h, answer)
           E == (IF srv.state = "MR_DOWNLOAD_ASK" THEN {"REQ_DOWNLOAD"} ELSE {})
                \cup (IF srv.state = "MR_DEPLOY_ASK" THEN {"CTL_DEPLOY", "MR_DEPLOY"} ELSE {})
<1>1. msg \in Messages /\ "viewer" \notin Controllers
  BY RolloutAssumption DEF Message, Report, ClientState, Version, Controllers
<1>2. /\ OnDomain(s, msg) = next /\ ~msg.discovery /\ msg.name = "viewer"
  BY RolloutAssumption DEF OnDomain
<1>3. /\ ServerStep(next) /\ web' = Tasked(web, next.posted) /\ wire' = wire
      /\ offered' = offered /\ mrStateIsAsk(srv.state)
  BY <1>2 DEF AnswerAsked, ServerStep
<1> HIDE DEF msg, next
<1>4. Typed(srv) /\ Typed(s) /\ s.state = srv.state /\ s.details = srv.details
  <2>1. Typed(srv)
    BY DEF RInv, AInv, IInv, TypeOK, Typed
  <2> QED
    BY <2>1, FreshLeads
<1>5. msg.name \notin Members(s)
  <2>1. Members(srv) = srv.upgrade.packages /\ srv.upgrade \in Current
    BY DEF RInv, AInv, IInv, Sound, Matched, Members, TypeOK, Server
  <2>2. Members(srv) \subseteq Controllers
    BY <2>1 DEF Current, NoUpgrade, Controllers
  <2> QED
    BY <1>1, <1>2, <1>4, <2>2 DEF Members
<1> HIDE DEF s
<1>6. Leads(s, h, E) /\ h.state = s.state
  BY <1>1, <1>2, <1>4, <1>5, HeardLeads
<1>7. offered # {} /\ srv.state # "MR_RESUME_ASK"
  BY <1>3 DEF OInv, Anew, Shown, Marked, mrStateIsAsk
<1>8. /\ h.state = "MR_DOWNLOAD_ASK" => "REQ_DOWNLOAD" \in E
      /\ h.state = "MR_DEPLOY_ASK" => {"CTL_DEPLOY", "MR_DEPLOY"} \subseteq E
      /\ h.state # "MR_RESUME_ASK"
  BY <1>4, <1>6, <1>7
<1>9. Allowed(E)
  <2>1. CASE srv.state = "MR_DOWNLOAD_ASK"
    <3>1. E = {"REQ_DOWNLOAD"} /\ "MR_DOWNLOAD_ASK" \in Shown
      BY <2>1 DEF Shown, Marked, Gathering
    <3>2. /\ "MR_DOWNLOAD_ASK" \in Settling /\ "MR_DOWNLOAD_ASK" \in Beginning
          /\ "REQ_DOWNLOAD" \notin DeployMarks
      BY DEF Settling, Beginning, Gathering, DeployMarks
    <3> HIDE DEF E
    <3> QED
      BY <3>1, <3>2, AllowedShown
  <2>2. CASE srv.state = "MR_DEPLOY_ASK"
    <3>1. E = {"CTL_DEPLOY", "MR_DEPLOY"} /\ "MR_DEPLOY_ASK" \in Shown
      BY <2>2 DEF Shown, Marked, DeployMarks
    <3>2. /\ "MR_DEPLOY_ASK" \in Settling /\ "MR_DEPLOY_ASK" \in DeployMarks
          /\ {"CTL_DEPLOY", "MR_DEPLOY"} \cap Beginning = {}
      BY DEF Settling, Beginning, Gathering, DeployMarks, PreparingTask
    <3> HIDE DEF E
    <3> QED
      BY <3>1, <3>2, AllowedShown
  <2>3. CASE srv.state \notin {"MR_DOWNLOAD_ASK", "MR_DEPLOY_ASK"}
    BY <2>3 DEF Allowed
  <2> QED
    BY <2>1, <2>2, <2>3
<1>10. "CTL_DOWNLOAD" \notin E
  OBVIOUS
<1> HIDE DEF h, E
<1>11. Leads(h, next, E)
  BY <1>6, <1>8, configAnswerLeads DEF Leads, next
<1>12. Leads(s, next, E)
  BY <1>6, <1>11, LeadsLeads
<1> QED
  BY <1>3, <1>7, <1>9, <1>10, <1>12, LedOrder DEF s

\* Two sets of marks.
LEMMA AllowedBoth ==
    ASSUME NEW E, NEW F, Allowed(E), Allowed(F)
    PROVE  Allowed(E \cup F)
  BY DEF Allowed

\* When there is one upgrade, its controllers are all there are.
LEMMA MembersAll ==
    ASSUME RInv, NEW u, Upgrades = {u}, Members(srv) # {}
    PROVE  Members(srv) = Controllers
<1>1. Members(srv) = srv.upgrade.packages /\ srv.upgrade \in Current
  BY DEF RInv, AInv, IInv, Sound, Matched, Members, TypeOK, Server
<1>2. srv.upgrade = u
  BY <1>1 DEF Current, NoUpgrade
<1> QED
  BY <1>1, <1>2 DEF Controllers

\* Who is online, or waits, has been heard.
LEMMA HeardOf ==
    ASSUME NEW s, Typed(s), NEW silent
    PROVE  /\ AllVaild(s, silent) => Members(s) # {} /\ s.state \in Gathering
                                     /\ Members(s) \subseteq Met(s)
           /\ AllWaiting(s, silent) => Members(s) # {} /\ Members(s) \subseteq Waiters(s)
<1>1. PICK S \in SUBSET Names : s \in Server(S)
  BY DEF Typed
<1>2. Members(s) = S /\ s.details \in [S -> Detail]
  BY <1>1, MembersTyped DEF Server
<1>3. ASSUME NEW n \in Members(s)
      PROVE  /\ Online(Seen(s, silent)[n]) => n \in Met(s)
             /\ Seen(s, silent)[n].state = "WR_WAIT" => n \in Waiters(s)
  <2>1. s.details[n] \in Detail
    BY <1>2
  <2>2. /\ Seen(s, silent)[n].version = s.details[n].version
        /\ Seen(s, silent)[n].state = "WR_WAIT" => s.details[n].state = "WR_WAIT"
    BY <2>1 DEF Seen, Detail
  <2> QED
    BY <2>2 DEF Online, Met, Waiters
<1> QED
  BY <1>3 DEF AllVaild, AllWaiting

\* The tick tells all to deploy only when all have said that they wait.
LEMMA TickOrder ==
    ASSUME RInv, OInv, NEW u, Upgrades = {u}, NEW late \in BOOLEAN,
           NEW silent \in SUBSET Members(srv), NEW overdue \in SUBSET Members(srv),
           ServerTick(late, silent, overdue)
    PROVE  OInv'
<1> DEFINE s == Fresh(srv)
           next == processDomains(s, late, silent, overdue)
           E1 == IF srv.control = "CTL_DEPLOY" THEN {"CTL_DEPLOY"} ELSE {}
           E2 == IF srv.state \in Gathering THEN {"MR_PENDING", "MR_READY"} ELSE {}
           E3 == IF AllVaild(s, silent) THEN {"REQ_DOWNLOAD", "MR_DOWNLOAD_ASK"} ELSE {}
           E4 == IF AllWaiting(s, silent) THEN DeployMarks ELSE {}
           E == (E1 \cup E2) \cup (E3 \cup E4)
<1>1. /\ ServerStep(next) /\ web' = Tasked(web, next.posted) /\ wire' = wire
      /\ offered' = offered /\ Watching(srv)
  BY DEF ServerTick, ServerStep
<1>2. offered # {} /\ srv.hasNewId /\ srv.cacheState = "MR_UNKNOWN"
  BY <1>1 DEF OInv, Anew, Watching
<1> HIDE DEF next
<1>3. /\ Typed(s) /\ s.state = srv.state /\ s.control = srv.control /\ s.details = srv.details
      /\ s.hasNewId = srv.hasNewId /\ s.cacheState = srv.cacheState
      /\ Waiters(s) = Waiters(srv) /\ Met(s) = Met(srv)
  <2>1. Typed(srv)
    BY DEF RInv, AInv, IInv, TypeOK, Typed
  <2> QED
    BY <2>1, FreshLeads
<1>4. Members(s) = Members(srv)
  BY <1>3 DEF Members
<1> HIDE DEF s
<1>5. /\ AllVaild(s, silent) => /\ srv.state \in Gathering
                                /\ \A n \in Controllers : n \in Met(srv)
      /\ AllWaiting(s, silent) => /\ Controllers # {}
                                  /\ \A n \in Controllers : n \in Waiters(srv)
  BY <1>3, <1>4, HeardOf, MembersAll
<1>6. Allowed(E1)
  <2>1. CASE srv.control = "CTL_DEPLOY"
    <3>1. "CTL_DEPLOY" \in Shown /\ "CTL_DEPLOY" \in Settling /\ "CTL_DEPLOY" \in DeployMarks
          /\ E1 = {"CTL_DEPLOY"} /\ E1 \cap Beginning = {}
      BY <2>1 DEF Shown, Marked, DeployMarks, Settling, Beginning, Gathering, PreparingTask
    <3> HIDE DEF E1
    <3> QED
      BY <3>1, AllowedShown
  <2>2. CASE srv.control # "CTL_DEPLOY"
    BY <2>2 DEF Allowed
  <2> QED
    BY <2>1, <2>2
<1>7. Allowed(E2)
  <2>1. CASE srv.state \in Gathering
    <3>1. srv.state \in Shown /\ srv.state \in Beginning
          /\ E2 = {"MR_PENDING", "MR_READY"} /\ E2 \cap Settling = {} /\ E2 \cap DeployMarks = {}
      BY <2>1 DEF Shown, Marked, DeployMarks, Settling, Beginning, PreparingTask
    <3> HIDE DEF E2
    <3> QED
      BY <3>1, AllowedShown
  <2>2. CASE srv.state \notin Gathering
    BY <2>2 DEF Allowed
  <2> QED
    BY <2>1, <2>2
<1>8. Allowed(E3)
  <2>1. CASE AllVaild(s, silent)
    <3>1. \A n \in Controllers : Settled(n)
      BY <1>5, <2>1 DEF OInv, Spoken
    <3>2. Early
      BY <1>5, <2>1 DEF Early, Shown, Marked, Beginning
    <3>3. E3 = {"REQ_DOWNLOAD", "MR_DOWNLOAD_ASK"} /\ E3 \cap DeployMarks = {}
      BY <2>1 DEF DeployMarks
    <3> HIDE DEF E3
    <3> QED
      BY <3>1, <3>2, <3>3 DEF Allowed
  <2>2. CASE ~AllVaild(s, silent)
    BY <2>2 DEF Allowed
  <2> QED
    BY <2>1, <2>2
<1>9. Allowed(E4)
  <2>1. CASE AllWaiting(s, silent)
    <3>1. \A n \in Controllers : Settled(n)
      <4>1. Waiters(srv) \subseteq Met(srv)
        BY DEF Waiters, Met
      <4> QED
        BY <1>5, <2>1, <4>1 DEF OInv, Spoken
    <3>2. \A n \in Controllers : None(clients[n]) /\ Awaiting(n)
      BY <1>5, <2>1 DEF OInv, Spoken, Awaiting
    <3>3. ~Early
      BY <1>5, <2>1, <3>2 DEF OInv, Phased
    <3>4. E4 \cap Beginning = {} /\ "MR_RESUME_ASK" \notin E4
      BY <2>1 DEF DeployMarks, Beginning, Gathering, PreparingTask
    <3> HIDE DEF E4
    <3> QED
      BY <3>1, <3>2, <3>3, <3>4 DEF Allowed
  <2>2. CASE ~AllWaiting(s, silent)
    BY <2>2 DEF Allowed
  <2> QED
    BY <2>1, <2>2
<1>10. "CTL_DOWNLOAD" \notin E
  BY DEF DeployMarks
<1>11. /\ s.control = "CTL_DEPLOY" => "CTL_DEPLOY" \in E
       /\ s.state \in Gathering => {"MR_PENDING", "MR_READY"} \subseteq E
       /\ AllVaild(s, silent) => {"REQ_DOWNLOAD", "MR_DOWNLOAD_ASK"} \subseteq E
       /\ AllWaiting(s, silent) => DeployMarks \subseteq E
  BY <1>3
<1> HIDE DEF E1, E2, E3, E4
<1>12. Allowed(E)
  BY <1>6, <1>7, <1>8, <1>9, AllowedBoth
<1> HIDE DEF E
<1>13. Leads(s, next, E)
  BY <1>2, <1>3, <1>4, <1>11, processDomainsLeads DEF next
<1> QED
  BY <1>1, <1>2, <1>10, <1>12, <1>13, LedOrder DEF s

\* The one control to download finds nobody preparing, deploying or waiting.
LEMMA PullOrder ==
    ASSUME RInv, OInv, Pull
    PROVE  OInv'
<1> DEFINE s == Fresh(srv)
           next == OnPull(s, TRUE)
           sent == next.sent
           E == {"CTL_DOWNLOAD", "distributing"}
<1>1. /\ web = "REQ_DISTRIBUTE" /\ web' = "distributing" /\ ServerStep(next)
      /\ wire' = wire /\ offered' = offered
  BY DEF Pull
<1>2. /\ Typed(srv) /\ Typed(s) /\ s.sent = <<>> /\ Marks(s) \subseteq Shown /\ Broadcasts(s) = {}
      /\ Waiters(s) = Waiters(srv) /\ Met(s) = Met(srv) /\ s.hasNewId = srv.hasNewId
      /\ s.cacheState = srv.cacheState
  <2>1. Typed(srv)
    BY DEF RInv, AInv, IInv, TypeOK, Typed
  <2> QED
    BY <2>1, FreshLeads DEF Shown
<1> HIDE DEF s
<1>3. /\ Leads(s, next, {"CTL_DOWNLOAD"}) /\ next.state \notin Gathering
      /\ Len(sent) <= Len(s.sent) + 1
  BY <1>2, OnPullLeads
<1>4. srv' = next /\ clients' = [n \in Controllers |-> Delivered(n, sent)]
  BY <1>1 DEF ServerStep
<1> HIDE DEF next
<1>5. /\ Typed(next) /\ Marks(next) \subseteq Shown \cup E /\ Broadcasts(next) \subseteq E
      /\ Waiters(next) \subseteq Waiters(srv) /\ Met(next) \subseteq Met(srv)
      /\ next.hasNewId = srv.hasNewId /\ next.cacheState = srv.cacheState
  BY <1>2, <1>3 DEF Leads
<1>6. sent \in Seq(Broadcast) /\ Len(sent) \in Nat
  BY <1>5 DEF Typed, Server
<1>7. \A i \in DOMAIN sent : sent[i].control # "CTL_DEPLOY"
  <2>1. "CTL_DEPLOY" \in Marked /\ "CTL_DEPLOY" \notin E
    BY DEF Marked, DeployMarks
  <2> QED
    BY <1>5, <2>1 DEF Broadcasts
<1>8. Len(sent) <= 1
  <2>1. Len(s.sent) = 0
    BY <1>2
  <2> QED
    BY <1>3, <2>1
<1>9. "REQ_DISTRIBUTE" \in Shown /\ "REQ_DISTRIBUTE" \in Settling /\ "REQ_DISTRIBUTE" \in Beginning
  BY <1>1 DEF Shown, Marked, Settling, Beginning, PreparingTask
<1>10. Early /\ offered # {}
  BY <1>1, <1>9 DEF Early, OInv, Anew
<1>11. Shown' \subseteq Shown \cup E
  <2>1. Shown' = Marked \cap {next.control, next.state, "distributing"}
    BY <1>1, <1>4 DEF Shown
  <2>2. Marked \cap {next.control, next.state} \subseteq Marks(next)
    BY DEF Marks
  <2> QED
    BY <1>5, <2>1, <2>2
<1>12. ~Early'
  <2>1. next.control \in Control /\ next.state \in ServerState
    BY <1>5 DEF Typed, Server
  <2>2. Beginning \cap Control = {} /\ Beginning \cap ServerState = Gathering
        /\ "distributing" \notin Beginning
    BY DEF Beginning, Gathering, PreparingTask, Control, ServerState
  <2>3. {srv'.control, srv'.state, web'} \cap Beginning = {}
    BY <1>1, <1>3, <1>4, <2>1, <2>2
  <2> QED
    BY <1>1, <1>10, <2>3 DEF Early, Shown
<1>13. Allowed(E)
  <2>1. E \cap Beginning = {} /\ E \cap DeployMarks = {} /\ "MR_RESUME_ASK" \notin E
    BY DEF Beginning, Gathering, PreparingTask, DeployMarks
  <2> HIDE DEF E
  <2> QED
    BY <1>9, <2>1, AllowedShown
<1> HIDE DEF sent, E
<1>14. RInv'
  BY PullKeeps
<1>15. ASSUME NEW n \in Controllers
       PROVE  Guided(n, E)
  <2> DEFINE c == clients[n]
             d == clients'[n]
  <2>1. Fit(n, c) /\ Fit(n, d) /\ Orderly(c) /\ c \in Client(n)!ClientHelper
        /\ d \in Client(n)!ClientHelper
    BY <1>14 DEF RInv, Aboard, OInv, Spoken, Fit
  <2>2. d = Delivered(n, sent)
    BY <1>4
  <2>3. Grown(c, d, sent) /\ Longer(c, d, Len(sent))
    BY <1>6, <2>1, <2>2, DeliveredGrown
  <2>4. None(c) /\ ~Waits(c) /\ ~Deploys(c)
    BY <1>10 DEF OInv, Phased, Late
  <2>5. Longer(c, d, 1)
    <3>1. Len(c.queue) \in Nat /\ Len(d.queue) \in Nat
      BY <2>1 DEF Client!ClientHelper
    <3>2. \A x, y, k \in Nat : x <= y + k /\ k <= 1 => x <= y + 1
      OBVIOUS
    <3> QED
      BY <1>6, <1>8, <2>3, <3>1, <3>2 DEF Longer
  <2>6. Orderly(d) /\ ~Deploys(d)
    BY <1>7, <2>1, <2>3, <2>4, <2>5, GrownOnce
  <2>7. /\ d.online = c.online /\ d.sent = c.sent /\ d.needDiscovery = c.needDiscovery
        /\ d.state = c.state
    BY <2>3 DEF Grown
  <2>8. n \in Waiters(srv') => Awaiting(n)
    BY <1>4, <1>5 DEF Awaiting
  <2> QED
    BY <1>1, <1>4, <1>5, <1>10, <1>12, <2>6, <2>7, <2>8 DEF Guided
<1>16. (\A n \in Controllers : Spoken(n)') /\ Phased'
  BY <1>1, <1>11, <1>13, <1>15, OrderGuided
<1>17. Anew'
  BY <1>1, <1>4, <1>5, <1>10, <1>11, <1>13 DEF OInv, Anew, Allowed
<1> QED
  BY <1>16, <1>17 DEF OInv

\* The upgrade is offered.
LEMMA OfferOrder ==
    ASSUME RInv, OInv, NEW u, Upgrades = {u}, Offer(u)
    PROVE  OInv'
<1> DEFINE s == Fresh(srv)
           next == OnUpgrade(s, u)
           E == {"MR_PENDING"}
<1>1. /\ ServerStep(next) /\ web' = Tasked(web, next.posted) /\ wire' = wire
      /\ offered' = offered \cup {u.id} /\ u.id \notin offered /\ srv' = next
  BY DEF Offer, ServerStep
<1>2. offered = {} /\ srv.state = "MR_IDLE" /\ srv.lastlId = NoId /\ u.id # NoId
  BY <1>1, ServerAssumption DEF OInv, Anew
<1> HIDE DEF next
<1>3. /\ Typed(s) /\ Marks(s) \subseteq Shown /\ Broadcasts(s) = {}
      /\ s.state = srv.state /\ s.lastlId = srv.lastlId /\ s.cacheState = srv.cacheState
  <2>1. Typed(srv)
    BY DEF RInv, AInv, IInv, TypeOK, Typed
  <2> QED
    BY <2>1, FreshLeads DEF Shown
<1> HIDE DEF s
<1>4. Taking(s, next)
  BY <1>2, <1>3, OnUpgradeTaking DEF next
<1>5. /\ Typed(next) /\ Marks(next) \subseteq Shown \cup E /\ Broadcasts(next) \subseteq E
      /\ Waiters(next) = {} /\ Met(next) = {}
      /\ next.hasNewId /\ next.cacheState = srv.cacheState
  BY <1>3, <1>4 DEF Taking
<1>6. Allowed(E) /\ "CTL_DOWNLOAD" \notin E
  <2>1. E \cap Settling = {} /\ E \cap DeployMarks = {} /\ "MR_RESUME_ASK" \notin E
    BY DEF Settling, DeployMarks, PreparingTask
  <2> QED
    BY <1>2, <2>1 DEF Allowed, Early
<1>7. web' \in {web, "REQ_STOP"} \cup {next.posted[i].req : i \in DOMAIN next.posted}
  <2>1. next.posted \in Seq(WebEvent)
    BY <1>5 DEF Typed, Server
  <2> QED
    BY <1>1, <2>1, TaskedFrom
<1> HIDE DEF E
<1>8. (\A n \in Controllers : Spoken(n)') /\ Phased' /\ Shown' \subseteq Shown \cup E
  BY <1>1, <1>2, <1>5, <1>6, <1>7, ServedOrder
<1>9. Anew'
  BY <1>1, <1>2, <1>5, <1>6, <1>8 DEF OInv, Anew, Allowed
<1> QED
  BY <1>8, <1>9 DEF OInv

\* Whoever introduces itself is told nothing that marks a phase: there is none yet.
LEMMA HearOrder ==
    ASSUME RInv, OInv, NEW n \in Controllers, Hear(n)
    PROVE  OInv'
<1> DEFINE heartbeat == Head(wire[n])
           msg == DomainMessage(n, heartbeat)
           s == Fresh(srv)
           next == OnDomain(s, msg)
<1>1. /\ ServerStep(next) /\ web' = Tasked(web, next.posted)
      /\ wire[n] # <<>> /\ wire' = [wire EXCEPT ![n] = Tail(wire[n])]
      /\ offered' = offered
  BY DEF Hear, ServerStep
<1>2. /\ wire[n] \in Seq(Client(n)!Heartbeat) /\ DOMAIN wire = Controllers
      /\ 1 \in DOMAIN wire[n] /\ wire[n][1] = heartbeat
  <2>1. wire[n] \in Seq(Client(n)!Heartbeat) /\ DOMAIN wire = Controllers
    BY DEF RInv, Underway
  <2> QED
    BY <1>1, <2>1
<1>3. heartbeat \in Client(n)!Heartbeat
  BY <1>2
<1>4. msg \in Messages
  <2>1. Class(heartbeat.version) \in Version
    BY DEF Class, Version
  <2>2. n \in Names
    BY ControllerNames
  <2> QED
    BY <1>3, <2>1, <2>2, RolloutAssumption
       DEF DomainMessage, Message, Report, Client!Heartbeat, Client!ClientState, ClientState,
           Answer
<1>5. /\ msg.name = n /\ ~msg.watcher /\ msg.discovery = heartbeat.discovery
      /\ msg.report.state = heartbeat.state
  BY DEF DomainMessage
<1>6. next = Heard(s, msg)
  <2> HIDE DEF msg
  <2> QED
    BY <1>5, ControllerNames, RolloutAssumption DEF OnDomain
<1> HIDE DEF heartbeat, msg, next
<1>7. /\ Typed(s) /\ Marks(s) \subseteq Shown /\ Broadcasts(s) = {}
      /\ Waiters(s) = Waiters(srv) /\ Met(s) = Met(srv)
      /\ s.hasNewId = srv.hasNewId /\ s.lastlId = srv.lastlId /\ s.cacheState = srv.cacheState
      /\ s.state = srv.state /\ s.control = srv.control /\ s.posted = <<>>
  <2>1. Typed(srv)
    BY DEF RInv, AInv, IInv, TypeOK, Typed
  <2> QED
    BY <2>1, FreshLeads DEF Shown
<1> HIDE DEF s
<1>8. Hears(s, next, msg)
  BY <1>4, <1>6, <1>7, HeardHears
<1>9. /\ Typed(next) /\ Marks(next) \subseteq Shown
      /\ next.hasNewId = srv.hasNewId /\ next.lastlId = srv.lastlId
      /\ next.cacheState = srv.cacheState /\ next.state = srv.state /\ next.posted = <<>>
  BY <1>7, <1>8 DEF Hears
<1>10. Broadcasts(next) = {}
  <2>1. CASE ~msg.discovery
    BY <1>7, <1>8, <2>1 DEF Hears
  <2>2. CASE msg.discovery
    <3>1. ~Settled(n)
      BY <1>2, <1>5, <2>2 DEF Settled
    <3>2. srv.control \notin Shown \cap Settling
      BY <3>1 DEF OInv, Phased
    <3>3. Marked \cap Control \subseteq Settling
      BY DEF Marked, Control, Settling, Gathering, PreparingTask, DeployMarks
    <3>4. srv.control \in Control
      BY DEF RInv, AInv, IInv, TypeOK, Server
    <3>5. Marked \cap {srv.control} = {}
      BY <3>2, <3>3, <3>4 DEF Shown
    <3> QED
      BY <1>7, <1>8, <3>5 DEF Hears
  <2> QED
    BY <2>1, <2>2
<1>11. ASSUME NEW m \in Controllers
       PROVE  /\ wire'[m] = wire[m] \/ (wire[m] # <<>> /\ wire'[m] = Tail(wire[m]))
              /\ m \in Waiters(next) => Awaiting(m)
              /\ m \in Met(next) =>
                   m \in Met(srv) \/ (wire[m] # <<>> /\ wire'[m] = Tail(wire[m]))
  <2>1. (m = n /\ wire'[n] = Tail(wire[n])) \/ (m # n /\ wire'[m] = wire[m])
    BY <1>1, <1>2
  <2>2. ASSUME m \in Waiters(next), m \notin Waiters(srv)
        PROVE  Awaiting(m)
    <3>1. m = n /\ heartbeat.state = "WR_WAIT"
      BY <1>5, <1>7, <1>8, <2>2 DEF Hears
    <3> QED
      BY <1>2, <3>1 DEF Awaiting
  <2>3. m \in Met(next) => m \in Met(srv) \/ m = n
    BY <1>5, <1>7, <1>8 DEF Hears
  <2> QED
    BY <1>1, <2>1, <2>2, <2>3 DEF Awaiting
<1>12. Allowed({})
  BY DEF Allowed
<1>13. web' = web
  <2>1. <<>> \in Seq(WebEvent) /\ DOMAIN <<>> = {}
    OBVIOUS
  <2>2. Tasked(web, <<>>) \in {web} \cup {<<>>[i].req : i \in DOMAIN <<>>}
    BY <2>1, TaskedFrom
  <2> QED
    BY <1>1, <1>9, <2>1, <2>2
<1>14. (\A m \in Controllers : Spoken(m)') /\ Phased' /\ Shown' \subseteq Shown \cup {}
  BY <1>1, <1>9, <1>10, <1>11, <1>12, <1>13, ServedOrder
<1>15. Anew'
  <2>1. srv' = next
    BY <1>1 DEF ServerStep
  <2> QED
    BY <1>1, <1>9, <1>13, <1>14, <2>1 DEF OInv, Anew
<1> QED
  BY <1>14, <1>15 DEF OInv

-----------------------------------------------------------------------------
(* The steps of a controller keep it.                                      *)

\* What it says goes behind what is under way.
LEMMA SaidOrder ==
    ASSUME RInv, OInv, NEW n \in Controllers, NEW next, Fit(n, next),
           Kept(clients[n], next), ClientStep(n, next)
    PROVE  /\ wire'[n] # <<>> => next.online /\ ~next.needDiscovery
           /\ \A i \in DOMAIN wire'[n] :
                \/ i \in DOMAIN wire[n] /\ wire'[n][i] = wire[n][i]
                \/ \E j \in DOMAIN next.sent : /\ wire'[n][i] = next.sent[j]
                                               /\ wire'[n][i].discovery => i = 1
<1> DEFINE c == clients[n]
<1>1. /\ wire[n] \in Seq(Client(n)!Heartbeat) /\ DOMAIN wire = Controllers
      /\ next.sent \in Seq(Client(n)!Heartbeat) /\ c.sent = <<>> /\ Fit(n, c)
  BY DEF RInv, Underway, Aboard, Fit, Client!ClientHelper
<1>2. wire'[n] = wire[n] \o next.sent
  BY <1>1 DEF ClientStep
<1>3. Spoken(n) /\ Linked(c, next)
  BY DEF OInv, Kept
<1>4. Speaks(next)
  BY <1>3 DEF Spoken, Linked
<1>5. ASSUME wire[n] # <<>>
      PROVE  next.online /\ ~next.needDiscovery /\ ~Introduces(next)
  <2>1. c.online /\ ~c.needDiscovery
    BY <1>3, <1>5 DEF Spoken
  <2>2. ~Introduces(c)
    BY <1>1, <2>1 DEF Introduces
  <2>3. next.online /\ ~Introduces(next)
    BY <1>3, <2>1, <2>2 DEF Linked
  <2> QED
    BY <2>3 DEF Introduces
<1> HIDE DEF c
<1>6. wire'[n] # <<>> => wire[n] # <<>> \/ next.sent # <<>>
  BY <1>1, <1>2
<1>7. wire'[n] # <<>> => next.online /\ ~next.needDiscovery
  BY <1>4, <1>5, <1>6 DEF Speaks
<1>8. ASSUME NEW i \in DOMAIN wire'[n], i \notin DOMAIN wire[n]
      PROVE  \E j \in DOMAIN next.sent : /\ wire'[n][i] = next.sent[j]
                                         /\ wire'[n][i].discovery => i = 1
  <2> DEFINE j == i - Len(wire[n])
  <2>1. j \in DOMAIN next.sent /\ wire'[n][i] = next.sent[j]
    BY <1>1, <1>2, <1>8
  <2>2. CASE wire[n] # <<>>
    <3>1. ~next.sent[j].discovery
      BY <1>5, <2>1, <2>2 DEF Introduces
    <3> QED
      BY <2>1, <3>1
  <2>3. CASE wire[n] = <<>>
    <3>1. i = j
      BY <1>1, <1>2, <1>8, <2>3
    <3>2. next.sent[j].discovery => j = 1
      BY <1>4, <2>1 DEF Speaks
    <3> QED
      BY <2>1, <3>1, <3>2
  <2> QED
    BY <2>2, <2>3
<1>9. ASSUME NEW i \in DOMAIN wire'[n], i \in DOMAIN wire[n]
      PROVE  wire'[n][i] = wire[n][i]
  BY <1>1, <1>2, <1>9
<1> QED
  BY <1>7, <1>8, <1>9

\* What the step of a controller does to it and its wire.
LEMMA SpokenOrder ==
    ASSUME RInv, OInv, NEW n \in Controllers, NEW next, Fit(n, next),
           Kept(clients[n], next), ClientStep(n, next)
    PROVE  /\ Spoken(n)' /\ (Settled(n) => Settled(n)')
           /\ (None(clients[n]) => None(clients'[n]))
           /\ (Deploys(clients'[n]) => Deploys(clients[n]))
           /\ (None(clients[n]) /\ ~Deploys(clients[n]) /\ ~Waits(clients[n]) /\ ~Awaiting(n)
               => ~Waits(clients'[n]) /\ ~Awaiting(n)')
<1> DEFINE c == clients[n]
           d == clients'[n]
<1>1. /\ Fit(n, c) /\ c.sent = <<>> /\ DOMAIN clients = Controllers /\ srv' = srv
      /\ next \in Client(n)!ClientHelper
  BY DEF RInv, Aboard, ClientStep, Fit
<1>2. d = Client(n)!Quiet(next)
  BY <1>1 DEF ClientStep, Client!Quiet
<1>3. /\ d.online = next.online /\ d.needDiscovery = next.needDiscovery /\ d.sent = <<>>
  BY <1>1, <1>2 DEF Client!Quiet, Client!ClientHelper
<1>4. Orderly(next) /\ Kept(next, d) /\ Kept(c, next)
  BY <1>1, <1>2, QuietKept DEF Kept
<1> HIDE DEF c, d
<1>5. Kept(c, d)
  BY <1>4, KeptKept
<1>6. Spoken(n) /\ Speaks(c)
  BY DEF OInv, Spoken, c
<1>7. /\ wire'[n] # <<>> => next.online /\ ~next.needDiscovery
      /\ \A i \in DOMAIN wire'[n] :
           \/ i \in DOMAIN wire[n] /\ wire'[n][i] = wire[n][i]
           \/ \E j \in DOMAIN next.sent : /\ wire'[n][i] = next.sent[j]
                                          /\ wire'[n][i].discovery => i = 1
  BY <1>4, SaidOrder DEF c
<1>8. \A i \in DOMAIN wire'[n] : wire'[n][i].discovery => i = 1
  BY <1>6, <1>7 DEF Spoken
<1>9. Settled(n) => Settled(n)'
  <2> SUFFICES ASSUME Settled(n)
               PROVE  Settled(n)'
    OBVIOUS
  <2>1. c.online /\ ~Introduces(c) /\ \A i \in DOMAIN wire[n] : ~wire[n][i].discovery
    BY <1>1 DEF Settled, Introduces, c
  <2>2. next.online /\ ~Introduces(next)
    BY <1>4, <2>1 DEF Kept, Linked
  <2>3. ~next.needDiscovery /\ \A j \in DOMAIN next.sent : ~next.sent[j].discovery
    BY <2>2 DEF Introduces
  <2>4. \A i \in DOMAIN wire'[n] : ~wire'[n][i].discovery
    BY <1>7, <2>1, <2>3
  <2>5. d.online /\ ~d.needDiscovery
    BY <1>3, <2>2, <2>3
  <2> QED
    BY <2>4, <2>5 DEF Settled, d
<1>10. ASSUME Awaiting(n)'
       PROVE  Awaiting(n) \/ \E j \in DOMAIN next.sent : next.sent[j].state = "WR_WAIT"
  BY <1>1, <1>7, <1>10 DEF Awaiting
<1>11. Awaiting(n)' => Awaiting(n) \/ Waits(next)
  BY <1>10 DEF Waits
<1>12. Awaiting(n)' => None(d)
  <2>1. Awaiting(n) => None(c)
    BY <1>6 DEF Spoken, c
  <2>2. Waits(next) => None(next)
    BY <1>4 DEF Orderly
  <2> QED
    BY <1>4, <1>5, <1>11, <2>1, <2>2 DEF Kept
<1>13. Orderly(d) /\ Speaks(d)
  BY <1>5, <1>6 DEF Kept, Linked
<1>14. Spoken(n)'
  <2>1. n \in Met(srv') => Settled(n)'
    BY <1>1, <1>6, <1>9 DEF Spoken
  <2> QED
    BY <1>3, <1>7, <1>8, <1>12, <1>13, <2>1 DEF Spoken, d
<1>15. None(c) /\ ~Deploys(c) /\ ~Waits(c) /\ ~Awaiting(n) => ~Waits(d) /\ ~Awaiting(n)'
  BY <1>4, <1>5, <1>11 DEF Kept
<1> QED
  BY <1>5, <1>9, <1>14, <1>15 DEF Kept, c, d

\* The other controllers, and the server, are as they were.
LEMMA ClientStepOrder ==
    ASSUME RInv, OInv, NEW n \in Controllers, NEW next, Fit(n, next),
           Kept(clients[n], next), ClientStep(n, next)
    PROVE  OInv'
<1>1. /\ srv' = srv /\ web' = web /\ offered' = offered
      /\ \A m \in Controllers : m # n => clients'[m] = clients[m] /\ wire'[m] = wire[m]
  <2>1. DOMAIN clients = Controllers /\ DOMAIN wire = Controllers
    BY DEF RInv, Aboard, Underway
  <2> QED
    BY <2>1 DEF ClientStep
<1>2. ASSUME NEW m \in Controllers
      PROVE  /\ Spoken(m)' /\ (Settled(m) => Settled(m)')
             /\ (None(clients[m]) => None(clients'[m]))
             /\ (Deploys(clients'[m]) => Deploys(clients[m]))
             /\ (None(clients[m]) /\ ~Deploys(clients[m]) /\ ~Waits(clients[m]) /\ ~Awaiting(m)
                 => ~Waits(clients'[m]) /\ ~Awaiting(m)')
  <2>1. CASE m = n
    BY <2>1, SpokenOrder
  <2>2. CASE m # n
    <3>1. clients'[m] = clients[m] /\ wire'[m] = wire[m] /\ srv' = srv
      BY <1>1, <2>2
    <3>2. Spoken(m)
      BY DEF OInv
    <3>3. Awaiting(m)' <=> Awaiting(m)
      BY <3>1 DEF Awaiting
    <3>4. Settled(m)' <=> Settled(m)
      BY <3>1 DEF Settled
    <3> QED
      BY <3>1, <3>2, <3>3, <3>4 DEF Spoken
  <2> QED
    BY <2>1, <2>2
<1>3. Shown' = Shown /\ Phased /\ Anew
  BY <1>1 DEF Shown, OInv
<1>4. Anew'
  BY <1>1, <1>3 DEF Anew
<1>5. (Early' <=> Early) /\ (Late' => Late)
  <2>1. Late' <=> \/ Shown' \cap DeployMarks # {}
                  \/ \E m \in Controllers : Deploys(clients'[m])
    BY DEF Late
  <2> QED
    BY <1>1, <1>2, <1>3, <2>1 DEF Early, Late
<1>6. Shown' \cap Settling # {} => \A m \in Controllers : Settled(m)'
  BY <1>2, <1>3 DEF Phased
<1>7. ASSUME Early'
      PROVE  \A m \in Controllers : None(clients[m])' /\ ~Waits(clients[m])' /\ ~Awaiting(m)'
  <2>1. \A m \in Controllers : /\ None(clients[m]) /\ ~Waits(clients[m]) /\ ~Awaiting(m)
                               /\ ~Deploys(clients[m])
    BY <1>3, <1>5, <1>7 DEF Phased, Late
  <2> QED
    BY <1>2, <2>1
<1>8. ASSUME Late'
      PROVE  ~Early' /\ \A m \in Controllers : None(clients[m])'
  BY <1>2, <1>3, <1>5, <1>8 DEF Phased
<1>9. Phased'
  BY <1>6, <1>7, <1>8 DEF Phased
<1> QED
  BY <1>2, <1>4, <1>9 DEF OInv

\* No connection is lost and nobody restarts.
LEMMA ControllerOrder ==
    ASSUME RInv, OInv, NEW n \in Controllers, faults' = 0,
           \/ HandleNext(n) \/ Beat(n) \/ Work(n) \/ WorkOn(n)
           \/ Connect(n) \/ Disconnect(n) \/ Reboot(n)
    PROVE  OInv'
<1> DEFINE c == clients[n]
<1>1. Fit(n, c) /\ Orderly(c) /\ faults \in Nat
  BY RolloutAssumption DEF RInv, Aboard, Counted, OInv, Spoken
<1>2. ~Disconnect(n) /\ ~Reboot(n)
  BY <1>1 DEF Disconnect, Reboot
<1>3. PICK next :
        /\ ClientStep(n, next)
        /\ \/ \E d \in Client(n)!Handled(c) : d = next
           \/ \E d \in Client(n)!Beaten(c) : d = next
           \/ \E d \in Client(n)!Broken(c) : d = next
           \/ \E d \in Client(n)!Ended(c, CanFail) : d = next
           \/ \E d \in Client(n)!LooseEnded(c, CanFail) : d = next
           \/ next = [c EXCEPT !.online = TRUE]
  BY <1>2 DEF HandleNext, Beat, Work, TaskEnds, WorkOn, Connect
<1> HIDE DEF c
<1>4. Past(n, c, next)
  BY <1>1, <1>3, HandledPast, BeatenPast, BrokenPast, EndedPast, LooseEndedPast,
     FlagsOnto, OntoPast
<1>5. Kept(c, next)
  BY <1>1, <1>3, HandledKept, BeatenKept, BrokenKept, EndedKept, LooseEndedKept, ConnectedKept
<1> QED
  BY <1>3, <1>4, <1>5, ClientStepOrder DEF Past, c

-----------------------------------------------------------------------------
(* The invariant is inductive.                                             *)

\* The server has read its file, and nobody has said anything yet.
LEMMA OrderStarts == RolloutInit => OInv
<1> SUFFICES ASSUME RolloutInit
             PROVE  OInv
  OBVIOUS
<1> DEFINE boot == Boot(NoFile)
           read == [boot EXCEPT !.cacheDepends = NoFile.depends, !.cacheState = "MR_UNKNOWN"]
           begun == OnInit(boot, TRUE)
<1>1. NoFile \in StatusFile
  BY DEF NoFile, StatusFile, ServerState
<1>2. Typed(boot)
  BY <1>1, BootTyped
<1>3. /\ boot.state = "MR_OFFLINE" /\ boot.control = "CTL_UNKNOWN" /\ boot.lastlId = NoId
      /\ Members(boot) = {} /\ boot.file = NoFile
  BY DEF Boot, Members
<1>4. NoFile.state # "MR_DEPLOY"
  BY DEF NoFile
<1> HIDE DEF boot
<1>5. begun = idle(read)
  BY <1>3, <1>4 DEF OnInit, FinalAsk
<1>6. /\ Typed(read) /\ read.control = "CTL_UNKNOWN" /\ read.lastlId = NoId
      /\ read.cacheState = "MR_UNKNOWN" /\ Members(read) = {}
  <2>1. PICK S \in SUBSET Names : boot \in Server(S)
    BY <1>2 DEF Typed
  <2>2. NoFile.depends \in SUBSET Names /\ "MR_UNKNOWN" \in ServerState
    BY DEF NoFile, ServerState
  <2>3. read \in Server(S)
    BY <2>1, <2>2, ZenonT(60) DEF Server
  <2>4. /\ read.control = "CTL_UNKNOWN" /\ read.lastlId = NoId
        /\ read.cacheState = "MR_UNKNOWN" /\ Members(read) = {}
    BY <1>3, <2>1 DEF Server, Members
  <2> QED
    BY <2>1, <2>3, <2>4 DEF Typed
<1> HIDE DEF read, begun
<1>7. /\ Typed(begun) /\ begun.state = "MR_IDLE" /\ begun.control = "CTL_UNKNOWN"
      /\ begun.lastlId = NoId /\ begun.cacheState = "MR_UNKNOWN"
      /\ Waiters(begun) = {} /\ Met(begun) = {}
  <2>1. Leads(read, begun, {})
    BY <1>5, <1>6, idleLeads
  <2>2. Waiters(read) = {} /\ Met(read) = {}
    BY <1>6 DEF Waiters, Met
  <2>3. begun.state = "MR_IDLE" /\ begun.control = read.control
    BY <1>5, <1>6, idleEffect
  <2> QED
    BY <1>6, <2>1, <2>2, <2>3 DEF Leads
<1>8. srv = Fresh(begun) /\ web = "REQ_STOP" /\ offered = {}
  BY DEF RolloutInit, boot, begun
<1>9. /\ srv.state = "MR_IDLE" /\ srv.control = "CTL_UNKNOWN"
      /\ srv.lastlId = NoId /\ srv.cacheState = "MR_UNKNOWN"
      /\ Waiters(srv) = {} /\ Met(srv) = {}
  <2>1. /\ srv.state = begun.state /\ srv.control = begun.control
        /\ srv.lastlId = begun.lastlId /\ srv.cacheState = begun.cacheState
        /\ srv.details = begun.details
    BY <1>7, <1>8 DEF Fresh, Typed, Server
  <2> QED
    BY <1>7, <2>1 DEF Waiters, Met, Members
<1>10. Shown = {}
  <2>1. {"CTL_UNKNOWN", "MR_IDLE", "REQ_STOP"} \cap Marked = {}
    BY DEF Marked, Gathering, PreparingTask, DeployMarks
  <2> QED
    BY <1>8, <1>9, <2>1 DEF Shown
<1>11. Anew
  BY <1>8, <1>9, <1>10 DEF Anew
<1>12. ASSUME NEW n \in Controllers
       PROVE  /\ Spoken(n) /\ None(clients[n]) /\ ~Waits(clients[n]) /\ ~Awaiting(n)
              /\ ~Deploys(clients[n])
  <2> DEFINE c == clients[n]
  <2>1. c = Client(n)!Started(0, {}) /\ wire[n] = <<>>
    BY DEF RolloutInit
  <2>2. /\ c.state = "WR_IDLE" /\ c.needDiscovery /\ c.queue = <<>> /\ c.sent = <<>>
        /\ c.loose = {} /\ c.worker.task = "none"
    BY <2>1 DEF Client!Started, Client!NoWorker
  <2> HIDE DEF c
  <2>3. None(c) /\ ~Waits(c) /\ ~Deploys(c)
    BY <2>2 DEF None, Coming, Preparing, Leftover, Waits, Deploys
  <2>4. Orderly(c) /\ Speaks(c)
    BY <2>2, <2>3, NoneOrderly DEF Speaks
  <2>5. ~Awaiting(n)
    BY <1>9, <2>1 DEF Awaiting
  <2> QED
    BY <1>9, <2>1, <2>3, <2>4, <2>5 DEF Spoken, c
<1>13. Phased
  BY <1>10, <1>12 DEF Phased, Late
<1> QED
  BY <1>11, <1>12, <1>13 DEF OInv

\* No controller has lost its connection or restarted, and no download is being retried.
Undisturbed == faults = 0 /\ srv.retryTimes = 0

\* Every undisturbed step keeps it.
LEMMA OrderStep ==
    ASSUME NEW u, Upgrades = {u}, RInv, OInv, [RolloutNext]_rolloutVars, Undisturbed'
    PROVE  OInv'
<1>1. faults' = 0 /\ srv'.retryTimes = 0
  BY DEF Undisturbed
<1>2. ASSUME NEW upgrade \in Upgrades, Offer(upgrade)
      PROVE  OInv'
  BY <1>2, OfferOrder
<1>3. ASSUME NEW id \in Ids, Withdraw(id)
      PROVE  OInv'
  BY <1>3, WithdrawOrder
<1>4. CASE Downloaded \/ Verified \/ Distributed \/ WebError
  BY <1>1, <1>4, WebOrder
<1>5. CASE Pull
  BY <1>5, PullOrder
<1>6. ASSUME NEW answer \in Answers, AnswerAsked(answer)
      PROVE  OInv'
  BY <1>6, AnswerOrder
<1>7. ASSUME NEW late \in BOOLEAN, NEW silent \in SUBSET Members(srv),
             NEW overdue \in SUBSET Members(srv), ServerTick(late, silent, overdue)
      PROVE  OInv'
  BY <1>7, TickOrder
<1>8. ASSUME NEW n \in Controllers, Hear(n)
      PROVE  OInv'
  BY <1>8, HearOrder
<1>9. ASSUME NEW n \in Controllers,
             \/ HandleNext(n) \/ Beat(n) \/ Work(n) \/ WorkOn(n)
             \/ Connect(n) \/ Disconnect(n) \/ Reboot(n)
      PROVE  OInv'
  BY <1>1, <1>9, ControllerOrder
<1>10. CASE UNCHANGED rolloutVars
  <2>1. UNCHANGED <<srv, clients, wire, web, offered>>
    BY <1>10 DEF rolloutVars
  <2>2. Shown' = Shown /\ (Early' <=> Early) /\ (Late' <=> Late)
    BY <2>1 DEF Shown, Early, Late
  <2>3. \A n \in Controllers : (Settled(n)' <=> Settled(n)) /\ (Awaiting(n)' <=> Awaiting(n))
    BY <2>1 DEF Settled, Awaiting
  <2>4. Anew' /\ (\A n \in Controllers : Spoken(n)')
    BY <2>1, <2>2, <2>3 DEF OInv, Anew, Spoken
  <2>5. Phased'
    BY <2>1, <2>2, <2>3 DEF OInv, Phased
  <2> QED
    BY <2>4, <2>5 DEF OInv
<1> QED
  BY <1>2, <1>3, <1>4, <1>5, <1>6, <1>7, <1>8, <1>9, <1>10 DEF RolloutNext

\* Whoever deploys has had the order, and then nobody has anything to prepare.
LEMMA OrderedDeploy == RInv /\ OInv => NoEarlyDeploy
<1> SUFFICES ASSUME RInv, OInv, NEW n \in Controllers, Deployments(n) # {},
                    NEW m \in Controllers
             PROVE  AtWork(m) = Deployments(m)
  BY DEF NoEarlyDeploy
<1>1. Deploys(clients[n])
  BY DEF Deployments, AtWork, Deploys
<1>2. None(clients[m])
  BY <1>1 DEF OInv, Phased, Late
<1>3. clients[m] \in Client(m)!ClientHelper
  BY DEF RInv, Aboard, Fit
<1>4. ASSUME NEW w \in AtWork(m)
      PROVE  w.task = "deploy"
  <2>1. w \in {clients[m].worker} \cup clients[m].loose /\ w.task # "none"
    BY <1>4 DEF AtWork
  <2>2. w \in Client(m)!Worker
    BY <1>3, <2>1 DEF Client!ClientHelper
  <2>3. ~Preparing(w)
    BY <1>2, <2>1 DEF None, Leftover
  <2> QED
    BY <2>1, <2>2, <2>3 DEF Client!Worker, Client!NoWorker, Preparing
<1> QED
  BY <1>4 DEF Deployments

(***************************************************************************)
(* Nobody deploys while somebody is still preparing: for any number of     *)
(* controllers, with and without failures, timeouts, cancellations,        *)
(* answers, patches and tasks that outlast stop().  It is false once a     *)
(* connection was lost or a failed distribution is retried, as either      *)
(* makes the server say CTL_DOWNLOAD to controllers that have verified;    *)
(* that nothing of this kind has happened is its hypothesis.  A restarted  *)
(* controller introduces itself anew: that case is left to TLC.            *)
(***************************************************************************)
THEOREM NeverEarlyDeploy ==
    ASSUME NEW u, Upgrades = {u}
    PROVE  RolloutSpec /\ []Undisturbed => []NoEarlyDeploy
<1>1. RolloutInit => RInv /\ OInv
  BY RolloutStarts, OrderStarts
<1>2. RInv /\ OInv /\ [RolloutNext]_rolloutVars /\ Undisturbed' => RInv' /\ OInv'
  BY RolloutStep, OrderStep
<1>3. RInv /\ OInv => NoEarlyDeploy
  BY OrderedDeploy
<1> QED
  BY <1>1, <1>2, <1>3, PTL DEF RolloutSpec

=============================================================================
