# DCUS in TLA+

The Domain Controllers Upgrade Solution upgrades the controllers of a vehicle
together: a server fetches an upgrade from a hawkBit update server, hands its
packages to the controllers, lets them deploy in the order of their
dependencies, and reports one result. This directory models the engines that
decide all of it, the threads and queues they run on and the transfer of the
files; model-checks them alone and together with TLC; and proves the main
invariants with TLAPS for every value of the constants.

## 1. The system

| Part | Source | State it keeps | Operations |
|---|---|---|---|
| Domain vocabulary | `src/domain.cpp`, `include/dcus/domain.h`, `upgrade.h` | none | states, controls, version and dependency predicates, order of details |
| Server engine | `src/server/server_engine.cpp` | state, open request (`webFeed`, `hasFeed`), upgrade, details, depends, last control, retries, status file | requests and results of the web queue, heartbeats and answers, one tick a second |
| Web queue, hawkBit client | `src/server/web_queue.cpp`, `hawkbit_queue.cpp` | its task (`WEB_*`), a worker, a check timer | poll the update server, download, verify, serve files, post feedback |
| Client engine | `src/client/client_engine.cpp` | state and last state, package, upgrade id, `hasCancelAction`, a worker | controls, results of its worker, the application's results, one heartbeat a second |
| RPC adapters | `rpcs/fdbus`, `rpcs/ros`, `rpcs/vsomeip` | connection, message ids | broadcast controls and details, send heartbeats |
| Queue, timers, semaphore | `src/base/queue.cpp`, `timer.cpp`, `semaphore.cpp` | FIFO of events, timers | post, handle in order, sleep until the next timer, quit |
| Worker thread | `src/base/thread.cpp` | running and finish flags, a `std::thread` | start, stop with a limit, then let go |
| Transfers | `src/core` | files and their `.cache` counts; the files still to be fetched | HTTP download with resumption, serving, verification, patching |
| Rest | application, plugins, variants, log, utilities, `importlib`, examples, containers | | not part of the protocol |

**Interaction.** The web queue posts `REQ_UPGRADE`, `REQ_CANCEL`, `REQ_IDLE`,
`REQ_PULL` and its results to the server engine's FIFO queue; the engine posts
tasks and feedback to the web queue's. The server broadcasts *controls*
(`CTL_RESET`, `DOWNLOAD`, `DEPLOY`, `CANCEL`, `CLEAR`), each with an id, the
whole upgrade and the names still waited for (*depends*). A controller answers
nothing: it reports its state in a heartbeat, at once and every second. A
viewer is a controller that also subscribes to details and may answer dialogs.
Files travel separately, over HTTP, and the web queue is finished when every
file has been fetched. Each engine and the web queue is a thread that runs the
loop of a `Queue` and owns one worker `Thread`, whose task runs beside it and
posts its result back.

**What is hard.** Each engine handles its events one by one, so a handler is
atomic but for the worker it starts and stops; the difficulty lies between the
queues. A result may be handled after the control, replacement or cancellation
that made it obsolete. What is broadcast while a controller is away is lost and
only sometimes repeated. The server acts on heartbeats a controller may have
outlived. Cancellation races both the web queue and every controller. Timeouts
guard some states and not others. A worker that does not stop in three seconds
is let go and works on. The loop, its semaphore and the worker meet in flags
and in a condition without a predicate. A download may be broken off between
any two writes and is resumed. The server keeps one file across restarts.
`PROJECT.json` lists these hazards at their lines.

**What makes each part correct.** Server engine: the update server is answered
once and truthfully, nothing is deployed without consent, nothing is left
unwatched, a controller that rejoins is told what the state means. Client
engine: it deploys only files of the upgrade it was told, only after what it
depends on, and always says how it ended. Web queue: the engine waits for no
answer that cannot come, and serves nothing unverified. Together: dependencies
hold on the devices and not only in the messages; a reported success or
cancellation is real; every request ends. Queue and thread: no posted event
sleeps, no task is lost sight of, `stop()` and `quit()` come back. Timers: no
call is lost, early or slept over. Transfers: a file reported whole is whole.

## 2. Modules

| Module | Content | Extends or instantiates |
|---|---|---|
| `Domain` | states, controls, answers, methods, version classes, predicates | |
| `DetailOrder` | versions part by part, `operator<` of `Detail`, and theorems about both | `Domain` |
| `ServerEngine` | every handler and the tick of the server engine, as a state machine against an arbitrary environment | `Domain` |
| `ServerEngineProofs` | the server's type, inductive invariant, four safety theorems and three action properties | `ServerEngine` |
| `ClientEngine` | every handler, worker task and thread of the client engine, as functions of one record | `Domain` |
| `Rollout` | the server engine with one `ClientEngine` record per controller, the transport and a simple web queue between them | `ServerEngine`, one `ClientEngine` each |
| `RolloutProofs` | the type of the whole, that a reported success is real, the server's theorems among its controllers, and that nobody deploys while somebody is still preparing | `Rollout`, `ServerEngineProofs` |
| `OrderProofs` | nobody deploys before what it depends on | `RolloutProofs` |
| `WebQueue` | the server engine with the web queue, its worker and the update server, all events in FIFO queues | `ServerEngine` |
| `WebQueueProofs` | no wait for an answer that cannot come, nothing served unverified, every end told; the server's invariants beside its web queue | `WebQueue`, `ServerEngineProofs` |
| `Worker` | what the engines rely on of their worker: the abstract specification | |
| `WorkerThread` | class `Thread`, every access to what its threads share a step | refines `Worker` |
| `EventQueue` | the loop, posting, the semaphore, quitting | |
| `EngineThread` | the thread of an engine: loop, handlers that stop and start the worker, its tasks | `WorkerThread`, `EventQueue` |
| `EngineThreadProofs` | the worker's invariants and its refinement; those of the loop and of the worker, together | `EngineThread` |
| `Timers` | the timers of a queue and the sleep they allow | |
| `TimersProofs` | no drift, no call lost, no oversleeping | `Timers` |
| `Transfers` | `Core::distribute` and `Core::download` with crashes, breaks and lost connections | |
| `TransfersProofs` | the count on the disk never ahead of the file; what a success means for the file and for the server | `Transfers` |
| `MCServerEngine`, `MCRollout`, `MCWebQueue`, `MCTimers` | instances for TLC | |

**ServerEngine.** The record `srv` is `ServerHelper`; fields keep their names.
Handlers call one another in the code (`feedback` calls `idle`, which calls
`setState`, which posts feedback), so each is an operator from record to
record and a call is a composition. One action is one event handled to the
end. `posted` and `sent` hold what a step gives the web queue and broadcasts.
The tick's loop (`processDomains`, lines 1032-1126) changes `depends` and the
deployment clocks as it visits the details in order: `Visited` and `Passed` say
how far it gets before a failing detail returns, `Finishing` and `Started`
which clocks it stops and starts, `DependsAt` what `depends` is at each point.
Clocks are inputs of the tick: `late` (the state has outlasted its limit),
`silent` (no heartbeat for long enough), `overdue`. Results of the web queue
come in *any* order, as the handlers do not tell a late one from an expected
one.

**ClientEngine.** Handlers that stop the worker have several outcomes (the
task ends within three seconds in any of its ways, or is let go), so a step is
the set of records it may leave. `loose` holds the tasks let go: they work on
and post, as `WorkerThread` shows they do. `installed` and `files` are the
device: what it really runs and holds, which `version` and the heartbeats only
claim. `heard` stands for the id of the last control: a broadcast with that id
again is dropped.

**Rollout.** `clients[n]` is the engine of controller `n`, `wire[n]` its
heartbeats on the way. Broadcasts reach the queues of connected controllers at
once and in order, as the adapter's thread posts them; the others lose them.
The web queue is `web`, one task that answers while it is still the task. One
upgrade is offered.

**WebQueue.** `toWeb` and `toEngine` are the two FIFO queues. `held` and
`loose` are the web queue's tasks as `Worker` has them; a task reads the
engine's *current* upgrade when it starts (`transformFiles`), not that of its
request. `mode` is `WebHelper::state`, which a request sets and the end of a
task clears. `pulling` is the wait for the distribution's handle. `hub` is the
update server: it offers, waits for the end, cancels. Three history variables
serve the properties: `stale` (an answer or request met the engine in a state
or with an upgrade it was not meant for), `masked` (an old task's end has
cleared the mode the last request had set, or ended the wait for its handle),
`closed`. The end function of a task and the end of its thread are two steps
(`TaskEnds`, `FlagCleared`) where `stop()` has given the task up: the `isRunning`
the thread clears (thread.cpp:144) is then its successor's, on which the wait for
the handle depends.

**WorkerThread, EventQueue, EngineThread.** `stop()`, `start()`, a task's end,
a post, the loop's way to sleep and `quit()` are each cut at every access to a
flag, a mutex or the semaphore. The wait of `stop()` has no predicate, and may
end untold (its limit, or spuriously). `EngineThread` lets a handler be inside
`stop()` for many steps, during which the loop handles nothing and others post.

**Timers.** Time is a counter in milliseconds; functions that are due may last
(time passes while they run), sleeps last until the planned end or less.

**Transfers.** A file is a sequence of blocks, each fetched anew or appended
twice; `cache` is the count in its `.cache` file. Each file has a client's
thread (`job`) and a server's (`conn`), as both thread pools have room.

## 3. Abstractions and bounds

- Versions: four classes relative to the package in `ServerEngine`, which
  `DetailOrder` proves exact for sequences of numbers; numbers in `Rollout`.
- The order of details is a constant `Position`, any injective one.
- Error codes are 0 or 1. Message ids are "again" or not.
- Progress, messages, attributes, detail broadcasts and logs are left out. A
  viewer's answer goes straight to the server.
- `NoName` is the empty string. A heartbeat without a name is dropped, an upgrade
  whose package has no domain fails at the tick that meets it. No run offers such
  an upgrade (it makes `solo` half as large again, with the same result):
  the theorems about `ServerEngine` are for every upgrade, with such packages too.
  In `Rollout` every controller has a name and every answer is one
  (`RolloutAssumption`).
- `cacheLastState` is left out: `resume` assigns it and `deploy` overwrites it.
- Package names are distinct within an upgrade, which makes `packages` a set.

| Module | Bound | Meaning |
|---|---|---|
| `Rollout` | `Faults` | lost connections and restarts, together |
| | `Lasting` | tasks that may outlast `stop()` |
| | `Swift` | what may be over within a second: a deployment (its clock may never start), a disconnection (no heartbeat notices) |
| `WebQueue` | `Checks` | polls that bring an answer |
| | `Mishaps` | lost feeds, failed tasks and tasks let go, together |
| | `Waiting` | the engine takes its next event only while at most so many of its own wait at the web queue |
| `EventQueue` | `Posts`, `Limit`, `Spurious` | events ever posted, `QUEUE_MAX_NUM`, spurious wakeups between two resets |
| `WorkerThread` | `MaxTasks` | tasks ever started |
| `Timers` | `MaxTime` | the end of time |
| `Transfers` | `Size`, `Rounds`, `Shows`, `Cuts`, `Drops` | blocks, downloads, distributions, breaks and crashes, lost connections |

In `Rollout`, `Beat` fires only when the server has handled the controller's
last heartbeat (it handles one in far less than a second), which keeps the
state space finite; `CanFail`, `CanCancel`, `Answers` switch failures,
cancellations and the viewer on.

## 4. What is checked

| Run | Instance | Properties | States |
|---|---|---|---|
| `solo` | one controller, a viewer, an upgrade that asks; heartbeats without a name or an answer; unbounded in length | all eight of `ServerEngine` | 491 584 |
| `web` | one controller that waits, two forced upgrades, one mishap | `AwaitsTask`, `ServedIsVerified`, `ClosedIsTold` | 3 578 072 |
| `chain` | three controllers, each needs the one before | `DependsRespected`, `NoEarlyDeploy` | 125 584 |
| `blink` | two, one lost connection of any length | `DependsRespected`, `SuccessIsReal` | 276 757 |
| `reboot` | two, one restart, failures, tasks that outlast `stop()` | `DependsRespected`, `NoEarlyDeploy`, `SuccessIsReal` | 598 717 |
| `cancel` | two, a cancellation and answers at any moment, lasting tasks | `RolloutTypeOK`, `CancelIsReal` | 379 986 |
| `ends` | one, failures, a restart or lost connection, a patch, lasting deployments | `RequestCloses` | 80 844 |
| `cancelled` | one, failures, a cancellation, answers, lasting tasks | `CancelCloses` | 31 582 |
| `smooth` | two, no failures, patches, no timeout | `RequestSucceeds` | 19 253 |
| `engine` | three events, two tasks, another poster, a quitter; with and without timers | `NoneLost`, `FlagIsRight`, `StopReturns`, `KeepsWorker`, `EventsHandled`, `NextPostRescues`, `QuitEnds`, `QuitHandlesAll`, `AtMostOneSkip` | 321 460 |
| `timers` | a timer that loops, one that does not, three intervals (one is 0) | `TypeOK`, `NoDrift`, `NoOversleep`, `OnceOnly` | 126 589 |
| `transfers` | two files of two blocks, two downloads, one cut, one lost connection | `CountNeverAhead`, `SuccessIsWhole`, `Distributed`, `DownloadEnds` | 727 276 |

Why the bounds suffice. The server's handlers look at one detail, at all, or at
one and those it depends on; two controllers give every such relation and three
a chain in which the middle one both waits and is waited for. Within one rollout
each controller changes state about six times, so one disturbance at *every*
point already meets every phase; what needs two is named in section 6. In `web`
two upgrades are enough for one to replace the other, one mishap falls on every
point of every task and feed, and one waiting event lets every request of the
engine cross every answer of the web queue; the deployment itself ends there by
timeout or abortion, because the one report never shows a new version: `solo`
has new versions, and `Rollout` whole deployments: their clocks and the
broadcasts of those that finish (`Started`, `Finishing`) are exercised there. In
`engine` a task and its successor are all the code tells apart (the flags have
no more values), and `Limit` 1 reaches `std::terminate`. In `timers` three
periods fit, with the change of an interval between any two. In `transfers` two
blocks are the least with a middle.

**Fairness.** `RolloutFairness`: the tick and the heartbeat are periodic timers,
queues are handled while not empty (`EventsHandled` shows it of the loop), the
transport reconnects, a task ends, let go or not, the web queue answers. All of
it is weak fairness of steps that stay enabled until taken; nothing assumes
that a task succeeds when it can fail, nor that a lost message arrives.
`TimeoutFairness`, in `ends` and `cancelled` only, says that `MR_PENDING`,
`MR_DISTRIBUTE`, `MR_DEPLOY` and `MR_CANCEL` time out if they last (the clocks
of lines 985-1031); `cancelled` also that a viewer answers a dialog that stays.
`MR_DOWNLOAD` and `MR_VERIFY` get no timeout, so they have to end by the web
queue's answer. `smooth` has no timeout at all. `EngineFairness` runs the loop,
the handler, the tasks and a poster that has pushed, and lets limited waits end;
it does not assume that anything is posted, that `quit()` is called, nor that a
wait without a limit ends by itself. `TransfersSpec` runs the threads of both
sides (httplib limits every wait), not the faults.

**Exceptions in the properties.** Where the code has a path that breaks the
plain statement, the property names the path and nothing more: `stale` and
`masked` in `WebQueue`, `Forgotten` in `CancelCloses`, `Gap` and `Missed` in
`StopReturns`, `torn`, `spinning` and `unheard` in `Transfers`. Section 6 tells
what each means for the program. `Missed` holds only of a notification that was
given *before* the wait it was meant for: the owner is between its look at
`isRunning` and the wait, the task is gone already, and the wait has no limit. A
task that ends while `stop()` waits has to wake it, and a thread that forgets
`notify_one` fails `StopReturns` by exactly that (`Notify_nobody`).

Every property has a mutant of a mapped definition (the operators marked
*Slip*, or defined just before the one they change) that violates it: a
forgotten reset, a guard left out, a quantifier weakened, a broadcast not sent,
two writes swapped.

**Refinement.** `Worker` says what an engine may assume of its worker: one task
held at a time, told to stop, let go only after it was told, at work until it
ends by itself. `WorkerThread` implements it under the mapping at its end
(`KeepsWorker`), checked inside the whole engine's thread by `engine` and
proved for any number of tasks. `ClientEngine` and `WebQueue` treat their
workers as `Worker` does: a held task, and loose ones.

## 5. What is proved

For every set of names, upgrades, messages, every dependency relation, every
injective order and every number of retries (`ServerAssumption`):

- `TypeCorrect`: `Spec => []TypeOK`. One lemma per call and handler says that
  it keeps `Typed`; `LoopedTyped` needs that the broadcasts of a tick are
  finitely many, from `IsFiniteSet(Names)`.
- `Inductive`: `Spec => []IInv`, with `IInv == TypeOK /\ Sound(srv)` and
  `Sound == Matched /\ Armed /\ Sanctioned /\ Rejoins`. None of the four
  properties it implies is inductive alone: `DeploySanctioned` needs that
  `MR_DEPLOY_ASK` is entered only for an upgrade that asks; `RejoinControl` of a
  final dialog needs that it is entered by `feedback`; `WatchdogArmed` of a
  dialog or a deployment needs that its predecessor was armed, which the guard
  at the head of the tick provides. The proof states the *effect* of each call
  on the fields the invariant reads (`setStateEffect`, `feedbackSound`, ...), then
  has one lemma per handler and one step per action of `Next`. The loop of the
  tick leaves all these fields alone but `depends` and the details' contents
  (`Near`), so that its order is irrelevant to the invariant.
- `WatchdogAlwaysArmed`, `DetailsAlwaysMatch`, `DeployAlwaysSanctioned`,
  `RejoinAlwaysControlled`: the four safety invariants.
- `NeverSilentEnd`, `AlwaysClosesOnce`, `SuccessAlwaysDeployed`: the three action
  properties. For each call it is stated what it *posts*: nothing that closes
  (`Silent`), or one feed that does (`OnlyCloses`). A handler is then `Fine`: it
  closes an open request once and truthfully, and does not fall idle with it
  open. The invariant `AInv` adds to `IInv` that what is being cancelled is the
  open request (else the end of a cancellation might report a success of the
  deployment) and that a server without its web queue is offline (else its
  first result might end a request). `StepKinds` says that every step is
  `Fine`, or a withdrawal, or a new cancellation.

For any number of tasks (`MaxTasksAssumption`, `EngineThreadProofs`):

- `Inductive`, `NoTaskLost`, `FlagRight`: the worker's
  invariants. The strengthening says where the owner may be for each state of
  the last task, and that only the last task can still be joined.
- `ImplementsWorker`: `Spec => KeepsWorker`, step by step.
- `EngineKeepsWorker`: the same three inside the engine's thread, since every step
  of the whole is a step of the worker or none of it (`WorkerSteps`).

For any number of events, posters and tasks, with and without timers (the same
module):

- `QuitAlwaysHandlesAll`, `SemaphoreNeverCollects`: the queue's two invariants.
  The strengthening `QInv` ties the count of the semaphore to the sleep it belongs
  to, and lets the loop reach its last events only when it was asked to quit.

For any number of controllers, faults and lasting tasks, with and without
failures, cancellations and answers (`RolloutProofs`). `Messages <- Message` in
the instances says that the server may be sent every heartbeat there is, so
that what its controllers send is among it:

- `RolloutInductive`: `RolloutSpec => []RInv`. `RInv` takes the server's `AInv`
  and follows two things through the rollout. Packages (`Provided`): a task, a
  result and a control that holds one are about a package that was offered, and
  who works has one. Versions (`Honest`): a controller reports one, or has a
  finished deployment in its queue, only when it has installed one; the same of
  the heartbeats on the wire (`Underway`), of what the server has recorded
  (`Reported`) and of what it tells the update server (`Told`). One lemma per
  handler of `ClientEngine` shows that it keeps `Fit`, once for the record it is
  a function of.
- `RolloutTypeCorrect`: the type, in which `task = "none" \/ package # NoId` is
  the part that needs `Provided`.
- `ServerImplements`: `RolloutSpec => [][Next]_vars`, so that
  `ServerSafeAmongControllers` and `ServerAnswersAmongControllers` carry the seven
  theorems about the server alone over to the server among real controllers.
- `SuccessAlwaysReal`: `SuccessIsReal`, when one upgrade is offered
  (`Upgrades = {u}`, as in every instance). With two, a controller that runs the
  first would be honest without running the second.

For any number of controllers of one upgrade (`NeverEarlyDeploy` at the end of
`RolloutProofs`, then `OrderProofs`):

- `NeverEarlyDeploy`: `RolloutSpec /\ []Undisturbed => []NoEarlyDeploy`, with
  failures, timeouts, cancellations, a viewer's answers, patches and tasks that
  outlast `stop()`. `Undisturbed` says that no connection has been lost, no
  controller has restarted and no download is being retried (it constrains no
  other step, and a whole upgrade may take place under it): section 6, 4 has
  the counterexamples without it, and the case of a restart alone is left to
  `reboot`. The invariant `OInv` is about three things. A controller (`Orderly`)
  has never more than one thing to prepare, be it an event in its queue, the
  task of its worker or one that was let go, and none when it says that it
  waits; one lemma per handler, call and end of a task shows that they keep this
  (`Kept`). What a controller has said (`Spoken`) introduces it once, before
  anything else, and a `WR_WAIT`, on the wire or in the server's details, is
  still true. How far the upgrade is (`Phased`) follows from the control, the
  state and the web queue's task (`Shown`): from the request to download on every
  controller has introduced itself (`Settled`), so that nobody is told
  `CTL_DOWNLOAD` a second time; before it is broadcast nobody has anything to
  prepare (`Early`), nor after the order to deploy (`Late`). `Leads` says of each
  of the server's handlers which of these marks it may add.
- `LineDependsRespected`: `RolloutSpec /\ []Unhindered => []DependsRespected` for any
  number of controllers that depend on each other in a line (`Line(rank)`: of any
  two, the one of higher rank requires the other, or one that is not below that;
  the instances with two and with three controllers are such lines), with
  failures, timeouts, answers, patches, swift deployments and tasks that outlast
  `stop()`. `Unhindered` is `Undisturbed` without cancellations. Beside a line the
  property is false (section 6, 1). The invariant `CInv` has one part per phase of
  an upgrade (`Resting`, `Heading`, `Running`, `Finished`), each of which ties the
  state, the control and the web queue's task. A controller deploys when an order
  names, in its `depends`, nothing that it requires (`Releases`); no handler
  releases what was not released (`Carries`), so that everything rests on the
  orders the server sends. Their `depends` are those that wait *as far as the
  server knows*, which is true because a controller whose order is to come does
  nothing else: before the order, who waits has no event and no task left
  (`Ahead`, the one token that `Single` counts), after it nobody goes back from
  `WR_WAIT` to `WR_DEPLOY` to `WR_IDLE` or `WR_ERROR` (`Afoot`), and so what was once
  said stays true (`Lasts`), on the wire and in the server's details. Then there
  is one whose turn it is: who has left its wait finds all of lower rank done
  (`Below`), recorded as such and installed; all others have released nothing
  (`Fallow`). The next order goes out in the tick in which the one whose turn it
  was has finished (`RunningTick`); in a line its `depends` hold, of all above but
  the next, one that they require. Of the tick, `LoopedFields` gives the whole walk
  along the details in closed form, messages included, from which `Stays` (before
  the deployment) and `Proceeds` (during it) follow.

For any upgrades, ids, polls, mishaps and length of the queues
(`WebQueueProofs`):

- `WebInductive`: `WebSpec => []WInv`. `WInv` says at which of three places the
  answer is that the engine waits for (`Expected`: the last request in `toWeb`, a
  task at work on the engine's own upgrade, the answer in `toEngine`), that the
  controllers are or will be sent for files being distributed (`SentFor`), that
  verified files stay so (`Checked`), and that whatever is named anywhere is an
  action the update server has opened (`AllNamed`), so that a feed that closes is
  about one it can be told of (`Accounted`). The first three are claimed while not
  `stale`, for the paths of section 6.
- `AlwaysAwaitsTask`, `ServedAlwaysVerified`, `ClosedAlwaysTold`: the three
  invariants of `web`. `WebServerSafe`: the server's four, which `solo` checks with
  answers in any order, hold with those this queue gives.

For any timers, intervals, offset and times (`TimersProofs`):

- `TimersInductive`, and from it `TimersTypeCorrect`, `NeverDrifts`,
  `NeverOversleeps`, `AlwaysOnce`. Calls agree with counts because the list that
  is concatenated holds each timer as often as it is due (`FlattenedCount`, over
  the fold that `FlattenSeq` is); sleeps end in time because the end of the period
  that `%` gives is not after the one that `\div` waits for, whatever the offset
  (`RemainsWithin`).

For any files of any size and any number of downloads, cuts and lost
connections (`TransfersProofs`):

- `CountStaysBehind`: `CountNeverAhead`. It is not inductive: the count written
  is that of the thread's connection, so `CountInv` adds (`Written`) that the file
  of a thread at work holds what the connection began at and has received, and
  the block appended but not counted. `Like` carries that through what the
  server and the other threads do to a connection: they never give it blocks
  that were received.
- `SuccessAlwaysWhole`: `SuccessIsWhole`, for one client and files that do not
  change on the server: after any interruptions and resumptions, whatever is not
  `torn` is whole. `LoadInv` adds that a file not `torn` is a
  prefix of the original that ends where its connection has got to (`InOrder`),
  that nothing exceeds the size (`Bounded`), and that a file no longer to be
  fetched has it (`Settled`).
- `AlwaysDistributed`: `Distributed`, for one client: when its download succeeds,
  the server knows it of every file that is neither `spinning` nor `unheard`.
  `HeardInv` adds that a connection that got its end was noted by the server or
  spins there (`Answering`), and that a server that listens not serves nothing
  (`Serving`).
- Both theorems also say when there are no exceptions. In the first attempt of
  the first download (`First`) nothing is resumed and nothing was there before:
  a success means that *every* file is whole (`FirstIsWhole`) and, when the files
  were distributed once, that the server counts *all* as fetched
  (`FirstIsDistributed`), whatever was lost in between. `FirstInv` adds that no
  count or file is older than this attempt (`Fresh`), that no connection asks for
  a rest or has been served on (`Unserved`), and that a connection refused because
  nothing was distributed keeps its file, and with it the download, from
  succeeding (`Forlorn`, `Unaware`). Later attempts have the exceptions of section
  6, 16 to 18.

For any two versions and any details (`DetailOrder`):

- `ClassIsExact`: the four classes the models use decide both predicates the
  code asks of a pair of versions. `NewerIsVaild`: what is newer in every part
  is accepted. `OlderMayBeVaild` and `LessIsCircular` are the counterexamples of
  section 6, as theorems.

Where a proof needs an induction over numbers (a walk of the tick along the
details, a concatenation), it takes the least element of a set of naturals
(`LeastElement`, `Upto`): the library's induction theorems have an operator as a
parameter and cannot be used, the one about minima of well-founded relations
can.

Only model-checked:

- `DependsRespected` when a connection is lost (`blink`) or a controller restarts
  (`reboot`). `LineDependsRespected` excludes both, as `OInv`, on which it rests,
  does; and cancellations, because a controller that is cancelled is idle again
  after it has said that it waits, so that `Lasts` does not hold: no run has shown
  a package deployed too early for that, and none proves that it cannot be. For
  other dependencies than a line it is false (section 6, 1).
- `NoEarlyDeploy` when a controller restarts (`reboot`); it does not hold with lost
  connections or retries (section 6, 4).
- `CancelIsReal` needs an invariant that ties every controller's state to the
  controls and heartbeats still under way.
- `StopReturns`, `EventsHandled`, `QuitEnds`, `NextPostRescues`, `DownloadEnds`,
  `RequestCloses`, `CancelCloses`, `RequestSucceeds`: liveness under fairness is out
  of the proof system's reach, and so is ENABLED.

## 6. Where the code falls short

Modelling met behaviours that violate a natural stronger property. None
contradicts what a document or test of the repository says, so none is listed
as a finding; the properties leave them out by name.

*Server and controllers*

1. With three controllers, one of them independent, `DependsRespected` fails: the
   independent one finishes in the tick in which another's `WR_DEPLOY` is first
   seen, and the other is dropped from `depends` (1103-1107). `chain` is the case
   without an independent controller, of which `LineDependsRespected` is the
   theorem.
2. A deployment shorter than a tick never starts its clock (1114-1119), so its
   dependents wait until `MR_DEPLOY` times out. `smooth` has `Swift = {}`.
3. A disconnection shorter than a heartbeat loses broadcasts without a
   discovery (client 617-625). Only timeouts help.
4. A `CTL_DOWNLOAD` repeated after a reconnection while verifying leaves a stale
   `RES_VERIFY` in the queue: the server may deploy while the controller
   downloads, and the result of the deployment is dropped (client 209-213).
   So does a distribution that fails after its files are fetched and is retried:
   `REQ_PULL` repeats `CTL_DOWNLOAD`. `NoEarlyDeploy` is therefore not checked with
   lost connections, nor with retries.
5. A cancellation accepted while distributing is forgotten: the web queue is not
   stopped, `RES_DISTRUBUTE_DONE` leads to `MR_WAIT`, which has no timeout.
   `CancelCloses` excepts exactly this (`Forgotten`).
6. A restart whose discovery is answered by a broadcast that is lost leaves the
   server in `MR_WAIT` for ever: two faults, and no liveness run has both.
7. A result handled in `MR_CANCEL_ASK` lets the upgrade go on with the feedback
   type of the cancellation, and its success is reported as that of the
   cancellation. `CancelIsReal` is about closing from `MR_CANCEL`. An answer to a
   dialog that has gone is taken for the next dialog's: `DeploySanctioned` takes
   any answer for consent, as the code does.

*Server and web queue*

8. The end of the previous task sets `WEB_IDLE` while `stopThread()` waits for
   it, after the new request has set the mode: `REQ_PULL` is dropped and no
   controller is told to download, until `MR_DISTRIBUTE` times out (`masked`). So
   does a task that `stop()` let go when it clears `isRunning` during the wait for
   its successor's handle (web_queue.cpp:177): `REQ_PULL` is not even posted.
9. A task takes the files of the upgrade the engine has when the request is
   handled (`transformFiles`, web_queue.cpp:306): after a replacement it may
   distribute files of the new upgrade that nobody has verified (`stale`).
10. `REQ_PULL` looks at the web queue's state only: one that crosses a timeout
    puts an idle engine into `MR_DISTRIBUTE` with its tick switched off.
11. `postUpgrade` compares under a lock and posts after it, so that the same
    upgrade may be posted twice; the second one starts the preparation anew.

*Threads, queues and timers*

12. "thread is forced to end": a task that outlasts `stop()` is only detached,
    since `HAS_PTHREAD` is defined nowhere. It goes on beside its successor,
    shares its flags, and is told to stop no more once the next has started.
13. `stop()` joins under the mutex the task locks to notify: both may wait for
    ever (`Gap`). Without a limit (`quit()`, `~Thread`) it may also wait for a
    notification that was given between its look at `isRunning` and its wait
    (`Missed`).
14. A reset of the semaphore that comes before the sleep is lost. Where timers
    run, the next one ends the sleep; without any, an event waits for the next
    post (`NextPostRescues`), and `quit()` for ever.
15. `setInterval` keeps the count of periods that have passed, so that a longer
    interval stays silent until the count is reached again, a shorter one
    is called several times at once. `NoDrift` is about an unchanged interval.

*Transfers*

16. A resumption truncates the `.cache` file before anything has arrived; broken
    off there, the next one appends a whole file to what is there (`torn`), and a
    file of the right size but wrong content is never fetched again.
17. The range a resuming client asks for ends one byte past the file: the
    server's content provider is called for ever, its pool thread is lost and the
    file never counts as fetched, so the distribution does not end (`spinning`).
18. For a file that is there already the server announces a length and sends
    nothing; the client forgives the error, the server may not have heard of it
    (`unheard`).
19. An early return while the pool's threads run ends the process
    (download_http.cpp:339, action `Terminate`).

*Versions*

20. A version is accepted as soon as one part is greater: two releases may each
    replace the other (`OlderMayBeVaild`).
21. `operator<` of `Detail` may be circular, and `std::sort` is given it
    (`LessIsCircular`).

## 7. Not modelled, and what is left

- The client's `REQ_DETAIL` and `RES_ANSWER` (what a viewer adds to a controller)
  and progress; `REQ_CLEAR`, `REQ_CHECK` and `REQ_CLEARALL` of the web queue,
  which nothing posts; the parsing of the update server's JSON.
- `Timer::once` and `onceTimer`, `waitforQuit`, `wakeUp`, `isBusy`, `eventCount` of
  the queue, which no part of the program calls, and `removeTimer`, which beside
  `onceTimer` only the destructor of a timer calls.
- Verifying (OpenSSL) and patching (bsdiff): library calls whose outcome is a
  choice in the other modules. `Core::pull` is the code of `Core::download`
  (`pull_http.cpp` calls `httpDownloadCommon`) against the update server's HTTP
  server, which is not part of the repository: an outcome in `WebQueue`.
- ROS and vsomeip adapters carry the same messages as fdbus.
- Application start up, plugins, variants, log, utilities, examples, deployment
  files: no protocol of their own, or wrappers of a library. `importlib` is
  third party code in headers (`httplib.hpp`, `filesystem.hpp`, `getopt.hpp`,
  `dylib.hpp`), which with `variant.cpp` is more than half of the repository's
  lines: the share of *all* lines that models translate stays small for that
  reason, whatever is added.
- A second upgrade in `Rollout` (stale error numbers, `patchNewFiles` that
  survives a cancellation): it doubles a state space that is at the limit of a
  run. Two controllers with lasting tasks *and* cancellations and faults at
  once, for the same reason. Earlier instances with replacements in `solo` and with
  a retry in `ends` were given up for `web`, which replaces and retries.
- A proof of `CancelIsReal`, and of `DependsRespected` with cancellations, would be
  next.

Run a configuration with `tlc -config MCRollout_chain.cfg MCRollout`, check the
proofs with `tlapm ServerEngineProofs.tla`.
