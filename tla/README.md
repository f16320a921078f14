# A TLA+ verification of kubewatch

kubewatch (Devtron's fork) runs next to the Devtron orchestrator. It watches
workflow pods in every cluster the orchestrator knows, Argo workflows and Argo CD
applications in its own cluster, and publishes what happens to them on NATS or
over REST. This directory models the parts of it that carry state, checks them
with TLC on small instances and proves all of the safety properties with
TLAPS for every value of the constants.

## 1. Inventory

| component | code | state it keeps | operations |
|---|---|---|---|
| cluster informer registry | `pkg/informer/K8sInformer.go`, `pkg/cluster/ClusterRepository.go` | `informerStopper`: cluster id to stop channel | start an informer per active cluster, add/update/delete handlers of the cluster secrets, stop all at shutdown |
| workflow pod informer | `pkg/informer/K8sInformer.go` 295-433 | the shared informer's copy of the pods | `UpdateFunc`, `DeleteFunc`, publish |
| workflow status of a pod | `pkg/informer/K8sInformer.go` 449-661 | none (but it sorts a slice of the shared copy) | pure: pod status to workflow status |
| process life cycle | `main.go`, `App.go`, wire files | `app.server`, the signal channel, `stopChan` | start, serve, signal, stop |
| CI, CD and Argo CD informers | `pkg/controller/informer.go` | three shared informers, their stop channels | publish workflow and application changes, on NATS or REST |
| resource controller | `pkg/controller/controller.go`, `pkg/utils/k8sutil.go` | work queue, retry counts, one event variable | enqueue, process, retry, give up |
| configuration and commands | `config/config.go`, `cmd/*.go`, `pkg/client/run.go` | the file `.kubewatch.yaml` | create, load, change and write it; choose and start a handler |
| notification handlers and events | `pkg/handlers/*`, `pkg/event/event.go` | the settings of the chosen handler | `Init`, make an event of an object, make a message of it, send it once |
| router, metrics, logger, SQL | `api/router`, `pkg/middleware`, `pkg/logger`, `pkg/sql` | none of their own | wiring |

Interactions. `main` starts the HTTP server in a goroutine, then (for
`CLUSTER_TYPE=ALL_CLUSTER` without external listener) builds the registry: the
secret informer is started first, so its handlers run concurrently with the loop
over the active clusters. Each cluster's informer runs its own goroutines, which
call the handlers one at a time and publish. `main` then starts the controller
goroutine with the CI, CD and Argo CD informers, and waits for a signal. Shutdown hands a
value to the controller goroutine over `stopChan`, shuts the server down, stops
every registered informer and closes the database.

Hard behaviours, by component, and what makes it correct:

- *Cluster informer registry.* Two goroutines share `informerStopper` without
  the mutex declared for it. Correct means: a registered channel stops a live
  informer of that cluster; informers are not lost; no channel is closed twice
  while serving; an active cluster ends up watched with its current config and a
  deleted one unwatched. Calls fail halfway, rows are read before they change,
  the process crashes and restarts.
- *Workflow pod informer.* Lost publishes, resyncs, tombstones, recreation of a
  pod under the same name, and several informers of a cluster at a time: a
  stopped one that is not done, or one the registry has lost. Correct means: no
  false "pod deleted", no informer goes back behind the message it sent last, and
  the outcome of a pod is the last message in the end.
- *Workflow status.* A sort, early returns and ignored containers decide what a
  failed pod is reported as; the sort changes an object that is shared.
- *Process life cycle.* An unbuffered hand-over between `main` and the
  controller, a server variable assigned in another goroutine, signals at any
  moment, start-up calls that fail.
- *CI, CD and Argo CD informers.* No resync and no `AddFunc`: a message that is
  lost is lost for good. Correct means: in order, and current unless a call was
  given up.
- *Resource controller and notification handlers.* One event variable for all
  handlers, a work queue that merges equal events, retries, a comparison of
  truncated times, and handlers that log the error of their request and report
  nothing. Correct means: a creation and a deletion are told, under the right
  name and namespace, unless given up or lost in the one request.
- *Configuration.* Every command loads the whole file, changes its copy and
  writes all of it back, without a lock; the write truncates first; a missing
  file is looked for and then created with a call that truncates. Correct means:
  a command that runs alone loses nothing, and a complete configuration of a
  handler is the one that runs. Handlers are chosen by any of their fields and
  need all of them; some fields also come from the environment, under names that
  differ from one function to the next.

## 2. Modules

One TLA+ action stands for one step of a goroutine, which ends at a call
another goroutine or process can observe. Definitions keep the names of the
code (`UpdateFunc`, `CheckIfPodDeleted`, `HandleClusterDeleteEvent`, ...);
`PROJECT.json` maps each one to its lines. Operators marked "Faulty" are not
part of any specification: they are slips of the kind the code could have, and
each property is known to be violated when one of them replaces the real
definition.

| module | models | state |
|---|---|---|
| `K8sInformer` | the registry: `BuildInformerForAllClusters`, `startClusterInformer` and its handlers, `syncSystemWorkflowInformer`, `start`/`stopSystemWorkflowInformer`, `StopAllSystemWorkflowInformer`, the repository's queries | `informerStopper`; `informer`: what each open channel stops; `pc`, `frame`: control point and locals of `main` and of the handler goroutine; `todo`: the rest of the loop `main` is in; `db`, `secrets`, `queue`: the outside |
| `ClusterRemoval` | `K8sInformer` with a history of missed removals | `missed` |
| `K8sInformerProofs` | theorems about `K8sInformer`: types, `RegistryInv` and what follows from it | |
| `K8sInformerOrphans` | theorems about `K8sInformer` and `ClusterRemoval`: what can be left running | |
| `Relay` | abstract: what a subscriber of an informer without resync may rely on | `latest`, `told`, `strays` |
| `WorkflowStatus` | `assessNodeStatus` and what it calls, as operators, with a reference definition | none |
| `PodInformer` | the pod handlers for one pod name, in all informers of a cluster | `server`; of each informer `run` (off, on, stopped), `store`, `events`, `handler`: the call in progress; `topic`: the last message |
| `Watch` | external: an object and the informers that watch it without resync | `server`, `store`, `events` |
| `WorkflowInformer` | CI and CD informers for one workflow, NATS and REST | `handler`, `late`, `received` |
| `ApplicationInformer` | Argo CD informer for one application | `handler`, `topic` |
| `Kubewatch` | `main`, `App.Start`, `App.Stop` and the controller goroutine `Informer.Start` | control points of the three goroutines, `server`, `stopCh`, `registry`, `db`, `process` |
| `Notification` | `GetObjectMetaData`, `event.New`, `Message` and the messages of the five handlers, as operators | none |
| `ResourceController` | `newResourceController`, `Controller.Run`, its worker, `processItem` and the sending of messages | `newEvent`, the work queue, `worker` |
| `Config` | the commands of `cmd` on the config file, and the root command up to the handler it starts | `file`; `proc`: the command of each process, its step and its copy; `env` |
| `PodInformerProofs`, `WorkflowInformerProofs`, `ApplicationInformerProofs`, `KubewatchProofs`, `ResourceControllerProofs`, `ConfigProofs` | theorems about the module of that name | |
| `MC...` | instances for TLC | |

`PodInformer` extends `WorkflowStatus`; `WorkflowInformer` and
`ApplicationInformer` extend `Watch` and implement `Relay` (once for each
informer); `ResourceController` extends `Notification`. `Kubewatch` has the
registry as one value (`none`, `running`, `stopped`) where `K8sInformer` has its
detail: `stopped` means that `StopAllSystemWorkflowInformer` has gone through the
map, not that no informer is left, and while that loop and a secret handler may
meet, the registry can crash the process (`RegistryCrash`: a channel closed twice,
or Go's abort). `PodInformer` takes from `K8sInformer` that informers of one
cluster may overlap: `Start` and `Stop` of any informer happen at any moment.

`Relay` is what the orchestrator can count on: states of an object arrive in
their order, none before it was written, and none of an object that was told to
be gone. A message its sender has given up may still be under way (a REST call
whose answer was lost) and is then a stray; only strays go back. On NATS, and
for applications, there are none.

Choices worth knowing:

- The unsynchronised map is a data race. `K8sInformer` makes each access a step
  and lets the runtime's "concurrent map" abort happen whenever an access and a
  write of two goroutines are both next (`MapFault`). Torn reads are not
  modelled.
- A stop channel may be reused as a model value once it is garbage: closed, not
  in the map, and held by nobody.
- Failures are choices of the model, limited by a bound, at every call the code
  checks for an error: database queries, client construction, publishes, posts.
- Delete notifications a watch has missed arrive as tombstones, as client-go
  delivers them; none of the handlers of this program recognises one, except
  those of the resource controller.
- `sort.Slice` in `inferFailedReason` sorts the informer's own copy of the pod.
  `Handle` of `PodInformer` therefore also changes `store` and the queued
  notifications that share the object. Up to 12 elements (`MaxInsertion`) Go's
  `sort.Slice` is an insertion sort and keeps the order of equals, and the model
  gives every container the place it is sorted to; pods with more containers,
  where the order of equals is not determined, are outside the model.
- A `Stop` of `PodInformer` is the moment client-go notices the closed channel.
  The call in progress goes on, and any number of the waiting notifications are
  still handed over. An informer that is never stopped is one the registry has
  lost (`registry_duplicate`), or one a handler started during shutdown.
- `Assessed` and `Left` of `PodInformer` are `AssessNodeStatus` and `AfterAssess`
  as functions of the statuses there are, so that TLC computes each once.
- The handlers of the Argo CD informer test for a nil client; it runs only when
  there is one, so these branches have no counterpart.
- Nothing in the repository calls `newResourceController` any more. The module
  models it as one controller of one resource type that `GetObjectMetaData`
  knows; `serverStartTime` is shared by all controllers.
  `GetByKey` is allowed to fail, as its signature says and as the retry code
  expects; client-go's own store never fails.
- `New` and `GetObjectMetaData` switch on different API versions of deployments,
  daemon sets and replica sets, and only `New` knows config maps. `Notification`
  has both tables; the controller is modelled for a type both know. For the
  others a message has no kind, or no name and no creation time, and their
  creation is never announced. No event has the kind `Event`, so that case of
  `Message` is never taken.
- In a message, what it names and the status its colour stands for are kept; the
  wording is not. The url of hipchat can be parsed. The default handler does
  nothing and sends nothing.
- A configuration is the set of its fields that are not zero; what a token says
  is left out. `Broken` is a file that is not yaml any more: the end of a longer
  text behind a shorter one. An empty file loads as the empty configuration.
  `config view` (which reads the file under `$HOME`), `version` and the help only
  print. The field `namespace`, the url of hipchat (whose flag is not read) and
  everything else no command sets are set by hand or not at all.
- `mattermost --username` is only read with `--url`, and `--url` alone clears the
  name: `AddMattermost`.
- Nothing in the repository calls `cmd.Execute` any more; the root command
  returns once its handler is initialised.

## 3. Runs

Numbers of distinct states are those of the last run.

| run | states | what it shows |
|---|---|---|
| `registry` | 200458 | one cluster, all interleavings of startup, handlers and shutdown, a failing call, crashes, restarts: `TypeOK`, the inductive invariant `RegistryInv`, `NoNewOrphans`, `DoubleCloseOnlyAtShutdown`; under fairness `EventuallyCurrent` and `DeleteUnregisters` |
| `registry_two` | 1887269 | two clusters in the same loops and queue, with a failing call: at most one informer of a cluster is ever lost (`AtMostOneOrphan`); if no handler ran, shutdown leaves nothing running (`NothingLeftRunning`); a removed cluster is watched on only if the process missed its removal in one of the listed ways (`WatchedOnlyIfMissed`: a tombstone, a secret that goes before the row, a failed query, no secret informer, startup) |
| `registry_duplicate` | - | violation, section 4 |
| `pod_status` | 100952 | about 1700 pod statuses, of a known and of an unknown workflow type, through `UpdateFunc` again and again: `TypeOK`, `StatusMatchesReference`, `ReassessStable` |
| `pod_life` | 186490 | the life of a pod name under two informers that start, overlap and stop at any moment: `DeletedMeansGone`, `NoRegression`, `EventuallyReported`, `KilledPodReported` |
| `pod_success` | - | violation, section 4 |
| `workflow` | 293436 | a workflow both informers see, on NATS and REST: `TypeOK`, `LastStatusIsCurrent`, `EventuallyTold`, and each informer implements `Relay` (`ImplementsRelay`) |
| `application` | 49786 | an application: `TypeOK`, `LastMessageIsCurrent`, `EventuallyTold`, `DeletionTold`, and the informer implements `Relay` without strays (`ImplementsRelay`) |
| `life_cycle` | 6552 | all 32 configurations, any failure, a signal at any time: `TypeOK`, `OrderlyExit`, `WatchUntilSignal`, `GracefulStaysGraceful`, `SignalEnds`, and no deadlock |
| `controller` | 296457 | one object through queue, worker and messages: `TypeOK`, `NoStaleFailures`, `OwedIsQueued`, `CreationNotified`, `DeletionNotified` |
| `config` | 851166 | three commands of two processes that overlap, fail or are killed: `TypeOK`, `AloneLosesNothing`, `ConfigSurvives`, `BrokenForGood`, `ConfiguredHandlerRuns` |
| `config_env` | - | violation, section 4 |

Deadlock is checked in the registry runs and in `life_cycle`. The
others stop when their bounds on changes are used up and everything is
delivered, which is the end of the model and not of the system.

### Bounds

- `Chans` 3: with one cluster the map, the handler and the startup loop can each
  hold one. With two clusters, both are watched and one of them is being replaced
  or has lost an informer; that both have at the same time needs 4 and exceeds
  the time a routine run should take; the proofs cover it.
- `MaxConfig` 1: one edit suffices for a config to be stale. `MaxQueue` 1 or 2:
  an event waits behind the one being handled. `MaxFaults` 1, 2 in `controller`,
  where two failures of one event exceed `MaxRetries` = 1 (5 in the code).
- `registry` checks liveness, hence one cluster and a queue of 1; `registry_two`
  has `MaxConfig` 0, since its properties do not look at configs. `controller`
  has one object and one handler.
- For the safety properties the bounds matter less than they seem: all of them
  are proved for every value of the constants (section 5). What rests on the
  bounds alone is liveness.
- `MaxCommands` 3 and two processes: two commands overlap and a third one, or the
  root command, meets what they left. `MaxDeaths` 1: one failure or kill at any
  step. One resource flag; the commands set some or all fields of a handler
  (`MCConfig`), on a missing file or a file with one handler.
- `MaxChanges` 3: an object is changed, deleted and recreated, or created and
  deleted twice. In `pod_life` it is 2, since the pod may also begin in any of its
  states: it is removed and recreated, ends and is removed, or is marked and
  removed. `MaxLost` 1 or 2, `MaxRestarts` 1: one loss and one restart at every
  possible moment. `MaxInformers` 2: one informer is replaced, or two run at the
  same time, one of them stopped or not.
- `RetryCount` 1 (4 in the code) with `MaxLost` 2: a call uses its retry and is
  given up. More retries repeat the same step.
- `MaxTime` 2 half seconds: the start of the server in the first or second half
  of a second, a creation in the same second or in the next.
- `AnyStatuses`: main and wait container, each waiting, running, without state or
  terminated with the exit codes the code treats differently and two finishing
  times, listed in the order that needs most sorting; a sidecar that waits or has
  terminated; an init container.

### Fairness

- Goroutines run: weak fairness of handler, worker, loop and publish steps. A
  publish or a request returns, with or without an error.
- `registry` uses strong fairness for `Resync` and `pod_life` for `Observe`: the
  informers are created with a resync period of 15 minutes and the reflector
  lists again until it succeeds. In the model the bound on the queue can disable
  these steps, where the real queue grows, so weak fairness would be too little.
  For `Resync` in `pod_life` weak fairness is enough. Nobody need start or stop an
  informer there; a stopped one finishes what it has.
- The informers of `pkg/controller/informer.go` have resync 0: no resync step
  exists in `Watch`.
- Nobody is obliged to change, delete, fail, signal or restart anything.
  Eventual properties of a deletion (`DeleteUnregisters`, `KilledPodReported`,
  `DeletionTold`) start once the bounds on failures are used up, because the
  code makes one attempt only.

## 4. Where the code and its comments disagree

- `registry_duplicate`, `SyncClosesExisting`. A comment in
  `syncSystemWorkflowInformer` (K8sInformer.go:266) says "before creating new
  informer for cluster, close existing one". The startup loop and an update
  event of the same cluster interleave: the loop has passed its check but not
  stored its channel, the handler finds nothing to close and starts a second
  informer. The later store overwrites the first channel, and that informer
  cannot be stopped before the process ends. `AtMostOneOrphan` and
  `NoNewOrphans` bound the damage: one per cluster, and only by overlap with
  startup.
- `pod_success`, `SucceededMeansMainSucceeded`. The last comment of
  `inferFailedReason` (K8sInformer.go:618) says that the main and wait containers
  succeeded if control gets there. It also gets there for a failed pod without
  container statuses, or whose main container is running or without state (a
  waiting one is an error, line 581), if no other container is at fault: the
  workflow is published as succeeded.

- `config_env`, `EnvironmentSuffices`. The README (218-222) and the error text of
  the slack handler (slack.go:41) offer `KW_SLACK_TOKEN` and `KW_SLACK_CHANNEL`
  as an alternative to the file. `Run` chooses the handler by the fields of the
  file alone (run.go:36-50), and `CheckMissingResourceEnvvars` reads
  `SLACK_TOKEN` and `SLACK_CHANNEL` (config.go:188-193): with the documented
  variables and no slack field in the file, the default handler runs.

Behaviour without a promise in the code, present in the models but excluded by
no property: a signal before `main` receives is dropped, and one that arrives
before `app.server` is assigned ends in a nil pointer panic; the registry may
crash a graceful stop after the server is shut; the messages of two informers of a
cluster cross, and the older one is the last until the next resync, or for good
if the pod is gone by then; two overlapping commands drop one's change or leave a
file no command can repair; a handler that is half configured ends the process
although a complete one follows; `Controller.Run` does not return once its
worker waits in `Get`, because `ShutDown` is deferred until the worker returns;
when a second deletion of an object is merged with a first one still queued, an
update queued between them is notified last, for an object that is gone.

## 5. Theorems

All theorems hold for every value of the constants that the named assumptions of
the modules allow; TLC evaluates these assumptions on every run. They say that
bounds are natural numbers, that sets are what their comments say, and that the
null values (`None`, `NoChan`, ...) are outside the sets they complete:
`NoneAssumption` of `ApplicationInformer` and `WorkflowInformer` is of that kind.
`StatusesAssumption` of `PodInformer` says that a pod status has the five fields
the code reads, that its two lists of containers have names and states the code
tells apart, that a container that has terminated did so before the handler runs,
and that there are at most 12 containers besides the init containers
(`MaxInsertion`). It says nothing of phases, reasons, exit codes or how containers
are ordered and combined.

The proofs have the same shape throughout. A first group of lemmas says what the
operators return and what each action does to the variables ("effects"). Then
there is one lemma per action that the inductive invariant is kept, one that
`Init` establishes it, and the theorem, which combines them.

### Registry: `K8sInformerProofs`

For any finite set of clusters, any set of channels and any bounds.

- `TypeCorrect`: `Spec => []TypeOK`. `TypeOK` includes that the locals of each
  goroutine fit its control point (`Fits`), which the other proofs need in order
  to know that a held channel is one.
- `RegistryInvariant`: `Spec => []RegistryInv`. `RegisteredIsLive` by itself is
  not inductive: that a stored channel is live depends on what the storing
  goroutine holds, that a registered channel is not closed by a goroutine of
  another cluster depends on which channel it looked up, and that a reused
  channel is nowhere registered depends on who still holds it. `RegistryInv`
  adds `HeldChannels` (a channel about to be stored stops an informer of that
  cluster and is known to nobody else; one about to be closed, if open, stops an
  informer of that cluster; one about to be deleted from the map is closed, by
  one goroutine only), `ClosesOnce` (before shutdown only the handler closes
  what it looked up) and `DownIsIdle`. The proof has one lemma per step of
  `startSystemWorkflowInformer` and `stopSystemWorkflowInformer`, and `QuietStep`
  for the steps that touch neither map nor channel.
- `RegisteredAlwaysLive`, `DoubleCloseAtShutdown`: from it.
- `NothingLost`: `Spec => NoNewOrphans`, an action property. `Kept` says what a
  step must preserve when nobody is racing and startup is over; `StartKept` and
  `StopKept` show it step by step.
- `DeletedStaysOut`: `Spec => DeletedForGood`, the safety half of
  `DeleteUnregisters`. `Out(c)` says that the row of a cluster is inactive, that
  the map has no entry for it, and that no goroutine is past the query of
  `startSystemWorkflowInformer` for it; without the last part it would not be
  kept. A `handleClusterDelete` that has found its row while main serves ends in
  `Out`, and no step leaves it.

### What can be left running: `K8sInformerOrphans`

On top of `RegistryInv`, three more invariants.

- `OneOrphan`: `Spec => []AtMostOneOrphan`. A bound on a number of events is not
  inductive; what is, is the credit a cluster has. `CreditInv` says that at
  most one informer of a cluster is lost, that then nobody races on the cluster
  and `main` does not come to it again in the startup loop, and that before then
  at most one goroutine can lose one; `main` comes to each cluster once
  (`StartOnce`). Every step that loses an informer
  uses the credit up, and nothing but a restart gives it back.
- `ShutdownStopsAll`: `Spec => []NothingLeftRunning`. `SoleInv`: until a handler
  has run, `main` is the only one who knows channels, and from the signal on
  whatever is in the map is still on the list of the shutdown loop.
- `RemovedOrMissed`: `RemovalSpec => []WatchedOnlyIfMissed`. `AccountInv` follows
  the removal of a cluster: as long as an inactive cluster is watched or about to
  be, its secret is there, or the event is queued, or the handler is at work on
  it, or the history says that it was missed. `QueueInv` and `EmptyInv` cover the
  process that is down or has no secret informer. `HistoryHides` lets the
  theorems about `Spec` be used for `RemovalSpec`.

### Process: `KubewatchProofs`

`TypeCorrect`, `ExitIsOrderly`, `WatchesUntilSignal` and `StaysGraceful` are one
induction. None of them is inductive, because each speaks of one goroutine and
depends on where the others are: `InStep` says which control points of `main` and
the controller go together across the hand-over on `stopChan`, `ServerInv` and
`RegistryInv` tie server, registry and database to the point `main` has reached,
and `StopInv` says that the deferred closes run after the hand-over and in their
order. `StaysGraceful` leaves one way out: where there is a registry of cluster
informers, `RegistryCrash`, whose detail is in `K8sInformer` (there
`DoubleCloseAtShutdown` says that only the shutdown loop brings a double close
about).

### Argo CD, CI and CD informers: `ApplicationInformerProofs`, `WorkflowInformerProofs`

- `TypeCorrect`: `Spec => []TypeOK`.
- `Refinement`: `Spec => ImplementsRelay`: the initial states of the informer are
  initial states of `Relay`, and each step is a step of `Relay` or none. That a
  step of `SendApp` (or an arriving call) tells nothing older than what was told
  needs `OrderInv`: what was told, what the handler holds, the queued
  notifications one after the other, the store and the server have ascending
  versions, a deletion coming after the last version of its object. For the
  workflow it is proved for each informer alone, since neither touches the
  other's line; a late request is the one thing outside the order, and `Relay`
  calls it a stray.
- `MessageIsCurrent`, `StatusIsCurrent`: `Spec => []LastMessageIsCurrent` and
  `Spec => []LastStatusIsCurrent`. That the last message is current when nothing
  is left says nothing while something is left. `TellsInv` says it all along the
  line: each queued notification starts from where the one before it ended
  (`ChainInv`), and what will have been told by then is the state that came
  before the first queued one (`CurrentInv`), unless `untold`; `UidInv` (and
  `NewInv` for applications) keep an object apart from its successor of the same
  name.

### Pods: `PodInformerProofs`

For any pod statuses, any number of changes, queued notifications and failures,
and any number of informers of the cluster that start, overlap and stop.

The inductive invariant `Inv` says of the server and the topic what they are
(`Kinds`, `TopicInv`) and of each informer by itself that what it holds has the
right shape (`ShapeInv`) and order (`OrderInv`). Both are stated with operators on
values (`Shape`, `InOrder`), so the lemmas about them (`ServerMoves`, `Queued`,
`CutOff`, `FirstCall`, `Handled`, `Called`) speak of one informer's store, queue
and call, and `OneStep` says that a step of one informer leaves the others alone.
There is one lemma per action on top of them.

- `DeletedIsGone`: `Spec => DeletedMeansGone`, from `Shape`: a call that is about to
  say "pod deleted" has found it so (`Gone`), and a pod that is being deleted does
  not come back under its uid. That the message can only come from that branch,
  and not from an assessment, is the lemma `Assessment`.
- `NeverTakenBack`: `Spec => NoRegression`. A mark is the uid of a pod and whether
  it has ended. `InOrder` says that the call of an informer, its queued
  notifications, its copy and the server have ascending marks, and `TopicInv` that
  the topic is not past what the informer that published it has left; another
  informer may be far behind the topic. The two things that could disturb it are covered by lemmas:
  the sort of the shared copy moves no mark (`TouchedIs`), and a node concludes
  exactly for a pod that has ended (`Assessment`), although "unexpected phase"
  looks like an end. That a stop cuts the queue at any place keeps the order is
  `CutOff`.
- `PublishedIsReference`: `Spec => []StatusMatchesReference`. The lemmas come in
  two layers. The first is about lists. `PlaceIs` and `SortedIs` say that the
  places are a permutation (an injection of a finite set into itself) and that
  the sorted list ascends, with equals in their old order; `PhaseIsReference`
  that the first culprit of init containers and sorted list is the least in the
  order the comment of `inferFailedReason` describes; `LoopExists`, `LatestIs` and
  `FinishedIsReference` that the loop of `getLatestFinishedAt` computes a maximum.
  Where these need induction over the list they take a minimal counterexample
  instead (`Least`: a set of naturals has a least element). The second layer is
  the part of `Shape` that says that whatever is stored, queued or handled is a
  pod the server had (`OnWay`), and that a call carries the node status of its
  pod, with another message at most once the server has moved on from it
  (`Faithful`).
- `SortedOnceAndForAll`: `Spec => []ReassessStable`. `SortedTwice` says that
  sorting a sorted list changes nothing, `AssessTwice` that the assessment of the
  sorted copy is the one of the original; `OnWay` says that a copy with the
  server's resource version is the server's pod or its sorted form.
- `TypeCorrect`: `Spec => []TypeOK`, from the same invariant.

### Resource controller: `ResourceControllerProofs`

For any finite set of objects, any resource type both `New` and
`GetObjectMetaData` know, any of the five handlers and any bounds
(`ObjectAssumption` also says that objects of type Namespace are in no
namespace, since `Message` leaves theirs out):

- `ControllerTypes`: `Spec => []TypeOK`; `FailuresForgotten`:
  `Spec => []NoStaleFailures`; `DeletionsKept`: `Spec => []OwedIsQueued`.
- The three are one induction, `ControllerInvariant`. `OwedIsQueued` is not
  inductive: that a delayed item is queued again and not dropped depends on Run
  not having returned, and that a settled item leaves only its own message
  depends on the worker being the only one that processes. `WorkerInv` adds that
  the items being processed are the one the worker holds, that none of them is
  in the queue, and that nothing was retried unless the worker runs. The lemmas
  `AddItem`, `TakeItem` and `DoneItem` are about client-go's queue,
  `NamedMessage`, `CreatedMessage` and `DeleteItem` about what the messages and
  the queued events name, `SettleItem` about the three ways `processNextItem`
  ends; then there is one lemma per action.
- `CreationsKept`: `Spec => CreationKept`, the safety half of `CreationNotified`.
  `Underway` says where an announcement can be: a notification, a queued or
  delayed item of the key, or the worker, unless it has fetched another object.
  A creation `AddFunc` is to be told is there, and a step keeps it there or excuses it as
  `CreationNotified` does. The queue only knows keys, so the proof needs
  `BirthInv`: two objects with one uid have one creation time, wherever they are,
  and a new uid is larger than every earlier one.

### Configuration: `ConfigProofs`

For any set of processes and any commands, files and environments.

- `TypeCorrect`: `Spec => []TypeOK`.
- `OverlapKeepsConfig` and `BrokenStays`: `Spec => ConfigSurvives` and
  `Spec => BrokenForGood`, action properties, from `FoundInv` (past the stat the
  file exists) and `CreateInv` (who creates the file began before there was one).
- `AloneIsSafe`: `Spec => AloneLosesNothing`. It speaks of the end of a command
  and of the file at its beginning. `AloneInv` follows a lone command in between:
  where it is, the file is what its own steps have made of the file it found.
- `HandlerRuns`: `Spec => []ConfiguredHandlerRuns`, by `StartedInv` (the handler
  is what `Run` makes of the configuration that was read) and the chain of tests
  in `Run`, handler by handler.

## 6. Only model-checked

- All liveness properties: `EventuallyCurrent`, `DeleteUnregisters`,
  `EventuallyReported`, `KilledPodReported`, `EventuallyTold`, `DeletionTold`,
  `SignalEnds`, `CreationNotified`, `DeletionNotified`. Fairness is out of the
  prover's reach. For three of them what has to hold at every step on the way is
  proved: `DeletedStaysOut`, `CreationsKept`, and `DeletionsKept` for
  `DeletionNotified`.
- The refutations of section 4, which are counterexamples of a small instance.

## 7. Not modelled

- Commands that only print (`version`, `config view`, help) and viper's
  `initConfig`, whose result nothing reads.
- Router, metrics, logger, database connection: wiring and I/O.
- The mutex of `K8sInformerImpl`: it is never locked.
  `startSystemWorkflowInformerForCluster` has no caller.
- Fields that only pass through (pod IP, node name, template and owner names,
  progress, status time), wording of messages, log lines, counters.

## 8. Plan

Done, in this order: `K8sInformer` with its runs and proofs; `WorkflowStatus`
and `PodInformer`; `Kubewatch`; `Watch`, `ApplicationInformer`,
`WorkflowInformer`; `ResourceController`; `Config`; `Notification` and the
messages in `ResourceController`; `ClusterRemoval`; `Relay` and its refinements;
the proofs about `ResourceController`; the proofs about `Kubewatch`, the two
informers of `pkg/controller` with their refinements, `Config`, what the registry
can leave running, and `PodInformer`, whose assessment came last.

Next:

1. The safety part of `EventuallyCurrent`: an update event handled while main
   serves ends with the config its query read. It takes a mark for handlers that
   began before the startup loop ended, since these may find the entry of main.
2. The safety parts of `EventuallyReported` and `EventuallyTold`, along the
   invariants of section 5.
