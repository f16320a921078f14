---------------------------- MODULE K8sInformer ----------------------------
(***************************************************************************)
(* The registry of per-cluster workflow informers kept by K8sInformerImpl  *)
(* (src/pkg/informer/K8sInformer.go).                                      *)
(*                                                                         *)
(* informerStopper maps a cluster id to the stop channel of its informer.  *)
(* Two goroutines read and write it without holding the mutex of the       *)
(* struct: "main" starts an informer for every active cluster, serves, and *)
(* stops all of them on SIGTERM; "listener" is the goroutine of the secret *)
(* informer that runs the Add/Update/Delete handlers of                    *)
(* startClusterInformer, one event at a time.  A step of a goroutine ends  *)
(* at a call that another goroutine or process can observe: a database     *)
(* query, a client construction, a close, an access to the map.            *)
(*                                                                         *)
(* External: the orchestrator (rows of the cluster table, one secret per   *)
(* cluster naming the last action), client-go's shared informer and the    *)
(* supervisor that restarts the process.                                   *)
(***************************************************************************)
EXTENDS Naturals, Sequences, FiniteSets

CONSTANTS
    Clusters,       \* cluster ids
    NoCluster,      \* the zero id of a goroutine that handles no cluster
    Chans,          \* stop channels; one is reused only when garbage
    NoChan,         \* nil channel
    NoInformer,     \* the channel belongs to no running informer
    MaxConfig,      \* bound: edits of a cluster's server url and token
    MaxQueue,       \* bound: undelivered events of the secret informer
    MaxFaults       \* bound: failing database queries and client builds

ASSUME ClustersAssumption ==
    IsFiniteSet(Clusters) /\ NoCluster \notin Clusters
ASSUME ChansAssumption == NoChan \notin Chans
ASSUME BoundsAssumption ==
    MaxConfig \in Nat /\ MaxQueue \in Nat /\ MaxFaults \in Nat

Threads == {"main", "listener"}
Actions == {"add", "update", "delete"}
Configs == 0..MaxConfig
Informers == [cluster : Clusters, config : Configs]

ASSUME InformerAssumption == NoInformer \notin Informers

VARIABLES
    db,                 \* the cluster table: state and config of each row
    faults,             \* failures injected so far
    secrets,            \* action of each cluster's secret, "none": no secret
    queue,              \* events the secret informer has yet to hand over
    informerStopper,    \* the map: stop channel of each cluster
    informer,           \* the running informer each open channel stops
    todo,               \* clusters left in the loop main is in
    pc, frame,          \* control point and locals of each goroutine
    process             \* "up", or how the process ended

vars == <<db, faults, secrets, queue, informerStopper, informer, todo, pc,
          frame, process>>

\* Control points inside startSystemWorkflowInformer and
\* stopSystemWorkflowInformer, which both goroutines call.
CallPoints == {"find", "check", "create", "store", "lookup", "close", "delete"}
MainPoints == {"boot", "findAll", "startNext", "serving", "keys", "stopNext",
               "sleep", "down"} \cup CallPoints
ListenerPoints == {"off", "list", "idle", "syncFind", "deleteFind"}
                  \cup CallPoints

Events == [kind : {"change", "delete", "tombstone"}, cluster : Clusters,
           action : Actions]
Frames == [op : {"none", "start", "sync", "delete", "shutdown"},
           cluster : Clusters \cup {NoCluster}, config : Configs,
           stopper : Chans \cup {NoChan}]
NoFrame == [op |-> "none", cluster |-> NoCluster, config |-> 0,
            stopper |-> NoChan]

\* make(map[int]chan struct{}), no channel open, no call in progress.
EmptyRegistry == [c \in Clusters |-> NoChan]
NothingRuns == [ch \in Chans |-> NoInformer]
NoCalls == [t \in Threads |-> NoFrame]
Booting == [t \in Threads |-> IF t = "main" THEN "boot" ELSE "off"]

Init ==
    /\ db \in [Clusters -> [state : {"absent", "active"}, config : {0}]]
    /\ secrets = [c \in Clusters |-> "none"]
    /\ faults = 0
    /\ queue = << >>
    /\ informerStopper = EmptyRegistry
    /\ informer = NothingRuns
    /\ todo = {}
    /\ frame = NoCalls
    /\ pc = Booting
    /\ process = "up"

-----------------------------------------------------------------------------
(* The orchestrator and the secret informer (external).                    *)

memory == <<informerStopper, informer, todo, pc, frame, process>>

SaveCluster(c) ==
    /\ db[c].state = "absent"
    /\ db' = [db EXCEPT ![c].state = "active"]
    /\ UNCHANGED <<faults, secrets, queue, memory>>

EditCluster(c) ==
    /\ db[c].state = "active"
    /\ db[c].config < MaxConfig
    /\ db' = [db EXCEPT ![c].config = @ + 1]
    /\ UNCHANGED <<faults, secrets, queue, memory>>

\* A cluster is soft-deleted: the row stays, with active = false.
DeactivateCluster(c) ==
    /\ db[c].state = "active"
    /\ db' = [db EXCEPT ![c].state = "inactive"]
    /\ UNCHANGED <<faults, secrets, queue, memory>>

\* The secret informer has listed the secrets and watches them.
Listening == pc["listener"] \notin {"off", "list"}

Notify(e) ==
    IF Listening
    THEN Len(queue) < MaxQueue /\ queue' = Append(queue, e)
    ELSE queue' = queue

\* The orchestrator creates or overwrites the secret of a cluster, before or
\* after it changes the row.
SecretChanged(c, a) ==
    /\ db[c].state # "absent"
    /\ secrets[c] # a
    /\ secrets' = [secrets EXCEPT ![c] = a]
    /\ Notify([kind |-> "change", cluster |-> c, action |-> a])
    /\ UNCHANGED <<db, faults, memory>>

\* The secret is removed: DeleteFunc gets the last object, or a tombstone if
\* the watch missed the deletion.
SecretRemoved(c, kind) ==
    /\ secrets[c] # "none"
    /\ kind \in {"delete", "tombstone"}
    /\ secrets' = [secrets EXCEPT ![c] = "none"]
    /\ Notify([kind |-> kind, cluster |-> c, action |-> secrets[c]])
    /\ UNCHANGED <<db, faults, memory>>

\* Every 15 minutes each secret of the store is handed to UpdateFunc again.
Resync(c) ==
    /\ Listening
    /\ secrets[c] # "none"
    /\ Notify([kind |-> "change", cluster |-> c, action |-> secrets[c]])
    /\ UNCHANGED <<db, faults, secrets, memory>>

-----------------------------------------------------------------------------
(* Control flow.                                                           *)

\* Thread t goes to point p with locals f.
Go(t, p, f) ==
    /\ pc' = [pc EXCEPT ![t] = p]
    /\ frame' = [frame EXCEPT ![t] = f]

\* A call made by t returns to the loop of main or to the end of the handler.
Return(t) ==
    Go(t, IF t = "listener" THEN "idle"
          ELSE IF frame[t].op = "shutdown" THEN "stopNext" ELSE "startNext",
       NoFrame)

Fault == faults < MaxFaults /\ faults' = faults + 1

\* An error of getK8sClientForConfig, for the cluster the process runs in, and
\* of getK8sClientForCluster, for a cluster of the table.
ConfigClientError == Fault
ClusterClientError == Fault

\* A query for the row of c with the given state; no query succeeds once
\* Stop has closed the connection.
HasRow(c, state) == db[c].state = state /\ pc["main"] # "sleep"
Found(c, state) == HasRow(c, state) /\ UNCHANGED faults
NotFound(c, state) ==
    \/ ~HasRow(c, state) /\ UNCHANGED faults
    \/ HasRow(c, state) /\ Fault

world == <<db, secrets, queue, process>>
maps == <<informerStopper, informer>>

-----------------------------------------------------------------------------
(* startSystemWorkflowInformer(clusterId)                                  *)

\* FindById
FindById(t) ==
    LET c == frame[t].cluster IN
    /\ pc[t] = "find"
    /\ \/ /\ Found(c, "active")
          /\ Go(t, "check", [frame[t] EXCEPT !.config = db[c].config])
       \/ NotFound(c, "active") /\ Return(t)
    /\ UNCHANGED <<world, maps, todo>>

\* Faulty: the map is not consulted.
CheckExistsDropped(t) ==
    /\ pc[t] = "check"
    /\ Go(t, "create", frame[t])
    /\ UNCHANGED <<world, maps, todo, faults>>

\* if _, ok := informerStopper[clusterId]; ok { return already exist }
CheckExists(t) ==
    /\ pc[t] = "check"
    /\ \/ informerStopper[frame[t].cluster] # NoChan /\ Return(t)
       \/ /\ informerStopper[frame[t].cluster] = NoChan
          /\ Go(t, "create", frame[t])
    /\ UNCHANGED <<world, maps, todo, faults>>

FreshChans ==
    {ch \in Chans : /\ informer[ch] = NoInformer
                    /\ \A c \in Clusters : informerStopper[c] # ch
                    /\ \A t \in Threads : frame[t].stopper # ch}

\* getK8sClientForCluster, then the informer is built and started.
CreateInformer(t) ==
    /\ pc[t] = "create"
    /\ \/ /\ \E ch \in FreshChans :
              /\ informer' = [informer EXCEPT ![ch] =
                    [cluster |-> frame[t].cluster, config |-> frame[t].config]]
              /\ Go(t, "store", [frame[t] EXCEPT !.stopper = ch])
          /\ UNCHANGED faults
       \/ ClusterClientError /\ Return(t) /\ UNCHANGED informer
    /\ UNCHANGED <<world, informerStopper, todo>>

\* informerStopper[clusterId] = stopper
StoreStopper(t) ==
    /\ pc[t] = "store"
    /\ informerStopper' =
        [informerStopper EXCEPT ![frame[t].cluster] = frame[t].stopper]
    /\ Return(t)
    /\ UNCHANGED <<world, informer, todo, faults>>

-----------------------------------------------------------------------------
(* stopSystemWorkflowInformer(clusterId)                                   *)

\* Faulty: the closed channel is carried into the start of the new informer.
StopReturnKeepsChan(t) ==
    IF frame[t].op = "sync" THEN Go(t, "find", frame[t]) ELSE Return(t)

\* syncSystemWorkflowInformer goes on to start the informer; the other two
\* callers are done.
StopReturn(t) ==
    IF frame[t].op = "sync"
    THEN Go(t, "find", [frame[t] EXCEPT !.stopper = NoChan])
    ELSE Return(t)

LookupStopper(t) ==
    LET ch == informerStopper[frame[t].cluster] IN
    /\ pc[t] = "lookup"
    /\ \/ ch = NoChan /\ StopReturn(t)
       \/ ch # NoChan /\ Go(t, "close", [frame[t] EXCEPT !.stopper = ch])
    /\ UNCHANGED <<world, maps, todo, faults>>

\* The process is gone and its memory with it.
EndProcess(how) ==
    /\ process' = how
    /\ pc' = [t \in Threads |-> IF t = "main" THEN "down" ELSE "off"]
    /\ queue' = << >>
    /\ informerStopper' = EmptyRegistry
    /\ informer' = NothingRuns
    /\ todo' = {}
    /\ frame' = NoCalls
    /\ UNCHANGED <<db, secrets, faults>>

\* close(stopper); closing a closed channel panics, in either goroutine.
CloseStopper(t) ==
    LET ch == frame[t].stopper IN
    /\ pc[t] = "close"
    /\ \/ /\ informer[ch] # NoInformer
          /\ informer' = [informer EXCEPT ![ch] = NoInformer]
          /\ Go(t, "delete", frame[t])
          /\ UNCHANGED <<world, informerStopper, todo, faults>>
       \/ informer[ch] = NoInformer /\ EndProcess("panic")

\* Faulty: the entry stays in the map.
DeleteStopperKeepsEntry(t) ==
    /\ pc[t] = "delete"
    /\ StopReturn(t)
    /\ UNCHANGED <<world, maps, todo, faults>>

\* delete(informerStopper, clusterId)
DeleteStopper(t) ==
    /\ pc[t] = "delete"
    /\ informerStopper' = [informerStopper EXCEPT ![frame[t].cluster] = NoChan]
    /\ StopReturn(t)
    /\ UNCHANGED <<world, informer, todo, faults>>

Call(t) == FindById(t) \/ CheckExists(t) \/ CreateInformer(t)
           \/ StoreStopper(t) \/ LookupStopper(t) \/ CloseStopper(t)
           \/ DeleteStopper(t)

-----------------------------------------------------------------------------
(* The handlers of the secret informer.                                    *)

Invoke(t, op, c, p) ==
    Go(t, p, [op |-> op, cluster |-> c, config |-> 0, stopper |-> NoChan])

\* The first list of the secret informer: one Add event per secret, in any
\* order.
Listings(S) ==
    {s \in [1..Cardinality(S) -> S] :
        \A i, j \in 1..Cardinality(S) : s[i] = s[j] => i = j}

ListSecrets ==
    /\ pc["listener"] = "list"
    /\ \E s \in Listings({c \in Clusters : secrets[c] # "none"}) :
        queue' = [i \in DOMAIN s |->
            [kind |-> "change", cluster |-> s[i], action |-> secrets[s[i]]]]
    /\ Go("listener", "idle", NoFrame)
    /\ UNCHANGED <<db, faults, secrets, process, maps, todo>>

\* Faulty: an update event is handled like an add event.
HandleClusterChangeNoSync(e) ==
    IF e.action = "delete" THEN UNCHANGED <<pc, frame>>
    ELSE Invoke("listener", "start", e.cluster, "find")

\* AddFunc and UpdateFunc, up to their first query.
HandleClusterChangeEvent(e) ==
    CASE e.action = "add"    -> Invoke("listener", "start", e.cluster, "find")
      [] e.action = "update" -> Invoke("listener", "sync", e.cluster, "syncFind")
      [] e.action = "delete" -> UNCHANGED <<pc, frame>>

\* Faulty: the test of the action is inverted.
HandleClusterDeleteInverted(e) ==
    IF e.action # "delete"
    THEN Invoke("listener", "delete", e.cluster, "deleteFind")
    ELSE UNCHANGED <<pc, frame>>

\* DeleteFunc, up to its first query.
HandleClusterDeleteEvent(e) ==
    IF e.action = "delete"
    THEN Invoke("listener", "delete", e.cluster, "deleteFind")
    ELSE UNCHANGED <<pc, frame>>

\* The handlers registered by startClusterInformer; a tombstone is not a
\* *Secret and is dropped.
HandleEvent ==
    LET e == Head(queue) IN
    /\ pc["listener"] = "idle"
    /\ queue # << >>
    /\ queue' = Tail(queue)
    /\ \/ e.kind = "change" /\ HandleClusterChangeEvent(e)
       \/ e.kind = "delete" /\ HandleClusterDeleteEvent(e)
       \/ e.kind = "tombstone" /\ UNCHANGED <<pc, frame>>
    /\ UNCHANGED <<db, faults, secrets, process, maps, todo>>

\* syncSystemWorkflowInformer: FindById, then stop, then start.
SyncFind ==
    LET c == frame["listener"].cluster IN
    /\ pc["listener"] = "syncFind"
    /\ \/ Found(c, "active") /\ Go("listener", "lookup", frame["listener"])
       \/ NotFound(c, "active") /\ Return("listener")
    /\ UNCHANGED <<world, maps, todo>>

\* Faulty: the row is looked up among the active ones.
DeleteFindActive ==
    LET c == frame["listener"].cluster IN
    /\ pc["listener"] = "deleteFind"
    /\ \/ Found(c, "active") /\ Go("listener", "lookup", frame["listener"])
       \/ NotFound(c, "active") /\ Return("listener")
    /\ UNCHANGED <<world, maps, todo>>

\* handleClusterDelete: FindByIdWithActiveFalse, then stop.
DeleteFind ==
    LET c == frame["listener"].cluster IN
    /\ pc["listener"] = "deleteFind"
    /\ \/ Found(c, "inactive") /\ Go("listener", "lookup", frame["listener"])
       \/ NotFound(c, "inactive") /\ Return("listener")
    /\ UNCHANGED <<world, maps, todo>>

-----------------------------------------------------------------------------
(* The main goroutine.                                                     *)

\* startClusterInformer: a client error leaves the secret informer off for
\* the life of the process.
StartClusterInformer ==
    /\ pc["main"] = "boot"
    /\ \/ /\ pc' = [pc EXCEPT !["main"] = "findAll", !["listener"] = "list"]
          /\ UNCHANGED faults
       \/ /\ ConfigClientError
          /\ pc' = [pc EXCEPT !["main"] = "findAll", !["listener"] = "off"]
    /\ frame' = NoCalls
    /\ UNCHANGED <<world, maps, todo>>

AllActive == {c \in Clusters : db[c].state = "active"}

\* BuildInformerForAllClusters: its error is dropped by the caller.
FindAllActive ==
    /\ pc["main"] = "findAll"
    /\ \/ /\ todo' = AllActive
          /\ Go("main", "startNext", NoFrame)
          /\ UNCHANGED faults
       \/ Fault /\ Go("main", "serving", NoFrame) /\ UNCHANGED todo
    /\ UNCHANGED <<world, maps>>

StartNext ==
    /\ pc["main"] = "startNext"
    /\ \/ \E c \in todo : /\ todo' = todo \ {c}
                          /\ Invoke("main", "start", c, "find")
       \/ todo = {} /\ Go("main", "serving", NoFrame) /\ UNCHANGED todo
    /\ UNCHANGED <<world, maps, faults>>

\* SIGTERM or SIGINT is received and Stop runs.
Signal ==
    /\ pc["main"] = "serving"
    /\ Go("main", "keys", NoFrame)
    /\ UNCHANGED <<world, maps, todo, faults>>

\* StopAllSystemWorkflowInformer: the keys are copied once.
StopAll ==
    /\ pc["main"] = "keys"
    /\ todo' = {c \in Clusters : informerStopper[c] # NoChan}
    /\ Go("main", "stopNext", NoFrame)
    /\ UNCHANGED <<world, maps, faults>>

\* Faulty: the loop ends after the first key.
StopNextOnce ==
    /\ pc["main"] = "stopNext"
    /\ \/ \E c \in todo : /\ todo' = {}
                          /\ Invoke("main", "shutdown", c, "lookup")
       \/ todo = {} /\ Go("main", "sleep", NoFrame) /\ UNCHANGED todo
    /\ UNCHANGED <<world, maps, faults>>

\* The next key, or db.Close() and the final sleep.
StopNext ==
    /\ pc["main"] = "stopNext"
    /\ \/ \E c \in todo : /\ todo' = todo \ {c}
                          /\ Invoke("main", "shutdown", c, "lookup")
       \/ todo = {} /\ Go("main", "sleep", NoFrame) /\ UNCHANGED todo
    /\ UNCHANGED <<world, maps, faults>>

Exit == pc["main"] = "sleep" /\ EndProcess("exit")

\* Killed from outside at any moment.
Kill == process = "up" /\ EndProcess("killed")

\* The map is not synchronised: the Go runtime aborts the process when it
\* notices that an access overlaps a write.
MapReads == {"check", "lookup", "keys"}
MapWrites == {"store", "delete"}
MapFault ==
    /\ \A t \in Threads : pc[t] \in MapReads \cup MapWrites
    /\ \E t \in Threads : pc[t] \in MapWrites
    /\ EndProcess("mapFault")

Restart ==
    /\ process # "up"
    /\ process' = "up"
    /\ pc' = Booting
    /\ frame' = NoCalls
    /\ UNCHANGED <<db, faults, secrets, queue, maps, todo>>

-----------------------------------------------------------------------------
Orchestrator ==
    \E c \in Clusters :
        \/ SaveCluster(c) \/ EditCluster(c) \/ DeactivateCluster(c)
        \/ \E a \in Actions : SecretChanged(c, a)
        \/ \E kind \in {"delete", "tombstone"} : SecretRemoved(c, kind)
        \/ Resync(c)

Listener == ListSecrets \/ HandleEvent \/ SyncFind \/ DeleteFind
            \/ Call("listener")

Main == StartClusterInformer \/ FindAllActive \/ StartNext \/ StopAll
        \/ StopNext \/ Exit \/ Call("main")

Next == Orchestrator \/ Listener \/ Main \/ Signal \/ Kill \/ MapFault
        \/ Restart

Spec == Init /\ [][Next]_vars

\* Both goroutines keep running, and the secret informer's resync recurs:
\* strong fairness, because the bound on the queue can disable it.
Fairness ==
    /\ WF_vars(Listener)
    /\ WF_vars(Main)
    /\ \A c \in Clusters : SF_vars(Resync(c))

FairSpec == Spec /\ Fairness

-----------------------------------------------------------------------------
(* Properties.                                                             *)

\* The locals f a goroutine t has at point p.
Fits(t, p, f) ==
    /\ f \in Frames
    /\ p \in IF t = "main" THEN MainPoints ELSE ListenerPoints
    /\ IF p \in CallPoints \cup {"syncFind", "deleteFind"}
       THEN f.cluster \in Clusters /\ f.op # "none"
       ELSE f = NoFrame
    /\ IF p \in {"store", "close", "delete"}
       THEN f.stopper \in Chans
       ELSE f.stopper = NoChan
    /\ t = "main" =>
        /\ p \in {"find", "check", "create", "store"} => f.op = "start"
        /\ p \in {"lookup", "close", "delete"} => f.op = "shutdown"

\* Every variable has its type, and the locals of a goroutine are those its
\* control point needs: a cluster inside a call, a channel where one is held.
TypeOK ==
    /\ db \in [Clusters -> [state : {"absent", "active", "inactive"},
                            config : Configs]]
    /\ faults \in 0..MaxFaults
    /\ secrets \in [Clusters -> Actions \cup {"none"}]
    /\ queue \in Seq(Events)
    /\ informerStopper \in [Clusters -> Chans \cup {NoChan}]
    /\ informer \in [Chans -> Informers \cup {NoInformer}]
    /\ todo \subseteq Clusters
    /\ pc \in [Threads -> MainPoints \cup ListenerPoints]
    /\ frame \in [Threads -> Frames]
    /\ \A t \in Threads : Fits(t, pc[t], frame[t])
    /\ process \in {"up", "exit", "panic", "mapFault", "killed"}

\* Every registered stop channel is open and stops an informer of that very
\* cluster, except between the close and the delete of
\* stopSystemWorkflowInformer: no close of a registered channel, no overwrite
\* and no reuse ever leaves a dead entry that would make
\* startSystemWorkflowInformer answer "already exist" for a cluster nobody
\* watches.
RegisteredIsLive ==
    \A c \in Clusters : informerStopper[c] # NoChan =>
        \/ /\ informer[informerStopper[c]] # NoInformer
           /\ informer[informerStopper[c]].cluster = c
        \/ \E t \in Threads : /\ pc[t] = "delete"
                              /\ frame[t].cluster = c
                              /\ frame[t].stopper = informerStopper[c]

\* A running informer whose channel neither the map nor a goroutine still
\* holds: nothing can stop it before the process ends.
Orphans ==
    {ch \in Chans : /\ informer[ch] # NoInformer
                    /\ \A c \in Clusters : informerStopper[c] # ch
                    /\ \A t \in Threads : frame[t].stopper # ch}

\* The startup loop can race with the secret handlers and orphan an informer,
\* but at most one per cluster in the life of the process.
AtMostOneOrphan ==
    \A ch1, ch2 \in Orphans :
        informer[ch1].cluster = informer[ch2].cluster => ch1 = ch2

\* t has passed the check of startSystemWorkflowInformer and the map has got
\* an entry for that cluster, or t stops a channel it closes itself and the
\* map no longer holds it: the write t is about to make can lose an informer.
Racing(t) ==
    LET ch == informerStopper[frame[t].cluster] IN
    \/ pc[t] \in {"create", "store"} /\ ch # NoChan
    \/ pc[t] = "delete" /\ ch # frame[t].stopper
    \/ /\ pc[t] = "close" /\ ch # frame[t].stopper
       /\ informer[frame[t].stopper] # NoInformer

\* Once the startup loop has ended and no handler that overlapped it is left
\* racing, no step starts a race or loses an informer: whatever
\* syncSystemWorkflowInformer, handleClusterDelete and
\* StopAllSystemWorkflowInformer do from then on, each running informer stays
\* reachable from the map or from the goroutine that is starting it.
StartingUp == pc["main"] \in {"boot", "findAll", "startNext", "find", "check",
                              "create", "store"}
NoNewOrphans ==
    [][~StartingUp /\ (\A t \in Threads : ~Racing(t))
        => Orphans' \subseteq Orphans /\ \A t \in Threads : ~Racing(t)']_vars

\* close(stopper) panics on a closed channel; that takes the shutdown loop
\* and a handler stopping the same informer, and never happens before.
ShuttingDown == pc["main"] \in {"keys", "stopNext", "lookup", "close",
                                "delete", "sleep"}
DoubleCloseOnlyAtShutdown ==
    [][process' = "panic" /\ process = "up" => ShuttingDown]_vars

\* The inductive strengthening of RegisteredIsLive.  A channel about to be
\* stored stops an informer of that cluster and nobody else knows it; a
\* channel about to be closed, if still open, stops an informer of that
\* cluster; a channel whose entry is about to be deleted is closed, and by one
\* goroutine only.
HeldBy(t) ==
    LET ch == frame[t].stopper IN
    /\ pc[t] = "store" =>
        /\ informer[ch] # NoInformer
        /\ informer[ch].cluster = frame[t].cluster
        /\ \A c \in Clusters : informerStopper[c] # ch
        /\ \A u \in Threads \ {t} : frame[u].stopper # ch
    /\ pc[t] = "close" /\ informer[ch] # NoInformer =>
        informer[ch].cluster = frame[t].cluster
    /\ pc[t] = "delete" =>
        /\ informer[ch] = NoInformer
        /\ \A u \in Threads \ {t} :
            pc[u] = "delete" => frame[u].stopper # ch
HeldChannels == \A t \in Threads : HeldBy(t)

\* Before shutdown nobody but the handler closes the channel it looked up.
ClosesOnce ==
    ~ShuttingDown /\ pc["listener"] = "close" =>
        informer[frame["listener"].stopper] # NoInformer

DownIsIdle ==
    /\ process # "up" => pc["main"] = "down"
    /\ pc["main"] \in {"boot", "down"} => pc["listener"] = "off"

\* What the proofs of RegisteredIsLive, NoNewOrphans and
\* DoubleCloseOnlyAtShutdown rest on.
RegistryInv == RegisteredIsLive /\ HeldChannels /\ ClosesOnce /\ DownIsIdle

\* If the first list of the secret informer never arrived, so that no handler
\* ran, StopAllSystemWorkflowInformer stops every informer the startup loop
\* started before the database connection is closed.
NothingLeftRunning ==
    pc["main"] = "sleep" /\ ~Listening => informer = NothingRuns

\* What the comment in syncSystemWorkflowInformer promises, "before creating
\* new informer for cluster, close existing one": when an update event is
\* about to create the informer of a cluster, no informer of it runs.
SyncClosesExisting ==
    \A t \in Threads : pc[t] = "create" /\ frame[t].op = "sync" =>
        \A ch \in Chans : informer[ch] # NoInformer =>
                          informer[ch].cluster # frame[t].cluster

\* An active cluster whose secret stays and says "update" is, again and again,
\* watched with the server url and token of its row: an update whose start
\* failed after its stop, a lost race of the startup loop or a stale read heal
\* at a resync.  (A secret that says "add" never stops an old informer.)
Settled(c) ==
    /\ db[c].state = "active"
    /\ secrets[c] = "update"
    /\ pc["main"] = "serving"
    /\ Listening
WatchedWithCurrentConfig(c) ==
    /\ informerStopper[c] # NoChan
    /\ informer[informerStopper[c]] = [cluster |-> c, config |-> db[c].config]
EventuallyCurrent ==
    \A c \in Clusters :
        <>[]Settled(c) => []<>WatchedWithCurrentConfig(c)

\* A delete event of a cluster whose row is already inactive, received while
\* main serves, takes the cluster out of the registry for good: no later
\* event, resync or restart registers it again.
DeletePending(c) ==
    /\ db[c].state = "inactive"
    /\ pc["main"] = "serving"
    /\ faults = MaxFaults
    /\ \E i \in DOMAIN queue :
        queue[i] = [kind |-> "delete", cluster |-> c, action |-> "delete"]
DeleteUnregisters ==
    \A c \in Clusters :
        [](DeletePending(c) => <>[](informerStopper[c] = NoChan))
=============================================================================
