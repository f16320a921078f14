----------------------------- MODULE PodInformer -----------------------------
(***************************************************************************)
(* The workflow informers of one cluster, seen for one workflow pod: the   *)
(* UpdateFunc and DeleteFunc of startSystemWorkflowInformer in             *)
(* src/pkg/informer/K8sInformer.go, from the watch to the topic.           *)
(*                                                                         *)
(* The API server and client-go's informer are external: an informer keeps *)
(* a copy of the pod, hands every change to its handlers in order, and     *)
(* every 15 minutes hands the copy to UpdateFunc again.  There is no       *)
(* AddFunc: what the informer lists first is only published at the next    *)
(* update or resync.                                                       *)
(*                                                                         *)
(* A cluster gets one informer after another, numbered as they start; when *)
(* they start and stop is up to the registry (module K8sInformer).  A      *)
(* stopped informer may go on for a while, and an informer that a race     *)
(* with the startup loop has put out of the registry's sight is never      *)
(* stopped: several informers then publish about the same pod.             *)
(***************************************************************************)
EXTENDS WorkflowStatus

CONSTANTS
    Statuses,       \* pod statuses the kubelet can report
    Types,          \* values of the workflowType label, "" when missing
    None,           \* no pod, no message, no call in progress
    MaxChanges,     \* bound: changes of the pod on the API server
    MaxQueue,       \* bound: undelivered notifications
    MaxLost,        \* bound: publishes and gets that fail
    MaxInformers    \* bound: informers of the cluster, one after another

ASSUME BoundsAssumption ==
    /\ MaxChanges \in Nat /\ MaxQueue \in Nat
    /\ MaxLost \in Nat /\ MaxInformers \in Nat
ASSUME StatusesAssumption == \A s \in Statuses : IsStatus(s)

\* What a pod record can be made of: its status also after a handler sorted it.
Kept == Statuses \cup {AfterAssess(s) : s \in Statuses}
Pods == [uid : Nat, rv : Nat, type : Types, status : Kept,
         deleting : BOOLEAN, selected : BOOLEAN]
ASSUME NoneAssumption == None \notin Pods

\* What a handler makes of a status and leaves of it, for all there are.
Assessed == [s \in Kept |-> AssessNodeStatus(s)]
Left == [s \in Kept |-> AfterAssess(s)]

Informers == 1..MaxInformers

VARIABLES
    server,     \* the pod on the API server, or None
    changes,    \* its changes so far
    run,        \* of each informer: "off", "on" or "stopped"
    store,      \* its copy of the pod, or None
    events,     \* notifications it has yet to hand over
    handler,    \* its handler call in progress, or None
    topic,      \* the last message published about the pod name, or None
    lost        \* failures so far

vars == <<server, changes, run, store, events, handler, topic, lost>>

\* rv stands for the resource version, which every change of a pod sets.
Pod(rv, type, status) ==
    [uid |-> rv, rv |-> rv, type |-> type, status |-> status,
     deleting |-> FALSE, selected |-> TRUE]

Init ==
    /\ \E s \in Statuses, type \in Types, deleting \in BOOLEAN :
            server = [Pod(0, type, s) EXCEPT !.deleting = deleting]
    /\ changes = 0
    /\ run = [i \in Informers |-> "off"]
    /\ store = [i \in Informers |-> None]
    /\ events = [i \in Informers |-> << >>]
    /\ handler = [i \in Informers |-> None]
    /\ topic = None
    /\ lost = 0

-----------------------------------------------------------------------------
(* The API server, the kubelet and client-go's informer (external).        *)

Change(pod) ==
    /\ changes < MaxChanges
    /\ changes' = changes + 1
    /\ server' = IF pod = None THEN None ELSE [pod EXCEPT !.rv = changes + 1]
    /\ UNCHANGED <<run, store, events, handler, topic, lost>>

SetStatus(s) ==
    /\ server # None
    /\ server.status # s
    /\ server.status.phase \notin {"Succeeded", "Failed"}
    /\ Change([server EXCEPT !.status = s])

MarkDeleting ==
    /\ server # None
    /\ ~server.deleting
    /\ Change([server EXCEPT !.deleting = TRUE])

Remove == server # None /\ server.deleting /\ Change(None)

\* The pod loses the label devtron.ai/purpose that the informer selects by.
Unselect ==
    /\ server # None
    /\ server.selected
    /\ Change([server EXCEPT !.selected = FALSE])

\* A pod of the same name is created again.
Recreate(s, type) == server = None /\ Change(Pod(changes + 1, type, s))

Selected == IF server # None /\ server.selected THEN server ELSE None
SameObject(p, q) == IF p = None \/ q = None THEN p = q ELSE p.rv = q.rv

\* The informer catches up with the server, after one change or, when its
\* watch was broken, after several.  A pod that is new to it goes to no
\* handler; a deletion seen only by a new list is handed over as a tombstone.
Observe(i) ==
    /\ run[i] = "on"
    /\ ~SameObject(store[i], Selected)
    /\ store' = [store EXCEPT ![i] = Selected]
    /\ IF store[i] = None THEN events' = events
       ELSE /\ Len(events[i]) < MaxQueue
            /\ \E kind \in IF Selected # None THEN {"update"}
                           ELSE {"delete", "tombstone"} :
                events' = [events EXCEPT ![i] = Append(@,
                    [kind |-> kind,
                     pod |-> IF Selected # None THEN Selected ELSE store[i]])]
    /\ UNCHANGED <<server, changes, run, handler, topic, lost>>

\* Every 15 minutes.
Resync(i) ==
    /\ run[i] = "on"
    /\ store[i] # None
    /\ Len(events[i]) < MaxQueue
    /\ events' = [events EXCEPT ![i] =
            Append(@, [kind |-> "update", pod |-> store[i]])]
    /\ UNCHANGED <<server, changes, run, store, handler, topic, lost>>

-----------------------------------------------------------------------------
(* The registry.                                                           *)

\* startSystemWorkflowInformer, from the informer's client to its Start: at
\* startup, for a new cluster, or after the stop in syncSystemWorkflowInformer.
\* An earlier informer may still be on: it has not noticed its stop yet, or it
\* left the map unclosed.
Start(i) ==
    /\ run[i] = "off"
    /\ \A j \in Informers : j < i => run[j] # "off"
    /\ run' = [run EXCEPT ![i] = "on"]
    /\ UNCHANGED <<server, changes, store, events, handler, topic, lost>>

\* client-go has noticed that stopSystemWorkflowInformer closed the channel: it
\* watches no more.  The handler call in progress goes on, and of the
\* notifications that wait those still go to the handlers that its listener
\* takes before it notices as well.
Stop(i) ==
    /\ run[i] = "on"
    /\ run' = [run EXCEPT ![i] = "stopped"]
    /\ \E n \in 0..Len(events[i]) :
            events' = [events EXCEPT ![i] = SubSeq(@, 1, n)]
    /\ UNCHANGED <<server, changes, store, handler, topic, lost>>

-----------------------------------------------------------------------------
(* The handlers.                                                           *)

GetTopic(type) ==
    CASE type = "cd" -> "CD_WORKFLOW_STATUS_UPDATE"
      [] type = "ci" -> "WORKFLOW_STATUS_UPDATE_TOPIC"
      [] OTHER -> None

\* A handler call about a pod whose node status has been assessed.
Call(step, pod, node) == [step |-> step, pod |-> pod, node |-> node]

\* Faulty: an unknown workflow type is not noticed.
UpdateFuncAnyType(e) == Call("publish", e.pod, Assessed[e.pod.status])

\* Faulty: a pod that is being deleted is left to the delete handler.
UpdateFuncSkipsDeleting(e) ==
    IF GetTopic(e.pod.type) # None /\ ~e.pod.deleting
    THEN Call("publish", e.pod, Assessed[e.pod.status])
    ELSE None

\* UpdateFunc up to Publish.
UpdateFunc(e) ==
    IF GetTopic(e.pod.type) # None
    THEN Call("publish", e.pod, Assessed[e.pod.status])
    ELSE None

\* Faulty: only the phase of a failed main container is expected.
DeleteFuncErrorOnly(e) ==
    LET node == Assessed[e.pod.status] IN
    IF node.phase = "Error" /\ node.message = EXIT_CODE_143_ERROR
    THEN Call("get", e.pod, node) ELSE None

\* DeleteFunc up to the Get of checkIfPodDeletedAndUpdateMessage; a pod that
\* was not terminated by SIGTERM is not reported.
DeleteFunc(e) ==
    LET node == Assessed[e.pod.status] IN
    IF /\ node.phase \in {"Failed", "Error"}
       /\ node.message = EXIT_CODE_143_ERROR
    THEN Call("get", e.pod, node)
    ELSE None

\* The pod as it is after a handler has assessed the object q, which the
\* store and the waiting notifications point to as well.
Touched(pod, q) ==
    IF pod # None /\ SameObject(pod, q)
    THEN [pod EXCEPT !.status = Left[@]] ELSE pod

\* The informer hands the next notification over; a tombstone is not a *Pod.
\* The assessment sorts the container statuses of the shared object.
Handle(i) ==
    LET e == Head(events[i])
        q == IF e.kind = "tombstone" THEN None ELSE e.pod
        rest == Tail(events[i])
    IN
    /\ events[i] # << >>
    /\ handler[i] = None
    /\ events' = [events EXCEPT ![i] = [k \in DOMAIN rest |->
                    [rest[k] EXCEPT !.pod = Touched(@, q)]]]
    /\ store' = [store EXCEPT ![i] = Touched(@, q)]
    /\ handler' = [handler EXCEPT ![i] =
                    CASE e.kind = "update" -> UpdateFunc(e)
                      [] e.kind = "delete" -> DeleteFunc(e)
                      [] e.kind = "tombstone" -> None]
    /\ UNCHANGED <<server, changes, run, topic, lost>>

Fail == lost < MaxLost /\ lost' = lost + 1

\* Faulty: whatever the Get answers, the pod counts as deleted.
CheckIfPodDeletedBlind(i) ==
    LET call == handler[i] IN
    /\ call # None /\ call.step = "get"
    /\ handler' = [handler EXCEPT ![i] = Call("publish", call.pod,
                    [call.node EXCEPT !.message = POD_DELETED_MESSAGE])]
    /\ UNCHANGED <<server, changes, run, store, events, topic, lost>>

\* checkIfPodDeletedAndUpdateMessage: the Get goes by name.  The topic is
\* chosen after it.
CheckIfPodDeleted(i) ==
    LET call == handler[i] IN
    /\ call # None /\ call.step = "get"
    /\ \/ /\ server # None => server.deleting
          /\ handler' = [handler EXCEPT ![i] =
                IF GetTopic(call.pod.type) # None
                THEN Call("publish", call.pod,
                          [call.node EXCEPT !.message = POD_DELETED_MESSAGE])
                ELSE None]
          /\ UNCHANGED lost
       \/ /\ \/ server # None /\ ~server.deleting /\ UNCHANGED lost
             \/ Fail
          /\ handler' = [handler EXCEPT ![i] = None]
    /\ UNCHANGED <<server, changes, run, store, events, topic>>

\* What the call of the informer publishes.  The message does not say which
\* informer it is by; the properties do.
Message(i) ==
    LET call == handler[i] IN
    [topic |-> GetTopic(call.pod.type), uid |-> call.pod.uid,
     status |-> GetWorkflowStatus(call.node), by |-> i]

\* Faulty: after an error the pod is queued again, behind newer changes.
PublishRequeues(i) ==
    LET call == handler[i] IN
    /\ call # None /\ call.step = "publish"
    /\ \/ /\ topic' = Message(i)
          /\ UNCHANGED <<lost, events>>
       \/ /\ Fail
          /\ events' = [events EXCEPT ![i] = Append(@,
                [kind |-> "update", pod |-> call.pod])]
          /\ UNCHANGED topic
    /\ handler' = [handler EXCEPT ![i] = None]
    /\ UNCHANGED <<server, changes, run, store>>

\* pubSubClient.Publish; an error is logged and the status dropped.
Publish(i) ==
    LET call == handler[i] IN
    /\ call # None /\ call.step = "publish"
    /\ \/ /\ topic' = Message(i)
          /\ UNCHANGED lost
       \/ Fail /\ UNCHANGED topic
    /\ handler' = [handler EXCEPT ![i] = None]
    /\ UNCHANGED <<server, changes, run, store, events>>

-----------------------------------------------------------------------------
Cluster ==
    \/ \E s \in Statuses : SetStatus(s)
    \/ MarkDeleting \/ Remove \/ Unselect
    \/ \E s \in Statuses, type \in Types : Recreate(s, type)

Registry == \E i \in Informers : Start(i) \/ Stop(i)

ClientGo == \E i \in Informers : Observe(i) \/ Resync(i)

Handlers ==
    \E i \in Informers : Handle(i) \/ CheckIfPodDeleted(i) \/ Publish(i)

Next == Cluster \/ Registry \/ ClientGo \/ Handlers

Spec == Init /\ [][Next]_vars

\* Handler goroutines run on, also those of a stopped informer; the reflector
\* lists again until it has caught up, and the resync recurs.  Observe is strong
\* because the bound on the queue can disable it.  Nobody need start or stop an
\* informer.
Fairness ==
    \A i \in Informers :
        /\ WF_vars(CheckIfPodDeleted(i) \/ Publish(i) \/ Handle(i))
        /\ SF_vars(Observe(i))
        /\ WF_vars(Resync(i))

FairSpec == Spec /\ Fairness

-----------------------------------------------------------------------------
(* Properties.                                                             *)

IsPod(pod) ==
    /\ pod \in Pods
    /\ pod.uid \in 0..changes /\ pod.rv \in pod.uid..changes

\* A message as getWorkflowStatus and getTopic make it.
IsMessage(m) ==
    /\ m.topic \in {"CD_WORKFLOW_STATUS_UPDATE", "WORKFLOW_STATUS_UPDATE_TOPIC"}
    /\ m.uid \in 0..changes
    /\ m.status.phase \in {"Running", "Succeeded", "Failed", "Error"}
    /\ m.by \in Informers

\* Every variable has its type; in particular a message always goes to one of
\* the two topics getTopic knows.
TypeOK ==
    /\ server # None => IsPod(server)
    /\ changes \in 0..MaxChanges /\ lost \in 0..MaxLost
    /\ topic # None => IsMessage(topic)
    /\ \A i \in Informers :
        /\ run[i] \in {"off", "on", "stopped"}
        /\ store[i] # None => IsPod(store[i])
        /\ \A k \in DOMAIN events[i] :
            /\ events[i][k].kind \in {"update", "delete", "tombstone"}
            /\ IsPod(events[i][k].pod)
        /\ handler[i] # None =>
            handler[i].step \in {"get", "publish"} /\ IsPod(handler[i].pod)

\* What a handler is about to publish of a failed pod without a message is
\* what the reference definition says: the sort, the early returns and the
\* ignored containers of inferFailedReason together rank the culprits as its
\* comment does, and getLatestFinishedAt finds the latest time.
StatusMatchesReference ==
    \A i \in Informers : handler[i] # None =>
        LET status == handler[i].pod.status
            node == handler[i].node
        IN  /\ status.phase = "Failed" /\ ~status.message =>
                node.phase = ReferencePhase(status)
            /\ Completed(node.phase) =>
                node.finishedAt = ReferenceFinishedAt(status)

\* inferFailedReason sorts the container statuses of the informer's own copy
\* of the pod, which every resync assesses again: what a handler makes of the
\* copy, however often it was sorted, is what it would make of the pod on the
\* server.
ReassessStable ==
    \A i \in Informers :
        handler[i] # None /\ SameObject(handler[i].pod, server) =>
            handler[i].node = Assessed[server.status]

\* The comment at the end of inferFailedReason: "If we get here, we have
\* detected that the main/wait containers succeed but the sidecar(s) were
\* SIGKILL'd".  So a failed pod is reported as succeeded only if its main
\* container terminated with exit code 0.
SucceededMeansMainSucceeded ==
    \A i \in Informers :
        /\ handler[i] # None
        /\ handler[i].pod.status.phase = "Failed"
        /\ handler[i].node.phase = "Succeeded"
        => handler[i].node.exitCode = <<0>>

\* A message says "pod deleted" only of a pod that is being deleted or gone:
\* the delete handler also runs for a pod that merely lost its label.
DeletedMeansGone ==
    [][topic' # topic /\ topic'.status.message = POD_DELETED_MESSAGE =>
        server = None \/ server.uid # topic'.uid \/ server.deleting]_vars

\* A message that goes back to an earlier pod of that name, or takes the outcome
\* of a pod back, takes back a message of another informer: lists, broken
\* watches, resyncs, lost publishes and the notifications handed over after a
\* stop keep the order of the server, but two informers of a cluster, one of
\* them stopped or not, are not in step.
Final(message) ==
    /\ Completed(message.status.phase)
    /\ message.status.message # <<"unexpected phase">>
NoRegression ==
    [][topic # None /\ topic' # topic =>
        \/ topic'.uid > topic.uid
        \/ topic'.uid = topic.uid /\ (Final(topic) => Final(topic'))
        \/ topic'.by # topic.by]_vars

\* The outcome of a pod that stays on the server becomes and remains the last
\* message if some informer stays on, whatever publishes failed, whichever
\* other informers run, lag or are stopped, and although first sightings of a
\* pod are not published: the resync sees to it.
Finished ==
    /\ Selected # None
    /\ server.status.phase \in {"Succeeded", "Failed"}
    /\ server.type \in {"ci", "cd"}
Reported ==
    /\ server # None /\ topic # None /\ topic.uid = server.uid
    /\ topic.status = GetWorkflowStatus(Assessed[server.status])
EventuallyReported ==
    <>[](Finished /\ \E i \in Informers : run[i] = "on") => <>[]Reported

\* A pod whose main container was terminated by SIGTERM and which is gone is
\* reported as deleted once an informer has its delete notification, unless
\* that informer is stopped, if nothing fails from then on and no pod of that
\* name takes its place.
Killed(i) ==
    /\ server = None
    /\ changes = MaxChanges /\ lost = MaxLost /\ run[i] = "on"
    /\ \E k \in DOMAIN events[i] :
        /\ events[i][k].kind = "delete"
        /\ events[i][k].pod.type \in {"ci", "cd"}
        /\ Assessed[events[i][k].pod.status].message = EXIT_CODE_143_ERROR
KilledPodReported ==
    \A i \in Informers :
        Killed(i) ~> \/ topic # None /\ topic.status.message = POD_DELETED_MESSAGE
                     \/ run[i] # "on"
=============================================================================
