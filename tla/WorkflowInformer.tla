--------------------------- MODULE WorkflowInformer ---------------------------
(***************************************************************************)
(* The CI and CD informers of Start in src/pkg/controller/informer.go,     *)
(* seen for one Argo workflow: which of them watch it, startWorkflow-      *)
(* Informer's UpdateFunc, and the two ways to publish: NATS, or REST with  *)
(* retries (PublishEventsOnRest).  AddFunc and DeleteFunc are empty and    *)
(* there is no resync.  A status is a number that grows with each change,  *)
(* 0 while the object has no "status"; marshalling it cannot fail.         *)
(***************************************************************************)
EXTENDS Watch

CONSTANTS
    Configurations,             \* environments the process is started with
    CiNamespace, CdNamespace,   \* DEFAULT_NAMESPACE, CD_DEFAULT_NAMESPACE
    Namespace,                  \* the namespace of the workflow
    RetryCount,                 \* retries of a failed request
    MaxLost,                    \* bound: publishes and requests that fail
    MaxRestarts                 \* bound: restarts of the process

ASSUME WorkflowAssumption ==
    /\ Informers = {"ci", "cd"}
    /\ \A c \in Configurations :
        c.external \in BOOLEAN /\ c.informers \subseteq Informers
    /\ RetryCount \in Nat /\ MaxLost \in Nat /\ MaxRestarts \in Nat

VARIABLES
    conf,       \* external: CD_EXTERNAL_REST_LISTENER, namespace:
                \* CD_EXTERNAL_NAMESPACE, informers: CI_INFORMER, CD_INFORMER
    handler,    \* the publish each informer's handler is in, or None
    late,       \* requests that failed for the sender and are still under way
    received,   \* the last status received under each event name, 0: none
    untold,     \* history: what the informer knows is not the last message,
                \* because it was listed first, a publish failed or a late
                \* request arrived
    lost, restarts

vars == <<watchVars, conf, handler, late, received, untold, lost, restarts>>

AllNamespaces == ""
Workflows == [uid : 0..MaxChanges, rv : 0..MaxChanges, status : 0..MaxChanges]
Calls == [uid : 0..MaxChanges, status : 1..MaxChanges, attempt : 0..RetryCount]
Requests == Informers \X (1..MaxChanges)

ASSUME NoneAssumption == None \notin Workflows \cup Calls

\* The namespace passed to startWorkflowInformer; External sends both
\* informers to the same one.
NamespaceOf(i) == IF conf.external THEN conf.namespace
                  ELSE IF i = "ci" THEN CiNamespace ELSE CdNamespace
Watches(i) ==
    i \in conf.informers /\ NamespaceOf(i) \in {Namespace, AllNamespaces}

Init ==
    /\ conf \in Configurations
    /\ server \in {[uid |-> 0, rv |-> 0, status |-> 0], None}
    /\ changes = 0
    /\ store = [i \in Informers |-> None]
    /\ events = [i \in Informers |-> << >>]
    /\ handler = [i \in Informers |-> None]
    /\ late = {}
    /\ received = [i \in Informers |-> 0]
    /\ untold = [i \in Informers |-> FALSE]
    /\ lost = 0
    /\ restarts = 0

-----------------------------------------------------------------------------
(* The Argo workflow controller and the API server (external).             *)

program == <<conf, handler, late, received, untold, lost, restarts>>

\* Metadata is written, or the status as well.
UpdateWorkflow ==
    /\ server # None
    /\ \E s \in {server.status, changes + 1} :
        Change([server EXCEPT !.status = s])
    /\ UNCHANGED program

DeleteWorkflow == server # None /\ Change(None) /\ UNCHANGED program

CreateWorkflow ==
    /\ server = None
    /\ Change([uid |-> changes + 1, rv |-> 0, status |-> 0])
    /\ UNCHANGED program

\* AddFunc is empty: a workflow that is listed with a status is not published.
ObserveWorkflow(i) ==
    /\ Watches(i)
    /\ Observe(i)
    /\ untold' = [untold EXCEPT ![i] =
                    IF store[i] = None THEN server.status # 0 ELSE @]
    /\ UNCHANGED <<conf, handler, late, received, lost, restarts>>

-----------------------------------------------------------------------------
(* The handlers.                                                           *)

\* A call that publishes the status of a workflow.
Call(wf) == [uid |-> wf.uid, status |-> wf.status, attempt |-> 0]

\* Faulty: an update is not published until the one after it.
UpdateFuncOldStatus(e) == IF e.old.status # 0 THEN Call(e.old) ELSE None

\* UpdateFunc up to the call that publishes: an object without status is
\* skipped.
UpdateFunc(e) == IF e.new.status # 0 THEN Call(e.new) ELSE None

\* DeleteFunc is empty.
Handle(i) ==
    LET e == Head(events[i]) IN
    /\ handler[i] = None
    /\ Take(i)
    /\ handler' = [handler EXCEPT ![i] =
                    IF e.kind = "update" THEN UpdateFunc(e) ELSE None]
    /\ UNCHANGED <<conf, late, received, untold, lost, restarts>>

Received(i) == received' = [received EXCEPT ![i] = handler[i].status]
Fail == lost < MaxLost /\ lost' = lost + 1
Done(i) == handler' = [handler EXCEPT ![i] = None]

\* The call of informer i's handler succeeds; a message about an earlier
\* workflow of that name says nothing of the one in the store.
Succeed(i) ==
    /\ Received(i)
    /\ Done(i)
    /\ untold' = [untold EXCEPT ![i] =
            @ /\ store[i] # None /\ store[i].uid # handler[i].uid]

GiveUp(i) == Done(i) /\ untold' = [untold EXCEPT ![i] = TRUE]

Requeue(i) ==
    LET wf == [uid |-> handler[i].uid, rv |-> 0, status |-> handler[i].status]
    IN  /\ Done(i)
        /\ events' = [events EXCEPT ![i] =
                Append(@, [kind |-> "update", old |-> wf, new |-> wf])]

\* client.Publish; an error is logged and the status dropped.
Publish(i) ==
    /\ ~conf.external
    /\ handler[i] # None
    /\ \/ Succeed(i) /\ UNCHANGED lost
       \/ Fail /\ GiveUp(i) /\ UNCHANGED received
    /\ UNCHANGED <<watchVars, conf, late, restarts>>

\* Faulty: after an error the status is queued again, behind newer ones.
PostRequeues(i) ==
    /\ conf.external
    /\ handler[i] # None
    /\ \/ Succeed(i) /\ UNCHANGED <<lost, events>>
       \/ Fail /\ Requeue(i) /\ UNCHANGED <<received, untold>>
    /\ UNCHANGED <<server, changes, store, conf, late, restarts>>

\* Faulty: one retry too many.
RetriesOneMore(i) == handler[i].attempt > RetryCount

RetriesUsedUp(i) == handler[i].attempt = RetryCount

\* One attempt of PublishEventsOnRest.  Any answer ends the call, a refusal
\* too.  On an error the request was lost, was received, or is under way; it
\* is sent again until the retries are used up.
Post(i) ==
    /\ conf.external
    /\ handler[i] # None
    /\ \/ Succeed(i) /\ UNCHANGED <<lost, late>>
       \/ Fail /\ GiveUp(i) /\ UNCHANGED <<received, late>>
       \/ /\ Fail
          /\ \/ UNCHANGED <<received, late>>
             \/ Received(i) /\ UNCHANGED late
             \/ /\ late' = late \cup {<<i, handler[i].status>>}
                /\ UNCHANGED received
          /\ \/ RetriesUsedUp(i) /\ GiveUp(i)
             \/ /\ ~RetriesUsedUp(i)
                /\ handler' = [handler EXCEPT ![i].attempt = @ + 1]
                /\ UNCHANGED untold
    /\ UNCHANGED <<watchVars, conf, restarts>>

\* A request that was under way reaches the listener after all.
Arrive(r) ==
    /\ r \in late
    /\ late' = late \ {r}
    /\ received' = [received EXCEPT ![r[1]] = r[2]]
    /\ untold' = [untold EXCEPT ![r[1]] = TRUE]
    /\ UNCHANGED <<watchVars, conf, handler, lost, restarts>>

\* The process ends at any moment and is started again.
Restart ==
    /\ restarts < MaxRestarts
    /\ restarts' = restarts + 1
    /\ Reset
    /\ handler' = [i \in Informers |-> None]
    /\ untold' = [i \in Informers |-> FALSE]
    /\ UNCHANGED <<conf, late, received, lost>>
-----------------------------------------------------------------------------
Cluster == UpdateWorkflow \/ DeleteWorkflow \/ CreateWorkflow

Handlers(i) == Handle(i) \/ Publish(i) \/ Post(i)

Next ==
    \/ Cluster
    \/ \E i \in Informers : ObserveWorkflow(i) \/ Handlers(i)
    \/ \E r \in Requests : Arrive(r)
    \/ Restart

Spec == Init /\ [][Next]_vars

\* The reflectors and the handler goroutines keep running.
FairSpec ==
    /\ Spec
    /\ \A i \in Informers : WF_vars(ObserveWorkflow(i)) /\ WF_vars(Handlers(i))

-----------------------------------------------------------------------------
(* Properties.                                                             *)

Notifications ==
    [kind : {"update"}, old : Workflows, new : Workflows]
    \cup [kind : {"delete", "tombstone"}, old : Workflows, new : {None}]

\* Every variable has its type, and a call makes at most RetryCount retries.
TypeOK ==
    /\ conf \in Configurations
    /\ server \in Workflows \cup {None}
    /\ changes \in 0..MaxChanges
    /\ store \in [Informers -> Workflows \cup {None}]
    /\ \A i \in Informers : \A k \in DOMAIN events[i] :
        events[i][k] \in Notifications
    /\ handler \in [Informers -> Calls \cup {None}]
    /\ late \subseteq Requests
    /\ received \in [Informers -> 0..MaxChanges]
    /\ untold \in [Informers -> BOOLEAN]
    /\ lost \in 0..MaxLost /\ restarts \in 0..MaxRestarts

\* Once an informer's handlers have seen everything, the last message under
\* its event name is the status of the workflow, unless the workflow was
\* listed that way, the last publish was given up or refused, or a request
\* that had failed arrived late.  Under an external listener that holds of
\* both event names, although only one of them is meant.
LastStatusIsCurrent ==
    \A i \in Informers :
        /\ store[i] # None /\ store[i].status # 0
        /\ events[i] = << >> /\ handler[i] = None
        /\ ~untold[i]
        => received[i] = store[i].status

\* Each informer implements Relay: under its event name a status never arrives
\* after a newer one, over restarts too, nor before it was written, except by a
\* request that had failed for its sender: the retry loop of a handler keeps
\* later updates waiting.
ToldStatus(i) == [version |-> received[i], gone |-> FALSE]
StraysOf(i) == {r[2] : r \in {q \in late : q[1] = i}}
Ci == INSTANCE Relay WITH latest <- changes, told <- ToldStatus("ci"),
                          strays <- StraysOf("ci")
Cd == INSTANCE Relay WITH latest <- changes, told <- ToldStatus("cd"),
                          strays <- StraysOf("cd")
ImplementsRelay == Ci!Spec /\ Cd!Spec

\* The status of a workflow that stays is, in the end, the last message under
\* each event name that is told it, if its publish was not given up.
EventuallyTold ==
    \A i \in Informers :
        <>[](Watches(i) /\ server # None /\ server.status # 0 /\ ~untold[i])
        => <>[](server # None /\ received[i] = server.status)
=============================================================================
