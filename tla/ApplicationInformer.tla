------------------------- MODULE ApplicationInformer -------------------------
(***************************************************************************)
(* The Argo CD informer of Start in src/pkg/controller/informer.go, seen   *)
(* for one application name: its UpdateFunc and DeleteFunc, SendAppUpdate  *)
(* and SendAppDelete.  It runs only without an external listener, when     *)
(* main has a NATS client, so the branches for a nil client are dead.      *)
(* Of an application the handlers look at whether it has a deployment      *)
(* history, its revision, its health and its sync status.  statusTime is   *)
(* the time of the call and passes through.                                *)
(***************************************************************************)
EXTENDS Watch

CONSTANTS
    Revisions, Healths, SyncStatuses,
    MaxLost,        \* bound: publishes that fail
    MaxRestarts     \* bound: restarts of the process

ASSUME ApplicationAssumption ==
    Informers = {"acd"} /\ MaxLost \in Nat /\ MaxRestarts \in Nat

VARIABLES
    handler,    \* the message the handler is about to publish, or None
    topic,      \* the last message published, or None
    untold,     \* history: what the informer knows was not published, because
                \* it was listed first or because its publish failed
    lost, restarts

vars == <<watchVars, handler, topic, untold, lost, restarts>>

Apps == [uid : 0..MaxChanges, rv : 0..MaxChanges, history : BOOLEAN,
         revision : Revisions, health : Healths, sync : SyncStatuses]
Messages == [kind : {"update", "delete"}, app : Apps]

ASSUME NoneAssumption == None \notin Apps \cup Messages

\* What the orchestrator learns of an application.
State(app) == <<app.revision, app.health, app.sync>>

Init ==
    /\ \E app \in Apps : app.uid = 0 /\ app.rv = 0 /\ server = app
    /\ changes = 0
    /\ store = [i \in Informers |-> None]
    /\ events = [i \in Informers |-> << >>]
    /\ handler = None
    /\ topic = None
    /\ untold = FALSE
    /\ lost = 0
    /\ restarts = 0

-----------------------------------------------------------------------------
(* Argo CD and the API server (external).                                  *)

ChangeApp ==
    /\ server # None
    /\ \E app \in Apps :
        /\ app.uid = server.uid /\ app.rv = server.rv
        /\ Change(app)
    /\ UNCHANGED <<handler, topic, untold, lost, restarts>>

DeleteApp ==
    /\ server # None
    /\ Change(None)
    /\ UNCHANGED <<handler, topic, untold, lost, restarts>>

CreateApp ==
    /\ server = None
    /\ \E app \in Apps :
        /\ app.uid = changes + 1 /\ app.rv = changes + 1
        /\ ~app.history
        /\ Change(app)
    /\ UNCHANGED <<handler, topic, untold, lost, restarts>>

\* AddFunc sends nothing.
ObserveApp ==
    /\ Observe("acd")
    /\ untold' = IF store["acd"] = None THEN server.history ELSE untold
    /\ UNCHANGED <<handler, topic, lost, restarts>>

-----------------------------------------------------------------------------
(* The handlers.                                                           *)

Message(kind, app) == [kind |-> kind, app |-> app]

\* Faulty: a change of the sync status alone is not noticed.
UpdateFuncNoSync(e) ==
    IF /\ e.new.history
       /\ \/ ~e.old.history
          \/ e.old.revision # e.new.revision
          \/ e.old.health # e.new.health
    THEN Message("update", e.new) ELSE None

\* Faulty: the first deployment of an application is not noticed.
UpdateFuncOldOnly(e) ==
    IF /\ e.new.history
       /\ e.old.history
       /\ \/ e.old.revision # e.new.revision
          \/ e.old.health # e.new.health
          \/ e.old.sync # e.new.sync
    THEN Message("update", e.new) ELSE None

\* Faulty: applications that were never deployed are sent too.
UpdateFuncUndeployed(e) ==
    IF \/ ~e.old.history
       \/ e.old.revision # e.new.revision
       \/ e.old.health # e.new.health
       \/ e.old.sync # e.new.sync
    THEN Message("update", e.new) ELSE None

\* A deployed application is sent when it was not deployed before or when its
\* revision, health or sync status differ.
UpdateFunc(e) ==
    IF /\ e.new.history
       /\ \/ ~e.old.history
          \/ e.old.revision # e.new.revision
          \/ e.old.health # e.new.health
          \/ e.old.sync # e.new.sync
    THEN Message("update", e.new) ELSE None

\* Faulty: only deployed applications are reported as deleted.
DeleteFuncDeployed(e) ==
    IF e.old.history THEN Message("delete", e.old) ELSE None

\* The last known application is sent.
DeleteFunc(e) == Message("delete", e.old)

\* A tombstone is not an *Application.
Handle ==
    LET e == Head(events["acd"]) IN
    /\ handler = None
    /\ Take("acd")
    /\ handler' = CASE e.kind = "update" -> UpdateFunc(e)
                    [] e.kind = "delete" -> DeleteFunc(e)
                    [] e.kind = "tombstone" -> None
    /\ UNCHANGED <<topic, untold, lost, restarts>>

\* A message was published; one about an earlier application of that name
\* says nothing of the one in the store.
Told(app) == store["acd"] = None \/ store["acd"].uid = app.uid

\* Faulty: after an error the message is queued again, behind newer ones.
SendAppRequeues ==
    /\ handler # None
    /\ \/ /\ topic' = handler
          /\ untold' = (untold /\ ~Told(handler.app))
          /\ UNCHANGED <<lost, watchVars>>
       \/ /\ lost < MaxLost
          /\ lost' = lost + 1
          /\ events' = [events EXCEPT !["acd"] = Append(@,
                [kind |-> handler.kind, new |-> handler.app,
                 old |-> [handler.app EXCEPT !.history = FALSE]])]
          /\ UNCHANGED <<server, changes, store, topic, untold>>
    /\ handler' = None
    /\ UNCHANGED restarts

\* SendAppUpdate and SendAppDelete: an error is logged and the message dropped.
SendApp ==
    /\ handler # None
    /\ \/ /\ topic' = handler
          /\ untold' = (untold /\ ~Told(handler.app))
          /\ UNCHANGED lost
       \/ /\ lost < MaxLost
          /\ lost' = lost + 1
          /\ untold' = TRUE
          /\ UNCHANGED topic
    /\ handler' = None
    /\ UNCHANGED <<watchVars, restarts>>

\* The process ends at any moment and is started again.
Restart ==
    /\ restarts < MaxRestarts
    /\ restarts' = restarts + 1
    /\ Reset
    /\ handler' = None
    /\ untold' = FALSE
    /\ UNCHANGED <<topic, lost>>

-----------------------------------------------------------------------------
Next == \/ ChangeApp \/ DeleteApp \/ CreateApp
        \/ ObserveApp \/ Handle \/ SendApp \/ Restart

Spec == Init /\ [][Next]_vars

\* The reflector and the handler goroutine keep running.
FairSpec == Spec /\ WF_vars(ObserveApp) /\ WF_vars(Handle) /\ WF_vars(SendApp)

-----------------------------------------------------------------------------
(* Properties.                                                             *)

Notifications ==
    [kind : {"update"}, old : Apps, new : Apps]
    \cup [kind : {"delete", "tombstone"}, old : Apps, new : {None}]

\* Every variable has its type, and an update message is always about an
\* application that has been deployed.
TypeOK ==
    /\ server \in Apps \cup {None}
    /\ changes \in 0..MaxChanges
    /\ store \in [Informers -> Apps \cup {None}]
    /\ \A i \in Informers : \A k \in DOMAIN events[i] :
        events[i][k] \in Notifications
    /\ handler \in Messages \cup {None}
    /\ topic \in Messages \cup {None}
    /\ \A m \in {handler, topic} \ {None} :
        m.kind = "update" => m.app.history
    /\ untold \in BOOLEAN /\ lost \in 0..MaxLost /\ restarts \in 0..MaxRestarts

\* UpdateFunc compares each state only with the one before it and skips what
\* looks alike; still, when all notifications are handled, the last message
\* tells the revision, health and sync status of a deployed application,
\* unless the application was listed that way or a publish failed.
LastMessageIsCurrent ==
    LET app == store["acd"] IN
    /\ app # None /\ app.history
    /\ events["acd"] = << >> /\ handler = None
    /\ ~untold
    => /\ topic # None
       /\ topic.kind = "update"
       /\ State(topic.app) = State(app)

\* The informer implements Relay, without strays: messages never go back to an
\* older state of the application, no update follows the delete message of an
\* application and none comes before its state, whatever failed and however
\* often the process was restarted.
ToldApp == IF topic = None THEN [version |-> 0, gone |-> FALSE]
           ELSE [version |-> topic.app.rv, gone |-> topic.kind = "delete"]
R == INSTANCE Relay WITH latest <- changes, told <- ToldApp, strays <- {}
ImplementsRelay == R!Spec

\* A deployed application that stays so is, in the end, what the last message
\* says, if its last change was seen as an update and its publish did not fail.
EventuallyTold ==
    <>[](server # None /\ server.history /\ ~untold)
    => <>[](/\ server # None /\ topic # None
            /\ topic.kind = "update"
            /\ State(topic.app) = State(server))

\* A deletion the watch has seen is published, once nothing fails any more.
DeletionPending ==
    /\ changes = MaxChanges /\ lost = MaxLost /\ restarts = MaxRestarts
    /\ server = None
    /\ \E k \in DOMAIN events["acd"] : events["acd"][k].kind = "delete"
DeletionTold ==
    DeletionPending ~> (topic # None /\ topic.kind = "delete")
=============================================================================
