-------------------------- MODULE ResourceController --------------------------
(***************************************************************************)
(* The controller of one resource type in src/pkg/controller/controller.go: *)
(* the informer handlers newResourceController installs, the rate limited  *)
(* work queue they fill, Run with its one worker, and processItem, which   *)
(* calls the notification handler.  One variable newEvent is shared by the *)
(* handlers and copied into the queue.                                     *)
(*                                                                         *)
(* Time is counted in half seconds: a creation timestamp is truncated to   *)
(* the second, the start time of the server is not.  GetByKey may fail as  *)
(* its signature allows; client-go's own store never does.  The url of     *)
(* hipchat can be parsed.                                                  *)
(***************************************************************************)
EXTENDS Naturals, Sequences, FiniteSets, SequencesExt, Notification

CONSTANTS
    Keys,           \* the objects, as <<namespace, name>>
    Type,           \* their Go type, one New and GetObjectMetaData know, and
                    \* not that of events, which stand for other objects
    ResourceType,   \* resourceType
    EventHandlers,  \* the handlers that may be configured, but the default
                    \* one, which does nothing
    None,
    MaxRetries,     \* maxRetries, 5 in the code
    MaxTime,        \* bound: half seconds
    MaxChanges,     \* bound: changes of objects
    MaxQueue,       \* bound: notifications the handlers have not seen
    MaxFaults       \* bound: failures of GetByKey and of the messages

VARIABLES
    eventHandler,
    now,        \* the clock
    objects,    \* the objects on the API server, None if there is none
    changes,    \* their changes so far
    listed,     \* the informer has listed the objects
    store,      \* the informer's indexer
    events,     \* notifications of the informer
    run,        \* where Run is: "new", "sync", "work", "returned"
    stopped,    \* stopCh is closed
    start,      \* serverStartTime
    newEvent,   \* the event the handlers share
    queue, dirty, processing,   \* the work queue
    waiting,    \* items added with a delay
    requeues,   \* failures of each item
    worker,     \* the item the worker holds and what GetByKey said of it
    faults,
    announced,  \* history: uids with the messages ObjectCreated sent of them
    owed,       \* history: messages of handled deletions, not sent yet
    failed      \* history: keys with an event given up or a message lost

cluster == <<eventHandler, now, objects, changes>>
informer == <<listed, store, events>>
workQueue == <<queue, dirty, processing, waiting, requeues>>
history == <<announced, owed, failed>>
vars == <<cluster, informer, run, stopped, start, newEvent, workQueue,
          worker, faults, history>>

NoNamespace == ""
Namespaces == {k[1] : k \in Keys} \cup {NoNamespace}
Objects == [uid : 0..MaxChanges, rv : 0..MaxChanges, created : 0..MaxTime]
Items == [key : Keys, type : {"create", "update", "delete"},
          namespace : Namespaces]
Noticed == [kind : {"add", "update", "delete", "tombstone"}, key : Keys,
            obj : Objects]
Workers == [item : Items, at : {"got", "fetched", "error"},
            obj : Objects \cup {None}]

\* Namespaces are in no namespace.
ASSUME ObjectAssumption ==
    /\ IsFiniteSet(Keys) /\ \A k \in Keys : k = <<k[1], k[2]>>
    /\ Type \in MetaTypes \ {"api_v1.Event"} /\ KindOf(Type) # ""
    /\ "namespace" \in {ResourceType, KindOf(Type)} =>
            \A k \in Keys : k[1] = NoNamespace
    /\ EventHandlers \subseteq
            {"slack", "hipchat", "mattermost", "flock", "webhook"}
ASSUME NoneAssumption == None \notin Objects \cup Items \cup Workers
ASSUME BoundAssumption ==
    /\ MaxRetries \in Nat /\ MaxTime \in Nat /\ MaxChanges \in Nat
    /\ MaxQueue \in Nat /\ MaxFaults \in Nat

Init ==
    /\ eventHandler \in EventHandlers
    /\ now = 0
    /\ objects \in [Keys -> {None, [uid |-> 0, rv |-> 0, created |-> 0]}]
    /\ changes = 0
    /\ listed = FALSE
    /\ store = [k \in Keys |-> None]
    /\ events = << >>
    /\ run = "new"
    /\ stopped = FALSE
    /\ start = 0
    /\ newEvent = None
    /\ queue = << >> /\ dirty = {} /\ processing = {} /\ waiting = {}
    /\ requeues = [i \in Items |-> 0]
    /\ worker = None
    /\ faults = 0
    /\ announced = {} /\ owed = {} /\ failed = {}

-----------------------------------------------------------------------------
(* The cluster (external).                                                 *)

program == <<informer, run, stopped, start, newEvent, workQueue, worker,
             faults, history>>

Tick ==
    /\ now < MaxTime
    /\ now' = now + 1
    /\ UNCHANGED <<eventHandler, objects, changes, program>>

Put(k, obj) ==
    /\ changes < MaxChanges
    /\ changes' = changes + 1
    /\ objects' = [objects EXCEPT ![k] = obj]
    /\ UNCHANGED <<eventHandler, now, program>>

\* metav1.Time has whole seconds.
CreateObject(k) ==
    /\ objects[k] = None
    /\ Put(k, [uid |-> changes + 1, rv |-> changes + 1,
               created |-> now - (now % 2)])

UpdateObject(k) ==
    /\ objects[k] # None
    /\ Put(k, [objects[k] EXCEPT !.rv = changes + 1])

DeleteObject(k) == objects[k] # None /\ Put(k, None)

-----------------------------------------------------------------------------
(* The shared informer (external).                                         *)

\* The first list; every object is an add notification.
List ==
    /\ run # "new" /\ ~stopped /\ ~listed
    /\ listed' = TRUE
    /\ store' = objects
    /\ \E order \in SetToSeqs({k \in Keys : objects[k] # None}) :
        events' = [n \in DOMAIN order |->
            [kind |-> "add", key |-> order[n], obj |-> objects[order[n]]]]
    /\ UNCHANGED <<cluster, run, stopped, start, newEvent, workQueue, worker,
                   faults, history>>

\* The informer catches up with one object, after one change or several.
Observe(k) ==
    /\ listed /\ ~stopped
    /\ store[k] # objects[k]
    /\ Len(events) < MaxQueue
    /\ store' = [store EXCEPT ![k] = objects[k]]
    /\ \E kind \in IF store[k] = None THEN {"add"}
                   ELSE IF objects[k] # None THEN {"update"}
                   ELSE {"delete", "tombstone"} :
        events' = Append(events, [kind |-> kind, key |-> k,
            obj |-> IF kind = "add" THEN objects[k] ELSE store[k]])
    /\ UNCHANGED <<cluster, listed, run, stopped, start, newEvent, workQueue,
                   worker, faults, history>>

\* stopCh is closed: the informer stops, with notifications undelivered.
Stop ==
    /\ run # "new" /\ ~stopped
    /\ stopped' = TRUE
    /\ \E n \in 0..Len(events) : events' = SubSeq(events, 1, n)
    /\ UNCHANGED <<cluster, listed, store, run, start, newEvent, workQueue,
                   worker, faults, history>>

-----------------------------------------------------------------------------
(* client-go's work queue (external).  ShutDown makes Add do nothing.      *)

Add(item) ==
    /\ dirty' = IF run = "returned" THEN dirty ELSE dirty \cup {item}
    /\ queue' = IF item \in dirty \cup processing \/ run = "returned"
                THEN queue ELSE Append(queue, item)

Done(item) ==
    /\ processing' = processing \ {item}
    /\ queue' = IF item \in dirty THEN Append(queue, item) ELSE queue

AddRateLimited(item) ==
    /\ requeues' = [requeues EXCEPT ![item] = @ + 1]
    /\ waiting' = waiting \cup {item}

Forget(item) == requeues' = [requeues EXCEPT ![item] = 0]

\* The delay of an item is over.
AddAfterDelay(item) ==
    /\ item \in waiting
    /\ waiting' = waiting \ {item}
    /\ Add(item)
    /\ UNCHANGED <<cluster, informer, run, stopped, start, newEvent,
                   processing, requeues, worker, faults, history>>

-----------------------------------------------------------------------------
(* The handlers of the informer.                                           *)

\* The namespace the shared event has: newEvent is the zero value at first.
SharedNamespace == IF newEvent = None THEN NoNamespace ELSE newEvent.namespace

\* An object as the code has it; nil if there is none.
Object(k, obj) ==
    IF obj = None THEN [type |-> "nil"]
    ELSE [type |-> Type, meta |-> [namespace |-> k[1], name |-> k[2],
                                   created |-> obj.created]]

\* What DeleteFunc is given: the last known object, or a tombstone.
Deleted(e) == IF e.kind = "tombstone" THEN [type |-> "tombstone"]
              ELSE Object(e.key, e.obj)

\* AddFunc and UpdateFunc leave the namespace as the last delete set it.
AddFunc(e) ==
    [key |-> e.key, type |-> "create", namespace |-> SharedNamespace]
UpdateFunc(e) ==
    [key |-> e.key, type |-> "update", namespace |-> SharedNamespace]

\* Faulty: a tombstone leaves the namespace as it was.
DeleteFuncSkipsTombstone(e) ==
    [key |-> e.key, type |-> "delete",
     namespace |-> IF e.kind = "tombstone" THEN SharedNamespace
                   ELSE GetObjectMetaData(Deleted(e)).namespace]

DeleteFunc(e) ==
    [key |-> e.key, type |-> "delete",
     namespace |-> GetObjectMetaData(Deleted(e)).namespace]

\* What the message of a deletion should name: the object by its key, and its
\* namespace unless the deletion came as a tombstone.
Deletion(e) ==
    <<e.key, IF e.kind = "tombstone" THEN NoNamespace ELSE e.key[1]>>

Handle ==
    /\ events # << >>
    /\ LET e == Head(events) IN
        /\ newEvent' = CASE e.kind = "add" -> AddFunc(e)
                         [] e.kind = "update" -> UpdateFunc(e)
                         [] OTHER -> DeleteFunc(e)
        /\ Add(newEvent')
        /\ owed' = IF e.kind \in {"delete", "tombstone"} /\ run # "returned"
                   THEN owed \cup {Deletion(e)} ELSE owed
    /\ events' = Tail(events)
    /\ UNCHANGED <<cluster, listed, store, run, stopped, start, processing,
                   waiting, requeues, worker, faults, announced, failed>>

-----------------------------------------------------------------------------
(* Run and its worker.                                                     *)

\* Run up to the start of the informer.
StartRun ==
    /\ run = "new"
    /\ run' = "sync"
    /\ start' = now
    /\ UNCHANGED <<cluster, informer, stopped, newEvent, workQueue, worker,
                   faults, history>>

\* WaitForCacheSync and the first look of wait.Until at stopCh: Run returns,
\* with the deferred ShutDown, or enters runWorker.
EnterWorker ==
    /\ run = "sync"
    /\ listed \/ stopped
    /\ run' = IF stopped THEN "returned" ELSE "work"
    /\ UNCHANGED <<cluster, informer, stopped, start, newEvent, workQueue,
                   worker, faults, history>>

\* processNextItem up to processItem.  Get only quits after ShutDown, which
\* Run defers until runWorker returns: a closed stopCh does not end the loop.
ProcessNextItem ==
    /\ run = "work" /\ worker = None
    /\ queue # << >>
    /\ LET item == Head(queue) IN
        /\ worker' = [item |-> item, at |-> "got", obj |-> None]
        /\ queue' = Tail(queue)
        /\ processing' = processing \cup {item}
        /\ dirty' = dirty \ {item}
    /\ UNCHANGED <<cluster, informer, run, stopped, start, newEvent, waiting,
                   requeues, faults, history>>

\* GetByKey.
FetchObject ==
    /\ worker # None /\ worker.at = "got"
    /\ \/ /\ worker' = [worker EXCEPT !.at = "fetched",
                                      !.obj = store[worker.item.key]]
          /\ UNCHANGED faults
       \/ /\ faults < MaxFaults
          /\ faults' = faults + 1
          /\ worker' = [worker EXCEPT !.at = "error"]
    /\ UNCHANGED <<cluster, informer, run, stopped, start, newEvent,
                   workQueue, history>>

\* Faulty: the difference is taken in whole seconds.
NewerThanServerSeconds(obj) == GetObjectMetaData(obj).created > start + 1

\* The meta data of a missing object has the zero time.
NewerThanServer(obj) == GetObjectMetaData(obj).created > start

\* processItem calls the handler with the object, or with an event that names
\* it by its key; the event of an update has no namespace.
Named(item, namespace) ==
    [type |-> "event.Event", kind |-> ResourceType, name |-> item.key,
     namespace |-> namespace]
ProcessItem(item, obj) ==
    CASE item.type = "create" -> IF NewerThanServer(obj)
            THEN {Notify(eventHandler, obj, "created")} ELSE {}
      [] item.type = "update" ->
            {Notify(eventHandler, Named(item, NoNamespace), "updated")}
      [] item.type = "delete" ->
            {Notify(eventHandler, Named(item, item.namespace), "deleted")}

\* A message is sent; the history notes it.
Sent(obj, m) ==
    /\ announced' = IF m.text.reason # "created" THEN announced
                    ELSE announced \cup {<<obj.uid, m>>}
    /\ owed' = IF m.text.reason # "deleted" THEN owed
               ELSE owed \ {<<m.text.name, m.text.namespace>>}

\* Nothing more is sent for an item.
Dropped(item) ==
    /\ failed' = failed \cup {item.key}
    /\ owed' = IF item.type # "delete" THEN owed
               ELSE owed \ {<<item.key, item.namespace>>}

\* Faulty: one retry too many.
RetriesLeftOneMore(item) == requeues[item] <= MaxRetries

RetriesLeft(item) == requeues[item] < MaxRetries

\* Faulty: an item that was given up keeps its failures.
GiveUpKeepsCount(item) == UNCHANGED requeues /\ Dropped(item)

\* The item is dropped after too many failures.
GiveUp(item) == Forget(item) /\ Dropped(item)

\* processItem has fetched the object.  The handlers log an error of the
\* message and return nothing: the item is done in any case.
Notified(item, messages) ==
    /\ Forget(item)
    /\ \/ messages = {} /\ UNCHANGED <<history, faults>>
       \/ /\ \E m \in messages : Sent(worker.obj, m)
          /\ UNCHANGED <<failed, faults>>
       \/ /\ messages # {}
          /\ faults < MaxFaults /\ faults' = faults + 1
          /\ Dropped(item)
          /\ UNCHANGED announced

\* What becomes of the worker's item: processed, retried later, or dropped.
Settle(item) ==
    \/ /\ worker.at = "fetched"
       /\ Notified(item, ProcessItem(item, Object(item.key, worker.obj)))
       /\ UNCHANGED waiting
    \/ /\ worker.at = "error" /\ RetriesLeft(item)
       /\ AddRateLimited(item)
       /\ UNCHANGED <<history, faults>>
    \/ /\ worker.at = "error" /\ ~RetriesLeft(item)
       /\ GiveUp(item)
       /\ UNCHANGED <<waiting, announced, faults>>

\* Faulty: Done is not called.
FinishNoDone ==
    /\ worker # None /\ worker.at # "got"
    /\ Settle(worker.item)
    /\ worker' = None
    /\ UNCHANGED <<cluster, informer, run, stopped, start, newEvent, queue,
                   dirty, processing>>

\* The rest of processItem and of processNextItem, with the deferred Done.
Finish ==
    /\ worker # None /\ worker.at # "got"
    /\ Settle(worker.item)
    /\ Done(worker.item)
    /\ worker' = None
    /\ UNCHANGED <<cluster, informer, run, stopped, start, newEvent, dirty>>

-----------------------------------------------------------------------------
Worker == ProcessNextItem \/ FetchObject \/ Finish

Next ==
    \/ Tick
    \/ \E k \in Keys :
        CreateObject(k) \/ UpdateObject(k) \/ DeleteObject(k) \/ Observe(k)
    \/ List \/ Stop \/ Handle
    \/ \E item \in Items : AddAfterDelay(item)
    \/ StartRun \/ EnterWorker \/ Worker

Spec == Init /\ [][Next]_vars

\* The handler goroutine, the goroutine of Run and the timer of the delayed
\* items keep running.
FairSpec ==
    /\ Spec
    /\ WF_vars(Handle)
    /\ WF_vars(EnterWorker)
    /\ WF_vars(Worker)
    /\ \A item \in Items : WF_vars(AddAfterDelay(item))

-----------------------------------------------------------------------------
(* Properties.                                                             *)

\* Every variable has its type, the queue holds an item once, and an item is
\* retried at most MaxRetries times.
TypeOK ==
    /\ now \in 0..MaxTime /\ start \in 0..MaxTime
    /\ objects \in [Keys -> Objects \cup {None}]
    /\ store \in [Keys -> Objects \cup {None}]
    /\ changes \in 0..MaxChanges /\ faults \in 0..MaxFaults
    /\ listed \in BOOLEAN /\ stopped \in BOOLEAN
    /\ events \in Seq(Noticed)
    /\ run \in {"new", "sync", "work", "returned"}
    /\ newEvent \in Items \cup {None}
    /\ queue \in Seq(dirty) /\ IsInjective(queue)
    /\ dirty \cup processing \cup waiting \subseteq Items
    /\ requeues \in [Items -> 0..MaxRetries]
    /\ worker \in Workers \cup {None}
    /\ eventHandler \in EventHandlers
    /\ \A a \in announced : a[1] \in 0..MaxChanges
    /\ owed \subseteq Keys \X Namespaces /\ failed \subseteq Keys

\* A deletion the handlers were told, and that no message has named yet, is
\* still queued, delayed or being processed, under the namespace of its own
\* object: although the handlers share newEvent and only DeleteFunc sets its
\* namespace, and although the queue merges equal items, no deletion is lost
\* and none gets the namespace of another one.  The meta data of a tombstone
\* is empty, so a deletion told by one is owed without a namespace.
OwedIsQueued ==
    \A d \in owed :
        [key |-> d[1], type |-> "delete", namespace |-> d[2]]
            \in dirty \cup processing \cup waiting

\* An event that is neither queued, delayed nor being processed has no
\* failures on its account: the next event with the same content starts with
\* all its retries.
NoStaleFailures ==
    \A item \in Items :
        item \notin dirty \cup processing \cup waiting => requeues[item] = 0

\* An object whose add the informer saw, and whose creation second is after
\* the start of the server, is announced with its kind, namespace and name,
\* unless it is gone or replaced by then, its event was given up, its message
\* lost, or stopCh was closed.
Announced(k, u) ==
    \E a \in announced :
        /\ a[1] = u /\ a[2].text.kind = KindOf(Type)
        /\ a[2].text.namespace = k[1] /\ a[2].text.name = k[2]
CreationNotified ==
    \A k \in Keys : \A u \in 1..MaxChanges :
        (\E n \in DOMAIN events :
            /\ events[n].kind = "add" /\ events[n].key = k
            /\ events[n].obj.uid = u /\ events[n].obj.created > start)
        ~> \/ Announced(k, u)
           \/ IF store[k] = None THEN TRUE ELSE store[k].uid # u
           \/ k \in failed
           \/ stopped

\* Every deletion a handler was told is named in a message sent after it, or
\* dropped after its retries or with its message, although equal events are
\* merged in the queue and the object may be created and deleted again
\* meanwhile; closing stopCh changes nothing once the worker runs.
DeletionNotified ==
    \A d \in Keys \X Namespaces :
        d \in owed ~> (d \notin owed \/ run = "returned")
=============================================================================
