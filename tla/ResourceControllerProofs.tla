----------------------- MODULE ResourceControllerProofs -----------------------
(***************************************************************************)
(* Theorems about ResourceController, for any set of objects, any of the   *)
(* handlers and any bounds.                                                *)
(***************************************************************************)
EXTENDS ResourceController, FiniteSetTheorems,
        SequenceTheorems, TLAPS

\* What the proofs need beside the properties: the items being processed are
\* the one the worker holds, none of them is queued, and before Run starts its
\* worker, or when it returns without one, nothing was ever retried.
WorkerInv ==
    /\ processing = IF worker = None THEN {} ELSE {worker.item}
    /\ run # "work" => worker = None /\ waiting = {}
    /\ \A n \in DOMAIN queue : queue[n] \notin processing

Inv == TypeOK /\ WorkerInv /\ NoStaleFailures /\ OwedIsQueued

-----------------------------------------------------------------------------
(* Messages.                                                               *)

\* A message about an event that processItem made says what the event says,
\* whatever handler sends it.
LEMMA NamedMessage ==
    ASSUME NEW item \in Items, NEW h \in EventHandlers,
           NEW namespace \in Namespaces, NEW action \in {"updated", "deleted"}
    PROVE  LET m == Notify(h, Named(item, namespace), action)
           IN  /\ m.text.reason = action
               /\ m.text.name = item.key
               /\ m.text.namespace = namespace
<1>1. New(Named(item, namespace), action)
        = Event(ResourceType, namespace, item.key, action, action)
  BY DEF New, Named
<1>2. ResourceType = "namespace" => namespace = NoNamespace
  BY ObjectAssumption DEF Namespaces, NoNamespace
<1>3. h \in {"slack", "hipchat", "mattermost", "flock", "webhook"}
  BY ObjectAssumption
<1> DEFINE e == Event(ResourceType, namespace, item.key, action, action)
<1>4. Notify(h, Named(item, namespace), action).text \in {e, Message(e)}
  BY <1>1, <1>3
  DEF Notify, NotifySlack, NotifyHipchat, NotifyMattermost, NotifyFlock,
      NotifyWebhook, PrepareSlackAttachment, PrepareHipchatNotification,
      PrepareMattermostMessage, PrepareFlockMessage, PrepareWebhookMessage
<1>5. /\ e.reason = action /\ e.name = item.key /\ e.namespace = namespace
      /\ Message(e).reason = action /\ Message(e).name = item.key
      /\ Message(e).namespace = namespace
  BY <1>2 DEF Message, Event, NoNamespace
<1> HIDE DEF e
<1>6. QED
  BY <1>4, <1>5

\* The message of a creation says so.
LEMMA CreatedMessage ==
    ASSUME NEW k \in Keys, NEW obj \in Objects, NEW h \in EventHandlers
    PROVE  Notify(h, Object(k, obj), "created").text.reason = "created"
<1>1. Object(k, obj).type = Type /\ Type # "event.Event"
  BY ObjectAssumption, NoneAssumption DEF Object, MetaTypes
<1>2. ~IsRollout(Object(k, obj))
  BY <1>1, ObjectAssumption DEF IsRollout
<1>3. PICK kind, namespace, name :
        New(Object(k, obj), "created")
        = Event(kind, namespace, name, "created", "created")
  BY <1>1, <1>2 DEF New
<1>4. h \in {"slack", "hipchat", "mattermost", "flock", "webhook"}
  BY ObjectAssumption
<1>5. QED
  BY <1>3, <1>4
  DEF Notify, NotifySlack, NotifyHipchat, NotifyMattermost, NotifyFlock,
      NotifyWebhook, PrepareSlackAttachment, PrepareHipchatNotification,
      PrepareMattermostMessage, PrepareFlockMessage, PrepareWebhookMessage,
      Message, Event

\* Only an object of the store can be newer than the server.
LEMMA OnlyObjectsAreNew ==
    ASSUME NEW k \in Keys, NEW obj \in Objects \cup {None}, start \in Nat,
           NewerThanServer(Object(k, obj))
    PROVE  obj \in Objects
<1>1. CASE obj = None
  BY <1>1 DEF NewerThanServer, Object, GetObjectMetaData, MetaTypes, NoMeta
<1>2. QED
  BY <1>1

\* DeleteFunc queues what the history expects.
LEMMA DeleteItem ==
    ASSUME NEW e \in Noticed, e.kind \in {"delete", "tombstone"}
    PROVE  /\ DeleteFunc(e) \in Items
           /\ Deletion(e) \in Keys \X Namespaces
           /\ DeleteFunc(e) = [key |-> Deletion(e)[1], type |-> "delete",
                               namespace |-> Deletion(e)[2]]
<1>1. e.key \in Keys /\ e.obj \in Objects /\ e.obj # None
  BY NoneAssumption DEF Noticed
<1>2. e.key[1] \in Namespaces /\ NoNamespace \in Namespaces
  BY <1>1 DEF Namespaces
<1>3. GetObjectMetaData(Deleted(e)).namespace = Deletion(e)[2]
  <2>1. CASE e.kind = "tombstone"
    BY <2>1 DEF GetObjectMetaData, Deleted, MetaTypes, NoMeta, Deletion,
                NoNamespace
  <2>2. CASE e.kind # "tombstone"
    BY <1>1, <2>2, ObjectAssumption
    DEF GetObjectMetaData, Deleted, Object, Deletion
  <2>3. QED
    BY <2>1, <2>2
<1>4. QED
  BY <1>1, <1>2, <1>3 DEF DeleteFunc, Deletion, Items

-----------------------------------------------------------------------------
(* The invariant.                                                          *)

\* The program starts with nothing queued and nothing owed.
LEMMA InitInv == Init => Inv
<1> SUFFICES ASSUME Init PROVE Inv
  OBVIOUS
<1>1. /\ now \in 0..MaxTime /\ start \in 0..MaxTime
      /\ changes \in 0..MaxChanges /\ faults \in 0..MaxFaults
      /\ [uid |-> 0, rv |-> 0, created |-> 0] \in Objects
      /\ requeues \in [Items -> 0..MaxRetries]
  BY BoundAssumption DEF Init, Objects
<1>2. TypeOK
  <2>1. /\ objects \in [Keys -> Objects \cup {None}]
        /\ store \in [Keys -> Objects \cup {None}]
    BY <1>1 DEF Init
  <2>2. events \in Seq(Noticed) /\ queue \in Seq(dirty) /\ IsInjective(queue)
    BY DEF Init, IsInjective
  <2>3. QED
    BY <1>1, <2>1, <2>2 DEF Init, TypeOK
<1>3. WorkerInv /\ NoStaleFailures /\ OwedIsQueued
  BY DEF Init, WorkerInv, NoStaleFailures, OwedIsQueued
<1>4. QED
  BY <1>2, <1>3 DEF Inv

\* A step that leaves the queue and the worker alone, and keeps the types.
LEMMA QueueUntouched ==
    ASSUME Inv, TypeOK', UNCHANGED <<run, workQueue, worker, history>>
    PROVE  Inv'
BY DEF Inv, WorkerInv, NoStaleFailures, OwedIsQueued, workQueue, history

\* Time passes.
LEMMA TickStep ==
    ASSUME Inv, Tick
    PROVE  Inv'
<1>1. TypeOK'
  BY BoundAssumption
  DEF Inv, TypeOK, Tick, program, informer, workQueue, history
<1>2. QED
  BY <1>1, QueueUntouched DEF Tick, program

\* The objects of the cluster, whatever they become.
LEMMA PutStep ==
    ASSUME Inv, NEW k \in Keys, NEW obj \in Objects \cup {None}, Put(k, obj)
    PROVE  Inv'
<1>1. changes' \in 0..MaxChanges
  BY BoundAssumption DEF Inv, TypeOK, Put
<1>2. objects' \in [Keys -> Objects \cup {None}]
  BY DEF Inv, TypeOK, Put
<1>3. TypeOK'
  BY <1>1, <1>2 DEF Inv, TypeOK, Put, program, informer, workQueue, history
<1>4. QED
  BY <1>3, QueueUntouched DEF Put, program

\* An object is created, changed or deleted.
LEMMA ObjectStep ==
    ASSUME Inv, NEW k \in Keys,
           CreateObject(k) \/ UpdateObject(k) \/ DeleteObject(k)
    PROVE  Inv'
<1>1. /\ now \in 0..MaxTime /\ changes \in 0..MaxChanges
      /\ objects[k] \in Objects \cup {None}
  BY DEF Inv, TypeOK
<1>2. CASE CreateObject(k)
  <2>1. changes < MaxChanges
    BY <1>2 DEF CreateObject, Put
  <2>2. now - (now % 2) \in 0..MaxTime /\ changes + 1 \in 0..MaxChanges
    BY <1>1, <2>1, BoundAssumption
  <2>3. QED
    BY <1>2, <2>2, PutStep DEF CreateObject, Objects
<1>3. CASE UpdateObject(k)
  <2>1. changes < MaxChanges /\ objects[k] \in Objects
    BY <1>1, <1>3 DEF UpdateObject, Put
  <2>2. changes + 1 \in 0..MaxChanges
    BY <1>1, <2>1, BoundAssumption
  <2>3. [objects[k] EXCEPT !.rv = changes + 1] \in Objects
    BY <2>1, <2>2 DEF Objects
  <2>4. QED
    BY <1>3, <2>3, PutStep DEF UpdateObject
<1>4. CASE DeleteObject(k)
  BY <1>4, PutStep DEF DeleteObject
<1>5. QED
  BY <1>2, <1>3, <1>4

\* The first list makes one add notification of every object.
LEMMA ListStep ==
    ASSUME Inv, List
    PROVE  Inv'
<1>1. PICK order \in SetToSeqs({k \in Keys : objects[k] # None}) :
        events' = [n \in DOMAIN order |->
            [kind |-> "add", key |-> order[n], obj |-> objects[order[n]]]]
  BY DEF List
<1> DEFINE S == {k \in Keys : objects[k] # None}
<1>2. Cardinality(S) \in Nat
  BY ObjectAssumption, FS_Subset, FS_CardinalityType
<1>3. order \in [1..Cardinality(S) -> S]
  BY <1>1 DEF SetToSeqs
<1>4. \A k \in S : [kind |-> "add", key |-> k, obj |-> objects[k]] \in Noticed
  BY DEF Inv, TypeOK, Noticed
<1> HIDE DEF S
<1>5. events' \in [1..Cardinality(S) -> Noticed]
  BY <1>1, <1>3, <1>4
<1>6. events' \in Seq(Noticed)
  BY <1>2, <1>5
<1>7. TypeOK'
  BY <1>6 DEF Inv, TypeOK, List, cluster, workQueue, history
<1>8. QED
  BY <1>7, QueueUntouched DEF List

\* A notification carries an object, the new one or the last known one.
LEMMA ObserveStep ==
    ASSUME Inv, NEW k \in Keys, Observe(k)
    PROVE  Inv'
<1>1. store' \in [Keys -> Objects \cup {None}]
  BY DEF Inv, TypeOK, Observe
<1>2. PICK kind \in {"add", "update", "delete", "tombstone"} :
        /\ kind = "add" <=> store[k] = None
        /\ events' = Append(events, [kind |-> kind, key |-> k,
                obj |-> IF kind = "add" THEN objects[k] ELSE store[k]])
  BY DEF Observe
<1>3. (IF kind = "add" THEN objects[k] ELSE store[k]) \in Objects
  BY <1>2 DEF Inv, TypeOK, Observe
<1>4. events' \in Seq(Noticed)
  BY <1>2, <1>3 DEF Inv, TypeOK, Noticed
<1>5. TypeOK'
  BY <1>1, <1>4 DEF Inv, TypeOK, Observe, cluster, workQueue, history
<1>6. QED
  BY <1>5, QueueUntouched DEF Observe

\* Closing stopCh drops notifications.
LEMMA StopStep ==
    ASSUME Inv, Stop
    PROVE  Inv'
<1>1. events' \in Seq(Noticed)
  BY DEF Inv, TypeOK, Stop
<1>2. TypeOK'
  BY <1>1 DEF Inv, TypeOK, Stop, cluster, workQueue, history
<1>3. QED
  BY <1>2, QueueUntouched DEF Stop

-----------------------------------------------------------------------------
(* The work queue.                                                         *)

\* Add keeps what is queued, adds the item unless the queue is shut down, and
\* queues nothing twice.
LEMMA AddItem ==
    ASSUME Inv, NEW item \in Items, Add(item), UNCHANGED processing
    PROVE  /\ dirty \subseteq dirty' /\ dirty' \subseteq dirty \cup {item}
           /\ run # "returned" => item \in dirty'
           /\ queue' \in Seq(dirty') /\ IsInjective(queue')
           /\ \A n \in DOMAIN queue' : queue'[n] \notin processing'
<1>1. queue \in Seq(dirty) /\ IsInjective(queue)
  BY DEF Inv, TypeOK
<1>2. \A n \in DOMAIN queue : queue[n] \notin processing
  BY DEF Inv, WorkerInv
<1>3. dirty \subseteq dirty' /\ dirty' \subseteq dirty \cup {item}
  BY DEF Add
<1>4. queue \in Seq(dirty')
  BY <1>1, <1>3
<1>5. CASE queue' = queue
  BY <1>1, <1>2, <1>3, <1>4, <1>5 DEF Add
<1>6. CASE queue' # queue
  <2>1. /\ item \notin dirty \cup processing /\ item \in dirty'
        /\ queue' = Append(queue, item)
    BY <1>6 DEF Add
  <2>2. queue' \in Seq(dirty')
    BY <1>4, <2>1
  <2>3. /\ DOMAIN queue' = 1..(Len(queue) + 1)
        /\ queue'[Len(queue) + 1] = item
        /\ \A n \in 1..Len(queue) : queue'[n] = queue[n] /\ queue[n] \in dirty
    BY <1>1, <2>1
  <2>4. IsInjective(queue')
    BY <1>1, <2>1, <2>3 DEF IsInjective
  <2>5. QED
    BY <1>1, <1>2, <1>3, <2>1, <2>2, <2>3, <2>4
<1>7. QED
  BY <1>5, <1>6

\* A sequence is one over any set its elements are in.
LEMMA SeqOfElements ==
    ASSUME NEW S, NEW T, NEW s \in Seq(S), \A n \in DOMAIN s : s[n] \in T
    PROVE  s \in Seq(T)
<1>1. Len(s) \in Nat /\ s \in [1..Len(s) -> S]
  BY LenProperties
<1>2. s \in [1..Len(s) -> T]
  BY <1>1
<1>3. QED
  BY <1>1, <1>2, SeqDef

\* The first item is queued once.
LEMMA TakeItem ==
    ASSUME Inv, queue # << >>
    PROVE  /\ Head(queue) \in dirty
           /\ Tail(queue) \in Seq(dirty \ {Head(queue)})
           /\ IsInjective(Tail(queue))
           /\ \A n \in DOMAIN Tail(queue) :
                Tail(queue)[n] \notin processing \cup {Head(queue)}
<1>1. queue \in Seq(dirty) /\ IsInjective(queue)
  BY DEF Inv, TypeOK
<1>2. \A n \in DOMAIN queue : queue[n] \notin processing
  BY DEF Inv, WorkerInv
<1>3. /\ Len(queue) \in Nat \ {0} /\ Head(queue) = queue[1]
      /\ DOMAIN queue = 1..Len(queue)
      /\ DOMAIN Tail(queue) = 1..(Len(queue) - 1)
      /\ Len(Tail(queue)) = Len(queue) - 1
      /\ \A n \in 1..(Len(queue) - 1) : Tail(queue)[n] = queue[n + 1]
  BY <1>1
<1>4. \A n \in 1..(Len(queue) - 1) :
        queue[n + 1] \in dirty \ {Head(queue)} /\ n + 1 \in DOMAIN queue
  BY <1>1, <1>3 DEF IsInjective
<1>5. Tail(queue) \in Seq(dirty \ {Head(queue)})
  <2>1. Tail(queue) \in Seq(dirty)
    BY <1>1
  <2>2. \A n \in DOMAIN Tail(queue) : Tail(queue)[n] \in dirty \ {Head(queue)}
    BY <1>3, <1>4
  <2>3. QED
    BY <2>1, <2>2, SeqOfElements
<1>6. IsInjective(Tail(queue))
  BY <1>1, <1>3, <1>4 DEF IsInjective
<1>7. QED
  BY <1>1, <1>2, <1>3, <1>4, <1>5, <1>6

\* Done queues the item again if it was added meanwhile.
LEMMA DoneItem ==
    ASSUME Inv, NEW item, processing = {item}, Done(item), UNCHANGED dirty
    PROVE  /\ processing' = {}
           /\ queue' \in Seq(dirty') /\ IsInjective(queue')
<1>1. queue \in Seq(dirty) /\ IsInjective(queue)
  BY DEF Inv, TypeOK
<1>2. \A n \in DOMAIN queue : queue[n] # item
  BY DEF Inv, WorkerInv
<1>3. processing' = {}
  BY DEF Done
<1>4. CASE item \notin dirty
  BY <1>1, <1>3, <1>4 DEF Done
<1>5. CASE item \in dirty
  <2>1. queue' = Append(queue, item)
    BY <1>5 DEF Done
  <2>2. /\ DOMAIN queue' = 1..(Len(queue) + 1)
        /\ queue'[Len(queue) + 1] = item
        /\ \A n \in 1..Len(queue) : queue'[n] = queue[n]
    BY <1>1, <2>1
  <2>3. IsInjective(queue')
    BY <1>1, <1>2, <2>2 DEF IsInjective
  <2>4. QED
    BY <1>1, <1>3, <1>5, <2>1, <2>3
<1>6. QED
  BY <1>4, <1>5

-----------------------------------------------------------------------------
(* The steps of the program.                                               *)

\* The delay of a retried item is over: it is queued, since Run cannot have
\* returned.
LEMMA AddAfterDelayStep ==
    ASSUME Inv, NEW item \in Items, AddAfterDelay(item)
    PROVE  Inv'
<1>1. /\ item \in waiting /\ waiting' = waiting \ {item} /\ Add(item)
      /\ UNCHANGED <<cluster, informer, run, stopped, start, newEvent,
                     processing, requeues, worker, faults, history>>
  BY DEF AddAfterDelay
<1>2. run = "work"
  BY <1>1 DEF Inv, WorkerInv
<1>3. /\ dirty \subseteq dirty' /\ dirty' \subseteq dirty \cup {item}
      /\ item \in dirty'
      /\ queue' \in Seq(dirty') /\ IsInjective(queue')
      /\ \A n \in DOMAIN queue' : queue'[n] \notin processing'
  BY <1>1, <1>2, AddItem
<1>4. TypeOK'
  BY <1>1, <1>3 DEF Inv, TypeOK, cluster, informer, history
<1>5. WorkerInv'
  BY <1>1, <1>2, <1>3 DEF Inv, WorkerInv
<1>6. NoStaleFailures'
  BY <1>1, <1>3 DEF Inv, NoStaleFailures
<1>7. OwedIsQueued'
  BY <1>1, <1>3 DEF Inv, OwedIsQueued, history
<1>8. QED
  BY <1>4, <1>5, <1>6, <1>7 DEF Inv

\* A handler queues its copy of newEvent; for a deletion it is the item the
\* history expects.
LEMMA HandleStep ==
    ASSUME Inv, Handle
    PROVE  Inv'
<1> DEFINE e == Head(events)
<1>1. /\ events # << >> /\ events' = Tail(events) /\ Add(newEvent')
      /\ newEvent' = CASE e.kind = "add" -> AddFunc(e)
                       [] e.kind = "update" -> UpdateFunc(e)
                       [] OTHER -> DeleteFunc(e)
      /\ owed' = IF e.kind \in {"delete", "tombstone"} /\ run # "returned"
                 THEN owed \cup {Deletion(e)} ELSE owed
      /\ UNCHANGED <<cluster, listed, store, run, stopped, start, processing,
                     waiting, requeues, worker, faults, announced, failed>>
  BY DEF Handle
<1>2. e \in Noticed /\ events' \in Seq(Noticed)
  BY <1>1 DEF Inv, TypeOK
<1>3. SharedNamespace \in Namespaces
  BY NoneAssumption
  DEF Inv, TypeOK, SharedNamespace, Items, Namespaces
<1> HIDE DEF e
<1>4. /\ newEvent' \in Items
      /\ e.kind \in {"delete", "tombstone"} => newEvent' = DeleteFunc(e)
  <2>1. e.key \in Keys
    BY <1>2 DEF Noticed
  <2>2. CASE e.kind \in {"delete", "tombstone"}
    BY <1>1, <1>2, <2>2, DeleteItem
  <2>3. CASE e.kind = "add"
    BY <1>1, <1>3, <2>1, <2>3 DEF AddFunc, Items
  <2>4. CASE e.kind = "update"
    BY <1>1, <1>3, <2>1, <2>4 DEF UpdateFunc, Items
  <2>5. QED
    BY <1>2, <2>2, <2>3, <2>4 DEF Noticed
<1>5. /\ dirty \subseteq dirty' /\ dirty' \subseteq dirty \cup {newEvent'}
      /\ run # "returned" => newEvent' \in dirty'
      /\ queue' \in Seq(dirty') /\ IsInjective(queue')
      /\ \A n \in DOMAIN queue' : queue'[n] \notin processing'
  BY <1>1, <1>4, AddItem
<1>6. owed' \subseteq Keys \X Namespaces
  BY <1>1, <1>2, DeleteItem DEF Inv, TypeOK
<1>7. TypeOK'
  BY <1>1, <1>2, <1>4, <1>5, <1>6 DEF Inv, TypeOK, cluster
<1>8. WorkerInv'
  BY <1>1, <1>5 DEF Inv, WorkerInv
<1>9. NoStaleFailures'
  BY <1>1, <1>5 DEF Inv, NoStaleFailures
<1>10. OwedIsQueued'
  <2>1. SUFFICES ASSUME NEW d \in owed'
                 PROVE  [key |-> d[1], type |-> "delete", namespace |-> d[2]]
                            \in dirty' \cup processing' \cup waiting'
    BY DEF OwedIsQueued
  <2>2. CASE d \in owed
    BY <1>1, <1>5, <2>2 DEF Inv, OwedIsQueued
  <2>3. CASE d \notin owed
    BY <1>1, <1>2, <1>4, <1>5, <2>1, <2>3, DeleteItem
  <2>4. QED
    BY <2>2, <2>3
<1>11. QED
  BY <1>7, <1>8, <1>9, <1>10 DEF Inv

\* Run starts the informer.
LEMMA StartRunStep ==
    ASSUME Inv, StartRun
    PROVE  Inv'
<1>1. TypeOK'
  BY DEF Inv, TypeOK, StartRun, cluster, informer, workQueue, history
<1>2. (WorkerInv /\ NoStaleFailures /\ OwedIsQueued)'
  BY DEF Inv, WorkerInv, NoStaleFailures, OwedIsQueued, StartRun, workQueue,
         history
<1>3. QED
  BY <1>1, <1>2 DEF Inv

\* Run starts its worker, or returns before anything was processed.
LEMMA EnterWorkerStep ==
    ASSUME Inv, EnterWorker
    PROVE  Inv'
<1>1. TypeOK'
  BY DEF Inv, TypeOK, EnterWorker, cluster, informer, workQueue, history
<1>2. (WorkerInv /\ NoStaleFailures /\ OwedIsQueued)'
  BY DEF Inv, WorkerInv, NoStaleFailures, OwedIsQueued, EnterWorker,
         workQueue, history
<1>3. QED
  BY <1>1, <1>2 DEF Inv

\* The item goes from the queue to the worker and stays in one of the sets.
LEMMA ProcessNextItemStep ==
    ASSUME Inv, ProcessNextItem
    PROVE  Inv'
<1> DEFINE item == Head(queue)
<1>1. /\ run = "work" /\ worker = None /\ queue # << >>
      /\ worker' = [item |-> item, at |-> "got", obj |-> None]
      /\ queue' = Tail(queue)
      /\ processing' = processing \cup {item}
      /\ dirty' = dirty \ {item}
      /\ UNCHANGED <<cluster, informer, run, stopped, start, newEvent, waiting,
                     requeues, faults, history>>
  BY DEF ProcessNextItem
<1>2. /\ item \in dirty /\ queue' \in Seq(dirty') /\ IsInjective(queue')
      /\ \A n \in DOMAIN queue' : queue'[n] \notin processing'
  BY <1>1, TakeItem
<1> HIDE DEF item
<1>3. processing' = {item} /\ item \in Items
  BY <1>1, <1>2 DEF Inv, TypeOK, WorkerInv
<1>4. worker' \in Workers /\ worker' # None /\ worker'.item = item
  BY <1>1, <1>3, NoneAssumption DEF Workers
<1>5. TypeOK'
  BY <1>1, <1>2, <1>3, <1>4 DEF Inv, TypeOK, cluster, informer, history
<1>6. WorkerInv'
  BY <1>1, <1>2, <1>3, <1>4 DEF WorkerInv
<1>7. (NoStaleFailures /\ OwedIsQueued)'
  BY <1>1 DEF Inv, NoStaleFailures, OwedIsQueued, history
<1>8. QED
  BY <1>5, <1>6, <1>7 DEF Inv

\* processItem has the object, or an error, and keeps its item.
LEMMA FetchObjectStep ==
    ASSUME Inv, FetchObject
    PROVE  Inv'
<1>1. /\ worker \in Workers /\ worker # None /\ worker.item.key \in Keys
      /\ store \in [Keys -> Objects \cup {None}]
  BY DEF Inv, TypeOK, FetchObject, Workers, Items
<1>2. worker' \in Workers /\ worker'.item = worker.item
  BY <1>1 DEF FetchObject, Workers
<1>3. worker' # None
  BY <1>2, NoneAssumption
<1>4. faults' \in 0..MaxFaults
  BY BoundAssumption DEF Inv, TypeOK, FetchObject
<1>5. UNCHANGED <<cluster, informer, run, stopped, start, newEvent, workQueue,
                  history>>
  BY DEF FetchObject
<1>6. TypeOK'
  BY <1>2, <1>4, <1>5 DEF Inv, TypeOK, cluster, informer, workQueue, history
<1>7. WorkerInv'
  BY <1>1, <1>2, <1>3, <1>5 DEF Inv, WorkerInv, workQueue
<1>8. (NoStaleFailures /\ OwedIsQueued)'
  BY <1>5 DEF Inv, NoStaleFailures, OwedIsQueued, workQueue, history
<1>9. QED
  BY <1>6, <1>7, <1>8 DEF Inv

\* The messages of an item: a creation is of an object in the store, and only
\* the message of a deletion settles one, that of its own item.
LEMMA ItemMessages ==
    ASSUME Inv, NEW item \in Items, NEW obj \in Objects \cup {None},
           NEW m \in ProcessItem(item, Object(item.key, obj))
    PROVE  /\ item.type = "create" => obj \in Objects
                                      /\ m.text.reason = "created"
           /\ item.type = "update" => m.text.reason = "updated"
           /\ item.type = "delete" => /\ m.text.reason = "deleted"
                                      /\ m.text.name = item.key
                                      /\ m.text.namespace = item.namespace
<1>1. /\ item.key \in Keys /\ item.namespace \in Namespaces
      /\ NoNamespace \in Namespaces /\ eventHandler \in EventHandlers
      /\ item.type \in {"create", "update", "delete"}
  BY DEF Inv, TypeOK, Items, Namespaces
<1>2. start \in Nat
  BY BoundAssumption DEF Inv, TypeOK
<1>3. CASE item.type = "create"
  <2>1. /\ NewerThanServer(Object(item.key, obj))
        /\ m = Notify(eventHandler, Object(item.key, obj), "created")
    BY <1>3 DEF ProcessItem
  <2>2. obj \in Objects
    BY <1>1, <1>2, <2>1, OnlyObjectsAreNew
  <2>3. QED
    BY <1>1, <1>3, <2>1, <2>2, CreatedMessage
<1>4. CASE item.type = "update"
  <2>1. m = Notify(eventHandler, Named(item, NoNamespace), "updated")
    BY <1>4 DEF ProcessItem
  <2>2. QED
    BY <1>1, <1>4, <2>1, NamedMessage
<1>5. CASE item.type = "delete"
  <2>1. m = Notify(eventHandler, Named(item, item.namespace), "deleted")
    BY <1>5 DEF ProcessItem
  <2>2. QED
    BY <1>1, <1>5, <2>1, NamedMessage
<1>6. QED
  BY <1>1, <1>3, <1>4, <1>5

\* However an item is settled, it has no failures left or is delayed, and no
\* message but its own is owed less.
Settled(item) ==
    /\ requeues' \in [Items -> 0..MaxRetries]
    /\ \A i \in Items \ {item} : requeues'[i] = requeues[i]
    /\ \/ waiting' = waiting /\ requeues'[item] = 0
       \/ waiting' = waiting \cup {item}
    /\ \/ owed' = owed /\ (item.type = "delete" => item \in waiting')
       \/ item.type = "delete" /\ owed' = owed \ {<<item.key, item.namespace>>}
    /\ faults' \in 0..MaxFaults
    /\ failed' \subseteq Keys
    /\ \A a \in announced' : a[1] \in 0..MaxChanges

\* Each way to settle the worker's item does so.
LEMMA SettleItem ==
    ASSUME Inv, NEW item \in Items, worker # None, item = worker.item,
           Settle(item)
    PROVE  Settled(item)
<1>1. /\ requeues \in [Items -> 0..MaxRetries] /\ faults \in 0..MaxFaults
      /\ failed \subseteq Keys /\ item.key \in Keys
      /\ \A a \in announced : a[1] \in 0..MaxChanges
      /\ worker.obj \in Objects \cup {None}
      /\ item.type \in {"create", "update", "delete"}
  BY DEF Inv, TypeOK, Workers, Items
<1>2. ASSUME Forget(item)
      PROVE  /\ requeues' \in [Items -> 0..MaxRetries]
             /\ \A i \in Items \ {item} : requeues'[i] = requeues[i]
             /\ requeues'[item] = 0
  BY <1>1, <1>2, BoundAssumption DEF Forget
<1>3. ASSUME Dropped(item)
      PROVE  /\ failed' \subseteq Keys
             /\ \/ item.type # "delete" /\ owed' = owed
                \/ /\ item.type = "delete"
                   /\ owed' = owed \ {<<item.key, item.namespace>>}
  BY <1>1, <1>3 DEF Dropped
<1>4. CASE worker.at = "fetched"
  <2> DEFINE messages == ProcessItem(item, Object(item.key, worker.obj))
  <2>1. Forget(item) /\ UNCHANGED waiting /\ Notified(item, messages)
    BY <1>4 DEF Settle, Notified
  <2>2. item.type \in {"update", "delete"} => messages # {}
    BY DEF ProcessItem
  <2>3. \A m \in messages :
        /\ item.type = "create" => worker.obj \in Objects
                                   /\ m.text.reason = "created"
        /\ item.type = "update" => m.text.reason = "updated"
        /\ item.type = "delete" => /\ m.text.reason = "deleted"
                                   /\ m.text.name = item.key
                                   /\ m.text.namespace = item.namespace
    BY <1>1, ItemMessages
  <2> HIDE DEF messages
  <2>4. CASE messages = {} /\ UNCHANGED <<history, faults>>
    BY <1>1, <1>2, <2>1, <2>2, <2>4 DEF history, Settled
  <2>5. ASSUME NEW m \in messages, Sent(worker.obj, m),
               UNCHANGED <<failed, faults>>
        PROVE  Settled(item)
    <3>1. \A a \in announced' : a[1] \in 0..MaxChanges
      BY <1>1, <2>3, <2>5 DEF Sent, Objects
    <3>2. \/ item.type # "delete" /\ owed' = owed
          \/ /\ item.type = "delete"
             /\ owed' = owed \ {<<item.key, item.namespace>>}
      BY <1>1, <2>3, <2>5 DEF Sent
    <3>3. QED
      BY <1>1, <1>2, <2>1, <2>5, <3>1, <3>2 DEF Settled
  <2>6. CASE /\ faults < MaxFaults /\ faults' = faults + 1
             /\ Dropped(item) /\ UNCHANGED announced
    <3>1. faults' \in 0..MaxFaults
      BY <1>1, <2>6, BoundAssumption
    <3>2. QED
      BY <1>1, <1>2, <1>3, <2>1, <2>6, <3>1 DEF Settled
  <2>7. QED
    BY <2>1, <2>4, <2>5, <2>6 DEF Notified
<1>5. CASE worker.at = "error" /\ RetriesLeft(item)
  <2>1. AddRateLimited(item) /\ UNCHANGED <<history, faults>>
    BY <1>5 DEF Settle
  <2>2. /\ requeues' \in [Items -> 0..MaxRetries]
        /\ \A i \in Items \ {item} : requeues'[i] = requeues[i]
    BY <1>1, <1>5, <2>1, BoundAssumption DEF AddRateLimited, RetriesLeft
  <2>3. waiting' = waiting \cup {item}
    BY <2>1 DEF AddRateLimited
  <2>4. QED
    BY <1>1, <2>1, <2>2, <2>3 DEF history, Settled
<1>6. CASE worker.at = "error" /\ ~RetriesLeft(item)
  <2>1. /\ Forget(item) /\ Dropped(item)
        /\ UNCHANGED <<waiting, announced, faults>>
    BY <1>6 DEF Settle, GiveUp
  <2>2. QED
    BY <1>1, <1>2, <1>3, <2>1 DEF Settled
<1>7. QED
  BY <1>4, <1>5, <1>6 DEF Settle

\* The worker lets go of its item.
LEMMA FinishStep ==
    ASSUME Inv, Finish
    PROVE  Inv'
<1> DEFINE item == worker.item
<1>1. /\ worker # None /\ Settle(item) /\ Done(item) /\ worker' = None
      /\ UNCHANGED <<cluster, informer, run, stopped, start, newEvent, dirty>>
  BY DEF Finish
<1>2. item \in Items /\ processing = {item} /\ run = "work"
  BY <1>1 DEF Inv, TypeOK, WorkerInv, Workers
<1>3. Settled(item)
  BY <1>1, <1>2, SettleItem
<1>4. /\ processing' = {}
      /\ queue' \in Seq(dirty') /\ IsInjective(queue')
  BY <1>1, <1>2, DoneItem
<1> HIDE DEF item
<1>5. TypeOK'
  <2>1. waiting' \subseteq Items /\ owed' \subseteq Keys \X Namespaces
    BY <1>2, <1>3 DEF Inv, TypeOK, Settled
  <2>2. QED
    BY <1>1, <1>3, <1>4, <2>1 DEF Inv, TypeOK, Settled, cluster, informer
<1>6. WorkerInv'
  BY <1>1, <1>2, <1>4 DEF WorkerInv
<1>7. NoStaleFailures'
  <2>1. SUFFICES ASSUME NEW i \in Items,
                        i \notin dirty' \cup processing' \cup waiting'
                 PROVE  requeues'[i] = 0
    BY DEF NoStaleFailures
  <2>2. CASE i = item
    BY <1>3, <2>1, <2>2 DEF Settled
  <2>3. CASE i # item
    <3>1. i \notin dirty \cup processing \cup waiting
      BY <1>1, <1>2, <1>3, <2>1, <2>3 DEF Settled
    <3>2. QED
      BY <1>3, <2>3, <3>1 DEF Inv, NoStaleFailures, Settled
  <2>4. QED
    BY <2>2, <2>3
<1>8. OwedIsQueued'
  <2>1. SUFFICES ASSUME NEW d \in owed'
                 PROVE  [key |-> d[1], type |-> "delete", namespace |-> d[2]]
                            \in dirty' \cup processing' \cup waiting'
    BY DEF OwedIsQueued
  <2> DEFINE i == [key |-> d[1], type |-> "delete", namespace |-> d[2]]
  <2>2. d \in owed /\ d = <<d[1], d[2]>>
    BY <1>3, <2>1 DEF Inv, TypeOK, Settled
  <2>3. i \in dirty \cup processing \cup waiting
    BY <2>2 DEF Inv, OwedIsQueued
  <2>4. CASE i = item
    <3>1. item.type = "delete" /\ d = <<item.key, item.namespace>>
      BY <2>2, <2>4
    <3>2. QED
      BY <1>3, <2>1, <2>4, <3>1 DEF Settled
  <2>5. CASE i # item
    BY <1>1, <1>2, <1>3, <2>3, <2>5 DEF Settled
  <2>6. QED
    BY <2>4, <2>5
<1>9. QED
  BY <1>5, <1>6, <1>7, <1>8 DEF Inv

\* Every step keeps the invariant.
LEMMA NextInv ==
    ASSUME Inv, [Next]_vars
    PROVE  Inv'
<1>1. CASE Tick
  BY <1>1, TickStep
<1>2. ASSUME NEW k \in Keys,
             CreateObject(k) \/ UpdateObject(k) \/ DeleteObject(k)
      PROVE  Inv'
  BY <1>2, ObjectStep
<1>3. ASSUME NEW k \in Keys, Observe(k) PROVE Inv'
  BY <1>3, ObserveStep
<1>4. CASE List
  BY <1>4, ListStep
<1>5. CASE Stop
  BY <1>5, StopStep
<1>6. CASE Handle
  BY <1>6, HandleStep
<1>7. ASSUME NEW item \in Items, AddAfterDelay(item) PROVE Inv'
  BY <1>7, AddAfterDelayStep
<1>8. CASE StartRun
  BY <1>8, StartRunStep
<1>9. CASE EnterWorker
  BY <1>9, EnterWorkerStep
<1>10. CASE ProcessNextItem
  BY <1>10, ProcessNextItemStep
<1>11. CASE FetchObject
  BY <1>11, FetchObjectStep
<1>12. CASE Finish
  BY <1>12, FinishStep
<1>13. CASE UNCHANGED vars
  <2>1. TypeOK'
    BY <1>13 DEF Inv, TypeOK, vars, cluster, informer, workQueue, history
  <2>2. QED
    BY <1>13, <2>1, QueueUntouched DEF vars
<1>14. QED
  BY <1>1, <1>2, <1>3, <1>4, <1>5, <1>6, <1>7, <1>8, <1>9, <1>10, <1>11,
     <1>12, <1>13 DEF Next, Worker

-----------------------------------------------------------------------------
(* The theorems.                                                           *)

\* The invariant the theorems below rest on.
THEOREM ControllerInvariant == Spec => []Inv
<1>1. Init => Inv
  BY InitInv
<1>2. Inv /\ [Next]_vars => Inv'
  BY NextInv
<1>3. QED
  BY <1>1, <1>2, PTL DEF Spec

\* Types hold: the queue never holds an item twice, and no item is retried
\* more often than maxRetries allows.
THEOREM ControllerTypes == Spec => []TypeOK
<1>1. Inv => TypeOK
  BY DEF Inv
<1>2. QED
  BY <1>1, ControllerInvariant, PTL

\* processNextItem never leaves failures on the account of an event it has
\* settled, however equal events are merged, delayed and queued again.
THEOREM FailuresForgotten == Spec => []NoStaleFailures
<1>1. Inv => NoStaleFailures
  BY DEF Inv
<1>2. QED
  BY <1>1, ControllerInvariant, PTL

\* A deletion the handlers were told stays queued under its own namespace
\* until a message names it, for any objects and any of the five handlers.
THEOREM DeletionsKept == Spec => []OwedIsQueued
<1>1. Inv => OwedIsQueued
  BY DEF Inv
<1>2. QED
  BY <1>1, ControllerInvariant, PTL
-----------------------------------------------------------------------------
(* What CreationNotified rests on: the safety half of it.                  *)

\* The informer has the object with uid u, created after the server started.
Current(k, u) ==
    store[k] # None /\ store[k].uid = u /\ store[k].created > start

\* Its creation is on the way to the notification handler: as a notification,
\* as a queued or delayed item of its key, or with the worker, unless the
\* worker fetched another object.
IsCreation(item, k) == item.key = k /\ item.type = "create"
InEvents(k, u) ==
    \E n \in DOMAIN events :
        /\ events[n].kind = "add" /\ events[n].key = k
        /\ events[n].obj.uid = u
InQueue(k) == \E item \in dirty \cup waiting : IsCreation(item, k)
WithWorker(k, u) ==
    /\ worker # None /\ IsCreation(worker.item, k)
    /\ worker.at = "fetched" =>
        /\ worker.obj # None /\ worker.obj.uid = u
        /\ worker.obj.created > start
Underway(k, u) ==
    Current(k, u) /\ (InEvents(k, u) \/ InQueue(k) \/ WithWorker(k, u))

\* It is announced, or need not be, as CreationNotified says.
Excused(k, u) ==
    \/ Announced(k, u)
    \/ IF store[k] = None THEN TRUE ELSE store[k].uid # u
    \/ k \in failed
    \/ stopped

\* AddFunc is told of the object with uid u, created after the server started.
AddTold(k, u) ==
    \E n \in DOMAIN events :
        /\ events[n].kind = "add" /\ events[n].key = k
        /\ events[n].obj.uid = u /\ events[n].obj.created > start

\* An object keeps its creation time, and a uid is used once; nothing is
\* listed before Run, and Run only returns after stopCh is closed.
SameBirth(p, q) ==
    p # None /\ q # None /\ p.uid = q.uid => p.created = q.created
BirthInv ==
    /\ run = "new" => ~listed
    /\ run = "returned" => stopped
    /\ ~listed => (\A k \in Keys : store[k] = None) /\ events = << >>
    /\ \A k \in Keys :
        /\ objects[k] # None => objects[k].uid <= changes
        /\ store[k] # None => store[k].uid <= changes
        /\ SameBirth(objects[k], store[k])
    /\ \A n \in DOMAIN events :
        /\ events[n].obj.uid <= changes
        /\ SameBirth(events[n].obj, objects[events[n].key])
        /\ SameBirth(events[n].obj, store[events[n].key])

\* Objects have numbers, notifications have objects of known keys.
LEMMA Numbered ==
    ASSUME TypeOK
    PROVE  /\ changes \in Nat /\ start \in Nat
           /\ \A j \in Keys : objects[j] # None =>
                objects[j].uid \in Nat /\ objects[j].created \in Nat
           /\ \A j \in Keys : store[j] # None =>
                store[j].uid \in Nat /\ store[j].created \in Nat
           /\ DOMAIN events = 1..Len(events) /\ Len(events) \in Nat
           /\ \A n \in DOMAIN events :
                /\ events[n].key \in Keys /\ events[n].obj # None
                /\ events[n].obj.uid \in Nat /\ events[n].obj.created \in Nat
<1>1. \A o \in Objects : o.uid \in Nat /\ o.created \in Nat /\ o # None
  BY NoneAssumption DEF Objects
<1>2. \A j \in Keys : /\ objects[j] \in Objects \cup {None}
                       /\ store[j] \in Objects \cup {None}
  BY DEF TypeOK
<1>3. /\ DOMAIN events = 1..Len(events) /\ Len(events) \in Nat
      /\ \A n \in DOMAIN events : events[n] \in Noticed
  BY LenProperties, ElementOfSeq DEF TypeOK
<1>4. \A e \in Noticed : e.key \in Keys /\ e.obj \in Objects
  BY DEF Noticed
<1>5. changes \in Nat /\ start \in Nat
  BY BoundAssumption DEF TypeOK
<1> QED BY <1>1, <1>2, <1>3, <1>4, <1>5

\* An object is created under a new uid, or keeps its uid and creation time.
LEMMA ObjectBirth ==
    ASSUME Inv, BirthInv, NEW k \in Keys,
           CreateObject(k) \/ UpdateObject(k) \/ DeleteObject(k)
    PROVE  BirthInv'
<1>1. /\ changes \in Nat /\ changes' = changes + 1
      /\ UNCHANGED <<listed, store, events, run, stopped>>
  BY BoundAssumption
  DEF Inv, TypeOK, CreateObject, UpdateObject, DeleteObject, Put, program,
      informer
<1>2. /\ \A j \in Keys \ {k} : objects'[j] = objects[j]
      /\ \/ objects'[k] = None
         \/ objects'[k].uid = changes + 1
         \/ /\ objects[k] # None /\ objects'[k].uid = objects[k].uid
            /\ objects'[k].created = objects[k].created
  <2>1. /\ objects \in [Keys -> Objects \cup {None}]
        /\ \A j \in Keys : objects[j] # None => objects[j] \in Objects
    BY DEF Inv, TypeOK
  <2>2. CASE CreateObject(k)
    BY <2>1, <2>2 DEF CreateObject, Put
  <2>3. CASE UpdateObject(k)
    <3>1. objects'[k] = [objects[k] EXCEPT !.rv = changes + 1]
          /\ objects[k] \in Objects /\ objects[k] # None
      BY <2>1, <2>3 DEF UpdateObject, Put
    <3>2. /\ objects'[k].uid = objects[k].uid
          /\ objects'[k].created = objects[k].created
      BY <3>1 DEF Objects
    <3> QED BY <2>1, <2>3, <3>1, <3>2 DEF UpdateObject, Put
  <2>4. CASE DeleteObject(k)
    BY <2>1, <2>4 DEF DeleteObject, Put
  <2> QED BY <2>2, <2>3, <2>4
<1>3. /\ \A j \in Keys : objects[j] # None => objects[j].uid \in Nat
      /\ \A j \in Keys : store[j] # None => store[j].uid \in Nat
      /\ \A n \in DOMAIN events : /\ events[n].obj.uid \in Nat
                                  /\ events[n].key \in Keys
  BY Numbered DEF Inv
<1>4. ASSUME NEW j \in Keys
      PROVE  /\ objects'[j] # None => objects'[j].uid <= changes'
             /\ store'[j] # None => store'[j].uid <= changes'
             /\ SameBirth(objects[j], store[j])'
  <2>1. store[j] # None => store[j].uid <= changes
    BY DEF BirthInv
  <2>2. objects[j] # None => objects[j].uid <= changes
    BY DEF BirthInv
  <2>3. SameBirth(objects[j], store[j])
    BY DEF BirthInv
  <2>4. CASE j # k
    BY <1>1, <1>2, <1>3, <2>1, <2>2, <2>3, <2>4 DEF SameBirth
  <2>5. CASE j = k
    BY <1>1, <1>2, <1>3, <2>1, <2>2, <2>3, <2>5 DEF SameBirth
  <2> QED BY <2>4, <2>5
<1>5. ASSUME NEW n \in DOMAIN events
      PROVE  /\ events[n].obj.uid <= changes'
             /\ events[n].obj # None /\ objects'[events[n].key] # None
                /\ events[n].obj.uid = objects'[events[n].key].uid
                => events[n].obj.created = objects'[events[n].key].created
  <2>1. /\ events[n].obj.uid <= changes /\ events[n].key \in Keys
        /\ SameBirth(events[n].obj, objects[events[n].key])
    BY <1>3 DEF BirthInv
  <2>2. CASE events[n].key # k
    BY <1>1, <1>2, <1>3, <2>1, <2>2 DEF SameBirth
  <2>3. CASE events[n].key = k
    BY <1>1, <1>2, <1>3, <2>1, <2>3 DEF SameBirth
  <2> QED BY <2>2, <2>3
<1>6. (\A n \in DOMAIN events :
        /\ events[n].obj.uid <= changes
        /\ SameBirth(events[n].obj, objects[events[n].key])
        /\ SameBirth(events[n].obj, store[events[n].key]))'
  BY <1>1, <1>5 DEF SameBirth, BirthInv
<1> QED BY <1>1, <1>4, <1>6 DEF BirthInv

\* The first list: every notification has the object the store has.
LEMMA ListBirth ==
    ASSUME Inv, BirthInv, List
    PROVE  BirthInv'
<1>1. PICK order \in SetToSeqs({k \in Keys : objects[k] # None}) :
        events' = [n \in DOMAIN order |->
            [kind |-> "add", key |-> order[n], obj |-> objects[order[n]]]]
  BY DEF List
<1> DEFINE S == {k \in Keys : objects[k] # None}
<1>2. Cardinality(S) \in Nat
  BY ObjectAssumption, FS_Subset, FS_CardinalityType
<1>3. order \in [1..Cardinality(S) -> S]
  BY <1>1 DEF SetToSeqs
<1>4. \A n \in DOMAIN events' : /\ events'[n].key \in Keys
                                /\ events'[n].obj = objects[events'[n].key]
                                /\ events'[n].obj # None
  BY <1>1, <1>3
<1>5. /\ run # "new" /\ listed' = TRUE /\ store' = objects
      /\ UNCHANGED <<objects, changes, run, stopped>>
  BY DEF List, cluster
<1>6. \A k \in Keys : objects[k] # None => objects[k].uid <= changes
  BY DEF BirthInv
<1> QED BY <1>4, <1>5, <1>6 DEF BirthInv, SameBirth

\* The informer catches up with the cluster.
LEMMA ObserveBirth ==
    ASSUME Inv, BirthInv, NEW k \in Keys, Observe(k)
    PROVE  BirthInv'
<1>1. PICK kind \in {"add", "update", "delete", "tombstone"} :
        /\ kind = "add" <=> store[k] = None
        /\ events' = Append(events, [kind |-> kind, key |-> k,
                obj |-> IF kind = "add" THEN objects[k] ELSE store[k]])
  BY DEF Observe
<1>2. /\ listed /\ listed' = listed /\ store[k] # objects[k]
      /\ UNCHANGED <<objects, changes, run, stopped>>
  BY DEF Observe, cluster
<1>3. /\ store'[k] = objects[k]
      /\ \A j \in Keys \ {k} : store'[j] = store[j]
  BY DEF Observe, Inv, TypeOK
<1>4. \A j \in Keys : /\ store'[j] # None => store'[j].uid <= changes
                      /\ SameBirth(objects[j], store'[j])
  BY <1>3 DEF BirthInv, SameBirth
<1>5. events \in Seq(Noticed) /\ DOMAIN events = 1..Len(events)
  BY Numbered DEF Inv, TypeOK
<1>6. /\ DOMAIN events' = 1..(Len(events) + 1)
      /\ \A n \in DOMAIN events : events'[n] = events[n]
      /\ events'[Len(events) + 1].key = k
      /\ events'[Len(events) + 1].obj \in {objects[k], store[k]}
      /\ events'[Len(events) + 1].obj # None
  BY <1>1, <1>2, <1>5
<1>7. ASSUME NEW n \in DOMAIN events'
      PROVE  /\ events'[n].obj.uid <= changes
             /\ SameBirth(events'[n].obj, objects[events'[n].key])
             /\ SameBirth(events'[n].obj, store'[events'[n].key])
  <2>1. CASE n \in DOMAIN events
    <3>1. /\ events[n].obj.uid <= changes /\ events[n].key \in Keys
          /\ SameBirth(events[n].obj, objects[events[n].key])
          /\ SameBirth(events[n].obj, store[events[n].key])
      BY <2>1, Numbered DEF Inv, BirthInv
    <3>2. events'[n] = events[n]
      BY <1>6, <2>1
    <3> QED BY <1>3, <3>1, <3>2
  <2>2. CASE n = Len(events) + 1
    <3>1. /\ objects[k] # None => objects[k].uid <= changes
          /\ store[k] # None => store[k].uid <= changes
          /\ SameBirth(objects[k], store[k])
      BY DEF BirthInv
    <3> QED BY <1>3, <1>6, <2>2, <3>1 DEF SameBirth
  <2> QED BY <1>5, <1>6, <2>1, <2>2, Numbered DEF Inv
<1>8. (\A n \in DOMAIN events :
        /\ events[n].obj.uid <= changes
        /\ SameBirth(events[n].obj, objects[events[n].key])
        /\ SameBirth(events[n].obj, store[events[n].key]))'
  BY <1>2, <1>7 DEF SameBirth
<1>9. (\A j \in Keys :
        /\ objects[j] # None => objects[j].uid <= changes
        /\ store[j] # None => store[j].uid <= changes
        /\ SameBirth(objects[j], store[j]))'
  BY <1>2, <1>4 DEF BirthInv, SameBirth
<1> QED BY <1>2, <1>8, <1>9 DEF BirthInv

\* Notifications are handed over in order, or dropped from the end.
LEMMA ShorterBirth ==
    ASSUME Inv, BirthInv, Handle \/ Stop
    PROVE  BirthInv'
<1>1. /\ UNCHANGED <<objects, changes, listed, store, run>>
      /\ stopped' = stopped \/ stopped' = TRUE
  BY DEF Handle, Stop, cluster
<1>2. /\ events \in Seq(Noticed)
      /\ DOMAIN events = 1..Len(events) /\ Len(events) \in Nat
  BY Numbered DEF Inv, TypeOK
<1>3. /\ \A n \in DOMAIN events' :
            \E m \in DOMAIN events : events'[n] = events[m]
      /\ events = << >> => events' = << >>
  <2>1. CASE Handle
    <3>1. events # << >> /\ events' = Tail(events)
      BY <2>1 DEF Handle
    <3> QED BY <1>2, <3>1
  <2>2. CASE Stop
    <3>1. PICK n \in 0..Len(events) : events' = SubSeq(events, 1, n)
      BY <2>2 DEF Stop
    <3>2. DOMAIN events' = 1..n /\ \A i \in 1..n : events'[i] = events[i]
      BY <1>2, <3>1
    <3>3. events = << >> => events' = << >>
      BY <1>2, <3>1
    <3> QED BY <1>2, <3>1, <3>2, <3>3
  <2> QED BY <2>1, <2>2
<1>4. (\A n \in DOMAIN events :
        /\ events[n].obj.uid <= changes
        /\ SameBirth(events[n].obj, objects[events[n].key])
        /\ SameBirth(events[n].obj, store[events[n].key]))'
  BY <1>1, <1>3 DEF BirthInv, SameBirth
<1> QED BY <1>1, <1>3, <1>4 DEF BirthInv, SameBirth

\* The other steps leave the objects and the informer alone.
LEMMA OtherBirth ==
    ASSUME Inv, BirthInv,
           \/ Tick \/ StartRun \/ EnterWorker \/ Worker \/ UNCHANGED vars
           \/ \E item \in Items : AddAfterDelay(item)
    PROVE  BirthInv'
<1>1. /\ UNCHANGED <<objects, changes, listed, store, events, stopped>>
      /\ \/ run' = run
         \/ run' = "sync"
         \/ run' = "work"
         \/ run' = "returned" /\ stopped
  BY DEF Tick, StartRun, EnterWorker, Worker, ProcessNextItem, FetchObject,
         Finish, AddAfterDelay, vars, cluster, informer, program
<1> QED BY <1>1 DEF BirthInv, SameBirth

\* Throughout.
LEMMA BirthInvariant == Spec => []BirthInv
<1>1. Init => BirthInv
  <2> SUFFICES ASSUME Init PROVE BirthInv
    OBVIOUS
  <2>1. \A k \in Keys : objects[k] # None => objects[k].uid <= changes
    BY DEF Init
  <2> QED BY <2>1 DEF Init, BirthInv, SameBirth
<1>2. Inv /\ BirthInv /\ [Next]_vars => BirthInv'
  BY ObjectBirth, ListBirth, ObserveBirth, ShorterBirth, OtherBirth DEF Next
<1> QED BY <1>1, <1>2, ControllerInvariant, PTL DEF Spec

\* The message of a creation names the object, whatever handler sends it.
LEMMA CreationNames ==
    ASSUME NEW k \in Keys, NEW obj \in Objects, NEW h \in EventHandlers
    PROVE  LET m == Notify(h, Object(k, obj), "created")
           IN  /\ m.text.kind = KindOf(Type)
               /\ m.text.namespace = k[1] /\ m.text.name = k[2]
<1>1. /\ Object(k, obj).type = Type /\ Type # "event.Event"
      /\ GetObjectMetaData(Object(k, obj)).namespace = k[1]
      /\ GetObjectMetaData(Object(k, obj)).name = k[2]
  BY ObjectAssumption, NoneAssumption DEF Object, MetaTypes, GetObjectMetaData
<1>2. ~IsRollout(Object(k, obj))
  BY <1>1, ObjectAssumption DEF IsRollout
<1>3. New(Object(k, obj), "created")
        = Event(KindOf(Type), k[1], k[2], "created", "created")
  BY <1>1, <1>2 DEF New
<1>4. h \in {"slack", "hipchat", "mattermost", "flock", "webhook"}
  BY ObjectAssumption
<1> DEFINE e == Event(KindOf(Type), k[1], k[2], "created", "created")
<1>5. Notify(h, Object(k, obj), "created").text \in {e, Message(e)}
  BY <1>3, <1>4
  DEF Notify, NotifySlack, NotifyHipchat, NotifyMattermost, NotifyFlock,
      NotifyWebhook, PrepareSlackAttachment, PrepareHipchatNotification,
      PrepareMattermostMessage, PrepareFlockMessage, PrepareWebhookMessage
<1>6. /\ e.kind = KindOf(Type) /\ e.name = k[2] /\ e.namespace = k[1]
      /\ Message(e).kind = KindOf(Type) /\ Message(e).name = k[2]
      /\ Message(e).namespace = k[1]
  BY ObjectAssumption DEF Message, Event, NoNamespace
<1> HIDE DEF e
<1> QED BY <1>5, <1>6

\* A creation stays on its way while the informer catches up.
LEMMA ObserveUnderway ==
    ASSUME Inv, BirthInv, NEW k \in Keys, NEW u \in Nat, Underway(k, u),
           NEW j \in Keys, Observe(j)
    PROVE  Underway(k, u)' \/ Excused(k, u)'
<1>1. /\ UNCHANGED <<start, dirty, waiting, worker>>
      /\ objects[k] = store'[k] \/ store[k] = store'[k]
      /\ events \in Seq(Noticed)
      /\ \E e : events' = Append(events, e)
  BY DEF Inv, TypeOK, Observe, workQueue
<1>2. \A n \in DOMAIN events : n \in DOMAIN events' /\ events'[n] = events[n]
  BY <1>1
<1>3. InEvents(k, u) => InEvents(k, u)'
  BY <1>2 DEF InEvents
<1>4. InQueue(k) => InQueue(k)'
  BY <1>1 DEF InQueue
<1>5. WithWorker(k, u) => WithWorker(k, u)'
  BY <1>1 DEF WithWorker
<1>6. SameBirth(objects[k], store[k])
  BY DEF BirthInv
<1>7. Current(k, u)' \/ Excused(k, u)'
  <2>1. CASE store'[k] = None \/ store'[k].uid # u
    BY <2>1 DEF Excused
  <2>2. CASE store'[k] # None /\ store'[k].uid = u
    BY <1>1, <1>6, <2>2 DEF Underway, Current, SameBirth
  <2> QED BY <2>1, <2>2
<1> QED BY <1>3, <1>4, <1>5, <1>7 DEF Underway

\* AddFunc queues the creation it is told, and a delayed one is queued again.
LEMMA AddUnderway ==
    ASSUME Inv, BirthInv, NEW k \in Keys, NEW u \in Nat, Underway(k, u),
           ~stopped, Handle \/ \E item \in Items : AddAfterDelay(item)
    PROVE  Underway(k, u)'
<1>0. run # "returned"
  BY DEF BirthInv
<1>1. CASE Handle
  <2> DEFINE e == Head(events)
  <2>1. /\ events # << >> /\ events' = Tail(events) /\ Add(newEvent')
        /\ e.kind = "add" => newEvent' = AddFunc(e)
        /\ UNCHANGED <<store, start, waiting, worker>>
    BY <1>1 DEF Handle
  <2>2. events \in Seq(Noticed)
    BY DEF Inv, TypeOK
  <2>3. dirty' = dirty \cup {newEvent'}
    BY <1>0, <2>1 DEF Add
  <2>4. InEvents(k, u) => InEvents(k, u)' \/ (e.kind = "add" /\ e.key = k)
    <3> SUFFICES ASSUME NEW n \in DOMAIN events, events[n].kind = "add",
                        events[n].key = k, events[n].obj.uid = u, n # 1
                 PROVE  InEvents(k, u)'
      BY <2>2 DEF InEvents
    <3>1. n - 1 \in DOMAIN events' /\ events'[n - 1] = events[n]
      BY <2>1, <2>2
    <3> QED BY <3>1 DEF InEvents
  <2>5. e.kind = "add" /\ e.key = k => InQueue(k)'
    BY <2>1, <2>3 DEF AddFunc, InQueue, IsCreation
  <2>6. InQueue(k) => InQueue(k)'
    BY <2>1, <2>3 DEF InQueue
  <2>7. WithWorker(k, u) => WithWorker(k, u)'
    BY <2>1 DEF WithWorker
  <2>8. Current(k, u)'
    BY <2>1 DEF Underway, Current
  <2> QED BY <2>4, <2>5, <2>6, <2>7, <2>8 DEF Underway
<1>2. ASSUME NEW item \in Items, AddAfterDelay(item)
      PROVE  Underway(k, u)'
  <2>1. /\ waiting' = waiting \ {item} /\ dirty' = dirty \cup {item}
        /\ UNCHANGED <<store, start, events, worker>>
    BY <1>0, <1>2 DEF AddAfterDelay, Add, informer
  <2> QED BY <2>1 DEF Underway, Current, InEvents, InQueue, WithWorker
<1> QED BY <1>1, <1>2

\* The worker takes an item and fetches what the informer has.
LEMMA WorkUnderway ==
    ASSUME Inv, NEW k \in Keys, NEW u \in Nat, Underway(k, u),
           ProcessNextItem \/ FetchObject
    PROVE  Underway(k, u)'
<1>1. CASE ProcessNextItem
  <2> DEFINE item == Head(queue)
  <2>1. /\ worker = None /\ dirty' = dirty \ {item}
        /\ worker' = [item |-> item, at |-> "got", obj |-> None]
        /\ UNCHANGED <<store, start, events, waiting>>
    BY <1>1 DEF ProcessNextItem, informer
  <2>2. worker' # None
    <3>1. item \in Items
      BY <1>1, TakeItem DEF ProcessNextItem, Inv, TypeOK
    <3>2. worker' \in Workers
      BY <2>1, <3>1 DEF Workers
    <3> QED BY <3>2, NoneAssumption
  <2> HIDE DEF item
  <2>3. InQueue(k) => InQueue(k)' \/ WithWorker(k, u)'
    BY <2>1, <2>2 DEF InQueue, WithWorker
  <2> QED BY <2>1, <2>3 DEF Underway, Current, InEvents, WithWorker
<1>2. CASE FetchObject
  <2>1. /\ worker # None /\ worker \in Workers /\ worker.at = "got"
        /\ UNCHANGED <<store, start, events, dirty, waiting>>
    BY <1>2 DEF FetchObject, Inv, TypeOK, informer, workQueue
  <2>2. Current(k, u) /\ Current(k, u)'
    BY <2>1 DEF Underway, Current
  <2>3. ASSUME WithWorker(k, u) PROVE WithWorker(k, u)'
    <3>1. worker.item.key = k /\ worker.item.type = "create"
      BY <2>3 DEF WithWorker, IsCreation
    <3>2. CASE worker' = [worker EXCEPT !.at = "fetched",
                                        !.obj = store[worker.item.key]]
      <4>1. /\ worker'.item = worker.item /\ worker'.obj = store[k]
            /\ worker' \in Workers
        BY <2>1, <3>1, <3>2 DEF Workers, Inv, TypeOK
      <4> QED BY <2>1, <2>2, <3>1, <4>1, NoneAssumption
              DEF WithWorker, IsCreation, Current
    <3>3. CASE worker' = [worker EXCEPT !.at = "error"]
      <4>1. /\ worker'.item = worker.item /\ worker'.at = "error"
            /\ worker' \in Workers
        BY <2>1, <3>3 DEF Workers
      <4> QED BY <3>1, <4>1, NoneAssumption DEF WithWorker, IsCreation
    <3> QED BY <1>2, <3>2, <3>3 DEF FetchObject
  <2> QED BY <2>1, <2>2, <2>3 DEF Underway, InEvents, InQueue
<1> QED BY <1>1, <1>2

\* A worker that has fetched the object announces it or loses the message; one
\* that could not fetch it retries or gives up.
LEMMA FinishUnderway ==
    ASSUME Inv, NEW k \in Keys, NEW u \in Nat, Underway(k, u), Finish
    PROVE  Underway(k, u)' \/ Excused(k, u)'
<1> DEFINE item == worker.item
<1>1. /\ worker # None /\ worker \in Workers /\ worker.at # "got"
      /\ Settle(item) /\ UNCHANGED <<store, start, events, dirty>>
  BY DEF Finish, Inv, TypeOK, informer
<1>2. waiting \subseteq waiting'
  BY <1>1 DEF Settle, AddRateLimited
<1>3. Current(k, u)'
  BY <1>1 DEF Underway, Current
<1>4. InEvents(k, u) => InEvents(k, u)'
  BY <1>1 DEF InEvents
<1>5. InQueue(k) => InQueue(k)'
  BY <1>1, <1>2 DEF InQueue
<1>6. ASSUME WithWorker(k, u) PROVE InQueue(k)' \/ Excused(k, u)'
  <2>1. item \in Items /\ item.key = k /\ item.type = "create"
    BY <1>1, <1>6 DEF WithWorker, IsCreation, Workers
  <2>2. CASE worker.at = "fetched"
    <3> DEFINE m == Notify(eventHandler, Object(k, worker.obj), "created")
    <3>1. /\ worker.obj \in Objects /\ worker.obj.uid = u
          /\ worker.obj.created > start
      BY <1>1, <1>6, <2>2 DEF WithWorker, Workers
    <3>2. NewerThanServer(Object(k, worker.obj))
      BY <3>1, ObjectAssumption, NoneAssumption
      DEF NewerThanServer, Object, GetObjectMetaData
    <3>3. ProcessItem(item, Object(k, worker.obj)) = {m}
      BY <2>1, <3>2 DEF ProcessItem
    <3>4. Notified(item, {m})
      BY <1>1, <2>1, <2>2, <3>3 DEF Settle
    <3>5. eventHandler \in EventHandlers
      BY DEF Inv, TypeOK
    <3>6. /\ m.text.reason = "created" /\ m.text.kind = KindOf(Type)
          /\ m.text.namespace = k[1] /\ m.text.name = k[2]
      BY <3>1, <3>5, CreatedMessage, CreationNames
    <3> HIDE DEF m
    <3>7. CASE Sent(worker.obj, m)
      <4>1. <<u, m>> \in announced'
        BY <3>1, <3>6, <3>7 DEF Sent
      <4>2. Announced(k, u)'
        BY <3>6, <4>1 DEF Announced
      <4> QED BY <4>2 DEF Excused
    <3>8. CASE Dropped(item)
      <4>1. k \in failed'
        BY <2>1, <3>8 DEF Dropped
      <4> QED BY <4>1 DEF Excused
    <3> QED BY <3>4, <3>7, <3>8 DEF Notified
  <2>3. CASE worker.at = "error"
    <3>1. item \in waiting' \/ k \in failed'
      BY <1>1, <2>1, <2>3 DEF Settle, AddRateLimited, GiveUp, Dropped
    <3> QED BY <2>1, <3>1 DEF InQueue, IsCreation, Excused
  <2> QED BY <1>1, <2>2, <2>3 DEF Workers
<1> QED BY <1>3, <1>4, <1>5, <1>6 DEF Underway

\* Every step keeps a creation on its way or settles it.
LEMMA NextUnderway ==
    ASSUME Inv, BirthInv, [Next]_vars,
           NEW k \in Keys, NEW u \in Nat, Underway(k, u)
    PROVE  Underway(k, u)' \/ Excused(k, u)'
<1>1. listed /\ run # "new"
  BY DEF Underway, Current, BirthInv
<1>2. CASE UNCHANGED <<store, start, events, dirty, waiting, worker>>
  BY <1>2 DEF Underway, Current, InEvents, InQueue, WithWorker
<1>3. CASE stopped'
  BY <1>3 DEF Excused
<1>4. CASE ~stopped' /\ (Handle \/ \E item \in Items : AddAfterDelay(item))
  <2>1. ~stopped
    BY <1>4 DEF Handle, AddAfterDelay
  <2> QED BY <1>4, <2>1, AddUnderway
<1>5. CASE Tick \/ EnterWorker \/ UNCHANGED vars
           \/ \E j \in Keys :
                CreateObject(j) \/ UpdateObject(j) \/ DeleteObject(j)
  BY <1>2, <1>5 DEF Tick, EnterWorker, vars, CreateObject, UpdateObject,
                    DeleteObject, Put, program, informer, workQueue
<1>6. CASE List \/ StartRun
  BY <1>1, <1>6 DEF List, StartRun
<1>7. CASE Stop
  BY <1>3, <1>7 DEF Stop
<1>8. CASE \E j \in Keys : Observe(j)
  BY <1>8, ObserveUnderway
<1>9. CASE Worker
  BY <1>9, WorkUnderway, FinishUnderway DEF Worker
<1> QED BY <1>3, <1>4, <1>5, <1>6, <1>7, <1>8, <1>9 DEF Next

\* Once AddFunc is to be told of an object that was created after the server
\* started, its announcement is on the way and no step loses it, until the
\* object is announced with its kind, namespace and name, gone or replaced,
\* its event given up or its message lost, or stopCh closed: although the queue
\* merges equal items, an item may be taken while an earlier object of the name
\* is being processed, and retries are delayed.  With the fairness of FairSpec
\* this is CreationNotified.
CreationKept ==
    /\ [](\A k \in Keys, u \in Nat :
            AddTold(k, u) => Underway(k, u) \/ Excused(k, u))
    /\ [][\A k \in Keys, u \in Nat :
            Underway(k, u) => Underway(k, u)' \/ Excused(k, u)']_vars

\* For any objects, any of the five handlers and any bounds.
THEOREM CreationsKept == Spec => CreationKept
<1> DEFINE Told == \A k \in Keys, u \in Nat :
                        AddTold(k, u) => Underway(k, u) \/ Excused(k, u)
           Stays == \A k \in Keys, u \in Nat :
                        Underway(k, u) => Underway(k, u)' \/ Excused(k, u)'
<1>1. Inv /\ BirthInv => Told
  <2> SUFFICES ASSUME BirthInv, NEW k \in Keys, NEW u \in Nat, AddTold(k, u),
                      store[k] # None, store[k].uid = u, Inv
               PROVE  Underway(k, u)
    BY DEF Excused
  <2>1. PICK n \in DOMAIN events :
            /\ events[n].kind = "add" /\ events[n].key = k
            /\ events[n].obj.uid = u /\ events[n].obj.created > start
    BY DEF AddTold
  <2>2. events[n].obj # None /\ SameBirth(events[n].obj, store[k])
    BY <2>1, Numbered DEF Inv, BirthInv
  <2>3. Current(k, u)
    BY <2>1, <2>2 DEF SameBirth, Current
  <2>4. InEvents(k, u)
    BY <2>1 DEF InEvents
  <2> QED BY <2>3, <2>4 DEF Underway
<1>2. Inv /\ BirthInv /\ [Next]_vars => [Stays]_vars
  BY NextUnderway
<1>3. Spec => []Told
  BY <1>1, ControllerInvariant, BirthInvariant, PTL
<1>4. Spec => [][Stays]_vars
  BY <1>2, ControllerInvariant, BirthInvariant, PTL DEF Spec
<1> QED BY <1>3, <1>4, PTL DEF CreationKept
=============================================================================
