---------------------- MODULE ApplicationInformerProofs ----------------------
(***************************************************************************)
(* Proofs about the Argo CD informer (module ApplicationInformer): its     *)
(* types, that it implements Relay, and that the last message is current.  *)
(*                                                                         *)
(* Everything the informer has to say of the application stands in one     *)
(* line: the last message, the call in the handler, the notifications in   *)
(* their queue, the copy in the store, the object on the server.  OrderInv *)
(* says that versions grow along that line, and that they grow strictly    *)
(* after a deletion.                                                       *)
(***************************************************************************)
EXTENDS ApplicationInformer, TLAPS

\* The events and the copy of the one informer there is.
queue == events["acd"]
copy == store["acd"]

\* A delete event carries the old object, an update the new one.
Deletes(e) == e.kind # "update"
AppOf(e) == IF Deletes(e) THEN e.old ELSE e.new

\* A message and a notification as Relay sees them.
MarkOf(m) == [version |-> m.app.rv, gone |-> m.kind = "delete"]
EventMark(e) == [version |-> AppOf(e).rv, gone |-> Deletes(e)]

\* What m says may be told before a state of version v.
Before(m, v) == m.version <= v /\ (m.gone => m.version < v)

\* m comes before the copy and the server, and before the notifications from
\* the k-th on.
Precedes(m) ==
    /\ m.version <= changes
    /\ copy # None => Before(m, copy.rv)
    /\ server # None => Before(m, server.rv)
From(m, k) == \A j \in k..Len(queue) : Before(m, EventMark(queue[j]).version)

\* What was published, is handled, is queued and is copied, in this order.
ToldFirst ==
    /\ Precedes(ToldApp) /\ From(ToldApp, 1)
    /\ handler # None => Before(ToldApp, handler.app.rv)
HandlerNext ==
    handler # None => Precedes(MarkOf(handler)) /\ From(MarkOf(handler), 1)
EventsNext ==
    \A k \in 1..Len(queue) :
        Precedes(EventMark(queue[k])) /\ From(EventMark(queue[k]), k + 1)
CopyLast ==
    /\ copy # None => copy.rv <= changes
    /\ server # None => server.rv <= changes
    /\ copy # None /\ server # None => copy.rv <= server.rv

\* The order of versions along the whole line.
OrderInv == ToldFirst /\ HandlerNext /\ EventsNext /\ CopyLast

\* The types, with the queue as a sequence.
Typed == TypeOK /\ events \in [Informers -> Seq(Notifications)]

-----------------------------------------------------------------------------
(* What the actions do to the line.                                        *)

\* The parts of the line have their types.
LEMMA Parts ==
    ASSUME Typed
    PROVE  /\ queue \in Seq(Notifications) /\ Len(queue) \in Nat
           /\ \A k \in 1..Len(queue) : queue[k] \in Notifications
           /\ copy \in Apps \cup {None} /\ server \in Apps \cup {None}
           /\ handler \in Messages \cup {None}
           /\ topic \in Messages \cup {None}
           /\ changes \in Nat
  BY ApplicationAssumption, WatchAssumption DEF Typed, TypeOK, queue, copy

\* A record set is typed by its fields.
LEMMA Fields ==
    /\ \A app \in Apps : /\ app.rv \in 0..MaxChanges /\ app.uid \in 0..MaxChanges
                         /\ app.history \in BOOLEAN
    /\ \A m \in Messages : m.app \in Apps /\ m.kind \in {"update", "delete"}
    /\ \A e \in Notifications :
        /\ e.kind \in {"update", "delete", "tombstone"}
        /\ e.old \in Apps /\ e.new \in Apps \cup {None}
        /\ AppOf(e) \in Apps
        /\ ~Deletes(e) => e.new \in Apps
  BY DEF Apps, Messages, Notifications, AppOf, Deletes

\* Queues that are empty are queues.
LEMMA EmptyQueues ==
    /\ [i \in Informers |-> << >>] \in [Informers -> Seq(Notifications)]
    /\ DOMAIN << >> = {} /\ Len(<< >>) = 0
<1>1. << >> \in Seq(Notifications) /\ DOMAIN << >> = {} /\ Len(<< >>) = 0
  OBVIOUS
<1> QED BY <1>1

\* A change on the server touches nothing else.
LEMMA ChangeEffect ==
    ASSUME Typed, ChangeApp \/ DeleteApp \/ CreateApp
    PROVE  /\ Typed'
           /\ changes' = changes + 1
           /\ server' # None => server' \in Apps /\ server'.rv = changes + 1
           /\ server' # None /\ server # None => server'.uid = server.uid
           /\ server' # None /\ server = None => server'.uid = changes + 1
           /\ UNCHANGED <<copy, queue, handler, topic, untold>>
<1>1. PICK obj \in Apps \cup {None} :
        /\ Change(obj)
        /\ obj # None /\ server # None => obj.uid = server.uid
        /\ obj # None /\ server = None => obj.uid = changes + 1
  BY DEF ChangeApp, DeleteApp, CreateApp
<1>2. /\ changes < MaxChanges /\ changes' = changes + 1
      /\ server' = IF obj = None THEN None ELSE [obj EXCEPT !.rv = changes + 1]
      /\ UNCHANGED <<store, events>>
  BY <1>1 DEF Change
<1>3. UNCHANGED <<handler, topic, untold, lost, restarts>>
  BY DEF ChangeApp, DeleteApp, CreateApp
<1>4. changes' \in 0..MaxChanges /\ changes \in Nat
  BY <1>2, WatchAssumption DEF Typed, TypeOK
<1>5. obj # None => /\ server' \in Apps /\ server'.rv = changes + 1
                    /\ server'.uid = obj.uid
  BY <1>2, <1>4 DEF Apps
<1>6. Typed'
  BY <1>2, <1>3, <1>4, <1>5 DEF Typed, TypeOK
<1> QED BY <1>1, <1>2, <1>3, <1>5, <1>6 DEF copy, queue

\* The informer catches up: one notification is appended, unless the object
\* is listed.
LEMMA ObserveEffect ==
    ASSUME Typed, ObserveApp
    PROVE  /\ Typed'
           /\ copy # server /\ copy' = server
           /\ UNCHANGED <<server, changes, handler, topic>>
           /\ \/ /\ copy = None /\ queue' = queue
                 /\ untold' = server.history
              \/ /\ copy # None /\ untold' = untold
                 /\ Len(queue') = Len(queue) + 1
                 /\ \A k \in 1..Len(queue) : queue'[k] = queue[k]
                 /\ LET e == queue'[Len(queue) + 1] IN
                        /\ e \in Notifications
                        /\ e.old = copy /\ e.new = server
                        /\ Deletes(e) <=> server = None
<1> USE ApplicationAssumption
<1>1. /\ store["acd"] # server /\ store' = [store EXCEPT !["acd"] = server]
      /\ untold' = IF store["acd"] = None THEN server.history ELSE untold
      /\ UNCHANGED <<server, changes, handler, topic, lost, restarts>>
  BY DEF ObserveApp, Observe
<1>2. /\ store' \in [Informers -> Apps \cup {None}]
      /\ copy' = server /\ copy = store["acd"]
  BY <1>1 DEF Typed, TypeOK, copy
<1>3. untold' \in BOOLEAN
  BY <1>1, Fields DEF Typed, TypeOK
<1>4. CASE copy = None
  <2>1. events' = events
    BY <1>4 DEF ObserveApp, Observe, copy
  <2> QED BY <1>1, <1>2, <1>3, <1>4, <2>1 DEF Typed, TypeOK, queue
<1>5. CASE copy # None
  <2>1. PICK kind \in {"update", "delete", "tombstone"} :
            /\ kind = "update" <=> server # None
            /\ events' = [events EXCEPT !["acd"] = Append(@,
                    [kind |-> kind, old |-> copy, new |-> server])]
    BY <1>5 DEF ObserveApp, Observe, copy
  <2> DEFINE e == [kind |-> kind, old |-> copy, new |-> server]
  <2>2. e \in Notifications /\ e.old = copy /\ e.new = server
        /\ (Deletes(e) <=> server = None)
    BY <1>5, <2>1, Parts DEF Notifications, Deletes
  <2> HIDE DEF e
  <2>3. /\ events' \in [Informers -> Seq(Notifications)]
        /\ queue' = Append(queue, e)
    BY <2>1, <2>2 DEF Typed, queue, e
  <2>4. /\ Len(queue') = Len(queue) + 1
        /\ \A k \in 1..Len(queue) : queue'[k] = queue[k]
        /\ queue'[Len(queue) + 1] = e
    BY <2>2, <2>3, Parts
  <2>5. \A i \in Informers : \A k \in DOMAIN events'[i] :
            events'[i][k] \in Notifications
    BY <2>3
  <2> QED BY <1>1, <1>2, <1>3, <1>5, <2>2, <2>3, <2>4, <2>5 DEF Typed, TypeOK
<1> QED BY <1>4, <1>5

\* The handler takes the first notification.
LEMMA HandleEffect ==
    ASSUME Typed, Handle
    PROVE  /\ Typed'
           /\ handler = None /\ Len(queue) > 0
           /\ LET e == queue[1] IN
                /\ e \in Notifications
                /\ handler' # None =>
                    /\ handler'.app = AppOf(e)
                    /\ handler'.kind = IF Deletes(e) THEN "delete" ELSE "update"
                /\ ~Deletes(e) => handler' = UpdateFunc(e)
           /\ UNCHANGED <<server, changes, copy, topic, untold>>
           /\ Len(queue') = Len(queue) - 1
           /\ \A k \in 1..Len(queue') : queue'[k] = queue[k + 1]
<1> USE ApplicationAssumption
<1> DEFINE e == Head(queue)
<1>1. /\ handler = None /\ queue # << >>
      /\ events' = [events EXCEPT !["acd"] = Tail(@)]
      /\ handler' = CASE e.kind = "update" -> UpdateFunc(e)
                      [] e.kind = "delete" -> DeleteFunc(e)
                      [] e.kind = "tombstone" -> None
      /\ UNCHANGED <<server, changes, store, topic, untold, lost, restarts>>
  BY DEF Handle, Take, queue
<1>2. queue \in Seq(Notifications)
  BY Parts
<1>3. Len(queue) > 0 /\ e = queue[1] /\ e \in Notifications
  BY <1>1, <1>2
<1>4. /\ events' \in [Informers -> Seq(Notifications)]
      /\ queue' = Tail(queue)
  BY <1>1, <1>2 DEF Typed, queue
<1>5. /\ Len(queue') = Len(queue) - 1
      /\ \A k \in 1..Len(queue') : queue'[k] = queue[k + 1]
  BY <1>2, <1>3, <1>4
<1>6. \A i \in Informers : \A k \in DOMAIN events'[i] :
        events'[i][k] \in Notifications
  BY <1>4
<1> HIDE DEF e
<1>7. /\ e.kind \in {"update", "delete", "tombstone"}
      /\ AppOf(e) \in Apps
      /\ e.kind = "update" => e.new \in Apps
      /\ e.old \in Apps
  BY <1>3, Fields DEF Deletes
<1>8. /\ handler' \in Messages \cup {None}
      /\ handler' # None => /\ handler'.app = AppOf(e)
                            /\ handler'.kind = IF Deletes(e) THEN "delete" ELSE "update"
                            /\ handler'.kind = "update" => handler'.app.history
      /\ ~Deletes(e) => handler' = UpdateFunc(e)
  <2>1. CASE e.kind = "update"
    BY <1>1, <1>7, <2>1 DEF UpdateFunc, Message, Messages, AppOf, Deletes
  <2>2. CASE e.kind = "delete"
    BY <1>1, <1>7, <2>2 DEF DeleteFunc, Message, Messages, AppOf, Deletes
  <2>3. CASE e.kind = "tombstone"
    BY <1>1, <2>3 DEF Deletes
  <2> QED BY <1>7, <2>1, <2>2, <2>3
<1>9. Typed'
  BY <1>1, <1>4, <1>6, <1>8 DEF Typed, TypeOK
<1> QED BY <1>1, <1>3, <1>5, <1>8, <1>9 DEF copy

\* The message in the handler is published or lost.
LEMMA SendEffect ==
    ASSUME Typed, SendApp
    PROVE  /\ Typed'
           /\ handler # None /\ handler' = None
           /\ \/ topic' = handler /\ untold' = (untold /\ ~Told(handler.app))
              \/ topic' = topic /\ untold' = TRUE
           /\ UNCHANGED <<server, changes, copy, queue>>
<1>1. /\ handler # None /\ handler' = None
      /\ \/ topic' = handler /\ untold' = (untold /\ ~Told(handler.app))
         \/ topic' = topic /\ untold' = TRUE
      /\ lost' = lost \/ (lost < MaxLost /\ lost' = lost + 1)
      /\ UNCHANGED <<server, changes, store, events, restarts>>
  BY DEF SendApp, watchVars
<1>2. lost' \in 0..MaxLost
  BY <1>1, ApplicationAssumption DEF Typed, TypeOK
<1>3. untold' \in BOOLEAN
  BY <1>1 DEF Typed, TypeOK
<1>4. Typed'
  BY <1>1, <1>2, <1>3 DEF Typed, TypeOK
<1> QED BY <1>1, <1>4 DEF copy, queue

\* A restart leaves the last message and the server.
LEMMA RestartEffect ==
    ASSUME Typed, Restart
    PROVE  /\ Typed'
           /\ copy' = None /\ queue' = << >> /\ Len(queue') = 0 /\ handler' = None
           /\ UNCHANGED <<server, changes, topic>>
<1> USE ApplicationAssumption
<1>1. /\ restarts < MaxRestarts /\ restarts' = restarts + 1
      /\ store' = [i \in Informers |-> None]
      /\ events' = [i \in Informers |-> << >>]
      /\ handler' = None /\ untold' = FALSE
      /\ UNCHANGED <<server, changes, topic, lost>>
  BY DEF Restart, Reset
<1>2. restarts' \in 0..MaxRestarts
  BY <1>1 DEF Typed, TypeOK
<1>3. /\ events' \in [Informers -> Seq(Notifications)]
      /\ \A i \in Informers : DOMAIN events'[i] = {}
  BY <1>1, EmptyQueues
<1>4. store' \in [Informers -> Apps \cup {None}]
  BY <1>1
<1>5. Typed'
  BY <1>1, <1>2, <1>3, <1>4 DEF Typed, TypeOK
<1> QED BY <1>1, <1>5, EmptyQueues DEF copy, queue

\* Initially nothing is known and nothing told.
LEMMA InitEffect ==
    ASSUME Init
    PROVE  /\ Typed
           /\ copy = None /\ queue = << >> /\ handler = None /\ topic = None
           /\ server \in Apps /\ server.rv = 0 /\ server.uid = 0 /\ changes = 0
<1> USE ApplicationAssumption, WatchAssumption DEF Init
<1>1. /\ events \in [Informers -> Seq(Notifications)]
      /\ \A i \in Informers : DOMAIN events[i] = {}
  BY EmptyQueues
<1>2. store \in [Informers -> Apps \cup {None}] /\ 0 \in 0..MaxChanges
      /\ 0 \in 0..MaxLost /\ 0 \in 0..MaxRestarts
  OBVIOUS
<1>3. Typed
  BY <1>1, <1>2 DEF Typed, TypeOK
<1> QED BY <1>3 DEF copy, queue

-----------------------------------------------------------------------------
(* Versions grow along the line.                                           *)

\* The numbers in the line are numbers.
LEMMA Versions ==
    ASSUME Typed
    PROVE  /\ ToldApp.version \in Nat /\ ToldApp.gone \in BOOLEAN
           /\ handler # None => /\ handler.app.rv \in Nat
                                /\ MarkOf(handler).version = handler.app.rv
                                /\ MarkOf(handler).gone \in BOOLEAN
           /\ \A k \in 1..Len(queue) : /\ EventMark(queue[k]).version \in Nat
                                       /\ EventMark(queue[k]).gone \in BOOLEAN
           /\ copy # None => copy.rv \in Nat
           /\ server # None => server.rv \in Nat
           /\ changes \in Nat /\ Len(queue) \in Nat
<1>1. \A app \in Apps : app.rv \in Nat
  BY Fields
<1> QED BY <1>1, Parts, Fields DEF ToldApp, MarkOf, EventMark, Deletes

\* What is not changed keeps its place in the line.
LEMMA ToldUnchanged == UNCHANGED topic => UNCHANGED ToldApp
  BY DEF ToldApp

\* A change of the application gets the newest version.
LEMMA ChangeOrder ==
    ASSUME Typed, OrderInv, ChangeApp \/ DeleteApp \/ CreateApp
    PROVE  OrderInv'
<1>1. /\ changes' = changes + 1
      /\ server' # None => server'.rv = changes + 1
      /\ UNCHANGED <<copy, queue, handler, ToldApp>>
  BY ChangeEffect, ToldUnchanged
<1>2. \A m : m.version \in Nat /\ Precedes(m) => Precedes(m)'
  BY <1>1, Versions DEF Precedes, Before
<1>3. \A m, k : From(m, k) => From(m, k)'
  BY <1>1 DEF From
<1> QED BY <1>1, <1>2, <1>3, Versions
      DEF OrderInv, ToldFirst, HandlerNext, EventsNext, CopyLast

\* A list queues nothing, and a watch event goes behind the older ones.
LEMMA ObserveOrder ==
    ASSUME Typed, OrderInv, ObserveApp
    PROVE  OrderInv'
<1>1. /\ copy # server /\ copy' = server
      /\ UNCHANGED <<server, changes, handler, ToldApp>>
  BY ObserveEffect, ToldUnchanged
<1>2. \A m : Precedes(m) => Precedes(m)'
  BY <1>1 DEF Precedes
<1>3. CASE copy = None /\ queue' = queue
  <2>1. \A m, k : From(m, k) => From(m, k)'
    BY <1>3 DEF From
  <2> QED BY <1>1, <1>2, <1>3, <2>1, Versions
        DEF OrderInv, ToldFirst, HandlerNext, EventsNext, CopyLast
<1>4. CASE ~(copy = None /\ queue' = queue)
  <2>1. PICK e \in Notifications :
        /\ copy # None
        /\ Len(queue') = Len(queue) + 1 /\ queue'[Len(queue) + 1] = e
        /\ \A k \in 1..Len(queue) : queue'[k] = queue[k]
        /\ e.old = copy /\ e.new = server
        /\ Deletes(e) <=> server = None
    BY <1>4, ObserveEffect
  <2>2. /\ EventMark(e).version = IF server = None THEN copy.rv ELSE server.rv
        /\ EventMark(e).gone <=> server = None
    BY <2>1 DEF EventMark, AppOf
  <2>3. \A m : Precedes(m) => Before(m, EventMark(e).version)
    BY <2>1, <2>2 DEF Precedes
  <2>4. \A m : \A k \in Nat \ {0} : Precedes(m) /\ From(m, k) => From(m, k)'
    <3> SUFFICES ASSUME NEW m, NEW k \in Nat \ {0}, Precedes(m), From(m, k),
                        NEW j \in k..Len(queue')
                 PROVE  Before(m, EventMark(queue'[j]).version)
      BY DEF From
    <3>1. CASE j = Len(queue) + 1
      BY <2>1, <2>3, <3>1
    <3>2. CASE j # Len(queue) + 1
      <4>1. j \in 1..Len(queue) /\ j \in k..Len(queue)
        BY <2>1, <3>2, Versions
      <4> QED BY <2>1, <4>1 DEF From
    <3> QED BY <3>1, <3>2
  <2>5. Precedes(EventMark(e))'
    BY <1>1, <2>1, <2>2, Versions DEF Precedes, Before, OrderInv, CopyLast
  <2>6. ToldFirst' /\ HandlerNext' /\ CopyLast'
    BY <1>1, <1>2, <2>4, Versions
       DEF OrderInv, ToldFirst, HandlerNext, CopyLast, MarkOf
  <2>7. EventsNext'
    <3> SUFFICES ASSUME NEW k \in 1..Len(queue')
                 PROVE  (/\ Precedes(EventMark(queue[k]))
                         /\ From(EventMark(queue[k]), k + 1))'
      BY DEF EventsNext
    <3>1. CASE k = Len(queue) + 1
      BY <2>1, <2>5, <3>1, Versions DEF From
    <3>2. CASE k # Len(queue) + 1
      <4>1. k \in 1..Len(queue) /\ k + 1 \in Nat \ {0} /\ queue'[k] = queue[k]
        BY <2>1, <3>2, Versions
      <4>2. PICK m : m = EventMark(queue[k])
        OBVIOUS
      <4>3. Precedes(m)' /\ From(m, k + 1)'
        BY <1>2, <2>4, <4>1, <4>2 DEF OrderInv, EventsNext
      <4>4. m = EventMark(queue[k])'
        BY <4>1, <4>2 DEF EventMark, AppOf, Deletes
      <4> QED BY <4>3, <4>4
    <3> QED BY <3>1, <3>2
  <2> QED BY <2>6, <2>7 DEF OrderInv
<1> QED BY <1>3, <1>4

\* A handler takes the oldest event, and may find nothing to send.
LEMMA HandleOrder ==
    ASSUME Typed, OrderInv, Handle
    PROVE  OrderInv'
<1>1. PICK e \in Notifications :
        /\ Len(queue) > 0 /\ queue[1] = e
        /\ handler' # None =>
            /\ handler'.app = AppOf(e)
            /\ handler'.kind = IF Deletes(e) THEN "delete" ELSE "update"
        /\ UNCHANGED <<server, changes, copy, ToldApp>>
        /\ Len(queue') = Len(queue) - 1
        /\ \A k \in 1..Len(queue') : queue'[k] = queue[k + 1]
  BY HandleEffect, ToldUnchanged
<1>2. \A m : Precedes(m) => Precedes(m)'
  BY <1>1 DEF Precedes
<1>3. \A m : \A k \in Nat \ {0} : From(m, k + 1) => From(m, k)'
  <2> SUFFICES ASSUME NEW m, NEW k \in Nat \ {0}, From(m, k + 1),
                      NEW j \in k..Len(queue')
               PROVE  Before(m, EventMark(queue'[j]).version)
    BY DEF From
  <2>1. /\ j + 1 \in (k + 1)..Len(queue)
        /\ queue'[j] = queue[j + 1]
    BY <1>1, Versions
  <2> QED BY <2>1 DEF From
<1>4. 1 \in 1..Len(queue) /\ 2 = 1 + 1 /\ 1 \in Nat \ {0}
  BY <1>1, Versions
<1>5. \A m : From(m, 1) => From(m, 2)
  BY <1>4, Versions DEF From
<1>6. /\ Precedes(EventMark(e)) /\ From(EventMark(e), 2)
      /\ Before(ToldApp, EventMark(e).version)
  BY <1>1, <1>4 DEF OrderInv, EventsNext, ToldFirst, From
<1>7. handler' # None =>
        /\ MarkOf(handler)' = EventMark(e)
        /\ handler'.app.rv = EventMark(e).version
  BY <1>1 DEF MarkOf, EventMark, Deletes
<1>8. PICK t : t = ToldApp
  OBVIOUS
<1>9. ToldFirst'
  <2>1. Precedes(t)' /\ From(t, 1)'
    BY <1>2, <1>3, <1>4, <1>5, <1>8 DEF OrderInv, ToldFirst
  <2>2. t = ToldApp'
    BY <1>1, <1>8
  <2> QED BY <1>6, <1>7, <1>8, <2>1, <2>2 DEF ToldFirst, Before
<1>10. HandlerNext'
  <2>1. PICK m : m = EventMark(e)
    OBVIOUS
  <2>2. Precedes(m)' /\ From(m, 1)'
    BY <1>2, <1>3, <1>4, <1>6, <2>1
  <2> QED BY <1>7, <2>1, <2>2 DEF HandlerNext
<1>11. EventsNext'
  <2> SUFFICES ASSUME NEW k \in 1..Len(queue')
               PROVE  (/\ Precedes(EventMark(queue[k]))
                       /\ From(EventMark(queue[k]), k + 1))'
    BY DEF EventsNext
  <2>1. /\ k + 1 \in 1..Len(queue) /\ k + 1 \in Nat \ {0}
        /\ queue'[k] = queue[k + 1]
    BY <1>1, Versions
  <2>2. PICK m : m = EventMark(queue[k + 1])
    OBVIOUS
  <2>3. Precedes(m)' /\ From(m, k + 1)'
    BY <1>2, <1>3, <2>1, <2>2 DEF OrderInv, EventsNext
  <2>4. m = EventMark(queue[k])'
    BY <2>1, <2>2 DEF EventMark, AppOf, Deletes
  <2> QED BY <2>3, <2>4
<1>12. CopyLast'
  BY <1>1 DEF OrderInv, CopyLast
<1> QED BY <1>9, <1>10, <1>11, <1>12 DEF OrderInv

\* What is published is the message in the handler.
LEMMA ToldIs ==
    ASSUME handler # None, topic' = handler
    PROVE  ToldApp' = MarkOf(handler)
  BY DEF ToldApp, MarkOf

\* A message that is published was the handler's.
LEMMA SendOrder ==
    ASSUME Typed, OrderInv, SendApp
    PROVE  OrderInv'
<1>1. /\ handler # None /\ handler' = None
      /\ UNCHANGED <<server, changes, copy, queue>>
      /\ ToldApp' = MarkOf(handler) \/ ToldApp' = ToldApp
  BY SendEffect, ToldIs, ToldUnchanged
<1>2. \A m, k : /\ Precedes(m) => Precedes(m)'
                /\ From(m, k) => From(m, k)'
  BY <1>1 DEF Precedes, From
<1>3. PICK t : t = ToldApp' /\ Precedes(t) /\ From(t, 1)
  BY <1>1 DEF OrderInv, ToldFirst, HandlerNext
<1>4. ToldFirst'
  BY <1>1, <1>2, <1>3 DEF ToldFirst
<1>5. EventsNext' /\ HandlerNext' /\ CopyLast'
  BY <1>1, <1>2 DEF OrderInv, EventsNext, HandlerNext, CopyLast
<1> QED BY <1>4, <1>5 DEF OrderInv

\* A restart forgets the line and keeps what was published.
LEMMA RestartOrder ==
    ASSUME Typed, OrderInv, Restart
    PROVE  OrderInv'
<1>1. /\ copy' = None /\ Len(queue') = 0 /\ handler' = None
      /\ UNCHANGED <<server, changes, ToldApp>>
  BY RestartEffect, ToldUnchanged
<1> QED BY <1>1 DEF OrderInv, ToldFirst, HandlerNext, EventsNext, CopyLast,
                    Precedes, From

\* Nothing has been published at first.
LEMMA InitOrder ==
    ASSUME Init
    PROVE  Typed /\ OrderInv
<1>1. /\ Typed
      /\ copy = None /\ Len(queue) = 0 /\ handler = None
      /\ server # None => server.rv = 0
      /\ changes = 0
      /\ ToldApp = [version |-> 0, gone |-> FALSE]
  BY InitEffect, EmptyQueues DEF ToldApp
<1> QED BY <1>1 DEF OrderInv, ToldFirst, HandlerNext, EventsNext, CopyLast,
                    Precedes, From, Before

\* The types and the order are kept by every step.
LEMMA NextOrder ==
    ASSUME Typed, OrderInv, [Next]_vars
    PROVE  Typed' /\ OrderInv'
<1>1. CASE UNCHANGED vars
  <2>1. Typed'
    BY <1>1 DEF vars, watchVars, Typed, TypeOK
  <2>2. UNCHANGED <<server, changes, copy, queue, handler, ToldApp>>
    BY <1>1 DEF vars, watchVars, copy, queue, ToldApp
  <2>3. OrderInv'
    BY <2>2 DEF OrderInv, ToldFirst, HandlerNext, EventsNext, CopyLast,
                Precedes, From
  <2> QED BY <2>1, <2>3
<1>2. CASE ChangeApp \/ DeleteApp \/ CreateApp
  BY <1>2, ChangeEffect, ChangeOrder
<1>3. CASE ObserveApp
  BY <1>3, ObserveEffect, ObserveOrder
<1>4. CASE Handle
  BY <1>4, HandleEffect, HandleOrder
<1>5. CASE SendApp
  BY <1>5, SendEffect, SendOrder
<1>6. CASE Restart
  BY <1>6, RestartEffect, RestartOrder
<1> QED BY <1>1, <1>2, <1>3, <1>4, <1>5, <1>6 DEF Next

\* Types and order hold throughout.
LEMMA Ordered == Spec => [](Typed /\ OrderInv)
<1>1. Init => Typed /\ OrderInv
  BY InitOrder
<1>2. Typed /\ OrderInv /\ [Next]_vars => (Typed /\ OrderInv)'
  BY NextOrder
<1> QED BY <1>1, <1>2, PTL DEF Spec

\* Every variable keeps its type for any number of changes, notifications,
\* failures and restarts, and no update is sent of an application that was
\* never deployed.
THEOREM TypeCorrect == Spec => []TypeOK
<1>1. Typed => TypeOK
  BY DEF Typed
<1> QED BY <1>1, Ordered, PTL

-----------------------------------------------------------------------------
(* The refinement.                                                         *)

\* A change on the server is a write.
LEMMA ChangeWrites ==
    ASSUME Typed, ChangeApp \/ DeleteApp \/ CreateApp
    PROVE  R!Write
  BY ChangeEffect, ToldUnchanged DEF R!Write

\* A message that is published is told in its order; one that is lost is not
\* told at all.
LEMMA SendTells ==
    ASSUME Typed, OrderInv, SendApp
    PROVE  R!Tell \/ UNCHANGED R!vars
<1>1. /\ handler # None
      /\ UNCHANGED changes
      /\ ToldApp' = MarkOf(handler) \/ ToldApp' = ToldApp
  BY SendEffect, ToldIs, ToldUnchanged
<1>2. CASE ToldApp' = ToldApp
  BY <1>1, <1>2 DEF R!vars
<1>3. CASE ToldApp' = MarkOf(handler)
  <2>1. /\ MarkOf(handler).version = handler.app.rv
        /\ handler.app.rv \in 0..changes
        /\ Before(ToldApp, handler.app.rv)
    BY <1>1, Versions DEF OrderInv, ToldFirst, HandlerNext, Precedes
  <2>2. MarkOf(handler) \in [version : 0..changes, gone : BOOLEAN]
    BY <1>1, <2>1, Versions DEF MarkOf
  <2>3. R!Follows(MarkOf(handler))
    BY <2>1, Versions DEF R!Follows, Before
  <2> QED BY <1>1, <1>3, <2>2, <2>3 DEF R!Tell
<1> QED BY <1>1, <1>2, <1>3

\* The informer implements Relay without strays: whatever is lost, however the
\* watch falls behind and whenever the process is restarted, states are told in
\* their order, none before it was written and none of an application that was
\* told to be deleted.
THEOREM Refinement == Spec => ImplementsRelay
<1>1. Init => R!Init
  <2> SUFFICES ASSUME Init PROVE R!Init
    OBVIOUS
  <2> QED BY InitEffect DEF R!Init, R!NothingTold, ToldApp
<1>2. Typed /\ OrderInv /\ [Next]_vars => [R!Next]_(R!vars)
  <2> SUFFICES ASSUME Typed, OrderInv, [Next]_vars
               PROVE  R!Next \/ UNCHANGED R!vars
    BY DEF R!vars
  <2>1. CASE UNCHANGED vars
    BY <2>1, ToldUnchanged DEF vars, watchVars, R!vars
  <2>2. CASE ChangeApp \/ DeleteApp \/ CreateApp
    BY <2>2, ChangeWrites DEF R!Next
  <2>3. CASE ObserveApp
    BY <2>3, ObserveEffect, ToldUnchanged DEF R!vars
  <2>4. CASE Handle
    BY <2>4, HandleEffect, ToldUnchanged DEF R!vars
  <2>5. CASE SendApp
    BY <2>5, SendTells DEF R!Next
  <2>6. CASE Restart
    BY <2>6, RestartEffect, ToldUnchanged DEF R!vars
  <2> QED BY <2>1, <2>2, <2>3, <2>4, <2>5, <2>6 DEF Next
<1> QED BY <1>1, <1>2, Ordered, PTL DEF Spec, ImplementsRelay, R!Spec

-----------------------------------------------------------------------------
(* The last message is current.                                            *)

\* The uid of an application is the version it was created with.
Known(app) == app # None => app.uid <= app.rv
UidInv ==
    /\ Known(server) /\ Known(copy)
    /\ handler # None => handler.app.uid <= handler.app.rv
    /\ \A k \in 1..Len(queue) : AppOf(queue[k]).uid <= AppOf(queue[k]).rv

\* What is on the server or in the store was created after everything that
\* stands before a deletion; an application the informer has not seen yet was
\* created after the copy.
NewInv ==
    /\ copy # None /\ server # None =>
        server.uid = copy.uid \/ copy.rv < server.uid
    /\ \A k \in 1..Len(queue) : Deletes(queue[k]) =>
        /\ copy # None => queue[k].old.rv < copy.uid
        /\ server # None => queue[k].old.rv < server.uid
    /\ copy = None /\ server # None =>
        /\ handler # None => handler.app.rv < server.uid
        /\ \A k \in 1..Len(queue) : AppOf(queue[k]).rv < server.uid

\* The application the handlers compare with after k notifications.
Then(k) == IF k = Len(queue) THEN copy ELSE queue[k + 1].old

\* Each notification starts where the one before it ended, unless that was a
\* deletion.
ChainInv ==
    \A k \in 1..Len(queue) : ~Deletes(queue[k]) => Then(k) = queue[k].new

\* The k-th notification is the last deletion in the queue; with k = 0, there
\* is none.
LastDelete(k) ==
    /\ k = 0 \/ Deletes(queue[k])
    /\ \A j \in (k + 1)..Len(queue) : ~Deletes(queue[j])

\* A message says the state of an application; the one to arrive last.
Says(m, app) == m.kind = "update" /\ State(m.app) = State(app)
Pending == IF handler # None THEN handler ELSE topic

\* An application that was listed deployed is not told, and it is known that
\* it is not; any other one is what the last message says, or will say, until
\* the next notification.
CurrentInv ==
    copy # None =>
        /\ \A k \in 1..Len(queue) : LastDelete(k) /\ Then(k).history => untold
        /\ LastDelete(0) /\ Then(0).history =>
            /\ ~untold => Pending # None /\ Says(Pending, Then(0))
            /\ handler # None /\ handler.app.uid = copy.uid =>
                Says(handler, Then(0))

\* The inductive invariant of LastMessageIsCurrent.
TellsInv == UidInv /\ NewInv /\ ChainInv /\ CurrentInv

\* None is neither an application nor a message.
LEMMA NoneIs == None \notin Apps /\ None \notin Messages
  BY NoneAssumption

\* The uids in the line are numbers.
LEMMA Uids ==
    ASSUME Typed
    PROVE  /\ \A app \in Apps : app.uid \in Nat /\ app.rv \in Nat
           /\ handler # None => handler.app \in Apps
           /\ \A k \in 1..Len(queue) : /\ AppOf(queue[k]) \in Apps
                                       /\ queue[k].old \in Apps
                                       /\ ~Deletes(queue[k]) => queue[k].new \in Apps
           /\ copy # None => copy \in Apps
           /\ server # None => server \in Apps
           /\ changes \in Nat /\ Len(queue) \in Nat
<1>1. \A app \in Apps : app.uid \in Nat /\ app.rv \in Nat
  BY Fields
<1> QED BY <1>1, Parts, Fields

\* A change on the server does not touch the line, and a new application is
\* newer than all of it.
LEMMA ChangeTells ==
    ASSUME Typed, OrderInv, TellsInv, ChangeApp \/ DeleteApp \/ CreateApp
    PROVE  TellsInv'
<1>1. /\ changes' = changes + 1
      /\ server' # None => server' \in Apps /\ server'.rv = changes + 1
      /\ server' # None /\ server # None => server'.uid = server.uid
      /\ server' # None /\ server = None => server'.uid = changes + 1
      /\ UNCHANGED <<copy, queue, handler, topic, untold>>
  BY ChangeEffect
<1>2. UidInv'
  BY <1>1, Uids DEF TellsInv, UidInv, Known, OrderInv, CopyLast
<1>3. NewInv'
  <2>1. \A k \in 1..Len(queue) : /\ AppOf(queue[k]).rv <= changes
                                 /\ Deletes(queue[k]) => queue[k].old.rv <= changes
    BY DEF OrderInv, EventsNext, Precedes, EventMark, AppOf
  <2>2. handler # None => handler.app.rv <= changes
    BY DEF OrderInv, HandlerNext, Precedes, MarkOf
  <2> QED BY <1>1, <2>1, <2>2, Uids DEF TellsInv, NewInv, OrderInv, CopyLast
<1>4. ChainInv' /\ CurrentInv'
  BY <1>1 DEF TellsInv, ChainInv, CurrentInv, Then, LastDelete, Pending
<1> QED BY <1>2, <1>3, <1>4 DEF TellsInv

\* AddFunc sends nothing, and untold records it.
LEMMA ListTells ==
    ASSUME Typed, OrderInv, TellsInv, ObserveApp, copy = None
    PROVE  TellsInv'
<1>1. /\ copy' = server /\ server # None /\ server' = server
      /\ handler' = handler /\ queue' = queue
      /\ untold' = server.history
  BY ObserveEffect
<1>2. Len(queue) = 0 \/ Deletes(queue[Len(queue)])
  <2> SUFFICES ASSUME Len(queue) # 0, ~Deletes(queue[Len(queue)])
               PROVE  FALSE
    OBVIOUS
  <2>1. Len(queue) \in 1..Len(queue)
    BY Uids
  <2>2. copy = queue[Len(queue)].new
    BY <2>1 DEF TellsInv, ChainInv, Then
  <2> QED BY <2>1, <2>2, Uids, NoneIs
<1>3. UidInv' /\ NewInv'
  BY <1>1 DEF TellsInv, UidInv, NewInv
<1>4. \A k \in 0..Len(queue) : /\ k # Len(queue) => Then(k)' = Then(k)
                               /\ k = Len(queue) => Then(k)' = server
                               /\ LastDelete(k)' <=> LastDelete(k)
                               /\ LastDelete(k) => k = Len(queue)
  BY <1>1, <1>2, Uids DEF Then, LastDelete
<1>5. ChainInv'
  BY <1>1, <1>2, <1>4, Uids DEF TellsInv, ChainInv
<1>6. CurrentInv'
  <2>1. handler # None => handler.app.uid # server.uid
    BY <1>1, Uids DEF TellsInv, UidInv, NewInv
  <2>2. \A k \in 1..Len(queue) : LastDelete(k)' /\ Then(k)'.history => untold'
    BY <1>1, <1>4, Uids
  <2>3. LastDelete(0)' => Then(0)' = server
    BY <1>4, Uids
  <2> QED BY <1>1, <2>1, <2>2, <2>3 DEF CurrentInv
<1> QED BY <1>3, <1>5, <1>6 DEF TellsInv

\* A watch event starts from the copy and ends at the new one.
LEMMA WatchTells ==
    ASSUME Typed, OrderInv, TellsInv, ObserveApp, copy # None
    PROVE  TellsInv'
<1>1. PICK e \in Notifications :
      /\ copy' = server /\ UNCHANGED <<server, handler, topic, untold>>
      /\ Len(queue') = Len(queue) + 1
      /\ \A k \in 1..Len(queue) : queue'[k] = queue[k]
      /\ queue'[Len(queue) + 1] = e
      /\ e.old = copy /\ e.new = server
      /\ Deletes(e) <=> server = None
  BY ObserveEffect
<1>2. /\ Len(queue) \in Nat
      /\ \A k \in 1..Len(queue') : k \in 1..Len(queue) \/ k = Len(queue) + 1
  BY <1>1, Uids
<1>m. PICK m \in Nat : m = Len(queue) + 1
  BY <1>2
<1>3. UidInv'
  BY <1>1, <1>2 DEF TellsInv, UidInv, Known, AppOf
<1>4. NewInv'
  BY <1>1, <1>2, Uids DEF TellsInv, NewInv
<1>5. \A k \in 0..Len(queue) : /\ Then(k)' = Then(k)
                               /\ ~Deletes(e) /\ LastDelete(k)' => LastDelete(k)
  BY <1>1, <1>2 DEF Then, LastDelete
<1>6. ChainInv'
  <2>1. Then(m)' = server
    BY <1>m, <1>1, <1>2 DEF Then
  <2> QED BY <1>m, <1>1, <1>2, <1>5, <2>1 DEF TellsInv, ChainInv
<1>7. CurrentInv'
  <2> SUFFICES ASSUME server # None PROVE CurrentInv'
    BY <1>1 DEF CurrentInv
  <2>1. ~LastDelete(m)'
    BY <1>m, <1>1, <1>2 DEF LastDelete
  <2>2. \A k \in 1..Len(queue') : LastDelete(k)' /\ Then(k)'.history => untold'
    BY <1>m, <1>1, <1>2, <1>5, <2>1 DEF TellsInv, CurrentInv
  <2>3. handler # None /\ handler.app.uid = server.uid => handler.app.uid = copy.uid
    BY Uids DEF TellsInv, UidInv, NewInv, OrderInv, HandlerNext, Precedes,
                Before, MarkOf
  <2>4. Pending' = Pending
    BY <1>1 DEF Pending
  <2>5. LastDelete(0)' /\ Then(0)'.history =>
            /\ ~untold => Pending # None /\ Says(Pending, Then(0))
            /\ handler # None /\ handler.app.uid = server.uid =>
                Says(handler, Then(0))
    BY <1>1, <1>2, <1>5, <2>3 DEF TellsInv, CurrentInv
  <2>6. Then(0)' = Then(0)
    BY <1>2, <1>5
  <2> QED BY <1>1, <2>2, <2>4, <2>5, <2>6 DEF CurrentInv, Says, State
<1> QED BY <1>3, <1>4, <1>6, <1>7 DEF TellsInv

\* A handler skips an update only if the state is the one already told, or
\* the application was never deployed.
LEMMA HandleTells ==
    ASSUME Typed, OrderInv, TellsInv, Handle
    PROVE  TellsInv'
<1>1. PICK e \in Notifications :
      /\ handler = None /\ Len(queue) > 0 /\ queue[1] = e
      /\ handler' # None => handler'.app = AppOf(e)
      /\ ~Deletes(e) => handler' = UpdateFunc(e)
      /\ UNCHANGED <<server, changes, copy, topic, untold>>
      /\ Len(queue') = Len(queue) - 1
      /\ \A k \in 1..Len(queue') : queue'[k] = queue[k + 1]
  BY HandleEffect
<1>2. /\ Len(queue) \in Nat /\ Len(queue') \in Nat /\ 1 \in 1..Len(queue)
      /\ \A k \in 1..Len(queue') : k + 1 \in 1..Len(queue)
  BY <1>1, Uids
<1>3. UidInv'
  BY <1>1, <1>2 DEF TellsInv, UidInv, Known, AppOf, Deletes
<1>4. NewInv'
  BY <1>1, <1>2 DEF TellsInv, NewInv, AppOf, Deletes
<1>5. /\ \A k \in 0..Len(queue') : Then(k)' = Then(k + 1)
      /\ \A k \in 1..Len(queue') : LastDelete(k)' => LastDelete(k + 1)
      /\ LastDelete(0)' => IF Deletes(e) THEN LastDelete(1) ELSE LastDelete(0)
  <2>1. \A k \in 0..Len(queue') : Then(k)' = Then(k + 1)
    BY <1>1, <1>2 DEF Then
  <2>2. ASSUME NEW k \in 0..Len(queue'),
               \A j \in (k + 1)..Len(queue') : ~Deletes(queue'[j]),
               NEW j \in (k + 2)..Len(queue)
        PROVE  ~Deletes(queue[j])
    <3>1. j - 1 \in (k + 1)..Len(queue') /\ j - 1 \in 1..Len(queue')
          /\ (j - 1) + 1 = j
      BY <1>1, <1>2
    <3> QED BY <1>1, <2>2, <3>1
  <2>3. ASSUME NEW k \in 1..Len(queue'), LastDelete(k)' PROVE LastDelete(k + 1)
    BY <1>1, <1>2, <2>2, <2>3 DEF LastDelete, Deletes
  <2>4. LastDelete(0)' => IF Deletes(e) THEN LastDelete(1) ELSE LastDelete(0)
    BY <1>1, <1>2, <2>2 DEF LastDelete, Deletes
  <2> QED BY <2>1, <2>3, <2>4
<1>6. ChainInv'
  BY <1>1, <1>2, <1>5 DEF TellsInv, ChainInv, Deletes
<1>7. CurrentInv'
  <2> SUFFICES ASSUME copy # None PROVE CurrentInv'
    BY <1>1 DEF CurrentInv
  <2>1. \A k \in 1..Len(queue') : LastDelete(k)' /\ Then(k)'.history => untold'
    BY <1>1, <1>2, <1>5 DEF TellsInv, CurrentInv
  <2>2. Then(0)' = Then(1) /\ Then(0) = e.old /\ Pending = topic
        /\ Pending' = IF handler' # None THEN handler' ELSE topic
    BY <1>1, <1>2, <1>5 DEF Then, Pending
  <2>3. ASSUME LastDelete(0)', Then(1).history
        PROVE  /\ ~untold => Pending' # None /\ Says(Pending', Then(1))
               /\ handler' # None /\ handler'.app.uid = copy.uid =>
                    Says(handler', Then(1))
    <3>1. CASE Deletes(e)
      <4>1. untold
        BY <1>2, <1>5, <2>3, <3>1 DEF TellsInv, CurrentInv
      <4>2. handler' # None => handler'.app.uid # copy.uid
        BY <1>1, <1>2, <3>1, Uids DEF TellsInv, UidInv, NewInv, AppOf
      <4> QED BY <4>1, <4>2
    <3>2. CASE ~Deletes(e)
      <4>1. Then(1) = e.new /\ e.new \in Apps /\ handler' = UpdateFunc(e)
        BY <1>1, <1>2, <3>2, Uids DEF TellsInv, ChainInv
      <4>2. CASE handler' # None
        <5>1. handler'.kind = "update" /\ handler'.app = e.new
          BY <4>1, <4>2 DEF UpdateFunc, Message
        <5> QED BY <2>2, <4>1, <4>2, <5>1 DEF Says, State
      <4>3. CASE handler' = None
        <5>1. Message("update", e.new) # None
          BY <4>1, NoneIs DEF Message, Messages
        <5>2. e.old.history /\ State(e.old) = State(e.new)
          BY <2>3, <4>1, <4>3, <5>1 DEF UpdateFunc, State
        <5>3. ~untold => topic # None /\ Says(topic, e.old)
          BY <1>5, <2>2, <2>3, <3>2, <5>2 DEF TellsInv, CurrentInv
        <5> QED BY <2>2, <4>1, <4>3, <5>2, <5>3 DEF Says
      <4> QED BY <4>2, <4>3
    <3> QED BY <3>1, <3>2
  <2> QED BY <1>1, <2>1, <2>2, <2>3 DEF CurrentInv, Says, State
<1> QED BY <1>3, <1>4, <1>6, <1>7 DEF TellsInv

\* The message becomes the last one of the topic, or is dropped and recorded
\* as untold.
LEMMA PublishTells ==
    ASSUME Typed, OrderInv, TellsInv, SendApp
    PROVE  TellsInv'
<1>1. /\ handler # None /\ handler' = None
      /\ \/ topic' = handler /\ untold' = (untold /\ ~Told(handler.app))
         \/ topic' = topic /\ untold' = TRUE
      /\ UNCHANGED <<server, changes, copy, queue>>
  BY SendEffect
<1>2. UidInv' /\ NewInv'
  BY <1>1 DEF TellsInv, UidInv, NewInv
<1>3. /\ ChainInv'
      /\ \A k : Then(k)' = Then(k) /\ (LastDelete(k)' <=> LastDelete(k))
  BY <1>1 DEF TellsInv, ChainInv, Then, LastDelete
<1>4. CurrentInv'
  <2> SUFFICES ASSUME copy # None PROVE CurrentInv'
    BY <1>1 DEF CurrentInv
  <2>1. CASE untold'
    BY <1>1, <2>1 DEF CurrentInv
  <2>2. CASE ~untold'
    <3>1. topic' = handler /\ Pending = handler /\ Pending' = handler
      BY <1>1, <2>2 DEF Pending
    <3>2. ~untold \/ copy.uid = handler.app.uid
      BY <1>1, <2>2 DEF Told, copy
    <3>3. \A k \in 1..Len(queue) : ~(LastDelete(k) /\ Then(k).history)
      <4> SUFFICES ASSUME NEW k \in 1..Len(queue), LastDelete(k), Then(k).history
                   PROVE  FALSE
        OBVIOUS
      <4>1. Deletes(queue[k]) /\ copy.uid = handler.app.uid
        BY <3>2 DEF LastDelete, TellsInv, CurrentInv
      <4>2. handler.app.rv <= queue[k].old.rv
        BY <1>1, <4>1 DEF OrderInv, HandlerNext, From, Before, MarkOf, EventMark, AppOf
      <4> QED BY <1>1, <4>1, <4>2, Uids DEF TellsInv, UidInv, NewInv
    <3>4. LastDelete(0) /\ Then(0).history => Says(handler, Then(0))
      BY <1>1, <3>1, <3>2 DEF TellsInv, CurrentInv
    <3> QED BY <1>1, <1>3, <3>1, <3>3, <3>4 DEF CurrentInv, Says, State
  <2> QED BY <2>1, <2>2
<1> QED BY <1>2, <1>3, <1>4 DEF TellsInv

\* A restart empties the store, so that nothing is left to be told.
LEMMA RestartTells ==
    ASSUME Typed, OrderInv, TellsInv, Restart
    PROVE  TellsInv'
<1>1. /\ copy' = None /\ Len(queue') = 0 /\ handler' = None
      /\ UNCHANGED <<server, changes>>
  BY RestartEffect
<1> QED BY <1>1 DEF TellsInv, UidInv, NewInv, ChainInv, CurrentInv, Known

\* At first there is nothing to tell.
LEMMA InitTells ==
    ASSUME Init
    PROVE  TellsInv
<1>1. /\ copy = None /\ Len(queue) = 0 /\ handler = None
      /\ server.uid = 0 /\ server.rv = 0
  BY InitEffect, EmptyQueues
<1> QED BY <1>1 DEF TellsInv, UidInv, NewInv, ChainInv, CurrentInv, Known

\* Every step keeps what makes the last message current.
LEMMA NextTells ==
    ASSUME Typed, OrderInv, TellsInv, [Next]_vars
    PROVE  TellsInv'
<1>1. CASE UNCHANGED vars
  <2>1. UNCHANGED <<server, changes, copy, queue, handler, topic, untold>>
    BY <1>1 DEF vars, watchVars, copy, queue
  <2>2. UidInv' /\ NewInv' /\ ChainInv'
    BY <2>1 DEF TellsInv, UidInv, NewInv, ChainInv, Then
  <2>3. CurrentInv'
    BY <2>1 DEF TellsInv, CurrentInv, Then, LastDelete, Pending
  <2> QED BY <2>2, <2>3 DEF TellsInv
<1>2. CASE ChangeApp \/ DeleteApp \/ CreateApp
  BY <1>2, ChangeTells
<1>3. CASE ObserveApp
  BY <1>3, ListTells, WatchTells
<1>4. CASE Handle
  BY <1>4, HandleTells
<1>5. CASE SendApp
  BY <1>5, PublishTells
<1>6. CASE Restart
  BY <1>6, RestartTells
<1> QED BY <1>1, <1>2, <1>3, <1>4, <1>5, <1>6 DEF Next

\* Although UpdateFunc compares each state with the one before it only and
\* skips what looks alike, the last message is current whenever there is
\* nothing left to handle, unless the history says why it is not: for every
\* number of changes, length of the queue, failures and restarts.
THEOREM MessageIsCurrent == Spec => []LastMessageIsCurrent
<1>1. Init => TellsInv
  BY InitTells
<1>2. (Typed /\ OrderInv) /\ TellsInv /\ [Next]_vars => TellsInv'
  BY NextTells
<1>3. Typed /\ TellsInv => LastMessageIsCurrent
  <2> SUFFICES ASSUME Typed, TellsInv, copy # None, copy.history,
                      queue = << >>, handler = None, ~untold
               PROVE  /\ topic # None /\ topic.kind = "update"
                      /\ State(topic.app) = State(copy)
    BY DEF LastMessageIsCurrent, copy, queue
  <2>1. Len(queue) = 0 /\ Then(0) = copy /\ LastDelete(0) /\ Pending = topic
    BY EmptyQueues DEF Then, LastDelete, Pending
  <2> QED BY <2>1 DEF TellsInv, CurrentInv, Says
<1> QED BY <1>1, <1>2, <1>3, Ordered, PTL DEF Spec
=============================================================================
