------------------------ MODULE WorkflowInformerProofs ------------------------
(***************************************************************************)
(* Proofs about the CI and CD informers (module WorkflowInformer): types   *)
(* and the bound on retries, that each implements Relay, and that the last *)
(* status is current.                                                      *)
(*                                                                         *)
(* What informer i has to say of the workflow stands in one line: the last *)
(* status received and the requests that may still arrive, the call in the *)
(* handler, the notifications in their queue, the copy in the store, the   *)
(* object on the server.  A step of one informer leaves the line of the    *)
(* other one alone.                                                        *)
(***************************************************************************)
EXTENDS WorkflowInformer, TLAPS

\* The variables of one informer, with the cluster it watches.
line(i) == <<server, changes, store[i], events[i], handler[i], received[i],
             untold[i], StraysOf(i)>>

\* A delete event carries the old object, an update the new one.
Deletes(e) == e.kind # "update"
WfOf(e) == IF Deletes(e) THEN e.old ELSE e.new

\* The types, with the queues as sequences.
Typed == TypeOK /\ events \in [Informers -> Seq(Notifications)]

-----------------------------------------------------------------------------
(* What the actions do to a line.                                          *)

\* The parts of a line have their types.
LEMMA Parts ==
    ASSUME Typed, NEW i \in Informers
    PROVE  /\ events[i] \in Seq(Notifications) /\ Len(events[i]) \in Nat
           /\ \A k \in 1..Len(events[i]) : events[i][k] \in Notifications
           /\ store[i] \in Workflows \cup {None}
           /\ server \in Workflows \cup {None}
           /\ handler[i] \in Calls \cup {None}
           /\ received[i] \in 0..MaxChanges
           /\ StraysOf(i) \subseteq 1..MaxChanges
           /\ changes \in Nat
<1>1. StraysOf(i) \subseteq 1..MaxChanges
  BY DEF Typed, TypeOK, StraysOf, Requests
<1> QED BY <1>1, WatchAssumption DEF Typed, TypeOK

\* A record set is typed by its fields.
LEMMA Fields ==
    /\ \A wf \in Workflows : /\ wf.uid \in 0..MaxChanges /\ wf.rv \in 0..MaxChanges
                             /\ wf.status \in 0..MaxChanges
    /\ \A c \in Calls : /\ c.uid \in 0..MaxChanges /\ c.status \in 1..MaxChanges
                        /\ c.attempt \in 0..RetryCount
    /\ \A e \in Notifications :
        /\ e.kind \in {"update", "delete", "tombstone"}
        /\ e.old \in Workflows /\ WfOf(e) \in Workflows
        /\ ~Deletes(e) => e.new \in Workflows
        /\ Deletes(e) => e.new = None
  BY DEF Workflows, Calls, Notifications, WfOf, Deletes

\* Queues that are empty are queues.
LEMMA EmptyQueues ==
    /\ [i \in Informers |-> << >>] \in [Informers -> Seq(Notifications)]
    /\ DOMAIN << >> = {} /\ Len(<< >>) = 0
<1>1. << >> \in Seq(Notifications) /\ DOMAIN << >> = {} /\ Len(<< >>) = 0
  OBVIOUS
<1> QED BY <1>1

\* None is neither a workflow nor a call.
LEMMA NoneIs == None \notin Workflows /\ None \notin Calls
  BY NoneAssumption

\* A change on the server touches nothing else; a status is new or the one the
\* workflow had.
LEMMA ClusterEffect ==
    ASSUME Typed, Cluster
    PROVE  /\ Typed'
           /\ changes' = changes + 1
           /\ server' # None => /\ server' \in Workflows
                                /\ \/ server'.status \in {0, changes + 1}
                                   \/ server # None /\ server'.status = server.status
                                /\ \/ server # None /\ server'.uid = server.uid
                                   \/ server'.uid = changes + 1
           /\ UNCHANGED <<store, events, handler, received, untold, late>>
<1>1. PICK obj \in Workflows \cup {None} :
        /\ Change(obj)
        /\ obj # None =>
            /\ \/ obj.status \in {0, changes + 1}
               \/ server # None /\ obj.status = server.status
            /\ \/ server # None /\ obj.uid = server.uid
               \/ obj.uid = changes + 1
  <2>1. changes \in 0..MaxChanges /\ server \in Workflows \cup {None}
    BY DEF Typed, TypeOK
  <2>2. changes < MaxChanges
    BY DEF Cluster, UpdateWorkflow, DeleteWorkflow, CreateWorkflow, Change
  <2>3. changes + 1 \in 0..MaxChanges /\ 0 \in 0..MaxChanges
    BY <2>1, <2>2, WatchAssumption
  <2>4. CASE UpdateWorkflow
    <3>1. PICK s \in {server.status, changes + 1} :
            server # None /\ Change([server EXCEPT !.status = s])
      BY <2>4 DEF UpdateWorkflow
    <3>2. /\ [server EXCEPT !.status = s] \in Workflows
          /\ [server EXCEPT !.status = s].status = s
          /\ [server EXCEPT !.status = s].uid = server.uid
      BY <2>1, <2>3, <3>1 DEF Workflows
    <3> QED BY <3>1, <3>2
  <2>5. CASE DeleteWorkflow
    BY <2>5 DEF DeleteWorkflow
  <2>6. CASE CreateWorkflow
    BY <2>3, <2>6 DEF CreateWorkflow, Workflows
  <2> QED BY <2>4, <2>5, <2>6 DEF Cluster
<1>2. /\ changes < MaxChanges /\ changes' = changes + 1
      /\ server' = IF obj = None THEN None ELSE [obj EXCEPT !.rv = changes + 1]
      /\ UNCHANGED <<store, events>>
  BY <1>1 DEF Change
<1>3. UNCHANGED program
  BY DEF Cluster, UpdateWorkflow, DeleteWorkflow, CreateWorkflow
<1>4. changes' \in 0..MaxChanges /\ changes \in Nat
  BY <1>2, WatchAssumption DEF Typed, TypeOK
<1>5. obj # None => /\ server' \in Workflows
                    /\ server'.uid = obj.uid /\ server'.status = obj.status
  BY <1>2, <1>4 DEF Workflows
<1>6. Typed'
  BY <1>2, <1>3, <1>4, <1>5 DEF Typed, TypeOK, program
<1> QED BY <1>1, <1>2, <1>3, <1>5, <1>6 DEF program

\* Informer i catches up: one notification is appended, unless the workflow is
\* listed.
LEMMA ObserveEffect ==
    ASSUME Typed, NEW i \in Informers, ObserveWorkflow(i)
    PROVE  /\ Typed'
           /\ \A j \in Informers \ {i} : UNCHANGED line(j)
           /\ store[i] # server /\ store'[i] = server
           /\ UNCHANGED <<server, changes, handler[i], received[i], StraysOf(i)>>
           /\ \/ /\ store[i] = None /\ events'[i] = events[i]
                 /\ untold'[i] = (server.status # 0)
              \/ /\ store[i] # None /\ untold'[i] = untold[i]
                 /\ Len(events'[i]) = Len(events[i]) + 1
                 /\ \A k \in 1..Len(events[i]) : events'[i][k] = events[i][k]
                 /\ LET e == events'[i][Len(events[i]) + 1] IN
                        /\ e \in Notifications
                        /\ e.old = store[i] /\ e.new = server
                        /\ Deletes(e) <=> server = None
<1>1. /\ store[i] # server /\ store' = [store EXCEPT ![i] = server]
      /\ untold' = [untold EXCEPT ![i] =
                        IF store[i] = None THEN server.status # 0 ELSE @]
      /\ UNCHANGED <<server, changes, conf, handler, late, received, lost, restarts>>
  BY DEF ObserveWorkflow, Observe
<1>2. /\ store' \in [Informers -> Workflows \cup {None}]
      /\ store'[i] = server
      /\ \A j \in Informers \ {i} : store'[j] = store[j]
  BY <1>1 DEF Typed, TypeOK
<1>3. /\ untold' \in [Informers -> BOOLEAN]
      /\ untold'[i] = IF store[i] = None THEN server.status # 0 ELSE untold[i]
      /\ \A j \in Informers \ {i} : untold'[j] = untold[j]
  BY <1>1 DEF Typed, TypeOK
<1>4. UNCHANGED StraysOf(i) /\ \A j \in Informers : UNCHANGED StraysOf(j)
  BY <1>1 DEF StraysOf
<1>5. CASE store[i] = None
  <2>1. events' = events
    BY <1>5 DEF ObserveWorkflow, Observe
  <2> QED BY <1>1, <1>2, <1>3, <1>4, <1>5, <2>1 DEF Typed, TypeOK, line
<1>6. CASE store[i] # None
  <2>1. PICK kind \in {"update", "delete", "tombstone"} :
            /\ kind = "update" <=> server # None
            /\ events' = [events EXCEPT ![i] = Append(@,
                    [kind |-> kind, old |-> store[i], new |-> server])]
    BY <1>6 DEF ObserveWorkflow, Observe
  <2> DEFINE e == [kind |-> kind, old |-> store[i], new |-> server]
  <2>2. e \in Notifications /\ e.old = store[i] /\ e.new = server
        /\ (Deletes(e) <=> server = None)
    BY <1>6, <2>1, Parts DEF Notifications, Deletes
  <2> HIDE DEF e
  <2>3. /\ events' \in [Informers -> Seq(Notifications)]
        /\ events'[i] = Append(events[i], e)
        /\ \A j \in Informers \ {i} : events'[j] = events[j]
    BY <2>1, <2>2 DEF Typed, e
  <2>4. /\ Len(events'[i]) = Len(events[i]) + 1
        /\ \A k \in 1..Len(events[i]) : events'[i][k] = events[i][k]
        /\ events'[i][Len(events[i]) + 1] = e
    BY <2>2, <2>3, Parts
  <2>5. \A j \in Informers : \A k \in DOMAIN events'[j] :
            events'[j][k] \in Notifications
    BY <2>3
  <2>6. Typed'
    BY <1>1, <1>2, <1>3, <2>3, <2>5 DEF Typed, TypeOK
  <2>7. \A j \in Informers \ {i} : UNCHANGED line(j)
    BY <1>1, <1>2, <1>3, <1>4, <2>3 DEF line
  <2> QED BY <1>1, <1>2, <1>3, <1>4, <1>6, <2>2, <2>4, <2>6, <2>7
<1> QED BY <1>5, <1>6

\* The handler of informer i takes the first notification.
LEMMA HandleEffect ==
    ASSUME Typed, NEW i \in Informers, Handle(i)
    PROVE  /\ Typed'
           /\ \A j \in Informers \ {i} : UNCHANGED line(j)
           /\ handler[i] = None /\ Len(events[i]) > 0
           /\ LET e == events[i][1] IN
                /\ e \in Notifications
                /\ IF Deletes(e) \/ e.new.status = 0 THEN handler'[i] = None
                   ELSE /\ handler'[i] # None
                        /\ handler'[i].uid = e.new.uid
                        /\ handler'[i].status = e.new.status
           /\ UNCHANGED <<server, changes, store[i], received[i], untold[i],
                          StraysOf(i)>>
           /\ Len(events'[i]) = Len(events[i]) - 1
           /\ \A k \in 1..Len(events'[i]) : events'[i][k] = events[i][k + 1]
<1> DEFINE e == Head(events[i])
<1>1. /\ handler[i] = None /\ events[i] # << >>
      /\ events' = [events EXCEPT ![i] = Tail(@)]
      /\ handler' = [handler EXCEPT ![i] =
                        IF e.kind = "update" THEN UpdateFunc(e) ELSE None]
      /\ UNCHANGED <<server, changes, store, conf, late, received, untold, lost,
                     restarts>>
  BY DEF Handle, Take
<1>2. events[i] \in Seq(Notifications)
  BY Parts
<1>3. Len(events[i]) > 0 /\ e = events[i][1] /\ e \in Notifications
  BY <1>1, <1>2
<1>4. /\ events' \in [Informers -> Seq(Notifications)]
      /\ events'[i] = Tail(events[i])
      /\ \A j \in Informers \ {i} : events'[j] = events[j]
  BY <1>1, <1>2 DEF Typed
<1>5. /\ Len(events'[i]) = Len(events[i]) - 1
      /\ \A k \in 1..Len(events'[i]) : events'[i][k] = events[i][k + 1]
  BY <1>2, <1>3, <1>4
<1>6. \A j \in Informers : \A k \in DOMAIN events'[j] :
        events'[j][k] \in Notifications
  BY <1>4
<1> HIDE DEF e
<1>7. e.kind = "update" /\ e.new.status # 0 => Call(e.new) \in Calls
  BY <1>3, Fields, WorkflowAssumption DEF Call, Calls, Deletes
<1>8. /\ handler' \in [Informers -> Calls \cup {None}]
      /\ handler'[i] = IF e.kind = "update" THEN UpdateFunc(e) ELSE None
      /\ \A j \in Informers \ {i} : handler'[j] = handler[j]
  BY <1>1, <1>7 DEF Typed, TypeOK, UpdateFunc
<1>9. IF Deletes(e) \/ e.new.status = 0 THEN handler'[i] = None
      ELSE /\ handler'[i] # None
           /\ handler'[i].uid = e.new.uid /\ handler'[i].status = e.new.status
  BY <1>7, <1>8, NoneIs DEF UpdateFunc, Deletes, Call
<1>10. UNCHANGED StraysOf(i) /\ \A j \in Informers : UNCHANGED StraysOf(j)
  BY <1>1 DEF StraysOf
<1>11. Typed'
  BY <1>1, <1>4, <1>6, <1>8 DEF Typed, TypeOK
<1>12. \A j \in Informers \ {i} : UNCHANGED line(j)
  BY <1>1, <1>4, <1>8, <1>10 DEF line
<1> QED BY <1>1, <1>3, <1>5, <1>9, <1>10, <1>11, <1>12

\* A call in the handler of informer i ends or goes on with a retry; its status
\* is received, is left under way, or neither.
LEMMA CallEffect ==
    ASSUME Typed, NEW i \in Informers, Publish(i) \/ Post(i)
    PROVE  /\ Typed'
           /\ \A j \in Informers \ {i} : UNCHANGED line(j)
           /\ handler[i] # None
           /\ UNCHANGED <<server, changes, store[i], events[i]>>
           /\ \/ received'[i] = handler[i].status /\ UNCHANGED StraysOf(i)
              \/ /\ StraysOf(i)' = StraysOf(i) \cup {handler[i].status}
                 /\ UNCHANGED received[i]
              \/ UNCHANGED <<received[i], StraysOf(i)>>
           /\ \/ /\ handler'[i] # None /\ untold'[i] = untold[i]
                 /\ handler'[i].uid = handler[i].uid
                 /\ handler'[i].status = handler[i].status
              \/ /\ handler'[i] = None
                 /\ \/ untold'[i]
                    \/ /\ received'[i] = handler[i].status
                       /\ untold'[i] = (untold[i] /\ store[i] # None
                                        /\ store[i].uid # handler[i].uid)
<1> DEFINE c == handler[i]
           retry == [handler EXCEPT ![i].attempt = @ + 1]
<1>1. c # None /\ c \in Calls
  BY Parts DEF Publish, Post
<1>2. c.status \in 1..MaxChanges /\ c.status \in 0..MaxChanges
  BY <1>1, Fields
<1>3. /\ \/ /\ received' = [received EXCEPT ![i] = c.status] /\ UNCHANGED late
         \/ late' = late \cup {<<i, c.status>>} /\ UNCHANGED received
         \/ UNCHANGED <<received, late>>
      /\ \/ /\ handler' = retry /\ c.attempt # RetryCount
            /\ UNCHANGED untold
         \/ /\ Done(i)
            /\ \/ untold' = [untold EXCEPT ![i] = TRUE]
               \/ /\ received' = [received EXCEPT ![i] = c.status]
                  /\ untold' = [untold EXCEPT ![i] =
                            @ /\ store[i] # None /\ store[i].uid # c.uid]
      /\ lost' = lost \/ (lost < MaxLost /\ lost' = lost + 1)
      /\ UNCHANGED <<watchVars, conf, restarts>>
  BY DEF Publish, Post, Succeed, GiveUp, Received, Fail, RetriesUsedUp
<1>4. /\ UNCHANGED <<server, changes, store, events, conf, restarts>>
      /\ lost' \in 0..MaxLost
  BY <1>3, WorkflowAssumption DEF watchVars, Typed, TypeOK
<1>5. /\ received' \in [Informers -> 0..MaxChanges]
      /\ received'[i] \in {received[i], c.status}
      /\ \A j \in Informers \ {i} : received'[j] = received[j]
  BY <1>2, <1>3 DEF Typed, TypeOK
<1>6. /\ late' \subseteq Requests
      /\ \/ UNCHANGED late
         \/ late' = late \cup {<<i, c.status>>}
  BY <1>2, <1>3 DEF Typed, TypeOK, Requests
<1>7. ASSUME late' = late
      PROVE  \A j \in Informers : UNCHANGED StraysOf(j)
  BY <1>7 DEF StraysOf
<1>8. ASSUME late' = late \cup {<<i, c.status>>}
      PROVE  /\ StraysOf(i)' = StraysOf(i) \cup {c.status}
             /\ \A j \in Informers \ {i} : UNCHANGED StraysOf(j)
  <2>1. <<i, c.status>>[1] = i /\ <<i, c.status>>[2] = c.status
    OBVIOUS
  <2>2. \A j : {q \in late' : q[1] = j} =
              IF j = i THEN {q \in late : q[1] = i} \cup {<<i, c.status>>}
              ELSE {q \in late : q[1] = j}
    BY <1>8, <2>1
  <2>3. StraysOf(i)' = StraysOf(i) \cup {c.status}
    <3>1. PICK Q : Q = {q \in late : q[1] = i}
      OBVIOUS
    <3>2. StraysOf(i) = {q[2] : q \in Q}
      BY <3>1 DEF StraysOf
    <3>3. StraysOf(i)' = {q[2] : q \in Q \cup {<<i, c.status>>}}
      BY <2>2, <3>1 DEF StraysOf
    <3> QED BY <2>1, <3>2, <3>3
  <2>4. \A j \in Informers \ {i} : UNCHANGED StraysOf(j)
    BY <2>2 DEF StraysOf
  <2> QED BY <2>3, <2>4
<1>9. /\ \/ UNCHANGED StraysOf(i) /\ received'[i] = c.status
         \/ StraysOf(i)' = StraysOf(i) \cup {c.status} /\ UNCHANGED received[i]
         \/ UNCHANGED <<received[i], StraysOf(i)>>
  BY <1>3, <1>7, <1>8 DEF Typed, TypeOK
<1>10. /\ untold' \in [Informers -> BOOLEAN]
      /\ \A j \in Informers \ {i} : untold'[j] = untold[j]
  BY <1>3 DEF Typed, TypeOK
<1>11. ASSUME handler' = retry, c.attempt # RetryCount
       PROVE  /\ handler' \in [Informers -> Calls \cup {None}]
              /\ \A j \in Informers \ {i} : handler'[j] = handler[j]
              /\ handler'[i] # None
              /\ handler'[i].uid = c.uid /\ handler'[i].status = c.status
  <2>1. /\ handler \in [Informers -> Calls \cup {None}]
        /\ retry[i] = [c EXCEPT !.attempt = @ + 1]
        /\ \A j \in Informers \ {i} : retry[j] = handler[j]
        /\ retry = [j \in Informers |-> retry[j]]
    BY DEF Typed, TypeOK
  <2>2. c.attempt \in 0..RetryCount /\ c.attempt + 1 \in 0..RetryCount
    BY <1>1, <1>11, Fields, WorkflowAssumption
  <2>3. /\ [c EXCEPT !.attempt = @ + 1] \in Calls
        /\ [c EXCEPT !.attempt = @ + 1].uid = c.uid
        /\ [c EXCEPT !.attempt = @ + 1].status = c.status
    BY <1>1, <2>2 DEF Calls
  <2> HIDE DEF retry
  <2>4. retry \in [Informers -> Calls \cup {None}]
    BY <2>1, <2>3
  <2> QED BY <1>11, <2>1, <2>3, <2>4, NoneIs
<1>12. ASSUME Done(i)
       PROVE  /\ handler' \in [Informers -> Calls \cup {None}]
              /\ \A j \in Informers \ {i} : handler'[j] = handler[j]
              /\ handler'[i] = None
  BY <1>12 DEF Done, Typed, TypeOK
<1>13. Typed'
  BY <1>3, <1>4, <1>5, <1>6, <1>10, <1>11, <1>12 DEF Typed, TypeOK
<1>14. \A j \in Informers \ {i} : UNCHANGED line(j)
  BY <1>3, <1>4, <1>5, <1>6, <1>7, <1>8, <1>10, <1>11, <1>12 DEF line
<1>15. \/ handler' = retry /\ c.attempt # RetryCount /\ untold'[i] = untold[i]
       \/ /\ Done(i)
          /\ \/ untold'[i]
             \/ /\ received'[i] = c.status
                /\ untold'[i] = (untold[i] /\ store[i] # None
                                 /\ store[i].uid # c.uid)
  BY <1>3 DEF Typed, TypeOK
<1> QED BY <1>1, <1>4, <1>9, <1>11, <1>12, <1>13, <1>14, <1>15

\* A request that was under way arrives.
LEMMA ArriveEffect ==
    ASSUME Typed, NEW r \in Requests, Arrive(r)
    PROVE  \E i \in Informers : \E v \in StraysOf(i) :
            /\ Typed'
            /\ \A j \in Informers \ {i} : UNCHANGED line(j)
            /\ received'[i] = v /\ untold'[i]
            /\ StraysOf(i)' = StraysOf(i) \ {v}
            /\ UNCHANGED <<server, changes, store[i], events[i], handler[i]>>
<1>1. PICK i \in Informers, v \in 1..MaxChanges : r = <<i, v>>
  BY DEF Requests
<1>2. /\ <<i, v>> \in late /\ late' = late \ {<<i, v>>}
      /\ received' = [received EXCEPT ![i] = v]
      /\ untold' = [untold EXCEPT ![i] = TRUE]
      /\ UNCHANGED <<watchVars, conf, handler, lost, restarts>>
  BY <1>1 DEF Arrive
<1>3. UNCHANGED <<server, changes, store, events>>
  BY <1>2 DEF watchVars
<1>4. /\ received' \in [Informers -> 0..MaxChanges] /\ received'[i] = v
      /\ untold' \in [Informers -> BOOLEAN] /\ untold'[i]
      /\ \A j \in Informers \ {i} : received'[j] = received[j] /\ untold'[j] = untold[j]
  BY <1>2 DEF Typed, TypeOK
<1>5. late' \subseteq Requests /\ late \subseteq Requests
  BY <1>2 DEF Typed, TypeOK
<1>6. v \in StraysOf(i) /\ StraysOf(i)' = StraysOf(i) \ {v}
  <2>1. \A q \in late : q[1] = i /\ q[2] = v => q = <<i, v>>
    BY <1>5 DEF Requests
  <2>2. <<i, v>>[1] = i /\ <<i, v>>[2] = v
    OBVIOUS
  <2> QED BY <1>2, <2>1, <2>2 DEF StraysOf
<1>7. \A j \in Informers \ {i} : UNCHANGED StraysOf(j)
  <2>1. <<i, v>>[1] = i
    OBVIOUS
  <2>2. \A j \in Informers \ {i} : {q \in late' : q[1] = j} = {q \in late : q[1] = j}
    BY <1>2, <2>1
  <2> QED BY <2>2 DEF StraysOf
<1>8. Typed'
  BY <1>2, <1>3, <1>4, <1>5 DEF Typed, TypeOK
<1>9. \A j \in Informers \ {i} : UNCHANGED line(j)
  BY <1>2, <1>3, <1>4, <1>7 DEF line
<1> QED BY <1>2, <1>3, <1>4, <1>6, <1>8, <1>9

\* A restart leaves what was received, what is under way and the server.
LEMMA RestartEffect ==
    ASSUME Typed, Restart
    PROVE  /\ Typed'
           /\ \A i \in Informers :
                /\ store'[i] = None /\ Len(events'[i]) = 0 /\ handler'[i] = None
                /\ UNCHANGED <<server, changes, received[i], StraysOf(i)>>
<1>1. /\ restarts < MaxRestarts /\ restarts' = restarts + 1
      /\ store' = [i \in Informers |-> None]
      /\ events' = [i \in Informers |-> << >>]
      /\ handler' = [i \in Informers |-> None]
      /\ untold' = [i \in Informers |-> FALSE]
      /\ UNCHANGED <<server, changes, conf, late, received, lost>>
  BY DEF Restart, Reset
<1>2. restarts' \in 0..MaxRestarts
  BY <1>1, WorkflowAssumption DEF Typed, TypeOK
<1>3. /\ events' \in [Informers -> Seq(Notifications)]
      /\ \A i \in Informers : DOMAIN events'[i] = {} /\ Len(events'[i]) = 0
  BY <1>1, EmptyQueues
<1>4. /\ store' \in [Informers -> Workflows \cup {None}]
      /\ handler' \in [Informers -> Calls \cup {None}]
      /\ untold' \in [Informers -> BOOLEAN]
  BY <1>1
<1>5. Typed'
  BY <1>1, <1>2, <1>3, <1>4 DEF Typed, TypeOK
<1> QED BY <1>1, <1>3, <1>5 DEF StraysOf

\* Initially nothing is known and nothing told.
LEMMA InitEffect ==
    ASSUME Init
    PROVE  /\ Typed
           /\ changes = 0
           /\ server # None => server.uid = 0 /\ server.status = 0
           /\ \A i \in Informers :
                /\ store[i] = None /\ Len(events[i]) = 0 /\ handler[i] = None
                /\ received[i] = 0 /\ StraysOf(i) = {}
<1> USE WatchAssumption DEF Init
<1>1. /\ events \in [Informers -> Seq(Notifications)]
      /\ \A i \in Informers : DOMAIN events[i] = {} /\ Len(events[i]) = 0
  BY EmptyQueues
<1>2. /\ store \in [Informers -> Workflows \cup {None}]
      /\ handler \in [Informers -> Calls \cup {None}]
      /\ untold \in [Informers -> BOOLEAN]
      /\ received \in [Informers -> 0..MaxChanges]
      /\ server \in Workflows \cup {None}
      /\ 0 \in 0..MaxChanges /\ 0 \in 0..MaxLost /\ 0 \in 0..MaxRestarts
  BY WorkflowAssumption DEF Workflows
<1>3. Typed
  BY <1>1, <1>2 DEF Typed, TypeOK
<1> QED BY <1>1, <1>3 DEF StraysOf

-----------------------------------------------------------------------------
(* Statuses grow along a line.                                             *)

\* A workflow with a status, which is one that is told.
Tells(wf) == wf # None /\ wf.status # 0

\* Status s comes before the copy and the server, before the notifications from
\* the k-th on, and before all of the line.
Precedes(i, s) ==
    /\ s <= changes
    /\ Tells(store[i]) => s <= store[i].status
    /\ Tells(server) => s <= server.status
From(i, s, k) ==
    \A j \in k..Len(events[i]) :
        Tells(events[i][j].new) => s <= events[i][j].new.status
First(i, s) ==
    /\ Precedes(i, s) /\ From(i, s, 1)
    /\ handler[i] # None => s <= handler[i].status

\* What was received, is handled, is queued and is copied, in this order.
ToldFirst(i) == First(i, received[i]) /\ \A s \in StraysOf(i) : First(i, s)
HandlerNext(i) == handler[i] # None => First(i, handler[i].status)
EventsNext(i) ==
    \A k \in 1..Len(events[i]) : Tells(events[i][k].new) =>
        /\ Precedes(i, events[i][k].new.status)
        /\ From(i, events[i][k].new.status, k + 1)
CopyLast(i) ==
    /\ Tells(store[i]) => Precedes(i, store[i].status)
    /\ Tells(server) => server.status <= changes

\* The order of statuses along the whole line.
OrderInv(i) == ToldFirst(i) /\ HandlerNext(i) /\ EventsNext(i) /\ CopyLast(i)

\* The statuses in the line are numbers.
LEMMA Numbers ==
    ASSUME Typed, NEW i \in Informers
    PROVE  /\ \A wf \in Workflows : wf.status \in Nat /\ wf.uid \in Nat
           /\ \A wf : Tells(wf) /\ wf \in Workflows \cup {None} => wf.status \in Nat
           /\ store[i] \in Workflows \cup {None} /\ server \in Workflows \cup {None}
           /\ handler[i] # None => handler[i].status \in Nat /\ handler[i].uid \in Nat
           /\ received[i] \in Nat /\ StraysOf(i) \subseteq Nat
           /\ \A k \in 1..Len(events[i]) :
                /\ events[i][k].new \in Workflows \cup {None}
                /\ events[i][k].old \in Workflows /\ WfOf(events[i][k]) \in Workflows
                /\ Deletes(events[i][k]) => events[i][k].new = None
                /\ ~Deletes(events[i][k]) => events[i][k].new \in Workflows
           /\ changes \in Nat /\ Len(events[i]) \in Nat
<1>1. \A wf \in Workflows : wf.status \in Nat /\ wf.uid \in Nat
  BY Fields
<1>2. handler[i] # None => handler[i].status \in Nat /\ handler[i].uid \in Nat
  BY Parts, Fields
<1>3. received[i] \in Nat /\ StraysOf(i) \subseteq Nat
  BY Parts
<1> QED BY <1>1, <1>2, <1>3, Parts, Fields DEF Tells

\* A line that is not touched stays in order.
LEMMA UntouchedOrder ==
    ASSUME NEW i, OrderInv(i), UNCHANGED line(i)
    PROVE  OrderInv(i)'
  BY DEF line, OrderInv, ToldFirst, HandlerNext, EventsNext, CopyLast, First,
         Precedes, From, Tells

\* The status of a workflow stays or gets the newest number.
LEMMA ClusterOrder ==
    ASSUME Typed, NEW i \in Informers, OrderInv(i), Cluster
    PROVE  OrderInv(i)'
<1>1. /\ changes' = changes + 1
      /\ server' # None => \/ server'.status \in {0, changes + 1}
                           \/ server # None /\ server'.status = server.status
      /\ UNCHANGED <<store[i], events[i], handler[i], received[i], StraysOf(i)>>
  BY ClusterEffect DEF StraysOf
<1>2. \A s \in Nat : Precedes(i, s) => Precedes(i, s)'
  BY <1>1, Numbers DEF Precedes, Tells
<1>3. /\ \A s, k : From(i, s, k) => From(i, s, k)'
      /\ \A s \in Nat : First(i, s) => First(i, s)'
  BY <1>1, <1>2 DEF From, First
<1>4. CopyLast(i)'
  BY <1>1, <1>2, Numbers DEF OrderInv, CopyLast, Tells
<1> QED BY <1>1, <1>2, <1>3, <1>4, Numbers
      DEF OrderInv, ToldFirst, HandlerNext, EventsNext, Tells

\* A list queues nothing, and a watch event goes behind the older ones.
LEMMA ObserveOrder ==
    ASSUME Typed, NEW i \in Informers, OrderInv(i), ObserveWorkflow(i)
    PROVE  OrderInv(i)'
<1>1. /\ store'[i] = server
      /\ UNCHANGED <<server, changes, handler[i], received[i], StraysOf(i)>>
  BY ObserveEffect
<1>2. \A s : Precedes(i, s) => Precedes(i, s)'
  BY <1>1 DEF Precedes
<1>3. CopyLast(i)'
  BY <1>1, Numbers DEF OrderInv, CopyLast, Precedes, Tells
<1>4. CASE store[i] = None /\ events'[i] = events[i]
  <2>1. /\ \A s, k : From(i, s, k) => From(i, s, k)'
        /\ \A s : First(i, s) => First(i, s)'
    BY <1>1, <1>2, <1>4 DEF From, First
  <2> QED BY <1>1, <1>2, <1>3, <1>4, <2>1
        DEF OrderInv, ToldFirst, HandlerNext, EventsNext, Tells
<1>5. CASE ~(store[i] = None /\ events'[i] = events[i])
  <2>1. PICK e \in Notifications :
        /\ Len(events'[i]) = Len(events[i]) + 1
        /\ \A k \in 1..Len(events[i]) : events'[i][k] = events[i][k]
        /\ events'[i][Len(events[i]) + 1] = e
        /\ e.new = server
    BY <1>5, ObserveEffect
  <2>2. \A s : \A k \in Nat \ {0} : Precedes(i, s) /\ From(i, s, k) => From(i, s, k)'
    <3> SUFFICES ASSUME NEW s, NEW k \in Nat \ {0}, Precedes(i, s), From(i, s, k),
                        NEW j \in k..Len(events'[i]), Tells(events'[i][j].new)
                 PROVE  s <= events'[i][j].new.status
      BY DEF From, Tells
    <3>1. CASE j = Len(events[i]) + 1
      BY <2>1, <3>1 DEF Precedes
    <3>2. CASE j # Len(events[i]) + 1
      <4>1. j \in 1..Len(events[i]) /\ j \in k..Len(events[i])
        BY <2>1, <3>2, Numbers
      <4> QED BY <2>1, <4>1 DEF From
    <3> QED BY <3>1, <3>2
  <2>3. \A s : First(i, s) => First(i, s)'
    BY <1>1, <1>2, <2>2 DEF First
  <2>4. ToldFirst(i)' /\ HandlerNext(i)'
    BY <1>1, <2>3 DEF OrderInv, ToldFirst, HandlerNext
  <2>5. EventsNext(i)'
    <3> SUFFICES ASSUME NEW k \in 1..Len(events'[i]), Tells(events'[i][k].new)
                 PROVE  (/\ Precedes(i, events[i][k].new.status)
                         /\ From(i, events[i][k].new.status, k + 1))'
      BY DEF EventsNext, Tells
    <3>1. CASE k = Len(events[i]) + 1
      <4>1. Precedes(i, server.status)'
        BY <1>1, <2>1, <3>1, Numbers DEF Precedes, OrderInv, CopyLast, Tells
      <4> QED BY <1>1, <2>1, <3>1, <4>1, Numbers DEF From
    <3>2. CASE k # Len(events[i]) + 1
      <4>1. k \in 1..Len(events[i]) /\ k + 1 \in Nat \ {0}
            /\ events'[i][k] = events[i][k]
        BY <2>1, <3>2, Numbers
      <4>2. PICK s : s = events[i][k].new.status
        OBVIOUS
      <4>3. Precedes(i, s)' /\ From(i, s, k + 1)'
        BY <1>2, <2>2, <4>1, <4>2 DEF OrderInv, EventsNext
      <4> QED BY <4>1, <4>2, <4>3
    <3> QED BY <3>1, <3>2
  <2> QED BY <1>3, <2>4, <2>5 DEF OrderInv
<1> QED BY <1>4, <1>5

\* A handler takes the oldest event, and may find nothing to publish.
LEMMA HandleOrder ==
    ASSUME Typed, NEW i \in Informers, OrderInv(i), Handle(i)
    PROVE  OrderInv(i)'
<1>1. PICK e \in Notifications :
        /\ handler[i] = None /\ Len(events[i]) > 0 /\ events[i][1] = e
        /\ handler'[i] # None =>
            ~Deletes(e) /\ e.new.status # 0 /\ handler'[i].status = e.new.status
        /\ UNCHANGED <<server, changes, store[i], received[i], StraysOf(i)>>
        /\ Len(events'[i]) = Len(events[i]) - 1
        /\ \A k \in 1..Len(events'[i]) : events'[i][k] = events[i][k + 1]
  BY HandleEffect
<1> Len(events[i]) \in Nat /\ Len(events'[i]) \in Nat
  BY <1>1, Numbers
<1>2. \A s : Precedes(i, s) => Precedes(i, s)'
  BY <1>1 DEF Precedes
<1>3. \A s : \A k \in Nat \ {0} : From(i, s, k + 1) => From(i, s, k)'
  <2> SUFFICES ASSUME NEW s, NEW k \in Nat \ {0}, From(i, s, k + 1),
                      NEW j \in k..Len(events'[i]), Tells(events'[i][j].new)
               PROVE  s <= events'[i][j].new.status
    BY DEF From, Tells
  <2>1. /\ j + 1 \in (k + 1)..Len(events[i])
        /\ events'[i][j] = events[i][j + 1]
    BY <1>1
  <2> QED BY <2>1 DEF From
<1>4. 1 \in 1..Len(events[i]) /\ 2 = 1 + 1 /\ 1 \in Nat \ {0}
  BY <1>1, Numbers
<1>5. \A s : From(i, s, 1) => From(i, s, 2)
  BY <1>4, Numbers DEF From
<1>6. handler'[i] # None => Tells(e.new)
  <2>1. ~Deletes(e) => e.new \in Workflows
    BY Fields
  <2> QED BY <1>1, <2>1, NoneIs DEF Tells
<1>7. \A s : First(i, s) => First(i, s)'
  BY <1>1, <1>2, <1>3, <1>4, <1>5, <1>6 DEF First, From
<1>8. ToldFirst(i)'
  BY <1>1, <1>7 DEF OrderInv, ToldFirst
<1>9. HandlerNext(i)'
  <2> SUFFICES ASSUME handler'[i] # None PROVE HandlerNext(i)'
    BY DEF HandlerNext
  <2>1. PICK s : s = e.new.status
    OBVIOUS
  <2>2. Precedes(i, s)' /\ From(i, s, 1)'
    BY <1>1, <1>2, <1>3, <1>4, <1>6, <2>1 DEF OrderInv, EventsNext
  <2>3. s \in Nat /\ s <= s
    <3>1. e.new \in Workflows
      BY <1>1, Fields
    <3> QED BY <2>1, <3>1, Numbers
  <2> QED BY <1>1, <2>1, <2>2, <2>3 DEF HandlerNext, First
<1>10. EventsNext(i)'
  <2> SUFFICES ASSUME NEW k \in 1..Len(events'[i]), Tells(events'[i][k].new)
               PROVE  (/\ Precedes(i, events[i][k].new.status)
                       /\ From(i, events[i][k].new.status, k + 1))'
    BY DEF EventsNext, Tells
  <2>1. /\ k + 1 \in 1..Len(events[i]) /\ k + 1 \in Nat \ {0}
        /\ events'[i][k] = events[i][k + 1]
    BY <1>1, Numbers
  <2>2. PICK s : s = events[i][k + 1].new.status
    OBVIOUS
  <2>3. Precedes(i, s)' /\ From(i, s, k + 1)'
    BY <1>2, <1>3, <2>1, <2>2 DEF OrderInv, EventsNext
  <2> QED BY <2>1, <2>2, <2>3
<1>11. CopyLast(i)'
  BY <1>1, <1>2 DEF OrderInv, CopyLast
<1> QED BY <1>8, <1>9, <1>10, <1>11 DEF OrderInv

\* A call carries the status its handler took.
LEMMA CallOrder ==
    ASSUME Typed, NEW i \in Informers, OrderInv(i), Publish(i) \/ Post(i)
    PROVE  OrderInv(i)'
<1>1. /\ handler[i] # None
      /\ UNCHANGED <<server, changes, store[i], events[i]>>
      /\ received'[i] \in {received[i], handler[i].status}
      /\ StraysOf(i)' \subseteq StraysOf(i) \cup {handler[i].status}
      /\ handler'[i] # None => handler'[i].status = handler[i].status
  BY CallEffect
<1>2. \A s, k : /\ Precedes(i, s) => Precedes(i, s)'
                /\ From(i, s, k) => From(i, s, k)'
                /\ First(i, s) => First(i, s)'
  BY <1>1 DEF Precedes, From, First
<1>3. ToldFirst(i)' /\ HandlerNext(i)'
  BY <1>1, <1>2 DEF OrderInv, ToldFirst, HandlerNext
<1>4. EventsNext(i)' /\ CopyLast(i)'
  BY <1>1, <1>2 DEF OrderInv, EventsNext, CopyLast
<1> QED BY <1>3, <1>4 DEF OrderInv

\* A call that arrives late is no newer than what follows it.
LEMMA ArriveOrder ==
    ASSUME Typed, NEW r \in Requests, \A i \in Informers : OrderInv(i), Arrive(r)
    PROVE  \A i \in Informers : OrderInv(i)'
<1>1. PICK i \in Informers : \E v \in StraysOf(i) :
        /\ \A j \in Informers \ {i} : UNCHANGED line(j)
        /\ received'[i] = v
        /\ StraysOf(i)' = StraysOf(i) \ {v}
        /\ UNCHANGED <<server, changes, store[i], events[i], handler[i]>>
  BY ArriveEffect
<1>2. \A s, k : /\ Precedes(i, s) => Precedes(i, s)'
                /\ From(i, s, k) => From(i, s, k)'
                /\ First(i, s) => First(i, s)'
  BY <1>1 DEF Precedes, From, First
<1>3. OrderInv(i)'
  BY <1>1, <1>2 DEF OrderInv, ToldFirst, HandlerNext, EventsNext, CopyLast
<1> QED BY <1>1, <1>3, UntouchedOrder

\* A restart forgets the line and keeps what was received.
LEMMA RestartOrder ==
    ASSUME Typed, NEW i \in Informers, OrderInv(i), Restart
    PROVE  OrderInv(i)'
<1>1. /\ store'[i] = None /\ Len(events'[i]) = 0 /\ handler'[i] = None
      /\ UNCHANGED <<server, changes, received[i], StraysOf(i)>>
  BY RestartEffect
<1>2. \A s : First(i, s) => First(i, s)'
  BY <1>1 DEF First, Precedes, From, Tells
<1> QED BY <1>1, <1>2 DEF OrderInv, ToldFirst, HandlerNext, EventsNext, CopyLast,
                          Tells

\* Nothing has been received at first.
LEMMA InitOrder ==
    ASSUME Init
    PROVE  Typed /\ \A i \in Informers : OrderInv(i)
  BY InitEffect DEF OrderInv, ToldFirst, HandlerNext, EventsNext, CopyLast, First,
                    Precedes, From, Tells

\* The types and the order are kept by every step.
LEMMA NextOrder ==
    ASSUME Typed, \A i \in Informers : OrderInv(i), [Next]_vars
    PROVE  Typed' /\ \A i \in Informers : OrderInv(i)'
<1>1. CASE UNCHANGED vars
  <2>1. Typed'
    BY <1>1 DEF vars, watchVars, Typed, TypeOK
  <2>2. \A i : UNCHANGED line(i)
    BY <1>1 DEF vars, watchVars, line, StraysOf
  <2> QED BY <2>1, <2>2, UntouchedOrder
<1>2. CASE Cluster
  BY <1>2, ClusterEffect, ClusterOrder
<1>3. ASSUME NEW i \in Informers, ObserveWorkflow(i) \/ Handlers(i)
      PROVE  Typed' /\ \A j \in Informers : OrderInv(j)'
  <2>1. CASE ObserveWorkflow(i)
    BY <2>1, ObserveEffect, ObserveOrder, UntouchedOrder
  <2>2. CASE Handle(i)
    BY <2>2, HandleEffect, HandleOrder, UntouchedOrder
  <2>3. CASE Publish(i) \/ Post(i)
    BY <2>3, CallEffect, CallOrder, UntouchedOrder
  <2> QED BY <1>3, <2>1, <2>2, <2>3 DEF Handlers
<1>4. ASSUME NEW r \in Requests, Arrive(r)
      PROVE  Typed' /\ \A i \in Informers : OrderInv(i)'
  BY <1>4, ArriveEffect, ArriveOrder
<1>5. CASE Restart
  BY <1>5, RestartEffect, RestartOrder
<1> QED BY <1>1, <1>2, <1>3, <1>4, <1>5 DEF Next

\* The order holds for every informer.
Order == \A i \in Informers : OrderInv(i)

\* Types and order hold throughout.
LEMMA Ordered == Spec => [](Typed /\ Order)
<1>1. Init => Typed /\ Order
  BY InitOrder DEF Order
<1>2. Typed /\ Order /\ [Next]_vars => (Typed /\ Order)'
  BY NextOrder DEF Order
<1> QED BY <1>1, <1>2, PTL DEF Spec

\* Every variable keeps its type and no call makes more than RetryCount
\* retries, for any number of changes, notifications, failures and restarts.
THEOREM TypeCorrect == Spec => []TypeOK
<1>1. Typed => TypeOK
  BY DEF Typed
<1> QED BY <1>1, Ordered, PTL

-----------------------------------------------------------------------------
(* The refinement.                                                         *)

\* What Relay allows in one step, said of informer i.
RelayStep(i) ==
    \/ changes' = changes + 1 /\ UNCHANGED <<ToldStatus(i), StraysOf(i)>>
    \/ /\ \E s \in 0..changes : /\ s >= received[i]
                                /\ ToldStatus(i)' = [version |-> s, gone |-> FALSE]
       /\ UNCHANGED <<changes, StraysOf(i)>>
    \/ /\ \E s \in 0..changes : StraysOf(i)' = StraysOf(i) \cup {s}
       /\ UNCHANGED <<changes, ToldStatus(i)>>
    \/ /\ \E s \in StraysOf(i) :
            /\ StraysOf(i)' = StraysOf(i) \ {s}
            /\ ToldStatus(i)' = [version |-> s, gone |-> FALSE]
       /\ UNCHANGED changes
    \/ UNCHANGED <<changes, ToldStatus(i), StraysOf(i)>>

\* Such a step is one of the instance of Relay for CI, and for CD.
LEMMA RelayStepCi == RelayStep("ci") => [Ci!Next]_(Ci!vars)
<1>1. ToldStatus("ci").version = received["ci"] /\ ToldStatus("ci").gone = FALSE
  BY DEF ToldStatus
<1> QED BY <1>1 DEF RelayStep, Ci!Next, Ci!vars, Ci!Write, Ci!Tell, Ci!Stray,
                    Ci!Arrive, Ci!Follows

\* A step of the CD line is a step of its relay, or none.
LEMMA RelayStepCd == RelayStep("cd") => [Cd!Next]_(Cd!vars)
<1>1. ToldStatus("cd").version = received["cd"] /\ ToldStatus("cd").gone = FALSE
  BY DEF ToldStatus
<1> QED BY <1>1 DEF RelayStep, Cd!Next, Cd!vars, Cd!Write, Cd!Tell, Cd!Stray,
                    Cd!Arrive, Cd!Follows

\* Every step of the specification is such a step for every informer.
LEMMA NextRelays ==
    ASSUME Typed, Order, [Next]_vars, NEW i \in Informers
    PROVE  RelayStep(i)
<1>1. CASE UNCHANGED line(i)
  BY <1>1 DEF line, RelayStep, ToldStatus
<1>2. CASE Cluster
  <2>1. changes' = changes + 1 /\ UNCHANGED <<received, late>>
    BY <1>2, ClusterEffect
  <2> QED BY <2>1 DEF RelayStep, ToldStatus, StraysOf
<1>3. CASE ObserveWorkflow(i)
  BY <1>3, ObserveEffect DEF RelayStep, ToldStatus
<1>4. CASE Handle(i)
  BY <1>4, HandleEffect DEF RelayStep, ToldStatus
<1>5. CASE Publish(i) \/ Post(i)
  <2>1. /\ handler[i] # None /\ UNCHANGED changes
        /\ \/ received'[i] = handler[i].status /\ UNCHANGED StraysOf(i)
           \/ /\ StraysOf(i)' = StraysOf(i) \cup {handler[i].status}
              /\ UNCHANGED received[i]
           \/ UNCHANGED <<received[i], StraysOf(i)>>
    BY <1>5, CallEffect
  <2>2. handler[i].status \in 0..changes /\ handler[i].status >= received[i]
    <3>1. OrderInv(i)
      BY DEF Order
    <3> QED BY <2>1, <3>1, Numbers
          DEF OrderInv, HandlerNext, ToldFirst, First, Precedes
  <2> QED BY <2>1, <2>2 DEF RelayStep, ToldStatus
<1>6. ASSUME NEW r \in Requests, Arrive(r)
      PROVE  RelayStep(i)
  <2>1. PICK h \in Informers : \E v \in StraysOf(h) :
            /\ \A j \in Informers \ {h} : UNCHANGED line(j)
            /\ received'[h] = v
            /\ StraysOf(h)' = StraysOf(h) \ {v}
            /\ UNCHANGED changes
    BY <1>6, ArriveEffect
  <2>2. CASE h = i
    BY <2>1, <2>2 DEF RelayStep, ToldStatus
  <2>3. CASE h # i
    BY <1>1, <2>1, <2>3
  <2> QED BY <2>2, <2>3
<1>7. CASE Restart
  BY <1>7, RestartEffect DEF RelayStep, ToldStatus
<1>8. CASE UNCHANGED vars
  <2>1. UNCHANGED line(i)
    BY <1>8 DEF vars, watchVars, line, StraysOf
  <2> QED BY <1>1, <2>1
<1>9. ASSUME NEW j \in Informers, ObserveWorkflow(j) \/ Handlers(j), j # i
      PROVE  UNCHANGED line(i)
  <2>1. CASE ObserveWorkflow(j)
    BY <1>9, <2>1, ObserveEffect
  <2>2. CASE Handle(j)
    BY <1>9, <2>2, HandleEffect
  <2>3. CASE Publish(j) \/ Post(j)
    BY <1>9, <2>3, CallEffect
  <2> QED BY <1>9, <2>1, <2>2, <2>3 DEF Handlers
<1> QED BY <1>1, <1>2, <1>3, <1>4, <1>5, <1>6, <1>7, <1>8, <1>9 DEF Next, Handlers

\* Each informer implements Relay: under its event name a status is told in
\* its order and never before it was written, whatever is lost or retried and
\* whenever the process is restarted; only a request that had failed for its
\* sender can come late.
THEOREM Refinement == Spec => ImplementsRelay
<1>1. Init => Ci!Init /\ Cd!Init
  <2> SUFFICES ASSUME Init PROVE Ci!Init /\ Cd!Init
    OBVIOUS
  <2>1. changes = 0 /\ \A i \in Informers : received[i] = 0 /\ StraysOf(i) = {}
    BY InitEffect
  <2> QED BY <2>1, WorkflowAssumption
        DEF Ci!Init, Cd!Init, Ci!NothingTold, Cd!NothingTold, ToldStatus
<1>2. Typed /\ Order /\ [Next]_vars => [Ci!Next]_(Ci!vars)
  BY NextRelays, RelayStepCi, WorkflowAssumption
<1>3. Typed /\ Order /\ [Next]_vars => [Cd!Next]_(Cd!vars)
  BY NextRelays, RelayStepCd, WorkflowAssumption
<1> QED BY <1>1, <1>2, <1>3, Ordered, PTL
      DEF Spec, ImplementsRelay, Ci!Spec, Cd!Spec

-----------------------------------------------------------------------------
(* The last status is current.                                             *)

\* Uid u is not one of a later workflow than the copy or the server; a workflow
\* the informer has not seen yet is a later one.  u is gone when both are.
Past(i, u) ==
    /\ u <= changes
    /\ store[i] # None => u <= store[i].uid
    /\ server # None => u <= server.uid /\ (store[i] = None => u < server.uid)
Gone(i, u) ==
    /\ store[i] # None => u < store[i].uid
    /\ server # None => u < server.uid

\* Uids grow along the line too, and strictly over a deletion.
UidInv(i) ==
    /\ server # None => server.uid <= changes
    /\ store[i] # None => Past(i, store[i].uid)
    /\ handler[i] # None =>
        /\ Past(i, handler[i].uid)
        /\ \A k \in 1..Len(events[i]) :
            Deletes(events[i][k]) => Gone(i, handler[i].uid)
    /\ \A j \in 1..Len(events[i]) :
        /\ Past(i, WfOf(events[i][j]).uid)
        /\ \A k \in j..Len(events[i]) :
            Deletes(events[i][k]) => Gone(i, WfOf(events[i][j]).uid)

\* The workflow the handlers know after k notifications.
Then(i, k) == IF k = Len(events[i]) THEN store[i] ELSE events[i][k + 1].old

\* Each notification starts where the one before it ended, unless that was a
\* deletion.
ChainInv(i) ==
    \A k \in 1..Len(events[i]) :
        ~Deletes(events[i][k]) => Then(i, k) = events[i][k].new

\* The k-th notification is the last deletion in the queue; with k = 0, there
\* is none.
LastDelete(i, k) ==
    /\ k = 0 \/ Deletes(events[i][k])
    /\ \A j \in (k + 1)..Len(events[i]) : ~Deletes(events[i][j])

\* The status that will be received last, as far as is known.
Pending(i) == IF handler[i] # None THEN handler[i].status ELSE received[i]

\* A workflow that was listed with a status is not told, and it is known that
\* it is not; the status of any other one is the last one received, or will be
\* when the call in the handler succeeds, until the next notification.
CurrentInv(i) ==
    store[i] # None =>
        /\ \A k \in 1..Len(events[i]) :
            LastDelete(i, k) /\ Then(i, k).status # 0 => untold[i]
        /\ LastDelete(i, 0) /\ Then(i, 0).status # 0 =>
            /\ ~untold[i] => Pending(i) = Then(i, 0).status
            /\ handler[i] # None /\ handler[i].uid = store[i].uid =>
                handler[i].status = Then(i, 0).status

\* The inductive invariant of LastStatusIsCurrent.
TellsInv(i) == UidInv(i) /\ ChainInv(i) /\ CurrentInv(i)

\* A line that is not touched stays current.
LEMMA UntouchedTells ==
    ASSUME NEW i, TellsInv(i), UNCHANGED line(i)
    PROVE  TellsInv(i)'
<1>1. UidInv(i)'
  BY DEF line, TellsInv, UidInv, Past, Gone
<1>2. ChainInv(i)' /\ CurrentInv(i)'
  BY DEF line, TellsInv, ChainInv, CurrentInv, Then, LastDelete, Pending
<1> QED BY <1>1, <1>2 DEF TellsInv

\* A change on the server does not touch the line, and a new workflow has a
\* newer uid.
LEMMA ClusterTells ==
    ASSUME Typed, NEW i \in Informers, TellsInv(i), Cluster
    PROVE  TellsInv(i)'
<1>1. /\ changes' = changes + 1
      /\ server' # None => \/ server # None /\ server'.uid = server.uid
                           \/ server'.uid = changes + 1
      /\ UNCHANGED <<store[i], events[i], handler[i], received[i], untold[i]>>
  BY ClusterEffect
<1>2. \A u \in Nat : /\ Past(i, u) => Past(i, u)'
                     /\ Past(i, u) /\ Gone(i, u) => Gone(i, u)'
  BY <1>1, Numbers DEF Past, Gone
<1>3. UidInv(i)'
  <2>1. \A k \in 1..Len(events[i]) : WfOf(events[i][k]).uid \in Nat
    BY Numbers
  <2>2. store[i] # None => store[i].uid \in Nat
    BY Numbers
  <2>3. handler[i] # None => handler[i].uid \in Nat
    BY Numbers
  <2>4. server' # None => server'.uid <= changes'
    BY <1>1, Numbers DEF TellsInv, UidInv
  <2> QED BY <1>1, <1>2, <2>1, <2>2, <2>3, <2>4 DEF TellsInv, UidInv
<1>4. ChainInv(i)' /\ CurrentInv(i)'
  BY <1>1 DEF TellsInv, ChainInv, CurrentInv, Then, LastDelete, Pending
<1> QED BY <1>3, <1>4 DEF TellsInv

\* AddFunc is empty, and untold records what it did not publish.
LEMMA ListTells ==
    ASSUME Typed, NEW i \in Informers, TellsInv(i), ObserveWorkflow(i), store[i] = None
    PROVE  TellsInv(i)'
<1>1. /\ store'[i] = server /\ server # None /\ UNCHANGED <<server, changes>>
      /\ handler'[i] = handler[i] /\ events'[i] = events[i]
      /\ untold'[i] = (server.status # 0)
  BY ObserveEffect
<1>2. Len(events[i]) = 0 \/ Deletes(events[i][Len(events[i])])
  <2> SUFFICES ASSUME Len(events[i]) # 0, ~Deletes(events[i][Len(events[i])])
               PROVE  FALSE
    OBVIOUS
  <2>1. Len(events[i]) \in 1..Len(events[i])
    BY Numbers
  <2>2. store[i] = events[i][Len(events[i])].new
    BY <2>1 DEF TellsInv, ChainInv, Then
  <2> QED BY <2>1, <2>2, Numbers, NoneIs
<1>3. UidInv(i)'
  <2>1. \A u : Past(i, u) => Past(i, u)'
    BY <1>1 DEF Past
  <2>2. \A u : Gone(i, u) => Gone(i, u)'
    BY <1>1 DEF Gone
  <2>3. Past(i, server.uid)'
    BY <1>1, Numbers DEF TellsInv, UidInv, Past
  <2> QED BY <1>1, <2>1, <2>2, <2>3 DEF TellsInv, UidInv
<1> Len(events[i]) \in Nat
  BY Numbers
<1>4. \A k \in 0..Len(events[i]) :
        /\ k # Len(events[i]) => Then(i, k)' = Then(i, k)
        /\ k = Len(events[i]) => Then(i, k)' = server
        /\ LastDelete(i, k)' <=> LastDelete(i, k)
        /\ LastDelete(i, k) => k = Len(events[i])
  BY <1>1, <1>2 DEF Then, LastDelete
<1>5. ChainInv(i)'
  BY <1>1, <1>2, <1>4 DEF TellsInv, ChainInv
<1>6. CurrentInv(i)'
  <2>1. handler[i] # None => handler[i].uid # server.uid
    BY <1>1, Numbers DEF TellsInv, UidInv, Past
  <2>2. \A k \in 1..Len(events[i]) :
            LastDelete(i, k)' /\ Then(i, k)'.status # 0 => untold'[i]
    <3> SUFFICES ASSUME NEW k \in 1..Len(events[i]), LastDelete(i, k)',
                        Then(i, k)'.status # 0
                 PROVE  untold'[i]
      OBVIOUS
    <3>1. k = Len(events[i]) /\ Then(i, k)' = server
      BY <1>4
    <3> QED BY <1>1, <3>1
  <2>3. LastDelete(i, 0)' => Then(i, 0)' = server
    BY <1>4
  <2> QED BY <1>1, <2>1, <2>2, <2>3 DEF CurrentInv
<1> QED BY <1>3, <1>5, <1>6 DEF TellsInv

\* A watch event starts from the copy and ends at the new one.
LEMMA WatchTells ==
    ASSUME Typed, NEW i \in Informers, TellsInv(i), ObserveWorkflow(i), store[i] # None
    PROVE  TellsInv(i)'
<1>1. PICK e \in Notifications :
      /\ store'[i] = server
      /\ UNCHANGED <<server, changes, handler[i], received[i], untold[i]>>
      /\ Len(events'[i]) = Len(events[i]) + 1
      /\ \A k \in 1..Len(events[i]) : events'[i][k] = events[i][k]
      /\ events'[i][Len(events[i]) + 1] = e
      /\ e.old = store[i] /\ e.new = server
      /\ Deletes(e) <=> server = None
  BY ObserveEffect
<1>2. /\ Len(events[i]) \in Nat
      /\ \A k \in 1..Len(events'[i]) :
            k \in 1..Len(events[i]) \/ k = Len(events[i]) + 1
  BY <1>1, Numbers
<1>m. PICK m \in Nat : m = Len(events[i]) + 1
  BY <1>2
<1>3. UidInv(i)'
  <2>1. \A u : Past(i, u) => Past(i, u)'
    BY <1>1 DEF Past
  <2>2. \A u : (Gone(i, u) \/ Deletes(e)) => Gone(i, u)'
    BY <1>1 DEF Gone
  <2>3. WfOf(e) = IF server = None THEN store[i] ELSE server
    BY <1>1 DEF WfOf
  <2>4. server # None => Past(i, server.uid)'
    BY <1>1, Numbers DEF TellsInv, UidInv, Past
  <2>5. PICK u : u = WfOf(e).uid
    OBVIOUS
  <2>6. Past(i, u)'
    BY <1>1, <2>1, <2>3, <2>4, <2>5 DEF TellsInv, UidInv
  <2>7. ASSUME handler'[i] # None
        PROVE  (/\ Past(i, handler[i].uid)
                /\ \A k \in 1..Len(events[i]) :
                    Deletes(events[i][k]) => Gone(i, handler[i].uid))'
    BY <1>1, <1>2, <2>1, <2>2, <2>7 DEF TellsInv, UidInv
  <2>8. ASSUME NEW j \in 1..Len(events'[i])
        PROVE  (/\ Past(i, WfOf(events[i][j]).uid)
                /\ \A k \in j..Len(events[i]) :
                    Deletes(events[i][k]) => Gone(i, WfOf(events[i][j]).uid))'
    <3>1. CASE j = m
      BY <1>m, <1>1, <1>2, <2>2, <2>5, <2>6, <3>1
    <3>2. CASE j \in 1..Len(events[i])
      <4>1. PICK w : w = WfOf(events[i][j]).uid
        OBVIOUS
      <4>2. /\ Past(i, w)'
            /\ \A k \in j..Len(events[i]) : Deletes(events[i][k]) => Gone(i, w)'
        BY <2>1, <2>2, <3>2, <4>1 DEF TellsInv, UidInv
      <4>3. \A k \in j..Len(events'[i]) : Deletes(events'[i][k]) => Gone(i, w)'
        BY <1>1, <1>2, <2>2, <3>2, <4>2
      <4>4. w = WfOf(events'[i][j]).uid
        BY <1>1, <3>2, <4>1
      <4> QED BY <4>2, <4>3, <4>4 DEF Deletes, WfOf
    <3> QED BY <1>m, <1>2, <3>1, <3>2
  <2>9. store'[i] # None => Past(i, store[i].uid)'
    BY <1>1, <2>4
  <2>10. server' # None => server'.uid <= changes'
    BY <1>1 DEF TellsInv, UidInv
  <2> QED BY <2>7, <2>8, <2>9, <2>10 DEF UidInv
<1>5. \A k \in 0..Len(events[i]) :
        /\ Then(i, k)' = Then(i, k)
        /\ ~Deletes(e) /\ LastDelete(i, k)' => LastDelete(i, k)
  <2> SUFFICES ASSUME NEW k \in 0..Len(events[i])
               PROVE  /\ Then(i, k)' = Then(i, k)
                      /\ LastDelete(i, k)' => LastDelete(i, k)
    OBVIOUS
  <2>1. Then(i, k)' = Then(i, k)
    <3>1. CASE k = Len(events[i])
      BY <1>1, <1>2, <3>1 DEF Then
    <3>2. CASE k # Len(events[i])
      <4>1. k + 1 \in 1..Len(events[i]) /\ k # Len(events'[i])
        BY <1>1, <1>2, <3>2
      <4> QED BY <1>1, <3>2, <4>1 DEF Then
    <3> QED BY <3>1, <3>2
  <2>2. LastDelete(i, k)' => LastDelete(i, k)
    BY <1>1, <1>2 DEF LastDelete, Deletes
  <2> QED BY <2>1, <2>2
<1>6. ChainInv(i)'
  <2>1. Then(i, m)' = server
    BY <1>m, <1>1, <1>2 DEF Then
  <2> QED BY <1>m, <1>1, <1>2, <1>5, <2>1 DEF TellsInv, ChainInv
<1>7. CurrentInv(i)'
  <2> SUFFICES ASSUME server # None PROVE CurrentInv(i)'
    BY <1>1 DEF CurrentInv
  <2>1. ~LastDelete(i, m)'
    BY <1>m, <1>1, <1>2 DEF LastDelete
  <2>2. \A k \in 1..Len(events'[i]) :
            LastDelete(i, k)' /\ Then(i, k)'.status # 0 => untold'[i]
    BY <1>m, <1>1, <1>2, <1>5, <2>1 DEF TellsInv, CurrentInv
  <2>3. handler[i] # None /\ handler[i].uid = server.uid => handler[i].uid = store[i].uid
    BY Numbers DEF TellsInv, UidInv, Past
  <2>4. Pending(i)' = Pending(i)
    BY <1>1 DEF Pending
  <2>5. LastDelete(i, 0)' /\ Then(i, 0)'.status # 0 =>
            /\ ~untold[i] => Pending(i) = Then(i, 0).status
            /\ handler[i] # None /\ handler[i].uid = server.uid =>
                handler[i].status = Then(i, 0).status
    BY <1>1, <1>2, <1>5, <2>3 DEF TellsInv, CurrentInv
  <2>6. Then(i, 0)' = Then(i, 0)
    BY <1>2, <1>5
  <2> QED BY <1>1, <2>2, <2>4, <2>5, <2>6 DEF CurrentInv
<1> QED BY <1>3, <1>6, <1>7 DEF TellsInv

\* A handler skips deletions and workflows without a status only.
LEMMA HandleTells ==
    ASSUME Typed, NEW i \in Informers, TellsInv(i), Handle(i)
    PROVE  TellsInv(i)'
<1>1. PICK e \in Notifications :
      /\ handler[i] = None /\ Len(events[i]) > 0 /\ events[i][1] = e
      /\ IF Deletes(e) \/ e.new.status = 0 THEN handler'[i] = None
         ELSE /\ handler'[i] # None
              /\ handler'[i].uid = e.new.uid /\ handler'[i].status = e.new.status
      /\ UNCHANGED <<server, changes, store[i], received[i], untold[i]>>
      /\ Len(events'[i]) = Len(events[i]) - 1
      /\ \A k \in 1..Len(events'[i]) : events'[i][k] = events[i][k + 1]
  BY HandleEffect
<1>2. Len(events[i]) \in Nat
  BY Numbers
<1>3. /\ Len(events'[i]) \in Nat /\ 1 \in 1..Len(events[i])
      /\ \A k \in 1..Len(events'[i]) : k + 1 \in 1..Len(events[i])
  BY <1>1, <1>2
<1>4. UidInv(i)'
  <2>1. \A u : (Past(i, u) => Past(i, u)') /\ (Gone(i, u) => Gone(i, u)')
    BY <1>1 DEF Past, Gone
  <2>2. ASSUME handler'[i] # None
        PROVE  (/\ Past(i, handler[i].uid)
                /\ \A k \in 1..Len(events[i]) :
                    Deletes(events[i][k]) => Gone(i, handler[i].uid))'
    <3>1. PICK u : u = handler'[i].uid
      OBVIOUS
    <3>2. u = WfOf(e).uid
      BY <1>1, <2>2, <3>1 DEF WfOf
    <3>3. Past(i, u) /\ \A k \in 1..Len(events[i]) :
                            Deletes(events[i][k]) => Gone(i, u)
      BY <1>1, <1>3, <3>2 DEF TellsInv, UidInv
    <3>4. \A k \in 1..Len(events'[i]) : Deletes(events'[i][k]) => Gone(i, u)'
      BY <1>1, <1>3, <2>1, <3>3
    <3> QED BY <2>1, <3>1, <3>3, <3>4 DEF Deletes
  <2>3. ASSUME NEW j \in 1..Len(events'[i])
        PROVE  (/\ Past(i, WfOf(events[i][j]).uid)
                /\ \A k \in j..Len(events[i]) :
                    Deletes(events[i][k]) => Gone(i, WfOf(events[i][j]).uid))'
    <3>1. PICK u : u = WfOf(events[i][j + 1]).uid
      OBVIOUS
    <3>2. u = WfOf(events'[i][j]).uid
      BY <1>1, <3>1
    <3>3. Past(i, u) /\ \A k \in (j + 1)..Len(events[i]) :
                            Deletes(events[i][k]) => Gone(i, u)
      BY <1>3, <3>1 DEF TellsInv, UidInv
    <3>4. \A k \in j..Len(events'[i]) :
            /\ k + 1 \in (j + 1)..Len(events[i])
            /\ events'[i][k] = events[i][k + 1]
      BY <1>1, <1>2
    <3>5. \A k \in j..Len(events'[i]) : Deletes(events'[i][k]) => Gone(i, u)'
      BY <2>1, <3>3, <3>4
    <3> QED BY <2>1, <3>2, <3>3, <3>5 DEF Deletes, WfOf
  <2>4. /\ store'[i] # None => Past(i, store[i].uid)'
        /\ server' # None => server'.uid <= changes'
    BY <1>1, <2>1 DEF TellsInv, UidInv
  <2> QED BY <2>2, <2>3, <2>4 DEF UidInv
<1>5. /\ \A k \in 0..Len(events'[i]) : Then(i, k)' = Then(i, k + 1)
      /\ \A k \in 1..Len(events'[i]) : LastDelete(i, k)' => LastDelete(i, k + 1)
      /\ LastDelete(i, 0)' =>
            IF Deletes(e) THEN LastDelete(i, 1) ELSE LastDelete(i, 0)
  <2>1. ASSUME NEW k \in 0..Len(events'[i]) PROVE Then(i, k)' = Then(i, k + 1)
    <3>1. CASE k = Len(events'[i])
      BY <1>1, <1>2, <3>1 DEF Then
    <3>2. CASE k # Len(events'[i])
      <4>1. k + 1 \in 1..Len(events'[i]) /\ k + 1 # Len(events[i])
        BY <1>1, <1>2, <3>2
      <4> QED BY <1>1, <3>2, <4>1 DEF Then
    <3> QED BY <3>1, <3>2
  <2>2. ASSUME NEW k \in 0..Len(events'[i]),
               \A j \in (k + 1)..Len(events'[i]) : ~Deletes(events'[i][j]),
               NEW j \in (k + 2)..Len(events[i])
        PROVE  ~Deletes(events[i][j])
    <3>1. j - 1 \in (k + 1)..Len(events'[i]) /\ j - 1 \in 1..Len(events'[i])
          /\ (j - 1) + 1 = j
      BY <1>1, <1>2
    <3> QED BY <1>1, <2>2, <3>1
  <2>3. ASSUME NEW k \in 1..Len(events'[i]), LastDelete(i, k)'
        PROVE  LastDelete(i, k + 1)
    <3>1. /\ Deletes(events'[i][k])
          /\ \A j \in (k + 1)..Len(events'[i]) : ~Deletes(events'[i][j])
      BY <2>3 DEF LastDelete, Deletes
    <3>2. \A j \in (k + 2)..Len(events[i]) : ~Deletes(events[i][j])
      BY <2>2, <3>1
    <3> QED BY <1>1, <3>1, <3>2 DEF LastDelete
  <2>4. ASSUME LastDelete(i, 0)'
        PROVE  IF Deletes(e) THEN LastDelete(i, 1) ELSE LastDelete(i, 0)
    <3>1. \A j \in (0 + 1)..Len(events'[i]) : ~Deletes(events'[i][j])
      BY <2>4 DEF LastDelete, Deletes
    <3>2. 0 \in 0..Len(events'[i])
      BY <1>3
    <3>3. \A j \in (0 + 2)..Len(events[i]) : ~Deletes(events[i][j])
      BY <2>2, <3>1, <3>2
    <3> QED BY <1>1, <1>2, <3>3 DEF LastDelete
  <2> QED BY <2>1, <2>3, <2>4
<1>6. ChainInv(i)'
  BY <1>1, <1>3, <1>5 DEF TellsInv, ChainInv, Deletes
<1>7. CurrentInv(i)'
  <2> SUFFICES ASSUME store[i] # None PROVE CurrentInv(i)'
    BY <1>1 DEF CurrentInv
  <2>1. \A k \in 1..Len(events'[i]) :
            LastDelete(i, k)' /\ Then(i, k)'.status # 0 => untold'[i]
    BY <1>1, <1>3, <1>5 DEF TellsInv, CurrentInv
  <2>2. /\ Then(i, 0)' = Then(i, 1)
        /\ Pending(i)' = IF handler'[i] # None THEN handler'[i].status ELSE received[i]
    BY <1>1, <1>3, <1>5 DEF Pending
  <2>3. ASSUME LastDelete(i, 0)', Then(i, 1).status # 0
        PROVE  /\ ~untold[i] => Pending(i)' = Then(i, 1).status
               /\ handler'[i] # None => handler'[i].status = Then(i, 1).status
    <3>1. CASE Deletes(e)
      BY <1>1, <1>3, <1>5, <2>3, <3>1 DEF TellsInv, CurrentInv
    <3>2. CASE ~Deletes(e)
      <4>1. Then(i, 1) = e.new
        BY <1>1, <1>3, <3>2 DEF TellsInv, ChainInv
      <4> QED BY <1>1, <2>2, <2>3, <3>2, <4>1
    <3> QED BY <3>1, <3>2
  <2> QED BY <1>1, <2>1, <2>2, <2>3 DEF CurrentInv
<1> QED BY <1>4, <1>6, <1>7 DEF TellsInv

\* A call that ends was received, or is recorded as untold.
LEMMA CallTells ==
    ASSUME Typed, NEW i \in Informers, TellsInv(i), Publish(i) \/ Post(i)
    PROVE  TellsInv(i)'
<1>1. /\ handler[i] # None
      /\ UNCHANGED <<server, changes, store[i], events[i]>>
      /\ \/ /\ handler'[i] # None /\ untold'[i] = untold[i]
            /\ handler'[i].uid = handler[i].uid
            /\ handler'[i].status = handler[i].status
         \/ /\ handler'[i] = None
            /\ \/ untold'[i]
               \/ /\ received'[i] = handler[i].status
                  /\ untold'[i] = (untold[i] /\ store[i] # None
                                   /\ store[i].uid # handler[i].uid)
  BY CallEffect
<1>2. UidInv(i)'
  <2>1. \A u : (Past(i, u) => Past(i, u)') /\ (Gone(i, u) => Gone(i, u)')
    BY <1>1 DEF Past, Gone
  <2> QED BY <1>1, <2>1 DEF TellsInv, UidInv
<1>3. /\ ChainInv(i)'
      /\ \A k : Then(i, k)' = Then(i, k) /\ (LastDelete(i, k)' <=> LastDelete(i, k))
  BY <1>1 DEF TellsInv, ChainInv, Then, LastDelete
<1>4. CurrentInv(i)'
  <2> SUFFICES ASSUME store[i] # None PROVE CurrentInv(i)'
    BY <1>1 DEF CurrentInv
  <2>1. CASE handler'[i] # None
    <3>1. Pending(i) = handler[i].status /\ Pending(i)' = handler[i].status
      BY <1>1, <2>1 DEF Pending
    <3> QED BY <1>1, <1>3, <2>1, <3>1 DEF TellsInv, CurrentInv
  <2>2. CASE handler'[i] = None /\ untold'[i]
    BY <2>2 DEF CurrentInv
  <2>3. CASE handler'[i] = None /\ ~untold'[i]
    <3>1. /\ Pending(i) = handler[i].status /\ Pending(i)' = handler[i].status
          /\ ~untold[i] \/ store[i].uid = handler[i].uid
      BY <1>1, <2>3 DEF Pending
    <3>2. \A k \in 1..Len(events[i]) : ~(LastDelete(i, k) /\ Then(i, k).status # 0)
      <4> SUFFICES ASSUME NEW k \in 1..Len(events[i]), LastDelete(i, k),
                          Then(i, k).status # 0
                   PROVE  FALSE
        OBVIOUS
      <4>1. k # 0
        OBVIOUS
      <4>2. Deletes(events[i][k]) /\ store[i].uid = handler[i].uid
        BY <3>1, <4>1 DEF LastDelete, TellsInv, CurrentInv
      <4>3. handler[i].uid < store[i].uid
        BY <1>1, <4>2 DEF TellsInv, UidInv, Gone
      <4> QED BY <1>1, <4>2, <4>3, Numbers
    <3>3. LastDelete(i, 0) /\ Then(i, 0).status # 0 =>
            handler[i].status = Then(i, 0).status
      BY <1>1, <3>1 DEF TellsInv, CurrentInv
    <3> QED BY <1>1, <1>3, <2>3, <3>1, <3>2, <3>3 DEF CurrentInv
  <2> QED BY <2>1, <2>2, <2>3
<1> QED BY <1>2, <1>3, <1>4 DEF TellsInv

\* A late request may bring back an old status, and is recorded as untold.
LEMMA ArriveTells ==
    ASSUME Typed, NEW r \in Requests, \A i \in Informers : TellsInv(i), Arrive(r)
    PROVE  \A i \in Informers : TellsInv(i)'
<1>1. PICK i \in Informers :
        /\ \A j \in Informers \ {i} : UNCHANGED line(j)
        /\ untold'[i]
        /\ UNCHANGED <<server, changes, store[i], events[i], handler[i]>>
  BY ArriveEffect
<1>2. UidInv(i)' /\ ChainInv(i)'
  BY <1>1 DEF TellsInv, UidInv, ChainInv, Then, Past, Gone
<1>3. CurrentInv(i)'
  <2>1. \A k : Then(i, k)' = Then(i, k) /\ (LastDelete(i, k)' <=> LastDelete(i, k))
    BY <1>1 DEF Then, LastDelete
  <2> QED BY <1>1, <2>1 DEF TellsInv, CurrentInv
<1>4. TellsInv(i)'
  BY <1>2, <1>3 DEF TellsInv
<1> QED BY <1>1, <1>4, UntouchedTells

\* A restart empties the store, so that nothing is left to be told.
LEMMA RestartTells ==
    ASSUME Typed, NEW i \in Informers, TellsInv(i), Restart
    PROVE  TellsInv(i)'
<1>1. /\ store'[i] = None /\ Len(events'[i]) = 0 /\ handler'[i] = None
      /\ UNCHANGED <<server, changes>>
  BY RestartEffect
<1> QED BY <1>1 DEF TellsInv, UidInv, ChainInv, CurrentInv

\* At first there is nothing to tell.
LEMMA InitTells ==
    ASSUME Init
    PROVE  \A i \in Informers : TellsInv(i)
<1>1. /\ server # None => server.uid <= changes
      /\ \A i \in Informers :
            store[i] = None /\ Len(events[i]) = 0 /\ handler[i] = None
  BY InitEffect
<1>2. ASSUME NEW i \in Informers PROVE UidInv(i)
  BY <1>1 DEF UidInv
<1>3. ASSUME NEW i \in Informers PROVE ChainInv(i) /\ CurrentInv(i)
  BY <1>1 DEF ChainInv, CurrentInv
<1> QED BY <1>2, <1>3 DEF TellsInv

\* It holds for every informer.
Current == \A i \in Informers : TellsInv(i)

\* Every step keeps what makes the last status current.
LEMMA NextTells ==
    ASSUME Typed, Current, [Next]_vars
    PROVE  Current'
<1> SUFFICES \A i \in Informers : TellsInv(i)'
  BY DEF Current
<1> \A i \in Informers : TellsInv(i)
  BY DEF Current
<1>1. CASE UNCHANGED vars
  <2>1. \A i : UNCHANGED line(i)
    BY <1>1 DEF vars, watchVars, line, StraysOf
  <2> QED BY <2>1, UntouchedTells
<1>2. CASE Cluster
  BY <1>2, ClusterTells
<1>3. ASSUME NEW i \in Informers, ObserveWorkflow(i) \/ Handlers(i)
      PROVE  \A j \in Informers : TellsInv(j)'
  <2>1. CASE ObserveWorkflow(i)
    BY <2>1, ObserveEffect, ListTells, WatchTells, UntouchedTells
  <2>2. CASE Handle(i)
    BY <2>2, HandleEffect, HandleTells, UntouchedTells
  <2>3. CASE Publish(i) \/ Post(i)
    BY <2>3, CallEffect, CallTells, UntouchedTells
  <2> QED BY <1>3, <2>1, <2>2, <2>3 DEF Handlers
<1>4. ASSUME NEW r \in Requests, Arrive(r)
      PROVE  \A i \in Informers : TellsInv(i)'
  BY <1>4, ArriveTells
<1>5. CASE Restart
  BY <1>5, RestartTells
<1> QED BY <1>1, <1>2, <1>3, <1>4, <1>5 DEF Next

\* Whenever there is nothing left to handle, the last status received under an
\* informer's event name is the one of the workflow in its store, unless the
\* history says why it is not: for every configuration, retry count, number of
\* changes, length of the queue, failures and restarts.
THEOREM StatusIsCurrent == Spec => []LastStatusIsCurrent
<1>1. Init => Current
  BY InitTells DEF Current
<1>2. (Typed /\ Order) /\ Current /\ [Next]_vars => Current'
  BY NextTells
<1>3. Current => LastStatusIsCurrent
  <2> SUFFICES ASSUME Current, NEW i \in Informers,
                      store[i] # None, store[i].status # 0,
                      events[i] = << >>, handler[i] = None, ~untold[i]
               PROVE  received[i] = store[i].status
    BY DEF LastStatusIsCurrent
  <2>1. /\ Then(i, 0) = store[i] /\ LastDelete(i, 0)
        /\ Pending(i) = received[i]
    BY EmptyQueues DEF Then, LastDelete, Pending
  <2> QED BY <2>1 DEF Current, TellsInv, CurrentInv
<1> QED BY <1>1, <1>2, <1>3, Ordered, PTL DEF Spec
=============================================================================
