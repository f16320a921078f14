------------------------- MODULE K8sInformerProofs -------------------------
(***************************************************************************)
(* Theorems about the registry of cluster informers (module K8sInformer),  *)
(* for any clusters and bounds: types, the inductive invariant RegistryInv *)
(* and what follows from it.                                               *)
(***************************************************************************)
EXTENDS K8sInformer, FiniteSetTheorems, TLAPS

-----------------------------------------------------------------------------
(* Type correctness.                                                       *)

\* The first list of the secret informer is a sequence of events.
LEMMA ListingType ==
    ASSUME TypeOK, NEW s \in Listings({c \in Clusters : secrets[c] # "none"})
    PROVE  [i \in DOMAIN s |-> [kind |-> "change", cluster |-> s[i],
                                action |-> secrets[s[i]]]] \in Seq(Events)
<1> DEFINE S == {c \in Clusters : secrets[c] # "none"}
<1>1. Cardinality(S) \in Nat
  BY FS_Subset, FS_CardinalityType, ClustersAssumption
<1>2. s \in [1..Cardinality(S) -> S]
  BY DEF Listings
<1>3. \A i \in 1..Cardinality(S) :
        [kind |-> "change", cluster |-> s[i], action |-> secrets[s[i]]]
            \in Events
  <2> SUFFICES ASSUME NEW i \in 1..Cardinality(S)
               PROVE  s[i] \in Clusters /\ secrets[s[i]] \in Actions
    BY DEF Events
  <2>1. s[i] \in S
    BY <1>2
  <2> QED BY <2>1 DEF TypeOK
<1> HIDE DEF S
<1>4. DOMAIN s = 1..Cardinality(S)
  BY <1>2
<1>5. ASSUME NEW n \in Nat, NEW f \in [1..n -> Events]
      PROVE  f \in Seq(Events)
  BY <1>5
<1> QED BY <1>1, <1>3, <1>4, <1>5

\* The conjuncts of TypeOK about control points and locals.
ControlOK ==
    /\ pc \in [Threads -> MainPoints \cup ListenerPoints]
    /\ frame \in [Threads -> Frames]
    /\ \A t \in Threads : Fits(t, pc[t], frame[t])

\* A goroutine outside a call has no locals.
LEMMA NoFrameFits ==
    ASSUME NEW t \in Threads,
           NEW p \in IF t = "main" THEN MainPoints ELSE ListenerPoints,
           p \notin CallPoints \cup {"syncFind", "deleteFind"}
    PROVE  Fits(t, p, NoFrame)
<1>1. NoFrame \in Frames
  BY BoundsAssumption DEF NoFrame, Frames, Configs
<1>2. NoFrame.stopper = NoChan
  BY DEF NoFrame
<1> QED BY <1>1, <1>2 DEF Fits, CallPoints

\* Going to a control point with locals that fit keeps ControlOK.
LEMMA GoType ==
    ASSUME TypeOK, NEW t \in Threads, NEW p, NEW f, Go(t, p, f), Fits(t, p, f)
    PROVE  ControlOK'
<1>1. f \in Frames /\ p \in MainPoints \cup ListenerPoints
  BY DEF Fits
<1>2. /\ frame' \in [Threads -> Frames]
      /\ pc' \in [Threads -> MainPoints \cup ListenerPoints]
  BY <1>1 DEF TypeOK, Go
<1>3. ASSUME NEW u \in Threads
      PROVE  Fits(u, pc'[u], frame'[u])
  <2>1. CASE u = t
    BY <2>1 DEF TypeOK, Go
  <2>2. CASE u # t
    <3>1. pc'[u] = pc[u] /\ frame'[u] = frame[u]
      BY <2>2 DEF TypeOK, Go
    <3> QED BY <3>1 DEF TypeOK
  <2> QED BY <2>1, <2>2
<1>4. \A u \in Threads : Fits(u, pc[u], frame[u])'
  BY <1>3 DEF Fits, Frames, Configs, NoFrame, MainPoints, ListenerPoints,
              CallPoints
<1> QED BY <1>2, <1>4 DEF ControlOK

\* What Fits says of the locals of a goroutine inside a call.
LEMMA LocalsInCall ==
    ASSUME TypeOK, NEW t \in Threads,
           pc[t] \in CallPoints \cup {"syncFind", "deleteFind"}
    PROVE  /\ frame[t] \in Frames
           /\ frame[t].cluster \in Clusters
           /\ frame[t].op # "none"
BY DEF TypeOK, Fits

\* Returning from a call, or from stopSystemWorkflowInformer into the rest of
\* syncSystemWorkflowInformer, keeps ControlOK.
LEMMA ReturnType ==
    ASSUME TypeOK, NEW t \in Threads, Return(t)
    PROVE  ControlOK'
<1> DEFINE p == IF t = "listener" THEN "idle"
                ELSE IF frame[t].op = "shutdown" THEN "stopNext"
                ELSE "startNext"
<1>1. /\ p \in IF t = "main" THEN MainPoints ELSE ListenerPoints
      /\ p \notin CallPoints \cup {"syncFind", "deleteFind"}
  BY DEF Threads, MainPoints, ListenerPoints, CallPoints
<1>2. Go(t, p, NoFrame)
  BY DEF Return
<1> HIDE DEF p
<1> QED BY <1>1, <1>2, NoFrameFits, GoType

\* The same for the return from a stop.
LEMMA StopReturnType ==
    ASSUME TypeOK, NEW t \in Threads, pc[t] \in {"lookup", "delete"},
           StopReturn(t)
    PROVE  ControlOK'
<1> DEFINE f == [frame[t] EXCEPT !.stopper = NoChan]
<1>1. CASE frame[t].op = "sync"
  <2>1. t = "listener" /\ Fits(t, pc[t], frame[t])
    BY <1>1 DEF TypeOK, Fits, Threads
  <2>2. frame[t] \in Frames /\ frame[t].cluster \in Clusters
    BY LocalsInCall DEF CallPoints
  <2>3. f \in Frames /\ f.cluster \in Clusters /\ f.op = "sync"
        /\ f.stopper = NoChan
    BY <1>1, <2>2 DEF Frames
  <2> HIDE DEF f
  <2>4. Fits(t, "find", f)
    BY <2>1, <2>3 DEF Fits, CallPoints, ListenerPoints
  <2>5. Go(t, "find", f)
    BY <1>1 DEF StopReturn, f
  <2> QED BY <2>4, <2>5, GoType
<1>2. CASE frame[t].op # "sync"
  BY <1>2, ReturnType DEF StopReturn
<1> QED BY <1>1, <1>2

\* A process that ends leaves typed, empty memory.
LEMMA EndType ==
    ASSUME TypeOK, NEW how \in {"exit", "panic", "mapFault", "killed"},
           EndProcess(how)
    PROVE  TypeOK'
<1>1. /\ Fits("main", "down", NoFrame)
      /\ Fits("listener", "off", NoFrame)
  BY NoFrameFits DEF Threads, MainPoints, ListenerPoints, CallPoints
<1>2. \A t \in Threads : Fits(t, pc'[t], frame'[t])
  BY <1>1 DEF EndProcess, NoCalls, Threads
<1>3. (\A t \in Threads : Fits(t, pc[t], frame[t]))'
  BY <1>2 DEF Fits, Frames, Configs, NoFrame, MainPoints, ListenerPoints,
              CallPoints
<1>4. frame' \in [Threads -> Frames]
  BY <1>1 DEF EndProcess, NoCalls, Fits
<1>5. pc' \in [Threads -> MainPoints \cup ListenerPoints]
  BY DEF EndProcess, MainPoints, ListenerPoints
<1> QED BY <1>3, <1>4, <1>5
        DEF TypeOK, EndProcess, EmptyRegistry, NothingRuns

\* Steps of the two procedures both goroutines call.
LEMMA CallType ==
    ASSUME TypeOK, NEW t \in Threads, Call(t)
    PROVE  TypeOK'
<1> DEFINE c == frame[t].cluster
<1>0. pc[t] \in CallPoints /\ Fits(t, pc[t], frame[t])
  BY DEF TypeOK, Call, FindById, CheckExists, CreateInformer, StoreStopper,
         LookupStopper, CloseStopper, DeleteStopper, CallPoints
<1>a. frame[t] \in Frames /\ c \in Clusters /\ frame[t].op # "none"
  BY <1>0, LocalsInCall
<1>1. CASE FindById(t)
  <2>1. faults' \in 0..MaxFaults
    BY <1>1, BoundsAssumption
       DEF FindById, Found, NotFound, Fault, TypeOK
  <2>2. ControlOK'
    <3> DEFINE f == [frame[t] EXCEPT !.config = db[c].config]
    <3>1. CASE Go(t, "check", f)
      <4>1. db[c].config \in Configs
        BY <1>a DEF TypeOK
      <4>2. f \in Frames /\ f.cluster = c /\ f.op = frame[t].op
            /\ f.stopper = frame[t].stopper
        BY <4>1, <1>a DEF Frames
      <4> HIDE DEF f
      <4>3. Fits(t, "check", f)
        BY <1>0, <1>1, <1>a, <4>2
           DEF FindById, Fits, CallPoints, MainPoints, ListenerPoints
      <4> QED BY <3>1, <4>3, GoType
    <3> QED BY <1>1, <3>1, ReturnType DEF FindById
  <2> QED BY <1>1, <2>1, <2>2 DEF FindById, TypeOK, ControlOK, world, maps
<1>2. CASE CheckExists(t)
  <2>1. CASE Go(t, "create", frame[t])
    <3>1. Fits(t, "create", frame[t])
      BY <1>0, <1>2, <1>a
         DEF CheckExists, Fits, CallPoints, MainPoints, ListenerPoints
    <3> QED BY <1>2, <2>1, <3>1, GoType
            DEF CheckExists, TypeOK, ControlOK, world, maps
  <2> QED BY <1>2, <2>1, ReturnType
          DEF CheckExists, TypeOK, ControlOK, world, maps
<1>3. CASE CreateInformer(t)
  <2>1. CASE Fault /\ Return(t) /\ UNCHANGED informer
    <3>1. faults' \in 0..MaxFaults
      BY <2>1, BoundsAssumption DEF Fault, TypeOK
    <3> QED BY <1>3, <2>1, <3>1, ReturnType
            DEF CreateInformer, TypeOK, ControlOK, world
  <2>2. ASSUME NEW ch \in FreshChans,
               informer' = [informer EXCEPT ![ch] =
                    [cluster |-> frame[t].cluster, config |-> frame[t].config]],
               Go(t, "store", [frame[t] EXCEPT !.stopper = ch]),
               UNCHANGED faults
        PROVE  TypeOK'
    <3> DEFINE f == [frame[t] EXCEPT !.stopper = ch]
    <3>1. ch \in Chans
      BY DEF FreshChans
    <3>2. f \in Frames /\ f.cluster = c /\ f.op = frame[t].op /\ f.stopper = ch
      BY <3>1, <1>a DEF Frames
    <3>3. informer' \in [Chans -> Informers \cup {NoInformer}]
      <4>1. [cluster |-> c, config |-> frame[t].config] \in Informers
        BY <1>a DEF Informers, Frames
      <4> QED BY <4>1, <2>2 DEF TypeOK
    <3>4. Go(t, "store", f)
      BY <2>2
    <3> HIDE DEF f
    <3>5. Fits(t, "store", f)
      BY <1>0, <1>3, <1>a, <3>1, <3>2
         DEF CreateInformer, Fits, CallPoints, MainPoints, ListenerPoints
    <3> QED BY <1>3, <2>2, <3>3, <3>4, <3>5, GoType
            DEF CreateInformer, TypeOK, ControlOK, world
  <2> QED BY <1>3, <2>1, <2>2 DEF CreateInformer, ClusterClientError
<1>4. CASE StoreStopper(t)
  <2>1. frame[t].stopper \in Chans
    BY <1>0, <1>4 DEF StoreStopper, Fits
  <2>2. informerStopper' \in [Clusters -> Chans \cup {NoChan}]
    BY <1>4, <2>1 DEF StoreStopper, TypeOK
  <2> QED BY <1>4, <2>2, ReturnType DEF StoreStopper, TypeOK, ControlOK, world
<1>5. CASE LookupStopper(t)
  <2> DEFINE ch == informerStopper[c]
             f == [frame[t] EXCEPT !.stopper = ch]
  <2>1. CASE ch # NoChan /\ Go(t, "close", f)
    <3>1. ch \in Chans
      BY <2>1, <1>a DEF TypeOK
    <3>2. f \in Frames /\ f.cluster = c /\ f.op = frame[t].op /\ f.stopper = ch
      BY <3>1, <1>a DEF Frames
    <3> HIDE DEF f
    <3>3. Fits(t, "close", f)
      BY <1>0, <1>5, <1>a, <3>1, <3>2
         DEF LookupStopper, Fits, CallPoints, MainPoints, ListenerPoints
    <3> QED BY <1>5, <2>1, <3>3, GoType
            DEF LookupStopper, TypeOK, ControlOK, world, maps
  <2>2. CASE StopReturn(t)
    <3>1. ControlOK'
      BY <1>5, <2>2, StopReturnType DEF LookupStopper
    <3> QED BY <1>5, <3>1 DEF LookupStopper, TypeOK, ControlOK, world, maps
  <2> QED BY <1>5, <2>1, <2>2 DEF LookupStopper
<1>6. CASE CloseStopper(t)
  <2>1. CASE EndProcess("panic")
    BY <2>1, EndType
  <2>2. CASE ~EndProcess("panic")
    <3>1. Fits(t, "delete", frame[t])
      BY <1>0, <1>6, <1>a
         DEF CloseStopper, Fits, CallPoints, MainPoints, ListenerPoints
    <3>2. informer' \in [Chans -> Informers \cup {NoInformer}]
      BY <1>6, <2>2 DEF CloseStopper, TypeOK
    <3> QED BY <1>6, <2>2, <3>1, <3>2, GoType
            DEF CloseStopper, TypeOK, ControlOK, world
  <2> QED BY <2>1, <2>2
<1>7. CASE DeleteStopper(t)
  <2>1. informerStopper' \in [Clusters -> Chans \cup {NoChan}]
    BY <1>7 DEF DeleteStopper, TypeOK
  <2>2. ControlOK'
    BY <1>7, StopReturnType DEF DeleteStopper
  <2> QED BY <1>7, <2>1, <2>2 DEF DeleteStopper, TypeOK, ControlOK, world
<1> QED BY <1>1, <1>2, <1>3, <1>4, <1>5, <1>6, <1>7 DEF Call

\* A call is made with a cluster and no channel.
LEMMA InvokeType ==
    ASSUME TypeOK, NEW t \in Threads, NEW c \in Clusters,
           NEW op \in {"start", "sync", "delete", "shutdown"},
           NEW p \in {"find", "lookup", "syncFind", "deleteFind"},
           t = "main" => \/ p = "find" /\ op = "start"
                         \/ p = "lookup" /\ op = "shutdown",
           Invoke(t, op, c, p)
    PROVE  ControlOK'
<1> DEFINE f == [op |-> op, cluster |-> c, config |-> 0, stopper |-> NoChan]
<1>1. f \in Frames /\ f.op = op /\ f.cluster = c /\ f.stopper = NoChan
  BY BoundsAssumption DEF Frames, Configs
<1>2. Go(t, p, f)
  BY DEF Invoke
<1> HIDE DEF f
<1>3. p \in IF t = "main" THEN MainPoints ELSE ListenerPoints
  BY DEF Threads, MainPoints, ListenerPoints, CallPoints
<1>4. Fits(t, p, f)
  BY <1>1, <1>3 DEF Fits, CallPoints
<1> QED BY <1>2, <1>4, GoType

\* A handler ignores its event or makes one of the three calls.
LEMMA HandlerCalls ==
    ASSUME TypeOK, HandleEvent
    PROVE  \/ UNCHANGED <<pc, frame>>
           \/ \E c \in Clusters : \/ Invoke("listener", "start", c, "find")
                                  \/ Invoke("listener", "sync", c, "syncFind")
                                  \/ Invoke("listener", "delete", c, "deleteFind")
<1> DEFINE e == Head(queue)
<1>1. e \in Events
  BY DEF HandleEvent, TypeOK
<1>2. e.cluster \in Clusters /\ e.action \in {"add", "update", "delete"}
  BY <1>1 DEF Events, Actions
<1>3. \/ UNCHANGED <<pc, frame>>
      \/ HandleClusterChangeEvent(e) \/ HandleClusterDeleteEvent(e)
  BY DEF HandleEvent
<1> HIDE DEF e
<1> QED BY <1>2, <1>3, Zenon
        DEF HandleClusterChangeEvent, HandleClusterDeleteEvent

\* Steps of the secret handlers.
LEMMA ListenerType ==
    ASSUME TypeOK, Listener
    PROVE  TypeOK'
<1> DEFINE l == "listener"
<1>0. l \in Threads /\ Fits(l, pc[l], frame[l])
  BY DEF TypeOK, Threads
<1>1. CASE ListSecrets
  <2>1. queue' \in Seq(Events)
    BY <1>1, ListingType DEF ListSecrets
  <2>2. Fits(l, "idle", NoFrame)
    BY NoFrameFits DEF Threads, ListenerPoints, CallPoints
  <2>3. ControlOK'
    BY <1>0, <1>1, <2>2, GoType DEF ListSecrets
  <2> QED BY <1>1, <2>1, <2>3 DEF ListSecrets, TypeOK, ControlOK, maps
<1>2. CASE HandleEvent
  <2>1. queue' \in Seq(Events)
    BY <1>2 DEF HandleEvent, TypeOK
  <2>2. CASE UNCHANGED <<pc, frame>>
    <3>1. (\A t \in Threads : Fits(t, pc[t], frame[t]))'
      BY <2>2 DEF TypeOK, Fits, Frames, Configs, NoFrame, MainPoints,
                  ListenerPoints, CallPoints
    <3> QED BY <1>2, <2>1, <2>2, <3>1 DEF HandleEvent, TypeOK, maps
  <2>3. CASE \E c \in Clusters : \/ Invoke(l, "start", c, "find")
                                 \/ Invoke(l, "sync", c, "syncFind")
                                 \/ Invoke(l, "delete", c, "deleteFind")
    <3>1. ControlOK'
      BY <1>0, <2>3, InvokeType
    <3> QED BY <1>2, <2>1, <3>1 DEF HandleEvent, TypeOK, ControlOK, maps
  <2> QED BY <1>2, <2>2, <2>3, HandlerCalls
<1>3. CASE SyncFind \/ DeleteFind
  <2>1. faults' \in 0..MaxFaults
    BY <1>3, BoundsAssumption
       DEF SyncFind, DeleteFind, Found, NotFound, Fault, TypeOK
  <2>2. Fits(l, "lookup", frame[l])
    BY <1>0, <1>3
       DEF SyncFind, DeleteFind, Fits, CallPoints, ListenerPoints
  <2>3. ControlOK'
    BY <1>0, <1>3, <2>2, GoType, ReturnType DEF SyncFind, DeleteFind
  <2> QED BY <1>3, <2>1, <2>3
          DEF SyncFind, DeleteFind, TypeOK, ControlOK, world, maps
<1>4. CASE Call(l)
  BY <1>0, <1>4, CallType
<1> QED BY <1>1, <1>2, <1>3, <1>4 DEF Listener

\* Steps of main outside the calls.
LEMMA MainType ==
    ASSUME TypeOK, Main \/ Signal
    PROVE  TypeOK'
<1>0. "main" \in Threads /\ "listener" \in Threads
  BY DEF Threads
<1>a. \A p \in {"findAll", "startNext", "serving", "keys", "stopNext",
                "sleep"} : Fits("main", p, NoFrame)
  BY <1>0, NoFrameFits DEF MainPoints, CallPoints
<1>1. CASE StartClusterInformer
  <2>1. faults' \in 0..MaxFaults
    BY <1>1, BoundsAssumption DEF StartClusterInformer, ConfigClientError, Fault,
                                    TypeOK
  <2>2. /\ pc' \in [Threads -> MainPoints \cup ListenerPoints]
        /\ frame' = NoCalls
        /\ pc'["main"] = "findAll"
        /\ pc'["listener"] \in {"list", "off"}
    BY <1>1 DEF StartClusterInformer, TypeOK, Threads, MainPoints,
                ListenerPoints
  <2>3. \A p \in {"list", "off"} : Fits("listener", p, NoFrame)
    BY <1>0, NoFrameFits DEF ListenerPoints, CallPoints
  <2>4. \A t \in Threads : Fits(t, pc'[t], frame'[t])
    BY <1>a, <2>2, <2>3 DEF NoCalls, Threads
  <2>5. (\A t \in Threads : Fits(t, pc[t], frame[t]))'
    BY <2>4 DEF Fits, Frames, Configs, NoFrame, MainPoints, ListenerPoints,
                CallPoints
  <2>6. frame' \in [Threads -> Frames]
    BY <1>a, <2>2 DEF NoCalls, Fits
  <2> QED BY <1>1, <2>1, <2>2, <2>5, <2>6
          DEF StartClusterInformer, TypeOK, world, maps
<1>2. CASE FindAllActive
  <2>1. faults' \in 0..MaxFaults /\ todo' \subseteq Clusters
    BY <1>2, BoundsAssumption DEF FindAllActive, AllActive, Fault, TypeOK
  <2>2. ControlOK'
    BY <1>0, <1>a, <1>2, GoType DEF FindAllActive
  <2> QED BY <1>2, <2>1, <2>2 DEF FindAllActive, TypeOK, ControlOK, world, maps
<1>3. CASE StartNext \/ StopNext
  <2>1. todo' \subseteq Clusters
    BY <1>3 DEF StartNext, StopNext, TypeOK
  <2>2. ControlOK'
    <3>1. ASSUME NEW c \in todo, \/ Invoke("main", "start", c, "find")
                                 \/ Invoke("main", "shutdown", c, "lookup")
          PROVE  ControlOK'
      <4>1. c \in Clusters
        BY DEF TypeOK
      <4> QED BY <1>0, <3>1, <4>1, InvokeType
    <3> QED BY <1>0, <1>a, <1>3, <3>1, GoType DEF StartNext, StopNext
  <2> QED BY <1>3, <2>1, <2>2
          DEF StartNext, StopNext, TypeOK, ControlOK, world, maps
<1>4. CASE StopAll \/ Signal
  <2>1. ControlOK'
    BY <1>0, <1>a, <1>4, GoType DEF StopAll, Signal
  <2> QED BY <1>4, <2>1 DEF StopAll, Signal, TypeOK, ControlOK, world, maps
<1>5. CASE Exit
  BY <1>5, EndType DEF Exit
<1>6. CASE Call("main")
  BY <1>0, <1>6, CallType
<1> QED BY <1>1, <1>2, <1>3, <1>4, <1>5, <1>6 DEF Main

\* Steps of the orchestrator and of the secret informer.
LEMMA OrchestratorType ==
    ASSUME TypeOK, Orchestrator
    PROVE  TypeOK'
<1> PICK c \in Clusters :
        \/ SaveCluster(c) \/ EditCluster(c) \/ DeactivateCluster(c)
        \/ \E a \in Actions : SecretChanged(c, a)
        \/ \E kind \in {"delete", "tombstone"} : SecretRemoved(c, kind)
        \/ Resync(c)
  BY DEF Orchestrator
<1>0. UNCHANGED <<faults, memory>>
  BY DEF SaveCluster, EditCluster, DeactivateCluster, SecretChanged,
         SecretRemoved, Resync
<1>1. (\A t \in Threads : Fits(t, pc[t], frame[t]))'
  BY <1>0 DEF memory, TypeOK, Fits, Frames, Configs, NoFrame, MainPoints,
              ListenerPoints, CallPoints
<1> DEFINE Rows == [state : {"absent", "active", "inactive"}, config : Configs]
<1>2. db' \in [Clusters -> Rows]
  <2>1. db \in [Clusters -> Rows] /\ db[c] \in Rows
    BY DEF TypeOK
  <2>2. \A s \in {"active", "inactive"} : [db[c] EXCEPT !.state = s] \in Rows
    BY <2>1
  <2>3. db[c].config < MaxConfig =>
            [db[c] EXCEPT !.config = db[c].config + 1] \in Rows
    BY <2>1, BoundsAssumption DEF Configs
  <2> HIDE DEF Rows
  <2>4. CASE SaveCluster(c) \/ DeactivateCluster(c)
    BY <2>1, <2>2, <2>4 DEF SaveCluster, DeactivateCluster
  <2>5. CASE EditCluster(c)
    BY <2>1, <2>3, <2>5 DEF EditCluster
  <2> QED BY <2>1, <2>4, <2>5 DEF SecretChanged, SecretRemoved, Resync
<1>3. secrets' \in [Clusters -> Actions \cup {"none"}]
  BY DEF TypeOK, SaveCluster, EditCluster, DeactivateCluster, SecretChanged,
         SecretRemoved, Resync
<1>4. queue' \in Seq(Events)
  <2>1. ASSUME NEW e \in Events, Notify(e)
        PROVE  queue' \in Seq(Events)
    <3>1. queue \in Seq(Events)
      BY DEF TypeOK
    <3>2. Append(queue, e) \in Seq(Events)
      BY <3>1
    <3> QED BY <2>1, <3>1, <3>2, Zenon DEF Notify
  <2>2. ASSUME NEW k \in {"change", "delete", "tombstone"}, NEW a \in Actions,
               Notify([kind |-> k, cluster |-> c, action |-> a])
        PROVE  queue' \in Seq(Events)
    BY <2>1, <2>2 DEF Events
  <2>3. secrets[c] # "none" => secrets[c] \in Actions
    BY DEF TypeOK
  <2> QED BY <2>2, <2>3
          DEF SaveCluster, EditCluster, DeactivateCluster, SecretChanged,
              SecretRemoved, Resync, TypeOK
<1> QED BY <1>0, <1>1, <1>2, <1>3, <1>4 DEF TypeOK, memory

\* Every variable keeps its type and every goroutine the locals its control
\* point needs, in every behaviour.
THEOREM TypeCorrect == Spec => []TypeOK
<1>1. Init => TypeOK
  <2> SUFFICES ASSUME Init PROVE TypeOK
    OBVIOUS
  <2>1. Fits("main", "boot", NoFrame) /\ Fits("listener", "off", NoFrame)
    BY NoFrameFits DEF Threads, MainPoints, ListenerPoints, CallPoints
  <2>2. \A t \in Threads : Fits(t, pc[t], frame[t])
    BY <2>1 DEF Init, NoCalls, Booting, Threads
  <2>3. /\ pc \in [Threads -> MainPoints \cup ListenerPoints]
        /\ frame \in [Threads -> Frames]
    BY <2>1 DEF Init, NoCalls, Booting, Fits, MainPoints, ListenerPoints
  <2> QED BY <2>2, <2>3, BoundsAssumption
          DEF Init, TypeOK, EmptyRegistry, NothingRuns, Configs
<1>2. TypeOK /\ [Next]_vars => TypeOK'
  <2> SUFFICES ASSUME TypeOK, [Next]_vars PROVE TypeOK'
    OBVIOUS
  <2>1. CASE Orchestrator
    BY <2>1, OrchestratorType
  <2>2. CASE Listener
    BY <2>2, ListenerType
  <2>3. CASE Main \/ Signal
    BY <2>3, MainType
  <2>4. CASE Kill \/ MapFault
    BY <2>4, EndType DEF Kill, MapFault
  <2>5. CASE Restart
    <3>1. Fits("main", "boot", NoFrame) /\ Fits("listener", "off", NoFrame)
      BY NoFrameFits DEF Threads, MainPoints, ListenerPoints, CallPoints
    <3>2. \A t \in Threads : Fits(t, pc'[t], frame'[t])
      BY <2>5, <3>1 DEF Restart, NoCalls, Booting, Threads
    <3>3. (\A t \in Threads : Fits(t, pc[t], frame[t]))'
      BY <3>2 DEF Fits, Frames, Configs, NoFrame, MainPoints, ListenerPoints,
                  CallPoints
    <3>4. /\ pc' \in [Threads -> MainPoints \cup ListenerPoints]
          /\ frame' \in [Threads -> Frames]
      BY <2>5, <3>1 DEF Restart, NoCalls, Booting, Fits, MainPoints,
                        ListenerPoints
    <3> QED BY <2>5, <3>3, <3>4 DEF Restart, TypeOK, maps
  <2>6. CASE UNCHANGED vars
    <3>1. (\A t \in Threads : Fits(t, pc[t], frame[t]))'
      BY <2>6 DEF vars, TypeOK, Fits, Frames, Configs, NoFrame, MainPoints,
                  ListenerPoints, CallPoints
    <3> QED BY <2>6, <3>1 DEF vars, TypeOK
  <2> QED BY <2>1, <2>2, <2>3, <2>4, <2>5, <2>6 DEF Next
<1> QED BY <1>1, <1>2, PTL DEF Spec

-----------------------------------------------------------------------------
(* What a control step leaves alone.                                       *)

\* A goroutine that goes elsewhere does not move the other one.
LEMMA GoEffect ==
    ASSUME TypeOK, NEW t \in Threads, NEW p, NEW f, Go(t, p, f)
    PROVE  /\ pc'[t] = p /\ frame'[t] = f
           /\ \A u \in Threads \ {t} : pc'[u] = pc[u] /\ frame'[u] = frame[u]
BY DEF TypeOK, Go

\* A returning call drops its locals and ends outside the critical points.
LEMMA ReturnEffect ==
    ASSUME TypeOK, NEW t \in Threads, Return(t)
    PROVE  /\ pc'[t] \in {"idle", "stopNext", "startNext"}
           /\ t = "main" /\ frame[t].op = "shutdown" => pc'[t] = "stopNext"
           /\ frame'[t].stopper = NoChan
           /\ \A u \in Threads \ {t} : pc'[u] = pc[u] /\ frame'[u] = frame[u]
<1> DEFINE p == IF t = "listener" THEN "idle"
                ELSE IF frame[t].op = "shutdown" THEN "stopNext"
                ELSE "startNext"
<1>1. Go(t, p, NoFrame)
  BY DEF Return
<1>2. pc'[t] = p /\ frame'[t] = NoFrame
      /\ \A u \in Threads \ {t} : pc'[u] = pc[u] /\ frame'[u] = frame[u]
  BY <1>1, GoEffect
<1> QED BY <1>2 DEF NoFrame

\* So does a returning stop, unless it goes on to the start of a sync.
LEMMA StopReturnEffect ==
    ASSUME TypeOK, NEW t \in Threads, pc[t] \in {"lookup", "delete"},
           StopReturn(t)
    PROVE  /\ pc'[t] \in {"idle", "stopNext", "startNext", "find"}
           /\ t = "main" => pc'[t] = "stopNext"
           /\ frame'[t].stopper = NoChan
           /\ \A u \in Threads \ {t} : pc'[u] = pc[u] /\ frame'[u] = frame[u]
<1>0. /\ frame[t] \in Frames
      /\ t = "main" => frame[t].op = "shutdown"
  BY DEF TypeOK, Fits
<1>1. CASE frame[t].op = "sync"
  <2>1. Go(t, "find", [frame[t] EXCEPT !.stopper = NoChan])
    BY <1>1 DEF StopReturn
  <2>2. /\ pc'[t] = "find"
        /\ frame'[t] = [frame[t] EXCEPT !.stopper = NoChan]
        /\ \A u \in Threads \ {t} : pc'[u] = pc[u] /\ frame'[u] = frame[u]
    BY <2>1, GoEffect
  <2> QED BY <1>0, <1>1, <2>2 DEF Frames
<1>2. CASE frame[t].op # "sync"
  BY <1>0, <1>2, ReturnEffect DEF StopReturn
<1> QED BY <1>1, <1>2

\* The channel a goroutine holds is one only at the critical points.
LEMMA HeldType ==
    ASSUME TypeOK, NEW t \in Threads
    PROVE  /\ pc[t] \in {"store", "close", "delete"} =>
                frame[t].stopper \in Chans
           /\ pc[t] \notin {"store", "close", "delete"} =>
                frame[t].stopper = NoChan
           /\ pc[t] \in CallPoints => frame[t].cluster \in Clusters
BY DEF TypeOK, Fits

-----------------------------------------------------------------------------
(* RegistryInv is inductive.                                               *)

\* A step that touches neither the map nor a channel and takes its goroutine
\* to a point where it holds none.
LEMMA QuietStep ==
    ASSUME TypeOK, RegistryInv, NEW t \in Threads,
           UNCHANGED <<informer, informerStopper, process>>,
           pc[t] \notin {"delete", "boot", "down", "off"},
           pc'[t] \notin {"store", "close", "delete", "boot", "down"},
           frame'[t].stopper = NoChan,
           \A u \in Threads \ {t} : pc'[u] = pc[u] /\ frame'[u] = frame[u],
           ShuttingDown => ShuttingDown'
    PROVE  RegistryInv'
<1>1. RegisteredIsLive'
  BY DEF RegistryInv, RegisteredIsLive
<1>2. HeldChannels'
  BY HeldType, ChansAssumption DEF RegistryInv, HeldChannels, HeldBy
<1>3. ClosesOnce'
  BY DEF RegistryInv, ClosesOnce, Threads
<1>4. DownIsIdle'
  BY DEF RegistryInv, DownIsIdle, Threads
<1> QED BY <1>1, <1>2, <1>3, <1>4 DEF RegistryInv

\* A process that ends leaves an empty registry and idle goroutines.
LEMMA EndInv ==
    ASSUME NEW how, EndProcess(how)
    PROVE  RegistryInv'
<1>1. RegisteredIsLive'
  BY DEF EndProcess, EmptyRegistry, RegisteredIsLive
<1>2. HeldChannels'
  BY DEF EndProcess, HeldChannels, HeldBy, Threads
<1>3. ClosesOnce' /\ DownIsIdle'
  BY DEF EndProcess, ClosesOnce, DownIsIdle, Threads
<1> QED BY <1>1, <1>2, <1>3 DEF RegistryInv

\* startSystemWorkflowInformer up to the creation: nothing is held yet.
LEMMA StartInv ==
    ASSUME TypeOK, RegistryInv, NEW t \in Threads,
           \/ FindById(t) \/ CheckExists(t)
           \/ CreateInformer(t) /\ UNCHANGED informer
    PROVE  RegistryInv'
<1>1. /\ pc[t] \in {"find", "check", "create"}
      /\ UNCHANGED <<informer, informerStopper, process>>
  BY DEF FindById, CheckExists, CreateInformer, world, maps
<1>2. /\ frame[t] \in Frames /\ frame[t].stopper = NoChan
      /\ t = "main" => frame[t].op = "start"
  BY <1>1 DEF TypeOK, Fits
<1>3. CASE Return(t)
  <2>1. ShuttingDown => ShuttingDown'
    BY <1>1, <1>2, <1>3, ReturnEffect DEF ShuttingDown, Threads
  <2> QED BY <1>1, <1>3, <2>1, ReturnEffect, QuietStep
<1>4. ASSUME NEW p \in {"check", "create"}, NEW f, f.stopper = NoChan,
             Go(t, p, f)
      PROVE  RegistryInv'
  <2>1. /\ pc'[t] = p /\ frame'[t] = f
        /\ \A u \in Threads \ {t} : pc'[u] = pc[u] /\ frame'[u] = frame[u]
    BY <1>4, GoEffect
  <2>2. ShuttingDown => ShuttingDown'
    BY <1>1, <2>1 DEF ShuttingDown, Threads
  <2> QED BY <1>1, <1>4, <2>1, <2>2, QuietStep
<1>5. CASE FindById(t)
  <2>1. [frame[t] EXCEPT !.config = db[frame[t].cluster].config].stopper
            = NoChan
    BY <1>2 DEF Frames
  <2> QED BY <1>3, <1>4, <1>5, <2>1 DEF FindById
<1>6. CASE CheckExists(t)
  BY <1>2, <1>3, <1>4, <1>6 DEF CheckExists
<1>7. CASE CreateInformer(t) /\ UNCHANGED informer
  <2>1. ASSUME NEW ch \in FreshChans,
               informer' = [informer EXCEPT ![ch] =
                    [cluster |-> frame[t].cluster, config |-> frame[t].config]]
        PROVE  FALSE
    <3>1. ch \in Chans /\ informer[ch] = NoInformer
      BY DEF FreshChans
    <3>2. informer'[ch] \in Informers
      BY <1>1, <1>2, <2>1, <3>1, HeldType
         DEF TypeOK, Informers, Frames, CallPoints
    <3> QED BY <1>7, <3>1, <3>2, InformerAssumption
  <2> QED BY <1>3, <1>7, <2>1 DEF CreateInformer
<1> QED BY <1>5, <1>6, <1>7

\* The informer is started: its channel was fresh, so nobody else holds it.
LEMMA CreateInv ==
    ASSUME TypeOK, RegistryInv, NEW t \in Threads, CreateInformer(t)
    PROVE  RegistryInv'
<1>1. CASE UNCHANGED informer
  BY <1>1, StartInv
<1>2. CASE informer' # informer
  <2>0. /\ pc[t] = "create" /\ frame[t] \in Frames
        /\ frame[t].cluster \in Clusters
        /\ UNCHANGED <<informerStopper, process>>
    BY LocalsInCall DEF CreateInformer, CallPoints, world
  <2>1. PICK ch \in FreshChans :
            /\ informer' = [informer EXCEPT ![ch] =
                    [cluster |-> frame[t].cluster, config |-> frame[t].config]]
            /\ Go(t, "store", [frame[t] EXCEPT !.stopper = ch])
    BY <1>2 DEF CreateInformer
  <2>2. /\ ch \in Chans /\ informer[ch] = NoInformer
        /\ \A c \in Clusters : informerStopper[c] # ch
        /\ \A u \in Threads : frame[u].stopper # ch
    BY DEF FreshChans
  <2>3. /\ pc'[t] = "store"
        /\ frame'[t] = [frame[t] EXCEPT !.stopper = ch]
        /\ \A u \in Threads \ {t} : pc'[u] = pc[u] /\ frame'[u] = frame[u]
    BY <2>1, GoEffect
  <2>4. frame'[t].stopper = ch /\ frame'[t].cluster = frame[t].cluster
    BY <2>0, <2>3 DEF Frames
  <2>5. /\ informer'[ch] # NoInformer
        /\ informer'[ch].cluster = frame[t].cluster
        /\ \A x \in Chans \ {ch} : informer'[x] = informer[x]
    <3>1. [cluster |-> frame[t].cluster, config |-> frame[t].config]
            \in Informers
      BY <2>0 DEF Informers, Frames
    <3> QED BY <2>1, <2>2, <3>1, InformerAssumption DEF TypeOK
  <2>6. RegisteredIsLive'
    <3> SUFFICES ASSUME NEW c \in Clusters, informerStopper'[c] # NoChan
                 PROVE  \/ /\ informer'[informerStopper'[c]] # NoInformer
                           /\ informer'[informerStopper'[c]].cluster = c
                        \/ \E u \in Threads :
                              /\ pc'[u] = "delete"
                              /\ frame'[u].cluster = c
                              /\ frame'[u].stopper = informerStopper'[c]
      BY DEF RegisteredIsLive
    <3>1. informerStopper[c] \in Chans \ {ch}
      BY <2>0, <2>2 DEF TypeOK
    <3> QED BY <2>0, <2>3, <2>5, <3>1 DEF RegistryInv, RegisteredIsLive
  <2>7. HeldChannels'
    <3>1. \A u \in Threads \ {t} : pc[u] \in {"store", "close", "delete"} =>
            frame[u].stopper \in Chans \ {ch}
      BY <2>2, HeldType
    <3>2. HeldBy(t)'
      BY <2>0, <2>2, <2>3, <2>4, <2>5 DEF HeldBy
    <3>3. ASSUME NEW u \in Threads \ {t}
          PROVE  HeldBy(u)'
      <4>1. HeldBy(u)
        BY DEF RegistryInv, HeldChannels
      <4>2. pc[u] \in {"store", "close", "delete"} =>
              /\ frame[u].stopper \in Chans \ {ch}
              /\ informer'[frame[u].stopper] = informer[frame[u].stopper]
        BY <2>5, <3>1
      <4>3. pc'[u] = pc[u] /\ frame'[u] = frame[u]
        BY <2>3
      <4>4. pc[u] = "store" => HeldBy(u)'
        BY <2>0, <2>3, <2>4, <4>1, <4>2, <4>3 DEF HeldBy
      <4>5. pc[u] \in {"close", "delete"} => HeldBy(u)'
        BY <2>0, <2>3, <2>4, <4>1, <4>2, <4>3 DEF HeldBy
      <4>6. pc[u] \notin {"store", "close", "delete"} => HeldBy(u)'
        BY <4>3 DEF HeldBy
      <4> QED BY <4>4, <4>5, <4>6
    <3> QED BY <3>2, <3>3 DEF HeldChannels
  <2>8. ClosesOnce'
    <3>1. pc["listener"] = "close" =>
            frame["listener"].stopper \in Chans \ {ch}
      BY <2>2, HeldType DEF Threads
    <3>2. ShuttingDown => ShuttingDown'
      BY <2>0, <2>3 DEF ShuttingDown, Threads
    <3> QED BY <2>3, <2>5, <3>1, <3>2
            DEF RegistryInv, ClosesOnce, Threads
  <2>9. DownIsIdle'
    BY <2>0, <2>3 DEF RegistryInv, DownIsIdle, Threads
  <2> QED BY <2>6, <2>7, <2>8, <2>9 DEF RegistryInv
<1> QED BY <1>1, <1>2

\* The new entry is live, and no other goroutine holds its channel.
LEMMA StoreInv ==
    ASSUME TypeOK, RegistryInv, NEW t \in Threads, StoreStopper(t)
    PROVE  RegistryInv'
<1> DEFINE c0 == frame[t].cluster
           ch == frame[t].stopper
<1>0. /\ pc[t] = "store" /\ c0 \in Clusters /\ ch \in Chans
      /\ UNCHANGED <<informer, process>> /\ Return(t)
      /\ informerStopper' = [informerStopper EXCEPT ![c0] = ch]
  BY HeldType DEF StoreStopper, CallPoints, world
<1>1. HeldBy(t)
  BY DEF RegistryInv, HeldChannels
<1>2. /\ informerStopper'[c0] = ch
      /\ \A c \in Clusters \ {c0} : informerStopper'[c] = informerStopper[c]
  BY <1>0 DEF TypeOK
<1>3. /\ pc'[t] \in {"idle", "stopNext", "startNext"}
      /\ frame'[t].stopper = NoChan
      /\ \A u \in Threads \ {t} : pc'[u] = pc[u] /\ frame'[u] = frame[u]
  BY <1>0, ReturnEffect
<1> HIDE DEF c0, ch
<1>4. RegisteredIsLive'
  <2>1. informer'[informerStopper'[c0]] # NoInformer
        /\ informer'[informerStopper'[c0]].cluster = c0
    BY <1>0, <1>1, <1>2 DEF HeldBy, c0, ch
  <2> QED BY <1>0, <1>2, <1>3, <2>1 DEF RegistryInv, RegisteredIsLive
<1>5. HeldChannels'
  <2>1. HeldBy(t)'
    BY <1>3 DEF HeldBy
  <2>2. ASSUME NEW u \in Threads \ {t}
        PROVE  HeldBy(u)'
    <3>1. HeldBy(u) /\ pc'[u] = pc[u] /\ frame'[u] = frame[u]
      BY <1>3 DEF RegistryInv, HeldChannels
    <3>2. pc[u] = "store" => frame[u].stopper # ch /\ frame[u].stopper # NoChan
      BY <1>0, <3>1, HeldType, ChansAssumption DEF HeldBy, ch
    <3> QED BY <1>0, <1>2, <1>3, <3>1, <3>2 DEF HeldBy
  <2> QED BY <2>1, <2>2 DEF HeldChannels
<1>6. ClosesOnce'
  <2>1. ShuttingDown => ShuttingDown'
    BY <1>0, <1>3 DEF ShuttingDown, Threads
  <2> QED BY <1>0, <1>3, <2>1 DEF RegistryInv, ClosesOnce, Threads
<1>7. DownIsIdle'
  BY <1>0, <1>3 DEF RegistryInv, DownIsIdle, Threads
<1> QED BY <1>4, <1>5, <1>6, <1>7 DEF RegistryInv

\* The entry looked up is live, or its channel is being deleted by the other
\* goroutine, which before shutdown cannot be.
LEMMA LookupInv ==
    ASSUME TypeOK, RegistryInv, NEW t \in Threads, LookupStopper(t)
    PROVE  RegistryInv'
<1> DEFINE c0 == frame[t].cluster
           ch == informerStopper[c0]
<1>0. /\ pc[t] = "lookup" /\ c0 \in Clusters /\ frame[t] \in Frames
      /\ UNCHANGED <<informer, informerStopper, process>>
  BY LocalsInCall DEF LookupStopper, CallPoints, world, maps
<1>1. CASE StopReturn(t)
  <2>1. /\ pc'[t] \in {"idle", "stopNext", "startNext", "find"}
        /\ t = "main" => pc'[t] = "stopNext"
        /\ frame'[t].stopper = NoChan
        /\ \A u \in Threads \ {t} : pc'[u] = pc[u] /\ frame'[u] = frame[u]
    BY <1>0, <1>1, StopReturnEffect
  <2>2. ShuttingDown => ShuttingDown'
    BY <1>0, <2>1 DEF ShuttingDown, Threads
  <2> QED BY <1>0, <2>1, <2>2, QuietStep
<1>2. CASE ch # NoChan /\ Go(t, "close", [frame[t] EXCEPT !.stopper = ch])
  <2>1. /\ pc'[t] = "close"
        /\ frame'[t] = [frame[t] EXCEPT !.stopper = ch]
        /\ \A u \in Threads \ {t} : pc'[u] = pc[u] /\ frame'[u] = frame[u]
    BY <1>2, GoEffect
  <2>2. frame'[t].stopper = ch /\ frame'[t].cluster = c0
    BY <1>0, <2>1 DEF Frames
  <2>3. \/ informer[ch] # NoInformer /\ informer[ch].cluster = c0
        \/ \E u \in Threads \ {t} :
            pc[u] = "delete" /\ frame[u].stopper = ch
    BY <1>0, <1>2 DEF RegistryInv, RegisteredIsLive
  <2>4. informer[ch] # NoInformer => informer[ch].cluster = c0
    BY <2>3 DEF RegistryInv, HeldChannels, HeldBy
  <2>5. ch \in Chans
    BY <1>0, <1>2 DEF TypeOK
  <2> HIDE DEF c0, ch
  <2>6. RegisteredIsLive'
    BY <1>0, <2>1 DEF RegistryInv, RegisteredIsLive
  <2>7. HeldChannels'
    <3>1. HeldBy(t)'
      BY <1>0, <2>1, <2>2, <2>4 DEF HeldBy
    <3>2. ASSUME NEW u \in Threads \ {t}
          PROVE  HeldBy(u)'
      <4>1. HeldBy(u) /\ pc'[u] = pc[u] /\ frame'[u] = frame[u]
        BY <2>1 DEF RegistryInv, HeldChannels
      <4>2. pc[u] = "store" => frame[u].stopper # ch
        BY <1>0, <4>1 DEF HeldBy, ch
      <4> QED BY <1>0, <2>1, <2>2, <4>1, <4>2 DEF HeldBy
    <3> QED BY <3>1, <3>2 DEF HeldChannels
  <2>8. ClosesOnce'
    <3>1. CASE t = "main"
      BY <2>1, <3>1 DEF ClosesOnce, ShuttingDown
    <3>2. CASE t = "listener"
      <4>1. pc["main"] = "delete" => ShuttingDown'
        BY <2>1, <3>2 DEF ShuttingDown, Threads
      <4>2. informer[ch] # NoInformer \/ pc["main"] = "delete"
        BY <2>3, <3>2 DEF Threads
      <4> QED BY <1>0, <2>2, <3>2, <4>1, <4>2 DEF ClosesOnce
    <3> QED BY <3>1, <3>2 DEF Threads
  <2>9. DownIsIdle'
    BY <1>0, <2>1 DEF RegistryInv, DownIsIdle, Threads
  <2> QED BY <2>6, <2>7, <2>8, <2>9 DEF RegistryInv
<1> QED BY <1>1, <1>2 DEF LookupStopper

\* Closing an open channel stops an informer of the goroutine's own cluster,
\* so the entry that may hold it is the one about to be deleted.
LEMMA CloseInv ==
    ASSUME TypeOK, RegistryInv, NEW t \in Threads, CloseStopper(t)
    PROVE  RegistryInv'
<1> DEFINE c0 == frame[t].cluster
           ch == frame[t].stopper
<1>1. CASE EndProcess("panic")
  BY <1>1, EndInv
<1>2. CASE ~EndProcess("panic")
  <2>0. /\ pc[t] = "close" /\ c0 \in Clusters /\ ch \in Chans
        /\ UNCHANGED <<informerStopper, process>>
        /\ informer[ch] # NoInformer
        /\ informer' = [informer EXCEPT ![ch] = NoInformer]
        /\ Go(t, "delete", frame[t])
    BY <1>2, HeldType DEF CloseStopper, CallPoints, world
  <2>1. HeldBy(t)
    BY DEF RegistryInv, HeldChannels
  <2>2. /\ pc'[t] = "delete" /\ frame'[t] = frame[t]
        /\ \A u \in Threads \ {t} : pc'[u] = pc[u] /\ frame'[u] = frame[u]
    BY <2>0, GoEffect
  <2>3. /\ informer'[ch] = NoInformer
        /\ \A x \in Chans \ {ch} : informer'[x] = informer[x]
    BY <2>0 DEF TypeOK
  <2>4. informer[ch].cluster = c0
    BY <2>0, <2>1 DEF HeldBy
  <2>5. frame'[t].cluster = c0 /\ frame'[t].stopper = ch
    BY <2>2
  <2>a. \A u \in Threads \ {t} : pc[u] \in {"store", "delete"} =>
            frame[u].stopper \in Chans \ {ch}
    BY <2>0, HeldType DEF RegistryInv, HeldChannels, HeldBy
  <2> HIDE DEF c0, ch
  <2>6. RegisteredIsLive'
    <3> SUFFICES ASSUME NEW c \in Clusters, informerStopper'[c] # NoChan
                 PROVE  \/ /\ informer'[informerStopper'[c]] # NoInformer
                           /\ informer'[informerStopper'[c]].cluster = c
                        \/ \E u \in Threads :
                              /\ pc'[u] = "delete"
                              /\ frame'[u].cluster = c
                              /\ frame'[u].stopper = informerStopper'[c]
      BY DEF RegisteredIsLive
    <3>1. \/ /\ informer[informerStopper[c]] # NoInformer
             /\ informer[informerStopper[c]].cluster = c
          \/ \E u \in Threads : /\ pc[u] = "delete"
                                /\ frame[u].cluster = c
                                /\ frame[u].stopper = informerStopper[c]
      BY <2>0 DEF RegistryInv, RegisteredIsLive
    <3>2. CASE informerStopper[c] = ch
      <4>1. c = c0
        BY <2>0, <2>4, <2>a, <3>1, <3>2
      <4> QED BY <2>0, <2>2, <2>5, <3>2, <4>1
    <3>3. CASE informerStopper[c] # ch
      <4>1. informer'[informerStopper[c]] = informer[informerStopper[c]]
        BY <2>0, <2>3, <3>3 DEF TypeOK
      <4> QED BY <2>0, <2>2, <3>1, <4>1
    <3> QED BY <3>2, <3>3
  <2>7. HeldChannels'
    <3>1. HeldBy(t)'
      BY <2>2, <2>3, <2>5, <2>a DEF HeldBy
    <3>2. ASSUME NEW u \in Threads \ {t}
          PROVE  HeldBy(u)'
      <4>1. HeldBy(u) /\ pc'[u] = pc[u] /\ frame'[u] = frame[u]
        BY <2>2 DEF RegistryInv, HeldChannels
      <4>2. pc[u] \in {"store", "delete"} =>
              informer'[frame[u].stopper] = informer[frame[u].stopper]
        BY <2>3, <2>a
      <4>3. pc[u] = "close" /\ informer'[frame[u].stopper] # NoInformer =>
              informer'[frame[u].stopper] = informer[frame[u].stopper]
        BY <2>3, HeldType
      <4> QED BY <2>0, <2>2, <2>5, <2>a, <4>1, <4>2, <4>3 DEF HeldBy
    <3> QED BY <3>1, <3>2 DEF HeldChannels
  <2>8. ClosesOnce'
    <3>1. CASE t = "main"
      BY <2>2, <3>1 DEF ClosesOnce, ShuttingDown
    <3>2. CASE t = "listener"
      BY <2>2, <3>2 DEF ClosesOnce
    <3> QED BY <3>1, <3>2 DEF Threads
  <2>9. DownIsIdle'
    BY <2>0, <2>2 DEF RegistryInv, DownIsIdle, Threads
  <2> QED BY <2>6, <2>7, <2>8, <2>9 DEF RegistryInv
<1> QED BY <1>1, <1>2

\* Deleting the entry of a cluster touches no other entry and no channel.
LEMMA DeleteInv ==
    ASSUME TypeOK, RegistryInv, NEW t \in Threads, DeleteStopper(t)
    PROVE  RegistryInv'
<1> DEFINE c0 == frame[t].cluster
<1>0. /\ pc[t] = "delete" /\ c0 \in Clusters
      /\ UNCHANGED <<informer, process>> /\ StopReturn(t)
      /\ informerStopper' = [informerStopper EXCEPT ![c0] = NoChan]
  BY HeldType DEF DeleteStopper, CallPoints, world
<1>1. /\ informerStopper'[c0] = NoChan
      /\ \A c \in Clusters \ {c0} : informerStopper'[c] = informerStopper[c]
  BY <1>0 DEF TypeOK
<1>2. /\ pc'[t] \in {"idle", "stopNext", "startNext", "find"}
      /\ t = "main" => pc'[t] = "stopNext"
      /\ frame'[t].stopper = NoChan
      /\ \A u \in Threads \ {t} : pc'[u] = pc[u] /\ frame'[u] = frame[u]
  BY <1>0, StopReturnEffect
<1>3. RegisteredIsLive'
  BY <1>0, <1>1, <1>2 DEF RegistryInv, RegisteredIsLive
<1>4. HeldChannels'
  <2>1. HeldBy(t)'
    BY <1>2 DEF HeldBy
  <2>2. ASSUME NEW u \in Threads \ {t}
        PROVE  HeldBy(u)'
    <3>1. HeldBy(u) /\ pc'[u] = pc[u] /\ frame'[u] = frame[u]
      BY <1>2 DEF RegistryInv, HeldChannels
    <3>2. pc[u] = "store" => frame[u].stopper # NoChan
      BY HeldType, ChansAssumption
    <3> QED BY <1>0, <1>1, <1>2, <3>1, <3>2 DEF HeldBy
  <2> QED BY <2>1, <2>2 DEF HeldChannels
<1>5. ClosesOnce'
  <2>1. ShuttingDown => ShuttingDown'
    BY <1>0, <1>2 DEF ShuttingDown, Threads
  <2> QED BY <1>0, <1>2, <2>1 DEF RegistryInv, ClosesOnce, Threads
<1>6. DownIsIdle'
  BY <1>0, <1>2 DEF RegistryInv, DownIsIdle, Threads
<1> QED BY <1>3, <1>4, <1>5, <1>6 DEF RegistryInv

\* RegistryInv is inductive, given the types.
LEMMA RegistryStep ==
    ASSUME TypeOK, RegistryInv, [Next]_vars
    PROVE  RegistryInv'
<1>0. "main" \in Threads /\ "listener" \in Threads
  BY DEF Threads
<1>1. ASSUME NEW t \in Threads, Call(t)
      PROVE  RegistryInv'
  BY <1>1, StartInv, CreateInv, StoreInv, LookupInv, CloseInv, DeleteInv
     DEF Call
<1>2. CASE Orchestrator \/ UNCHANGED vars
  <2>1. UNCHANGED memory
    BY <1>2 DEF Orchestrator, SaveCluster, EditCluster, DeactivateCluster,
                SecretChanged, SecretRemoved, Resync, vars, memory
  <2> QED BY <2>1 DEF memory, RegistryInv, RegisteredIsLive, HeldChannels,
                      HeldBy, ClosesOnce, ShuttingDown, DownIsIdle
<1>3. CASE ListSecrets \/ HandleEvent \/ SyncFind \/ DeleteFind
  <2>1. /\ pc["listener"] \in {"list", "idle", "syncFind", "deleteFind"}
        /\ UNCHANGED <<informer, informerStopper, process>>
    BY <1>3 DEF ListSecrets, HandleEvent, SyncFind, DeleteFind, world, maps
  <2>2. frame["listener"].stopper = NoChan
    BY <1>0, <2>1, HeldType
  <2>3. /\ pc'["listener"] \in {"idle", "find", "syncFind", "deleteFind",
                                "lookup"}
        /\ frame'["listener"].stopper = NoChan
        /\ pc'["main"] = pc["main"] /\ frame'["main"] = frame["main"]
    BY <1>0, <1>3, <2>1, <2>2, HandlerCalls
       DEF ListSecrets, SyncFind, DeleteFind, HandleEvent, Return, Invoke, Go,
           NoFrame, TypeOK, Threads
  <2>4. ShuttingDown => ShuttingDown'
    BY <2>3 DEF ShuttingDown
  <2>5. \A u \in Threads \ {"listener"} :
            pc'[u] = pc[u] /\ frame'[u] = frame[u]
    BY <2>3 DEF Threads
  <2> QED BY <1>0, <2>1, <2>3, <2>4, <2>5, QuietStep
<1>4. CASE FindAllActive \/ StartNext \/ StopAll \/ StopNext \/ Signal
  <2>1. /\ pc["main"] \in {"findAll", "startNext", "serving", "keys",
                           "stopNext"}
        /\ UNCHANGED <<informer, informerStopper, process>>
    BY <1>4 DEF FindAllActive, StartNext, StopAll, StopNext, Signal, world,
                maps
  <2>2. /\ pc'["main"] \in {"startNext", "serving", "find", "keys",
                            "stopNext", "lookup", "sleep"}
        /\ pc["main"] \in {"keys", "stopNext"} =>
            pc'["main"] \in {"stopNext", "lookup", "sleep"}
        /\ frame'["main"].stopper = NoChan
        /\ pc'["listener"] = pc["listener"]
        /\ frame'["listener"] = frame["listener"]
    BY <1>0, <1>4
       DEF FindAllActive, StartNext, StopAll, StopNext, Signal, Invoke, Go,
           NoFrame, TypeOK, Threads
  <2>3. ShuttingDown => ShuttingDown'
    BY <2>1, <2>2 DEF ShuttingDown
  <2>4. \A u \in Threads \ {"main"} : pc'[u] = pc[u] /\ frame'[u] = frame[u]
    BY <2>2 DEF Threads
  <2> QED BY <1>0, <2>1, <2>2, <2>3, <2>4, QuietStep
<1>5. CASE StartClusterInformer \/ Restart
  <2>1. /\ pc["main"] \in {"boot", "down"} /\ pc["listener"] = "off"
        /\ UNCHANGED <<informer, informerStopper>>
    BY <1>5 DEF StartClusterInformer, Restart, RegistryInv, DownIsIdle, world,
                maps
  <2>2. /\ pc'["main"] \in {"findAll", "boot"}
        /\ pc'["listener"] \in {"list", "off"}
        /\ pc'["main"] = "boot" => pc'["listener"] = "off"
        /\ process' = "up"
    <3>1. process # "up" => pc["main"] = "down"
      BY DEF RegistryInv, DownIsIdle
    <3> QED BY <1>5, <3>1
            DEF StartClusterInformer, Restart, Booting, TypeOK, Threads, world
  <2>3. RegisteredIsLive'
    BY <2>1 DEF RegistryInv, RegisteredIsLive, Threads
  <2>4. HeldChannels'
    BY <2>2 DEF HeldChannels, HeldBy, Threads
  <2>5. ClosesOnce' /\ DownIsIdle'
    BY <2>2 DEF ClosesOnce, DownIsIdle
  <2> QED BY <2>3, <2>4, <2>5 DEF RegistryInv
<1>6. CASE Exit \/ Kill \/ MapFault
  BY <1>6, EndInv DEF Exit, Kill, MapFault
<1> QED BY <1>0, <1>1, <1>2, <1>3, <1>4, <1>5, <1>6 DEF Next, Listener, Main

-----------------------------------------------------------------------------
(* No informer is lost once the startup loop has ended.                    *)

\* Both goroutines hold what the map holds, or nothing that matters.
Settling == ~StartingUp /\ \A t \in Threads : ~Racing(t)
Kept == Orphans' \subseteq Orphans /\ \A t \in Threads : ~Racing(t)'

\* A step that leaves the map and the channels alone and takes its goroutine
\* from a point where it holds no channel to another such point loses nothing.
LEMMA QuietKept ==
    ASSUME TypeOK, Settling, NEW t \in Threads,
           UNCHANGED <<informer, informerStopper>>,
           pc[t] \notin {"store", "close", "delete"},
           pc'[t] \notin {"create", "store", "close", "delete"},
           \A u \in Threads \ {t} : pc'[u] = pc[u] /\ frame'[u] = frame[u]
    PROVE  Kept
<1>1. Orphans' \subseteq Orphans
  <2>1. frame[t].stopper = NoChan
    BY HeldType
  <2> QED BY <2>1, ChansAssumption DEF Orphans
<1>2. \A u \in Threads : ~Racing(u)'
  BY DEF Settling, Racing
<1> QED BY <1>1, <1>2 DEF Kept

\* A process that ends has no informers.
LEMMA EndKept ==
    ASSUME NEW how, EndProcess(how)
    PROVE  Kept
BY DEF EndProcess, Kept, Orphans, NothingRuns, Racing, Threads

\* After the check the map has no entry for the cluster, and while main does
\* not start informers nobody else makes one: the store overwrites nothing.
LEMMA StartKept ==
    ASSUME TypeOK, RegistryInv, Settling, NEW t \in Threads,
           FindById(t) \/ CheckExists(t) \/ CreateInformer(t) \/ StoreStopper(t)
    PROVE  Kept
<1> DEFINE c0 == frame[t].cluster
<1>0. /\ t = "listener" /\ c0 \in Clusters /\ frame[t] \in Frames
      /\ pc[t] \in {"find", "check", "create", "store"}
  <2>1. pc[t] \in {"find", "check", "create", "store"}
    BY DEF FindById, CheckExists, CreateInformer, StoreStopper
  <2> QED BY <2>1, LocalsInCall DEF Settling, StartingUp, Threads, CallPoints
<1>1. CASE FindById(t)
  <2>1. pc'[t] \in {"check", "idle", "stopNext", "startNext"}
        /\ \A u \in Threads \ {t} : pc'[u] = pc[u] /\ frame'[u] = frame[u]
    BY <1>1, GoEffect, ReturnEffect DEF FindById
  <2> QED BY <1>1, <2>1, QuietKept DEF FindById, maps
<1>2. CASE CheckExists(t)
  <2>1. CASE Return(t)
    <3>1. pc'[t] \in {"idle", "stopNext", "startNext"}
          /\ \A u \in Threads \ {t} : pc'[u] = pc[u] /\ frame'[u] = frame[u]
      BY <2>1, ReturnEffect
    <3> QED BY <1>2, <3>1, QuietKept DEF CheckExists, maps
  <2>2. CASE informerStopper[c0] = NoChan /\ Go(t, "create", frame[t])
    <3>1. /\ pc'[t] = "create" /\ frame' = frame
          /\ \A u \in Threads \ {t} : pc'[u] = pc[u]
          /\ UNCHANGED <<informer, informerStopper>>
      BY <1>2, <2>2 DEF CheckExists, Go, TypeOK, maps
    <3> QED BY <2>2, <3>1 DEF Settling, Kept, Orphans, Racing
  <2> QED BY <1>2, <2>1, <2>2 DEF CheckExists
<1>3. CASE CreateInformer(t)
  <2>0. pc[t] = "create" /\ informerStopper' = informerStopper
    BY <1>3 DEF CreateInformer
  <2>1. CASE Return(t) /\ UNCHANGED informer
    <3>1. pc'[t] \in {"idle", "stopNext", "startNext"}
          /\ \A u \in Threads \ {t} : pc'[u] = pc[u] /\ frame'[u] = frame[u]
      BY <2>1, ReturnEffect
    <3> QED BY <2>0, <2>1, <3>1, QuietKept
  <2>2. ASSUME NEW ch \in FreshChans,
               informer' = [informer EXCEPT ![ch] =
                    [cluster |-> frame[t].cluster, config |-> frame[t].config]],
               Go(t, "store", [frame[t] EXCEPT !.stopper = ch])
        PROVE  Kept
    <3>1. /\ pc'[t] = "store"
          /\ frame'[t] = [frame[t] EXCEPT !.stopper = ch]
          /\ \A u \in Threads \ {t} : pc'[u] = pc[u] /\ frame'[u] = frame[u]
      BY <2>2, GoEffect
    <3>2. frame'[t].stopper = ch /\ frame'[t].cluster = c0
      BY <1>0, <3>1 DEF Frames
    <3>3. /\ ch \in Chans /\ \A u \in Threads : frame[u].stopper # ch
          /\ \A x \in Chans \ {ch} : informer'[x] = informer[x]
      BY <2>2 DEF FreshChans, TypeOK
    <3>4. Orphans' \subseteq Orphans
      <4>1. frame[t].stopper = NoChan
        BY <2>0, HeldType
      <4>2. ASSUME NEW x \in Orphans'
            PROVE  x \in Orphans
        <5>1. /\ x \in Chans /\ informer'[x] # NoInformer
              /\ \A c \in Clusters : informerStopper'[c] # x
              /\ \A u \in Threads : frame'[u].stopper # x
          BY DEF Orphans
        <5>2. x # ch
          BY <3>2, <5>1
        <5>3. informer[x] # NoInformer
          BY <3>3, <5>1, <5>2
        <5>4. \A u \in Threads : frame[u].stopper # x
          BY <3>1, <4>1, <5>1, ChansAssumption
        <5> QED BY <2>0, <5>1, <5>3, <5>4 DEF Orphans
      <4> QED BY <4>2
    <3>5. ~Racing(t)'
      BY <2>0, <3>1, <3>2 DEF Settling, Racing
    <3>6. ASSUME NEW u \in Threads \ {t}
          PROVE  ~Racing(u)'
      <4>1. pc[u] = "close" =>
              informer'[frame[u].stopper] = informer[frame[u].stopper]
        BY <3>3, HeldType
      <4> QED BY <2>0, <3>1, <4>1 DEF Settling, Racing
    <3> QED BY <3>4, <3>5, <3>6 DEF Kept
  <2> QED BY <1>3, <2>1, <2>2 DEF CreateInformer, ClusterClientError
<1>4. CASE StoreStopper(t)
  <2> DEFINE ch == frame[t].stopper
  <2>1. /\ pc[t] = "store" /\ ch \in Chans /\ UNCHANGED informer
        /\ informerStopper[c0] = NoChan
        /\ informerStopper' = [informerStopper EXCEPT ![c0] = ch]
    BY <1>4, HeldType DEF StoreStopper, Settling, Racing
  <2>2. /\ informerStopper'[c0] = ch
        /\ \A c \in Clusters \ {c0} : informerStopper'[c] = informerStopper[c]
    BY <1>0, <2>1 DEF TypeOK
  <2>3. /\ pc'[t] \in {"idle", "stopNext", "startNext"}
        /\ \A u \in Threads \ {t} : pc'[u] = pc[u] /\ frame'[u] = frame[u]
    BY <1>4, ReturnEffect DEF StoreStopper
  <2>4. Orphans' \subseteq Orphans
    BY <1>0, <2>1, <2>2, <2>3, ChansAssumption DEF Orphans
  <2>5. ~Racing(t)'
    BY <2>3 DEF Racing
  <2>6. ASSUME NEW u \in Threads \ {t}
        PROVE  ~Racing(u)'
    <3>1. u = "main" /\ ~StartingUp /\ ~Racing(u)
      BY <1>0 DEF Settling, Threads
    <3>2. pc[u] \in CallPoints => frame[u].cluster \in Clusters
      BY HeldType
    <3>3. pc[u] \in {"close", "delete"} => frame[u].stopper # NoChan
      BY HeldType, ChansAssumption
    <3> QED BY <2>1, <2>2, <2>3, <3>1, <3>2, <3>3
            DEF Racing, StartingUp, CallPoints
  <2> QED BY <2>4, <2>5, <2>6 DEF Kept
<1> QED BY <1>1, <1>2, <1>3, <1>4

\* A goroutine stops what the map holds, and deletes the entry it closed.
LEMMA StopKept ==
    ASSUME TypeOK, RegistryInv, Settling, NEW t \in Threads,
           LookupStopper(t) \/ CloseStopper(t) \/ DeleteStopper(t)
    PROVE  Kept
<1> DEFINE c0 == frame[t].cluster
<1>0. c0 \in Clusters /\ frame[t] \in Frames
  BY LocalsInCall DEF LookupStopper, CloseStopper, DeleteStopper, CallPoints
<1>1. CASE LookupStopper(t)
  <2>0. pc[t] = "lookup" /\ UNCHANGED <<informer, informerStopper>>
    BY <1>1 DEF LookupStopper, maps
  <2>1. CASE StopReturn(t)
    <3>1. pc'[t] \in {"idle", "stopNext", "startNext", "find"}
          /\ \A u \in Threads \ {t} : pc'[u] = pc[u] /\ frame'[u] = frame[u]
      BY <2>0, <2>1, StopReturnEffect
    <3> QED BY <2>0, <3>1, QuietKept
  <2>2. CASE Go(t, "close", [frame[t] EXCEPT !.stopper = informerStopper[c0]])
    <3>1. /\ pc'[t] = "close"
          /\ frame'[t] = [frame[t] EXCEPT !.stopper = informerStopper[c0]]
          /\ \A u \in Threads \ {t} : pc'[u] = pc[u] /\ frame'[u] = frame[u]
      BY <2>2, GoEffect
    <3>2. frame'[t].stopper = informerStopper[c0] /\ frame'[t].cluster = c0
      BY <1>0, <3>1 DEF Frames
    <3>3. frame[t].stopper = NoChan
      BY <2>0, HeldType
    <3>4. Orphans' \subseteq Orphans
      BY <2>0, <3>1, <3>3, ChansAssumption DEF Orphans
    <3>5. ~Racing(t)'
      BY <2>0, <3>1, <3>2 DEF Racing
    <3>6. \A u \in Threads \ {t} : ~Racing(u)'
      BY <2>0, <3>1 DEF Settling, Racing
    <3> QED BY <3>4, <3>5, <3>6 DEF Kept
  <2> QED BY <1>1, <2>1, <2>2 DEF LookupStopper
<1>2. CASE CloseStopper(t)
  <2>1. CASE EndProcess("panic")
    BY <2>1, EndKept
  <2>2. CASE ~EndProcess("panic")
    <3> DEFINE ch == frame[t].stopper
    <3>1. /\ pc[t] = "close" /\ ch \in Chans
          /\ informerStopper' = informerStopper /\ informer[ch] # NoInformer
          /\ informer' = [informer EXCEPT ![ch] = NoInformer]
          /\ Go(t, "delete", frame[t])
      BY <1>2, <2>2, HeldType DEF CloseStopper
    <3>2. /\ pc'[t] = "delete" /\ frame' = frame
          /\ \A u \in Threads \ {t} : pc'[u] = pc[u]
      BY <3>1 DEF Go, TypeOK
    <3>3. \A x \in Chans : informer'[x] # NoInformer => informer'[x] = informer[x]
      BY <3>1 DEF TypeOK
    <3>4. Orphans' \subseteq Orphans
      BY <3>1, <3>2, <3>3 DEF Orphans
    <3>5. ~Racing(t)'
      BY <3>1, <3>2 DEF Settling, Racing
    <3>6. ASSUME NEW u \in Threads \ {t}
          PROVE  ~Racing(u)'
      BY <3>1, <3>2, <3>3, HeldType DEF Settling, Racing
    <3> QED BY <3>4, <3>5, <3>6 DEF Kept
  <2> QED BY <2>1, <2>2
<1>3. CASE DeleteStopper(t)
  <2> DEFINE ch == frame[t].stopper
  <2>1. /\ pc[t] = "delete" /\ ch \in Chans /\ UNCHANGED informer
        /\ informer[ch] = NoInformer /\ informerStopper[c0] = ch
        /\ informerStopper' = [informerStopper EXCEPT ![c0] = NoChan]
    BY <1>3, HeldType
       DEF DeleteStopper, Settling, Racing, RegistryInv, HeldChannels, HeldBy
  <2>2. /\ informerStopper'[c0] = NoChan
        /\ \A c \in Clusters \ {c0} : informerStopper'[c] = informerStopper[c]
    BY <1>0, <2>1 DEF TypeOK
  <2>3. /\ pc'[t] \in {"idle", "stopNext", "startNext", "find"}
        /\ \A u \in Threads \ {t} : pc'[u] = pc[u] /\ frame'[u] = frame[u]
    BY <1>3, StopReturnEffect DEF DeleteStopper
  <2>4. Orphans' \subseteq Orphans
    <3> SUFFICES ASSUME NEW x \in Orphans' PROVE x \in Orphans
      OBVIOUS
    <3>1. /\ x \in Chans /\ informer[x] # NoInformer
          /\ \A c \in Clusters : informerStopper'[c] # x
          /\ \A u \in Threads : frame'[u].stopper # x
      BY <2>1 DEF Orphans
    <3>2. x # ch
      BY <2>1, <3>1
    <3> QED BY <2>1, <2>2, <2>3, <3>1, <3>2 DEF Orphans
  <2>5. ~Racing(t)'
    BY <2>3 DEF Racing
  <2>6. ASSUME NEW u \in Threads \ {t}
        PROVE  ~Racing(u)'
    <3>1. ~Racing(u) /\ pc'[u] = pc[u] /\ frame'[u] = frame[u]
      BY <2>3 DEF Settling
    <3>2. pc[u] \in CallPoints => frame[u].cluster \in Clusters
      BY HeldType
    <3>3. pc[u] = "delete" => frame[u].stopper # ch
      BY <2>1 DEF RegistryInv, HeldChannels, HeldBy
    <3> QED BY <2>1, <2>2, <3>1, <3>2, <3>3 DEF Racing, CallPoints
  <2> QED BY <2>4, <2>5, <2>6 DEF Kept
<1> QED BY <1>1, <1>2, <1>3

-----------------------------------------------------------------------------
(* The theorems.                                                           *)

\* The inductive invariant of the registry holds in every behaviour.
THEOREM RegistryInvariant == Spec => []RegistryInv
<1>1. Init => RegistryInv
  BY DEF Init, EmptyRegistry, Booting, RegistryInv, RegisteredIsLive,
         HeldChannels, HeldBy, ClosesOnce, DownIsIdle, Threads
<1>2. TypeOK /\ RegistryInv /\ [Next]_vars => RegistryInv'
  BY RegistryStep
<1> QED BY <1>1, <1>2, TypeCorrect, PTL DEF Spec

\* A registered stop channel always stops a running informer of its cluster,
\* except between the close and the delete of stopSystemWorkflowInformer.
THEOREM RegisteredAlwaysLive == Spec => []RegisteredIsLive
<1>1. RegistryInv => RegisteredIsLive
  BY DEF RegistryInv
<1> QED BY <1>1, RegistryInvariant, PTL

\* A close of a closed channel, which panics, takes the shutdown loop.
THEOREM DoubleCloseAtShutdown == Spec => DoubleCloseOnlyAtShutdown
<1>1. TypeOK /\ RegistryInv /\ [Next]_vars =>
        [process' = "panic" /\ process = "up" => ShuttingDown]_vars
  <2> SUFFICES ASSUME TypeOK, RegistryInv, Next,
                      process' = "panic", process = "up"
               PROVE  ShuttingDown
    OBVIOUS
  <2>1. PICK t \in Threads : CloseStopper(t) /\ EndProcess("panic")
    BY DEF Next, Orchestrator, SaveCluster, EditCluster, DeactivateCluster,
           SecretChanged, SecretRemoved, Resync, Listener, ListSecrets,
           HandleEvent, SyncFind, DeleteFind, Main, StartClusterInformer,
           FindAllActive, StartNext, StopAll, StopNext, Exit, Signal, Kill,
           MapFault, Restart, EndProcess, Call, FindById, CheckExists,
           CreateInformer, StoreStopper, LookupStopper, CloseStopper,
           DeleteStopper, world, memory, Threads
  <2>2. pc[t] = "close" /\ informer[frame[t].stopper] = NoInformer
    BY <2>1 DEF CloseStopper, world
  <2>3. CASE t = "main"
    BY <2>2, <2>3 DEF ShuttingDown
  <2>4. CASE t = "listener"
    BY <2>2, <2>4 DEF RegistryInv, ClosesOnce
  <2> QED BY <2>3, <2>4 DEF Threads
<1> QED BY <1>1, TypeCorrect, RegistryInvariant, PTL
        DEF Spec, DoubleCloseOnlyAtShutdown

\* Once the startup loop has ended and no overlapping handler is racing with
\* it, no step makes an informer unreachable, and none starts a race.
THEOREM NothingLost == Spec => NoNewOrphans
<1>1. ASSUME TypeOK, RegistryInv, Next, Settling
      PROVE  Kept
  <2>0. "main" \in Threads /\ "listener" \in Threads
    BY DEF Threads
  <2>1. CASE Orchestrator
    <3>1. UNCHANGED memory
      BY <2>1 DEF Orchestrator, SaveCluster, EditCluster, DeactivateCluster,
                  SecretChanged, SecretRemoved, Resync
    <3> QED BY <1>1, <3>1 DEF memory, Settling, Kept, Orphans, Racing
  <2>2. CASE \E t \in Threads : Call(t)
    BY <1>1, <2>2, StartKept, StopKept DEF Call
  <2>3. CASE ListSecrets \/ HandleEvent \/ SyncFind \/ DeleteFind
    <3>1. /\ pc["listener"] \in {"list", "idle", "syncFind", "deleteFind"}
          /\ UNCHANGED <<informer, informerStopper>>
      BY <2>3 DEF ListSecrets, HandleEvent, SyncFind, DeleteFind, world, maps
    <3>2. /\ pc'["listener"] \in {"idle", "find", "syncFind", "deleteFind",
                                  "lookup"}
          /\ pc'["main"] = pc["main"] /\ frame'["main"] = frame["main"]
      BY <1>1, <2>3, <3>1, HandlerCalls
         DEF ListSecrets, HandleEvent, SyncFind, DeleteFind, Return, Invoke,
             Go, TypeOK, Threads
    <3>3. \A u \in Threads \ {"listener"} :
            pc'[u] = pc[u] /\ frame'[u] = frame[u]
      BY <3>2 DEF Threads
    <3> QED BY <1>1, <2>0, <3>1, <3>2, <3>3, QuietKept
  <2>4. CASE StopAll \/ StopNext \/ Signal
    <3>1. /\ pc["main"] \in {"serving", "keys", "stopNext"}
          /\ UNCHANGED <<informer, informerStopper>>
      BY <2>4 DEF StopAll, StopNext, Signal, world, maps
    <3>2. /\ pc'["main"] \in {"keys", "stopNext", "lookup", "sleep"}
          /\ pc'["listener"] = pc["listener"]
          /\ frame'["listener"] = frame["listener"]
      BY <1>1, <2>4
         DEF StopAll, StopNext, Signal, Invoke, Go, TypeOK, Threads
    <3>3. \A u \in Threads \ {"main"} :
            pc'[u] = pc[u] /\ frame'[u] = frame[u]
      BY <3>2 DEF Threads
    <3> QED BY <1>1, <2>0, <3>1, <3>2, <3>3, QuietKept
  <2>5. CASE StartClusterInformer \/ FindAllActive \/ StartNext
    BY <1>1, <2>5
       DEF StartClusterInformer, FindAllActive, StartNext, Settling,
           StartingUp
  <2>6. CASE Restart
    <3>1. pc["main"] = "down" /\ pc["listener"] = "off"
      BY <1>1, <2>6 DEF Restart, RegistryInv, DownIsIdle
    <3>2. \A t \in Threads : frame[t].stopper = NoChan
      BY <1>1, <3>1, HeldType DEF Threads
    <3>3. /\ UNCHANGED <<informer, informerStopper>>
          /\ \A t \in Threads : pc'[t] \in {"boot", "off"}
      BY <2>6 DEF Restart, Booting, maps
    <3> QED BY <3>2, <3>3, ChansAssumption DEF Kept, Orphans, Racing
  <2>7. CASE Exit \/ Kill \/ MapFault
    BY <2>7, EndKept DEF Exit, Kill, MapFault
  <2> QED BY <1>1, <2>0, <2>1, <2>2, <2>3, <2>4, <2>5, <2>6, <2>7
          DEF Next, Listener, Main
<1>2. TypeOK /\ RegistryInv /\ [Next]_vars =>
        [~StartingUp /\ (\A t \in Threads : ~Racing(t))
            => Orphans' \subseteq Orphans /\ \A t \in Threads : ~Racing(t)']_vars
  BY <1>1 DEF Settling, Kept
<1> QED BY <1>2, TypeCorrect, RegistryInvariant, PTL DEF Spec, NoNewOrphans

-----------------------------------------------------------------------------
(* What DeleteUnregisters rests on: the safety half of it.                 *)

\* The row of the cluster is inactive, the map has no entry for it and no
\* startSystemWorkflowInformer has got past its query.
Out(c) ==
    /\ db[c].state = "inactive" /\ informerStopper[c] = NoChan
    /\ \A t \in Threads : pc[t] \in {"check", "create", "store"} =>
                          frame[t].cluster # c

\* handleClusterDelete has found the inactive row, while main serves.
Deleting(c) ==
    /\ db[c].state = "inactive" /\ pc["main"] = "serving"
    /\ frame["listener"].op = "delete" /\ frame["listener"].cluster = c
    /\ pc["listener"] \in {"lookup", "close", "delete"}

\* A goroutine moves, but into no start of the cluster.
LEMMA OutQuiet ==
    ASSUME NEW c \in Clusters, Out(c), NEW t \in Threads, UNCHANGED db,
           informerStopper'[c] = NoChan,
           \/ pc'[t] \notin {"check", "create", "store"}
           \/ frame'[t].cluster # c,
           \A u \in Threads \ {t} : pc'[u] = pc[u] /\ frame'[u] = frame[u]
    PROVE  Out(c)'
BY DEF Out

\* A process that ends leaves nothing registered.
LEMMA EndOut ==
    ASSUME NEW c \in Clusters, Out(c), NEW how, EndProcess(how)
    PROVE  Out(c)'
BY DEF Out, EndProcess, EmptyRegistry, Threads

\* startSystemWorkflowInformer does not get past its query.
LEMMA StartOut ==
    ASSUME TypeOK, NEW c \in Clusters, Out(c), NEW t \in Threads,
           \/ FindById(t) \/ CheckExists(t) \/ CreateInformer(t)
           \/ StoreStopper(t)
    PROVE  Out(c)'
<1>0. frame[t] \in Frames /\ frame[t].cluster \in Clusters /\ UNCHANGED db
  BY LocalsInCall
     DEF FindById, CheckExists, CreateInformer, StoreStopper, CallPoints, world
<1>1. informerStopper'[c] = NoChan
  <2>1. CASE StoreStopper(t)
    <3>1. frame[t].cluster # c
      BY <2>1 DEF StoreStopper, Out
    <3> QED BY <1>0, <2>1, <3>1 DEF StoreStopper, TypeOK, Out
  <2>2. CASE FindById(t) \/ CheckExists(t) \/ CreateInformer(t)
    BY <2>2 DEF FindById, CheckExists, CreateInformer, maps, Out
  <2> QED BY <2>1, <2>2
<1>2. CASE Return(t)
  BY <1>0, <1>1, <1>2, ReturnEffect, OutQuiet
<1>3. ASSUME NEW p, NEW f, Go(t, p, f), f.cluster # c
      PROVE  Out(c)'
  BY <1>0, <1>1, <1>3, GoEffect, OutQuiet
<1>4. CASE FindById(t)
  <2>1. CASE Found(frame[t].cluster, "active")
    <3>1. frame[t].cluster # c
      BY <2>1 DEF Found, HasRow, Out
    <3>2. [frame[t] EXCEPT !.config = db[frame[t].cluster].config].cluster # c
      BY <1>0, <3>1 DEF Frames
    <3> QED BY <1>2, <1>3, <1>4, <3>2 DEF FindById
  <2>2. CASE ~Found(frame[t].cluster, "active")
    BY <1>2, <1>4, <2>2 DEF FindById
  <2> QED BY <2>1, <2>2
<1>5. CASE CheckExists(t)
  <2>1. frame[t].cluster # c
    BY <1>5 DEF CheckExists, Out
  <2> QED BY <1>2, <1>3, <1>5, <2>1 DEF CheckExists
<1>6. CASE CreateInformer(t)
  <2>1. frame[t].cluster # c
    BY <1>6 DEF CreateInformer, Out
  <2>2. \A ch : [frame[t] EXCEPT !.stopper = ch].cluster # c
    BY <1>0, <2>1 DEF Frames
  <2> QED BY <1>2, <1>3, <1>6, <2>2 DEF CreateInformer
<1>7. CASE StoreStopper(t)
  BY <1>2, <1>7 DEF StoreStopper
<1> QED BY <1>4, <1>5, <1>6, <1>7

\* stopSystemWorkflowInformer only takes entries out.
LEMMA StopOut ==
    ASSUME TypeOK, NEW c \in Clusters, Out(c), NEW t \in Threads,
           LookupStopper(t) \/ CloseStopper(t) \/ DeleteStopper(t)
    PROVE  Out(c)'
<1>0. frame[t].cluster \in Clusters
  BY LocalsInCall DEF LookupStopper, CloseStopper, DeleteStopper, CallPoints
<1>1. CASE EndProcess("panic")
  BY <1>1, EndOut
<1>2. CASE ~EndProcess("panic")
  <2>1. UNCHANGED db /\ informerStopper'[c] = NoChan
    BY <1>0, <1>2
       DEF LookupStopper, CloseStopper, DeleteStopper, world, maps, Out, TypeOK
  <2>2. CASE StopReturn(t) /\ pc[t] \in {"lookup", "delete"}
    BY <2>1, <2>2, StopReturnEffect, OutQuiet
  <2>3. ASSUME NEW p \in {"close", "delete"}, NEW f, Go(t, p, f)
        PROVE  Out(c)'
    BY <2>1, <2>3, GoEffect, OutQuiet
  <2> QED BY <1>2, <2>2, <2>3 DEF LookupStopper, CloseStopper, DeleteStopper
<1> QED BY <1>1, <1>2

\* No step brings the cluster back.
LEMMA NextOut ==
    ASSUME TypeOK, [Next]_vars, NEW c \in Clusters, Out(c)
    PROVE  Out(c)'
<1>0. "main" \in Threads /\ "listener" \in Threads
  BY DEF Threads
<1>1. CASE Orchestrator
  <2>1. UNCHANGED memory
    BY <1>1 DEF Orchestrator, SaveCluster, EditCluster, DeactivateCluster,
                SecretChanged, SecretRemoved, Resync
  <2>2. db'[c].state = "inactive"
    BY <1>1 DEF Orchestrator, SaveCluster, EditCluster, DeactivateCluster,
                SecretChanged, SecretRemoved, Resync, Out, TypeOK
  <2> QED BY <2>1, <2>2 DEF memory, Out
<1>2. CASE \E t \in Threads : Call(t)
  BY <1>2, StartOut, StopOut DEF Call
<1>3. CASE ListSecrets \/ HandleEvent \/ SyncFind \/ DeleteFind
  <2>1. UNCHANGED <<db, informerStopper>>
    BY <1>3 DEF ListSecrets, HandleEvent, SyncFind, DeleteFind, world, maps
  <2>2. \/ UNCHANGED <<pc, frame>>
        \/ /\ pc'["listener"] \in {"idle", "find", "syncFind", "deleteFind",
                                   "lookup"}
           /\ pc'["main"] = pc["main"] /\ frame'["main"] = frame["main"]
    BY <1>3, HandlerCalls
       DEF ListSecrets, HandleEvent, SyncFind, DeleteFind, Return, Invoke,
           Go, TypeOK, Threads
  <2> QED BY <1>0, <2>1, <2>2, OutQuiet DEF Out, Threads
<1>4. CASE StartClusterInformer \/ FindAllActive \/ StartNext \/ StopAll
           \/ StopNext \/ Signal
  <2>1. UNCHANGED <<db, informerStopper>>
    BY <1>4 DEF StartClusterInformer, FindAllActive, StartNext, StopAll,
                StopNext, Signal, world, maps
  <2>2. CASE StartClusterInformer
    <3>1. \A t \in Threads : pc'[t] \in {"findAll", "list", "off"}
      BY <2>2 DEF StartClusterInformer, TypeOK, Threads
    <3> QED BY <2>1, <3>1 DEF Out
  <2>3. CASE ~StartClusterInformer
    <3>1. /\ pc'["main"] \in {"startNext", "serving", "find", "keys",
                              "stopNext", "lookup", "sleep"}
          /\ pc'["listener"] = pc["listener"]
          /\ frame'["listener"] = frame["listener"]
      BY <1>4, <2>3 DEF FindAllActive, StartNext, StopAll, StopNext, Signal,
                        Invoke, Go, TypeOK, Threads
    <3> QED BY <1>0, <2>1, <3>1, OutQuiet DEF Out, Threads
  <2> QED BY <2>2, <2>3
<1>5. CASE Exit \/ Kill \/ MapFault
  BY <1>5, EndOut DEF Exit, Kill, MapFault
<1>6. CASE Restart
  BY <1>6 DEF Restart, Booting, Out, Threads, maps
<1>7. CASE UNCHANGED vars
  BY <1>7 DEF vars, Out
<1> QED BY <1>0, <1>1, <1>2, <1>3, <1>4, <1>5, <1>6, <1>7
        DEF Next, Listener, Main

\* A handleClusterDelete that has found its row ends with the cluster out of
\* the registry.
LEMMA DeleteOut ==
    ASSUME TypeOK, [Next]_vars, NEW c \in Clusters, Deleting(c),
           pc'["listener"] = "idle"
    PROVE  Out(c)'
<1> DEFINE l == "listener"
<1>0. l \in Threads /\ "main" \in Threads /\ pc[l] # "idle"
  BY DEF Threads, Deleting
<1>1. LookupStopper(l) \/ CloseStopper(l) \/ DeleteStopper(l)
  <2>1. \A t \in Threads : Call(t) => t = l
    BY DEF Call, FindById, CheckExists, CreateInformer, StoreStopper,
           LookupStopper, CloseStopper, DeleteStopper, Deleting, Threads
  <2>2. ~(Main \/ Restart \/ Kill \/ MapFault)
    BY <1>0, <2>1 DEF Main, StartClusterInformer, FindAllActive, StartNext,
       StopAll, StopNext, Exit, Restart, Booting, Kill, MapFault, EndProcess,
       Deleting, Threads
  <2>3. pc' # pc
    BY <1>0
  <2>4. ~Orchestrator /\ ~Signal /\ ~UNCHANGED vars
    <3>1. Signal => pc'[l] = pc[l]
      BY DEF Signal, Go, TypeOK, Threads
    <3> QED BY <1>0, <2>3, <3>1
        DEF Orchestrator, SaveCluster, EditCluster, DeactivateCluster,
            SecretChanged, SecretRemoved, Resync, memory, vars
  <2>5. Call(l)
    BY <2>2, <2>4 DEF Next, Listener, ListSecrets, HandleEvent, SyncFind,
                      DeleteFind, Deleting
  <2> QED BY <2>5 DEF Call, FindById, CheckExists, CreateInformer,
                      StoreStopper, Deleting
<1>2. ~CloseStopper(l)
  <2>1. ~EndProcess("panic")
    BY DEF EndProcess, Threads
  <2> QED BY <1>0, <2>1, GoEffect DEF CloseStopper
<1>3. /\ StopReturn(l) /\ pc[l] \in {"lookup", "delete"} /\ UNCHANGED db
      /\ informerStopper'[c] = NoChan
  <2>1. CASE LookupStopper(l)
    <3>1. ~Go(l, "close", [frame[l] EXCEPT !.stopper = informerStopper[c]])
      BY <1>0, GoEffect
    <3> QED BY <2>1, <3>1 DEF LookupStopper, Deleting, world, maps
  <2>2. CASE DeleteStopper(l)
    BY <2>2 DEF DeleteStopper, Deleting, TypeOK, world
  <2> QED BY <1>1, <1>2, <2>1, <2>2
<1>4. pc'["main"] = "serving"
  BY <1>0, <1>3, StopReturnEffect DEF Deleting, Threads
<1> QED BY <1>3, <1>4 DEF Out, Deleting, Threads

\* A cluster handleClusterDelete takes out of the registry stays out, in every
\* state from then on: no add or update event, resync, startup loop or restart
\* registers a cluster whose row is inactive, because every start reads the
\* row again and none can still be past that query.
DeletedForGood ==
    [][\A c \in Clusters :
        /\ Deleting(c) /\ pc'["listener"] = "idle" => Out(c)'
        /\ Out(c) => Out(c)']_vars

\* For any clusters, in every behaviour.
THEOREM DeletedStaysOut == Spec => DeletedForGood
<1> DEFINE Stays == \A c \in Clusters :
                        /\ Deleting(c) /\ pc'["listener"] = "idle" => Out(c)'
                        /\ Out(c) => Out(c)'
<1>1. TypeOK /\ [Next]_vars => [Stays]_vars
  BY NextOut, DeleteOut
<1> QED BY <1>1, TypeCorrect, PTL DEF Spec, DeletedForGood
=============================================================================
