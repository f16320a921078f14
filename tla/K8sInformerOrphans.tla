------------------------- MODULE K8sInformerOrphans -------------------------
(***************************************************************************)
(* What the registry of cluster informers can leave running: at most one   *)
(* orphan per cluster, nothing after a shutdown without handlers, and a    *)
(* removed cluster only if its removal was missed.  Each part has an       *)
(* inductive invariant of its own, on top of RegistryInv; all of them use  *)
(* the same lemmas on what a step of a goroutine does.                     *)
(***************************************************************************)
EXTENDS K8sInformerProofs, ClusterRemoval

-----------------------------------------------------------------------------
(* What a step of a call does, in terms of its cluster and its channel.    *)

\* Goroutine t alone moves, and the loop variable of main stays.
OnlyMoves(t) ==
    /\ \A u \in Threads \ {t} : pc'[u] = pc[u] /\ frame'[u] = frame[u]
    /\ todo' = todo

\* t leaves a call, for the handler loop or for the loop of main it is in.
Leaves(t) ==
    /\ frame'[t].stopper = NoChan
    /\ pc'[t] = IF t = "listener" THEN "idle"
                ELSE IF frame[t].op = "shutdown" THEN "stopNext"
                ELSE "startNext"

\* A return leaves the call and moves nobody else.
LEMMA LeaveEffect ==
    ASSUME TypeOK, NEW t \in Threads, Return(t)
    PROVE  /\ Leaves(t)
           /\ \A u \in Threads \ {t} : pc'[u] = pc[u] /\ frame'[u] = frame[u]
<1> DEFINE p == IF t = "listener" THEN "idle"
                ELSE IF frame[t].op = "shutdown" THEN "stopNext"
                ELSE "startNext"
<1>1. Go(t, p, NoFrame)
  BY DEF Return
<1>2. /\ pc'[t] = p /\ frame'[t] = NoFrame
      /\ \A u \in Threads \ {t} : pc'[u] = pc[u] /\ frame'[u] = frame[u]
  BY <1>1, GoEffect
<1> QED BY <1>2 DEF Leaves, NoFrame

\* Up to the creation a start holds no channel, and it goes on to create an
\* informer only if the map has none.
LEMMA StartEffect ==
    ASSUME TypeOK, NEW t \in Threads, FindById(t) \/ CheckExists(t)
    PROVE  /\ UNCHANGED <<informer, informerStopper>> /\ OnlyMoves(t)
           /\ pc[t] \in {"find", "check"} /\ frame[t].stopper = NoChan
           /\ \/ Leaves(t)
              \/ /\ pc'[t] \in {"check", "create"}
                 /\ pc'[t] = "create" =>
                        informerStopper[frame[t].cluster] = NoChan
                 /\ frame'[t].cluster = frame[t].cluster
                 /\ frame'[t].stopper = NoChan
<1>0. /\ pc[t] \in {"find", "check"}
      /\ UNCHANGED <<informer, informerStopper, todo>>
  BY DEF FindById, CheckExists, maps
<1>1. frame[t].stopper = NoChan /\ frame[t] \in Frames
  BY <1>0, HeldType, LocalsInCall DEF CallPoints
<1>2. CASE Return(t)
  BY <1>0, <1>1, <1>2, LeaveEffect DEF OnlyMoves
<1>3. CASE /\ FindById(t)
           /\ Go(t, "check", [frame[t] EXCEPT !.config = db[frame[t].cluster].config])
  <2>1. /\ pc'[t] = "check"
        /\ frame'[t] = [frame[t] EXCEPT !.config = db[frame[t].cluster].config]
        /\ \A u \in Threads \ {t} : pc'[u] = pc[u] /\ frame'[u] = frame[u]
    BY <1>3, GoEffect
  <2>2. frame'[t].cluster = frame[t].cluster /\ frame'[t].stopper = NoChan
    BY <1>1, <2>1 DEF Frames
  <2> QED BY <1>0, <1>1, <2>1, <2>2 DEF OnlyMoves
<1>4. CASE /\ informerStopper[frame[t].cluster] = NoChan
           /\ Go(t, "create", frame[t])
  <2>1. /\ pc'[t] = "create" /\ frame'[t] = frame[t]
        /\ \A u \in Threads \ {t} : pc'[u] = pc[u] /\ frame'[u] = frame[u]
    BY <1>4, GoEffect
  <2> QED BY <1>0, <1>1, <1>4, <2>1 DEF OnlyMoves
<1> QED BY <1>2, <1>3, <1>4 DEF FindById, CheckExists

\* An informer is started with a channel nobody else has, or nothing happens.
LEMMA CreateEffect ==
    ASSUME TypeOK, NEW t \in Threads, CreateInformer(t)
    PROVE  /\ pc[t] = "create" /\ frame[t].stopper = NoChan
           /\ informerStopper' = informerStopper /\ OnlyMoves(t)
           /\ \/ Leaves(t) /\ informer' = informer
              \/ \E ch \in Chans :
                    /\ pc'[t] = "store" /\ frame'[t].stopper = ch
                    /\ frame'[t].cluster = frame[t].cluster
                    /\ informer[ch] = NoInformer
                    /\ informer'[ch] # NoInformer
                    /\ informer'[ch].cluster = frame[t].cluster
                    /\ \A x \in Chans \ {ch} : informer'[x] = informer[x]
                    /\ \A c \in Clusters : informerStopper[c] # ch
                    /\ \A u \in Threads : frame[u].stopper # ch
<1>0. /\ pc[t] = "create" /\ UNCHANGED <<informerStopper, todo>>
  BY DEF CreateInformer
<1>1. /\ frame[t].stopper = NoChan /\ frame[t] \in Frames
      /\ frame[t].cluster \in Clusters
  BY <1>0, HeldType, LocalsInCall DEF CallPoints
<1>2. CASE Return(t) /\ UNCHANGED informer
  BY <1>0, <1>1, <1>2, LeaveEffect DEF OnlyMoves
<1>3. ASSUME NEW ch \in FreshChans,
             informer' = [informer EXCEPT ![ch] =
                    [cluster |-> frame[t].cluster, config |-> frame[t].config]],
             Go(t, "store", [frame[t] EXCEPT !.stopper = ch])
      PROVE  /\ OnlyMoves(t) /\ ch \in Chans
             /\ pc'[t] = "store" /\ frame'[t].stopper = ch
             /\ frame'[t].cluster = frame[t].cluster
             /\ informer[ch] = NoInformer
             /\ informer'[ch] # NoInformer
             /\ informer'[ch].cluster = frame[t].cluster
             /\ \A x \in Chans \ {ch} : informer'[x] = informer[x]
             /\ \A c \in Clusters : informerStopper[c] # ch
             /\ \A u \in Threads : frame[u].stopper # ch
  <2>1. /\ ch \in Chans /\ informer[ch] = NoInformer
        /\ \A c \in Clusters : informerStopper[c] # ch
        /\ \A u \in Threads : frame[u].stopper # ch
    BY DEF FreshChans
  <2>2. /\ pc'[t] = "store" /\ frame'[t] = [frame[t] EXCEPT !.stopper = ch]
        /\ \A u \in Threads \ {t} : pc'[u] = pc[u] /\ frame'[u] = frame[u]
    BY <1>3, GoEffect
  <2>3. frame'[t].stopper = ch /\ frame'[t].cluster = frame[t].cluster
    BY <1>1, <2>2 DEF Frames
  <2>4. [cluster |-> frame[t].cluster, config |-> frame[t].config] \in Informers
    BY <1>1 DEF Informers, Frames
  <2>5. /\ informer'[ch] # NoInformer
        /\ informer'[ch].cluster = frame[t].cluster
        /\ \A x \in Chans \ {ch} : informer'[x] = informer[x]
    BY <1>3, <2>1, <2>4, InformerAssumption DEF TypeOK
  <2> QED BY <1>0, <2>1, <2>2, <2>3, <2>5 DEF OnlyMoves
<1>4. \/ Return(t) /\ UNCHANGED informer
      \/ \E ch \in FreshChans :
            /\ informer' = [informer EXCEPT ![ch] =
                    [cluster |-> frame[t].cluster, config |-> frame[t].config]]
            /\ Go(t, "store", [frame[t] EXCEPT !.stopper = ch])
  BY DEF CreateInformer
<1> QED BY <1>0, <1>1, <1>2, <1>3, <1>4

\* The map gets the channel of the new informer.
LEMMA StoreEffect ==
    ASSUME TypeOK, NEW t \in Threads, StoreStopper(t)
    PROVE  /\ pc[t] = "store" /\ informer' = informer /\ OnlyMoves(t) /\ Leaves(t)
           /\ frame[t].cluster \in Clusters /\ frame[t].stopper \in Chans
           /\ informerStopper'[frame[t].cluster] = frame[t].stopper
           /\ \A c \in Clusters \ {frame[t].cluster} :
                informerStopper'[c] = informerStopper[c]
<1>1. /\ pc[t] = "store" /\ UNCHANGED <<informer, todo>> /\ Return(t)
      /\ frame[t].cluster \in Clusters /\ frame[t].stopper \in Chans
      /\ informerStopper' =
            [informerStopper EXCEPT ![frame[t].cluster] = frame[t].stopper]
  BY HeldType DEF StoreStopper, CallPoints
<1>2. /\ informerStopper'[frame[t].cluster] = frame[t].stopper
      /\ \A c \in Clusters \ {frame[t].cluster} :
            informerStopper'[c] = informerStopper[c]
  BY <1>1 DEF TypeOK
<1> QED BY <1>1, <1>2, LeaveEffect DEF OnlyMoves

\* A stop that is done goes on to the start of a sync, or leaves.
LEMMA StopLeaves ==
    ASSUME TypeOK, NEW t \in Threads, pc[t] \in {"lookup", "delete"},
           StopReturn(t)
    PROVE  /\ frame'[t].stopper = NoChan
           /\ \A u \in Threads \ {t} : pc'[u] = pc[u] /\ frame'[u] = frame[u]
           /\ \/ t = "listener" /\ pc'[t] \in {"find", "idle"}
              \/ t = "main" /\ pc'[t] = "stopNext"
<1>1. t = "listener" => pc'[t] \in {"find", "idle"}
  BY LeaveEffect, GoEffect DEF StopReturn, Leaves
<1> QED BY <1>1, StopReturnEffect DEF Threads

\* The channel of the map's entry is taken, or there is none.
LEMMA LookupEffect ==
    ASSUME TypeOK, NEW t \in Threads, LookupStopper(t)
    PROVE  /\ pc[t] = "lookup" /\ UNCHANGED <<informer, informerStopper>>
           /\ OnlyMoves(t) /\ frame[t].stopper = NoChan
           /\ frame[t].cluster \in Clusters
           /\ \/ /\ informerStopper[frame[t].cluster] = NoChan
                 /\ frame'[t].stopper = NoChan
                 /\ \/ t = "listener" /\ pc'[t] \in {"find", "idle"}
                    \/ t = "main" /\ pc'[t] = "stopNext"
              \/ /\ pc'[t] = "close" /\ frame'[t].cluster = frame[t].cluster
                 /\ frame'[t].stopper = informerStopper[frame[t].cluster]
<1>0. /\ pc[t] = "lookup" /\ UNCHANGED <<informer, informerStopper, todo>>
      /\ frame[t].stopper = NoChan
      /\ frame[t].cluster \in Clusters /\ frame[t] \in Frames
  BY HeldType, LocalsInCall DEF LookupStopper, CallPoints, maps
<1>1. CASE informerStopper[frame[t].cluster] = NoChan /\ StopReturn(t)
  BY <1>0, <1>1, StopLeaves DEF OnlyMoves
<1>2. CASE Go(t, "close", [frame[t] EXCEPT
                            !.stopper = informerStopper[frame[t].cluster]])
  <2>1. /\ pc'[t] = "close"
        /\ frame'[t] = [frame[t] EXCEPT
                            !.stopper = informerStopper[frame[t].cluster]]
        /\ \A u \in Threads \ {t} : pc'[u] = pc[u] /\ frame'[u] = frame[u]
    BY <1>2, GoEffect
  <2>2. /\ frame'[t].stopper = informerStopper[frame[t].cluster]
        /\ frame'[t].cluster = frame[t].cluster
    BY <1>0, <2>1 DEF Frames
  <2> QED BY <1>0, <2>1, <2>2 DEF OnlyMoves
<1> QED BY <1>1, <1>2 DEF LookupStopper

\* An open channel is closed, or the process ends.
LEMMA CloseEffect ==
    ASSUME TypeOK, NEW t \in Threads, CloseStopper(t)
    PROVE  \/ EndProcess("panic") /\ informer[frame[t].stopper] = NoInformer
           \/ /\ pc[t] = "close" /\ pc'[t] = "delete" /\ frame' = frame
              /\ OnlyMoves(t) /\ informerStopper' = informerStopper
              /\ frame[t].stopper \in Chans
              /\ informer'[frame[t].stopper] = NoInformer
              /\ \A x \in Chans \ {frame[t].stopper} :
                    informer'[x] = informer[x]
<1>1. CASE ~(EndProcess("panic") /\ informer[frame[t].stopper] = NoInformer)
  <2>1. /\ pc[t] = "close" /\ UNCHANGED <<informerStopper, todo>>
        /\ frame[t].stopper \in Chans
        /\ informer' = [informer EXCEPT ![frame[t].stopper] = NoInformer]
        /\ Go(t, "delete", frame[t])
    BY <1>1, HeldType DEF CloseStopper
  <2>2. /\ informer'[frame[t].stopper] = NoInformer
        /\ \A x \in Chans \ {frame[t].stopper} : informer'[x] = informer[x]
    BY <2>1 DEF TypeOK
  <2>3. /\ pc'[t] = "delete" /\ frame' = frame
        /\ \A u \in Threads \ {t} : pc'[u] = pc[u]
    BY <2>1 DEF Go, TypeOK
  <2> QED BY <2>1, <2>2, <2>3 DEF OnlyMoves
<1> QED BY <1>1

\* The entry of the cluster goes, whatever it holds.
LEMMA DeleteEffect ==
    ASSUME TypeOK, NEW t \in Threads, DeleteStopper(t)
    PROVE  /\ pc[t] = "delete" /\ informer' = informer /\ OnlyMoves(t)
           /\ frame[t].cluster \in Clusters /\ frame[t].stopper \in Chans
           /\ informerStopper'[frame[t].cluster] = NoChan
           /\ \A c \in Clusters \ {frame[t].cluster} :
                informerStopper'[c] = informerStopper[c]
           /\ frame'[t].stopper = NoChan
           /\ \/ t = "listener" /\ pc'[t] \in {"find", "idle"}
              \/ t = "main" /\ pc'[t] = "stopNext"
<1>1. /\ pc[t] = "delete" /\ UNCHANGED <<informer, todo>> /\ StopReturn(t)
      /\ frame[t].cluster \in Clusters /\ frame[t].stopper \in Chans
      /\ informerStopper' = [informerStopper EXCEPT ![frame[t].cluster] = NoChan]
  BY HeldType DEF DeleteStopper, CallPoints
<1>2. /\ informerStopper'[frame[t].cluster] = NoChan
      /\ \A c \in Clusters \ {frame[t].cluster} :
            informerStopper'[c] = informerStopper[c]
  BY <1>1 DEF TypeOK
<1> QED BY <1>1, <1>2, StopLeaves DEF OnlyMoves

\* The handlers of the secret informer move the listener only, and to points
\* where it holds no channel.
LEMMA HandlerEffect ==
    ASSUME TypeOK, ListSecrets \/ HandleEvent \/ SyncFind \/ DeleteFind
    PROVE  /\ UNCHANGED <<informer, informerStopper>> /\ OnlyMoves("listener")
           /\ pc["listener"] \in {"list", "idle", "syncFind", "deleteFind"}
           /\ frame["listener"].stopper = NoChan
           /\ pc'["listener"] \in {"idle", "find", "syncFind", "deleteFind",
                                   "lookup"}
           /\ frame'["listener"].stopper = NoChan
<1>1. /\ pc["listener"] \in {"list", "idle", "syncFind", "deleteFind"}
      /\ UNCHANGED <<informer, informerStopper, todo>>
  BY DEF ListSecrets, HandleEvent, SyncFind, DeleteFind, maps
<1>2. frame["listener"].stopper = NoChan
  BY <1>1, HeldType DEF Threads
<1>3. /\ pc'["listener"] \in {"idle", "find", "syncFind", "deleteFind", "lookup"}
      /\ frame'["listener"].stopper = NoChan
      /\ pc'["main"] = pc["main"] /\ frame'["main"] = frame["main"]
  BY <1>1, <1>2, HandlerCalls
     DEF ListSecrets, SyncFind, DeleteFind, HandleEvent, Return, Invoke, Go,
         NoFrame, TypeOK, Threads
<1> QED BY <1>1, <1>2, <1>3 DEF OnlyMoves, Threads

\* The loops of main move it between points where it holds no channel.
LEMMA LoopEffect ==
    ASSUME TypeOK, FindAllActive \/ StartNext \/ StopAll \/ StopNext \/ Signal
    PROVE  /\ UNCHANGED <<informer, informerStopper>>
           /\ pc'["listener"] = pc["listener"]
           /\ frame'["listener"] = frame["listener"]
           /\ frame["main"].stopper = NoChan /\ frame'["main"].stopper = NoChan
           /\ \/ /\ pc["main"] = "findAll" /\ pc'["main"] \in {"startNext", "serving"}
              \/ /\ pc["main"] = "startNext" /\ pc'["main"] = "serving"
              \/ \E c \in todo :
                    /\ pc["main"] = "startNext" /\ pc'["main"] = "find"
                    /\ frame'["main"].cluster = c /\ todo' = todo \ {c}
              \/ /\ pc["main"] = "serving" /\ pc'["main"] = "keys"
              \/ /\ pc["main"] = "keys" /\ pc'["main"] = "stopNext"
                 /\ todo' = {c \in Clusters : informerStopper[c] # NoChan}
              \/ /\ pc["main"] = "stopNext" /\ pc'["main"] = "sleep"
                 /\ todo = {} /\ todo' = {}
              \/ \E c \in todo :
                    /\ pc["main"] = "stopNext" /\ pc'["main"] = "lookup"
                    /\ frame'["main"].cluster = c /\ todo' = todo \ {c}
<1>1. /\ pc["main"] \in {"findAll", "startNext", "serving", "keys", "stopNext"}
      /\ UNCHANGED <<informer, informerStopper>>
  BY DEF FindAllActive, StartNext, StopAll, StopNext, Signal, maps
<1>2. frame["main"].stopper = NoChan
  BY <1>1, HeldType DEF Threads
<1>3. NoFrame.stopper = NoChan
  BY DEF NoFrame
<1>4. "main" \in Threads /\ "listener" \in Threads \ {"main"}
  BY DEF Threads
<1>5. \A p, f : Go("main", p, f) =>
            /\ pc'["main"] = p /\ frame'["main"] = f
            /\ pc'["listener"] = pc["listener"]
            /\ frame'["listener"] = frame["listener"]
  BY <1>4, GoEffect
<1>6. \A op, c, p : Invoke("main", op, c, p) =>
            /\ pc'["main"] = p /\ frame'["main"].cluster = c
            /\ frame'["main"].stopper = NoChan
            /\ pc'["listener"] = pc["listener"]
            /\ frame'["listener"] = frame["listener"]
  BY <1>5 DEF Invoke
<1>7. CASE FindAllActive
  BY <1>1, <1>2, <1>3, <1>5, <1>7 DEF FindAllActive
<1>8. CASE StartNext
  BY <1>1, <1>2, <1>3, <1>5, <1>6, <1>8 DEF StartNext
<1>9. CASE StopAll
  BY <1>1, <1>2, <1>3, <1>5, <1>9 DEF StopAll
<1>10. CASE StopNext
  BY <1>1, <1>2, <1>3, <1>5, <1>6, <1>10 DEF StopNext
<1>11. CASE Signal
  BY <1>1, <1>2, <1>3, <1>5, <1>11 DEF Signal
<1> QED BY <1>7, <1>8, <1>9, <1>10, <1>11

\* A process that boots holds nothing yet, and nothing is lost by it.
LEMMA BootEffect ==
    ASSUME TypeOK, RegistryInv, StartClusterInformer \/ Restart
    PROVE  /\ UNCHANGED <<informer, informerStopper>>
           /\ pc["main"] \in {"boot", "down"}
           /\ pc'["main"] \in {"boot", "findAll"}
           /\ pc["listener"] = "off" /\ pc'["listener"] \in {"off", "list"}
           /\ \A t \in Threads : frame[t].stopper = NoChan /\ frame'[t].stopper = NoChan
<1>1. /\ pc["main"] \in {"boot", "down"} /\ pc["listener"] = "off"
      /\ UNCHANGED <<informer, informerStopper>> /\ frame' = NoCalls
  BY DEF StartClusterInformer, Restart, RegistryInv, DownIsIdle, maps
<1>2. \A t \in Threads : frame[t].stopper = NoChan
  BY <1>1, HeldType DEF Threads
<1>3. \A t \in Threads : frame'[t].stopper = NoChan
  BY <1>1 DEF NoCalls, NoFrame
<1>4. /\ pc'["main"] \in {"boot", "findAll"}
      /\ pc'["listener"] \in {"off", "list"}
  BY DEF StartClusterInformer, Restart, Booting, TypeOK, Threads
<1> QED BY <1>1, <1>2, <1>3, <1>4

-----------------------------------------------------------------------------
(* At most one orphan per cluster.                                         *)

\* The control points of startSystemWorkflowInformer.
StartPoints == {"find", "check", "create", "store"}

\* The startup loop of this process has yet to start cluster c.
MayStart(c) ==
    \/ pc["main"] \in {"down", "boot", "findAll"}
    \/ pc["main"] \in StartPoints \cup {"startNext"} /\ c \in todo
    \/ pc["main"] \in StartPoints /\ frame["main"].cluster = c

\* A cluster that is being started is no longer in the loop.
StartOnce == pc["main"] \in StartPoints => frame["main"].cluster \notin todo

\* The next write of t to the map can lose an informer of cluster c.
RacingOn(t, c) == frame[t].cluster = c /\ Racing(t)

\* Channel ch stops an informer of cluster c and nobody knows it.
OrphanOf(ch, c) == ch \in Orphans /\ informer[ch].cluster = c

\* One lost informer is all that cluster c is good for: there is one, or a
\* goroutine is racing on c, or main may yet start c and race.
Credit(c) ==
    /\ \A ch1, ch2 \in Chans : OrphanOf(ch1, c) /\ OrphanOf(ch2, c) => ch1 = ch2
    /\ \A ch \in Chans : OrphanOf(ch, c) =>
            ~MayStart(c) /\ \A t \in Threads : ~RacingOn(t, c)
    /\ ~(RacingOn("main", c) /\ RacingOn("listener", c))
    /\ MayStart(c) => ~RacingOn("listener", c)
CreditInv == StartOnce /\ \A c \in Clusters : Credit(c)

\* An entry of the map that is open stops an informer of its own cluster.
LEMMA EntryCluster ==
    ASSUME RegistryInv, NEW c \in Clusters, informerStopper[c] # NoChan,
           informer[informerStopper[c]] # NoInformer
    PROVE  informer[informerStopper[c]].cluster = c
  BY DEF RegistryInv, RegisteredIsLive, HeldChannels, HeldBy

\* Nothing new is lost and nobody races who did not before.
LEMMA CreditKept ==
    ASSUME NEW c \in Clusters, Credit(c),
           \A ch \in Chans : OrphanOf(ch, c)' => OrphanOf(ch, c),
           \A t \in Threads : RacingOn(t, c)' => RacingOn(t, c),
           MayStart(c)' => MayStart(c)
    PROVE  Credit(c)'
  BY DEF Credit, Threads

\* A step of the listener does not change what main may start.
LEMMA ListenerStarts ==
    ASSUME OnlyMoves("listener")
    PROVE  /\ \A c \in Clusters : MayStart(c)' <=> MayStart(c)
           /\ StartOnce => StartOnce'
<1>1. pc'["main"] = pc["main"] /\ frame'["main"] = frame["main"] /\ todo' = todo
  BY DEF OnlyMoves, Threads
<1> QED BY <1>1 DEF MayStart, StartOnce

\* Neither does a step of main in a call, which can only be done with it.
LEMMA MainStarts ==
    ASSUME OnlyMoves("main"), pc["main"] \in CallPoints,
           \/ pc'["main"] \notin StartPoints \cup {"startNext", "down", "boot", "findAll"}
           \/ pc["main"] \in StartPoints /\ pc'["main"] = "startNext"
           \/ /\ pc["main"] \in StartPoints /\ pc'["main"] \in StartPoints
              /\ frame'["main"].cluster = frame["main"].cluster
    PROVE  /\ \A c \in Clusters : MayStart(c)' => MayStart(c)
           /\ StartOnce => StartOnce'
<1>1. todo' = todo
  BY DEF OnlyMoves
<1> QED BY <1>1 DEF MayStart, StartOnce, StartPoints

\* A step that leaves the map and the channels alone, from and to points
\* where its goroutine holds no channel, and starts no race.
LEMMA QuietCredit ==
    ASSUME TypeOK, CreditInv, NEW t \in Threads,
           UNCHANGED <<informer, informerStopper>>,
           \A u \in Threads \ {t} : pc'[u] = pc[u] /\ frame'[u] = frame[u],
           frame[t].stopper = NoChan, frame'[t].stopper = NoChan,
           \/ pc'[t] \notin {"create", "store", "close", "delete"}
           \/ pc'[t] = "create" /\ informerStopper[frame'[t].cluster] = NoChan,
           \A c \in Clusters : MayStart(c)' => MayStart(c), StartOnce'
    PROVE  CreditInv'
<1> SUFFICES ASSUME NEW c \in Clusters PROVE Credit(c)'
  BY DEF CreditInv
<1>1. \A ch \in Chans : OrphanOf(ch, c)' => OrphanOf(ch, c)
  BY DEF OrphanOf, Orphans
<1>2. \A u \in Threads : RacingOn(u, c)' => RacingOn(u, c)
  BY DEF RacingOn, Racing
<1> QED BY <1>1, <1>2, CreditKept DEF CreditInv

\* The query and the check of a start use up no credit.
LEMMA StartCredit ==
    ASSUME TypeOK, RegistryInv, CreditInv, NEW t \in Threads,
           FindById(t) \/ CheckExists(t)
    PROVE  CreditInv'
<1>1. (\A c \in Clusters : MayStart(c)' => MayStart(c)) /\ StartOnce'
  <2>1. CASE t = "listener"
    BY <2>1, StartEffect, ListenerStarts DEF CreditInv
  <2>2. CASE t = "main"
    <3>1. frame["main"].op = "start" /\ pc["main"] \in {"find", "check"}
      BY <2>2, StartEffect DEF TypeOK, Fits
    <3>2. \/ pc'["main"] = "startNext"
          \/ /\ pc'["main"] \in {"check", "create"}
             /\ frame'["main"].cluster = frame["main"].cluster
      BY <2>2, <3>1, StartEffect DEF Leaves
    <3> QED BY <2>2, <3>1, <3>2, StartEffect, MainStarts
            DEF CreditInv, StartPoints, CallPoints
  <2> QED BY <2>1, <2>2 DEF Threads
<1>2. \/ pc'[t] \notin {"create", "store", "close", "delete"}
      \/ pc'[t] = "create" /\ informerStopper[frame'[t].cluster] = NoChan
  BY StartEffect DEF Leaves
<1>3. frame'[t].stopper = NoChan
  BY StartEffect DEF Leaves
<1> QED BY <1>1, <1>2, <1>3, StartEffect, QuietCredit DEF OnlyMoves

\* An informer that is created is held by the goroutine that stores it.
LEMMA CreateCredit ==
    ASSUME TypeOK, RegistryInv, CreditInv, NEW t \in Threads, CreateInformer(t)
    PROVE  CreditInv'
<1>1. (\A c \in Clusters : MayStart(c)' => MayStart(c)) /\ StartOnce'
  <2>1. CASE t = "listener"
    BY <2>1, CreateEffect, ListenerStarts DEF CreditInv
  <2>2. CASE t = "main"
    <3>1. frame["main"].op = "start" /\ pc["main"] = "create"
      BY <2>2, CreateEffect DEF TypeOK, Fits
    <3>2. \/ pc'["main"] = "startNext"
          \/ /\ pc'["main"] = "store"
             /\ frame'["main"].cluster = frame["main"].cluster
      BY <2>2, <3>1, CreateEffect DEF Leaves
    <3> QED BY <2>2, <3>1, <3>2, CreateEffect, MainStarts
            DEF CreditInv, StartPoints, CallPoints
  <2> QED BY <2>1, <2>2 DEF Threads
<1>2. CASE Leaves(t) /\ informer' = informer
  <2>1. pc'[t] \notin {"create", "store", "close", "delete"}
        /\ frame'[t].stopper = NoChan
    BY <1>2 DEF Leaves
  <2> QED BY <1>1, <1>2, <2>1, CreateEffect, QuietCredit DEF OnlyMoves
<1>3. ASSUME NEW ch \in Chans,
             pc'[t] = "store", frame'[t].stopper = ch,
             frame'[t].cluster = frame[t].cluster,
             informer[ch] = NoInformer,
             \A x \in Chans \ {ch} : informer'[x] = informer[x],
             \A c \in Clusters : informerStopper[c] # ch,
             \A u \in Threads : frame[u].stopper # ch
      PROVE  CreditInv'
  <2> SUFFICES ASSUME NEW c \in Clusters PROVE Credit(c)'
    BY <1>1 DEF CreditInv
  <2>0. /\ pc[t] = "create" /\ frame[t].stopper = NoChan
        /\ informerStopper' = informerStopper
        /\ \A u \in Threads \ {t} : pc'[u] = pc[u] /\ frame'[u] = frame[u]
    BY CreateEffect DEF OnlyMoves
  <2>1. ASSUME NEW x \in Chans, OrphanOf(x, c)' PROVE OrphanOf(x, c)
    <3>1. x # ch /\ informer'[x] = informer[x]
      BY <1>3, <2>1 DEF OrphanOf, Orphans
    <3>2. \A u \in Threads : frame[u].stopper # x
      BY <2>0, <2>1, ChansAssumption DEF OrphanOf, Orphans
    <3> QED BY <2>0, <2>1, <3>1, <3>2 DEF OrphanOf, Orphans
  <2>2. ASSUME NEW u \in Threads, RacingOn(u, c)' PROVE RacingOn(u, c)
    <3>1. CASE u = t
      BY <1>3, <2>0, <2>2, <3>1 DEF RacingOn, Racing
    <3>2. CASE u # t
      <4>1. pc[u] = "close" => informer'[frame[u].stopper] = informer[frame[u].stopper]
        BY <1>3, HeldType
      <4> QED BY <2>0, <2>2, <3>2, <4>1 DEF RacingOn, Racing
    <3> QED BY <3>1, <3>2
  <2> QED BY <1>1, <2>1, <2>2, CreditKept DEF CreditInv
<1> QED BY <1>2, <1>3, CreateEffect

\* The store can overwrite an entry, or be overwritten, only if main starts
\* the cluster just now or a goroutine was racing; either way the race is
\* over or the other goroutine has it.
LEMMA StoreCredit ==
    ASSUME TypeOK, RegistryInv, CreditInv, NEW t \in Threads, StoreStopper(t)
    PROVE  CreditInv'
<1> DEFINE c0 == frame[t].cluster
           ch == frame[t].stopper
<1>0. /\ pc[t] = "store" /\ informer' = informer
      /\ c0 \in Clusters /\ ch \in Chans
      /\ informerStopper'[c0] = ch
      /\ \A c \in Clusters \ {c0} : informerStopper'[c] = informerStopper[c]
      /\ frame'[t].stopper = NoChan
      /\ pc'[t] \notin {"create", "store", "close", "delete"}
      /\ \A u \in Threads \ {t} : pc'[u] = pc[u] /\ frame'[u] = frame[u]
  BY StoreEffect DEF OnlyMoves, Leaves
<1>1. (\A c \in Clusters : MayStart(c)' => MayStart(c)) /\ StartOnce'
  <2>1. CASE t = "listener"
    BY <2>1, StoreEffect, ListenerStarts DEF CreditInv
  <2>2. CASE t = "main"
    <3>1. frame["main"].op = "start" /\ pc["main"] = "store"
      BY <2>2, StoreEffect DEF TypeOK, Fits
    <3>2. pc'["main"] = "startNext"
      BY <2>2, <3>1, StoreEffect DEF Leaves
    <3> QED BY <2>2, <3>1, <3>2, StoreEffect, MainStarts
            DEF CreditInv, StartPoints, CallPoints
  <2> QED BY <2>1, <2>2 DEF Threads
<1>2. \A u \in Threads \ {t} : pc[u] \in {"close", "delete"} =>
            frame[u].stopper # ch
  <2>1. HeldBy(t)
    BY DEF RegistryInv, HeldChannels
  <2> QED BY <1>0, <2>1 DEF HeldBy
<1>3. \A c \in Clusters : ~RacingOn(t, c)'
  BY <1>0 DEF RacingOn, Racing
<1> SUFFICES ASSUME NEW c \in Clusters PROVE Credit(c)'
  BY <1>1 DEF CreditInv
<1>4. ASSUME NEW x \in Chans, OrphanOf(x, c)'
      PROVE  \/ OrphanOf(x, c)
             \/ /\ c = c0 /\ x = informerStopper[c0]
                /\ \A u \in Threads : frame[u].stopper # x
  <2>1. x # ch /\ \A u \in Threads : frame[u].stopper # x
    BY <1>0, <1>4 DEF OrphanOf, Orphans
  <2>2. CASE x = informerStopper[c0]
    <3>1. informer[x] # NoInformer /\ informer[x].cluster = c
      BY <1>0, <1>4 DEF OrphanOf, Orphans
    <3>2. informer[x].cluster = c0
      BY <1>0, <2>2, <3>1, EntryCluster, ChansAssumption
    <3> QED BY <2>1, <2>2, <3>1, <3>2
  <2>3. CASE x # informerStopper[c0]
    BY <1>0, <1>4, <2>1, <2>3 DEF OrphanOf, Orphans
  <2> QED BY <2>2, <2>3
<1> HIDE DEF c0, ch
<1>5. CASE c # c0
  <2>1. \A x \in Chans : OrphanOf(x, c)' => OrphanOf(x, c)
    BY <1>4, <1>5
  <2>2. \A u \in Threads : RacingOn(u, c)' => RacingOn(u, c)
    BY <1>0, <1>3, <1>5 DEF RacingOn, Racing
  <2> QED BY <1>1, <2>1, <2>2, CreditKept DEF CreditInv
<1>6. CASE c = c0 /\ informerStopper[c0] = NoChan
  <2>1. \A x \in Chans : OrphanOf(x, c)' => OrphanOf(x, c)
    BY <1>4, <1>6, ChansAssumption
  <2>2. CASE t = "listener"
    <3>1. ~RacingOn("listener", c)'
      BY <1>3, <2>2
    <3>2. CASE \E x \in Chans : OrphanOf(x, c)
      <4>1. ~MayStart(c) /\ ~RacingOn("main", c)
        BY <3>2 DEF CreditInv, Credit, Threads
      <4>2. pc["main"] \in {"create", "store"} => frame["main"].cluster # c
        BY <4>1 DEF MayStart, StartPoints
      <4>3. ~RacingOn("main", c)'
        <5>1. pc'["main"] = pc["main"] /\ frame'["main"] = frame["main"]
          BY <1>0, <2>2 DEF Threads
        <5>2. pc["main"] \in {"close", "delete"} => frame["main"].stopper \in Chans
          BY HeldType DEF Threads
        <5> QED BY <1>0, <1>6, <4>1, <4>2, <5>1, <5>2, ChansAssumption
                DEF RacingOn, Racing
      <4> QED BY <1>1, <2>1, <2>2, <3>1, <4>1, <4>3 DEF CreditInv, Credit, Threads
    <3>3. CASE ~\E x \in Chans : OrphanOf(x, c)
      BY <2>1, <3>1, <3>3 DEF Credit
    <3> QED BY <3>2, <3>3
  <2>3. CASE t = "main"
    <3>1. MayStart(c)
      BY <1>0, <1>6, <2>3 DEF MayStart, StartPoints, c0
    <3>2. ~MayStart(c)'
      <4>1. pc'["main"] = "startNext" /\ c \notin todo /\ todo' = todo
        <5>1. frame["main"].op = "start"
          BY <1>0, <2>3 DEF TypeOK, Fits
        <5> QED BY <1>0, <1>6, <2>3, <5>1, StoreEffect
                DEF CreditInv, StartOnce, StartPoints, c0, Leaves, OnlyMoves
      <4> QED BY <4>1 DEF MayStart, StartPoints
    <3>3. \A x \in Chans : ~OrphanOf(x, c)'
      BY <2>1, <3>1 DEF CreditInv, Credit
    <3> QED BY <1>3, <2>3, <3>2, <3>3 DEF Credit
  <2> QED BY <2>2, <2>3 DEF Threads
<1>7. CASE c = c0 /\ informerStopper[c0] # NoChan
  <2>0. RacingOn(t, c)
    BY <1>0, <1>7 DEF RacingOn, Racing, c0
  <2>1. \A x \in Chans : ~OrphanOf(x, c)
    BY <2>0 DEF CreditInv, Credit
  <2>2. PICK u \in Threads : u # t /\ Threads = {t, u}
    BY DEF Threads
  <2>3. ~RacingOn(u, c)
    BY <2>0, <2>2 DEF CreditInv, Credit, Threads
  <2>4. ~MayStart(c)'
    <3>1. CASE t = "listener"
      BY <1>1, <2>0, <3>1 DEF CreditInv, Credit
    <3>2. CASE t = "main"
      <4>1. pc'["main"] = "startNext" /\ c \notin todo /\ todo' = todo
        <5>1. frame["main"].op = "start"
          BY <1>0, <3>2 DEF TypeOK, Fits
        <5> QED BY <1>0, <1>7, <3>2, <5>1, StoreEffect
                DEF CreditInv, StartOnce, StartPoints, c0, Leaves, OnlyMoves
      <4> QED BY <4>1 DEF MayStart, StartPoints
    <3> QED BY <3>1, <3>2 DEF Threads
  <2>5. \A x1, x2 \in Chans : OrphanOf(x1, c)' /\ OrphanOf(x2, c)' => x1 = x2
    BY <1>4, <2>1
  <2>6. ASSUME NEW x \in Chans, OrphanOf(x, c)' PROVE ~RacingOn(u, c)'
    <3>1. x = informerStopper[c] /\ frame[u].stopper # x
      BY <1>4, <1>7, <2>1, <2>6
    <3>2. pc'[u] = pc[u] /\ frame'[u] = frame[u]
      BY <1>0, <2>2
    <3> QED BY <1>0, <1>7, <2>3, <3>1, <3>2 DEF RacingOn, Racing
  <2>7. ~RacingOn(t, c)'
    BY <1>3
  <2>8. \A x \in Chans : OrphanOf(x, c)' =>
            ~MayStart(c)' /\ \A w \in Threads : ~RacingOn(w, c)'
    BY <2>2, <2>4, <2>6, <2>7
  <2>9. ~(RacingOn("main", c)' /\ RacingOn("listener", c)')
    BY <2>7 DEF Threads
  <2> QED BY <2>4, <2>5, <2>8, <2>9 DEF Credit
<1> QED BY <1>5, <1>6, <1>7

\* The lookup of a stop loses nothing.
LEMMA LookupCredit ==
    ASSUME TypeOK, RegistryInv, CreditInv, NEW t \in Threads, LookupStopper(t)
    PROVE  CreditInv'
<1>1. (\A c \in Clusters : MayStart(c)' => MayStart(c)) /\ StartOnce'
  <2>1. CASE t = "listener"
    BY <2>1, LookupEffect, ListenerStarts DEF CreditInv
  <2>2. CASE t = "main"
    BY <2>2, LookupEffect, MainStarts DEF CreditInv, StartPoints, CallPoints
  <2> QED BY <2>1, <2>2 DEF Threads
<1>0. /\ UNCHANGED <<informer, informerStopper>> /\ frame[t].stopper = NoChan
      /\ \A u \in Threads \ {t} : pc'[u] = pc[u] /\ frame'[u] = frame[u]
  BY LookupEffect DEF OnlyMoves
<1>2. CASE frame'[t].stopper = NoChan /\ pc'[t] \in {"find", "idle", "stopNext"}
  BY <1>0, <1>1, <1>2, QuietCredit
<1>3. CASE /\ pc'[t] = "close" /\ frame'[t].cluster = frame[t].cluster
           /\ frame'[t].stopper = informerStopper[frame[t].cluster]
  <2> SUFFICES ASSUME NEW c \in Clusters PROVE Credit(c)'
    BY <1>1 DEF CreditInv
  <2>1. \A x \in Chans : OrphanOf(x, c)' => OrphanOf(x, c)
    BY <1>0, ChansAssumption DEF OrphanOf, Orphans
  <2>2. \A u \in Threads : RacingOn(u, c)' => RacingOn(u, c)
    BY <1>0, <1>3 DEF RacingOn, Racing
  <2> QED BY <1>1, <2>1, <2>2, CreditKept DEF CreditInv
<1> QED BY <1>2, <1>3, LookupEffect

\* A process that ends has lost nothing, and the next one starts anew.
LEMMA EndCredit ==
    ASSUME NEW how, EndProcess(how)
    PROVE  CreditInv'
<1>1. /\ informer' = NothingRuns /\ pc'["main"] = "down" /\ pc'["listener"] = "off"
  BY DEF EndProcess, Threads
<1>2. \A c \in Clusters, x \in Chans : ~OrphanOf(x, c)'
  BY <1>1 DEF OrphanOf, Orphans, NothingRuns
<1>3. \A c \in Clusters, t \in Threads : ~RacingOn(t, c)'
  BY <1>1 DEF RacingOn, Racing, Threads
<1> QED BY <1>1, <1>2, <1>3 DEF CreditInv, Credit, StartOnce, StartPoints, Threads

\* A close takes an informer away, or ends the process.
LEMMA CloseCredit ==
    ASSUME TypeOK, RegistryInv, CreditInv, NEW t \in Threads, CloseStopper(t)
    PROVE  CreditInv'
<1>1. CASE EndProcess("panic")
  BY <1>1, EndCredit
<1>2. CASE /\ pc[t] = "close" /\ pc'[t] = "delete" /\ frame' = frame
           /\ OnlyMoves(t) /\ informerStopper' = informerStopper
           /\ frame[t].stopper \in Chans
           /\ informer'[frame[t].stopper] = NoInformer
           /\ \A x \in Chans \ {frame[t].stopper} : informer'[x] = informer[x]
           /\ informer[frame[t].stopper] # NoInformer
  <2>1. (\A c \in Clusters : MayStart(c)' => MayStart(c)) /\ StartOnce'
    <3>1. CASE t = "listener"
      BY <1>2, <3>1, ListenerStarts DEF CreditInv
    <3>2. CASE t = "main"
      BY <1>2, <3>2, MainStarts DEF CreditInv, StartPoints, CallPoints
    <3> QED BY <3>1, <3>2 DEF Threads
  <2> SUFFICES ASSUME NEW c \in Clusters PROVE Credit(c)'
    BY <2>1 DEF CreditInv
  <2>2. \A x \in Chans : OrphanOf(x, c)' => OrphanOf(x, c)
    BY <1>2 DEF OrphanOf, Orphans
  <2>3. \A u \in Threads : RacingOn(u, c)' => RacingOn(u, c)
    <3>1. RacingOn(t, c)' => RacingOn(t, c)
      BY <1>2 DEF RacingOn, Racing
    <3>2. \A u \in Threads \ {t} : pc[u] = "close" => frame[u].stopper \in Chans
      BY HeldType
    <3>3. \A u \in Threads \ {t} : RacingOn(u, c)' => RacingOn(u, c)
      BY <1>2, <3>2 DEF RacingOn, Racing, OnlyMoves
    <3> QED BY <3>1, <3>3
  <2> QED BY <2>1, <2>2, <2>3, CreditKept DEF CreditInv
<1>3. informer[frame[t].stopper] # NoInformer \/ EndProcess("panic")
  BY DEF CloseStopper
<1> QED BY <1>1, <1>2, <1>3, CloseEffect

\* A delete that is not racing removes a closed entry; a racing one ends its
\* race and may lose the entry.
LEMMA DeleteCredit ==
    ASSUME TypeOK, RegistryInv, CreditInv, NEW t \in Threads, DeleteStopper(t)
    PROVE  CreditInv'
<1> DEFINE c0 == frame[t].cluster
           ch == frame[t].stopper
<1>0. /\ pc[t] = "delete" /\ informer' = informer
      /\ c0 \in Clusters /\ ch \in Chans
      /\ informerStopper'[c0] = NoChan
      /\ \A c \in Clusters \ {c0} : informerStopper'[c] = informerStopper[c]
      /\ frame'[t].stopper = NoChan
      /\ pc'[t] \in {"find", "idle", "stopNext"}
      /\ \A u \in Threads \ {t} : pc'[u] = pc[u] /\ frame'[u] = frame[u]
  BY DeleteEffect DEF OnlyMoves
<1>1. (\A c \in Clusters : MayStart(c)' => MayStart(c)) /\ StartOnce'
  <2>1. CASE t = "listener"
    BY <2>1, DeleteEffect, ListenerStarts DEF CreditInv
  <2>2. CASE t = "main"
    BY <2>2, DeleteEffect, MainStarts DEF CreditInv, StartPoints, CallPoints
  <2> QED BY <2>1, <2>2 DEF Threads
<1>2. /\ informer[ch] = NoInformer
      /\ \A u \in Threads \ {t} : pc[u] = "delete" => frame[u].stopper # ch
  BY <1>0 DEF RegistryInv, HeldChannels, HeldBy
<1>3. \A c \in Clusters : ~RacingOn(t, c)'
  BY <1>0 DEF RacingOn, Racing
<1> SUFFICES ASSUME NEW c \in Clusters PROVE Credit(c)'
  BY <1>1 DEF CreditInv
<1>4. ASSUME NEW x \in Chans, OrphanOf(x, c)'
      PROVE  \/ OrphanOf(x, c)
             \/ /\ c = c0 /\ x = informerStopper[c0] /\ x # ch
                /\ \A u \in Threads : frame[u].stopper # x
  <2>1. x # ch /\ \A u \in Threads : frame[u].stopper # x
    BY <1>0, <1>2, <1>4 DEF OrphanOf, Orphans
  <2>2. CASE x = informerStopper[c0]
    <3>1. informer[x] # NoInformer /\ informer[x].cluster = c
      BY <1>0, <1>4 DEF OrphanOf, Orphans
    <3>2. informer[x].cluster = c0
      BY <1>0, <2>2, <3>1, EntryCluster, ChansAssumption
    <3> QED BY <2>1, <2>2, <3>1, <3>2
  <2>3. CASE x # informerStopper[c0]
    BY <1>0, <1>4, <2>1, <2>3 DEF OrphanOf, Orphans
  <2> QED BY <2>2, <2>3
<1> HIDE DEF c0, ch
<1>5. CASE c # c0
  <2>1. \A x \in Chans : OrphanOf(x, c)' => OrphanOf(x, c)
    BY <1>4, <1>5
  <2>2. \A u \in Threads : RacingOn(u, c)' => RacingOn(u, c)
    BY <1>0, <1>3, <1>5 DEF RacingOn, Racing
  <2> QED BY <1>1, <2>1, <2>2, CreditKept DEF CreditInv
<1>6. CASE c = c0 /\ informerStopper[c0] = ch
  <2>1. \A x \in Chans : OrphanOf(x, c)' => OrphanOf(x, c)
    BY <1>4, <1>6
  <2>2. ASSUME NEW u \in Threads, u # t, RacingOn(u, c)' PROVE RacingOn(u, c)
    <3>1. pc'[u] = pc[u] /\ frame'[u] = frame[u]
      BY <1>0, <2>2
    <3>2. pc[u] = "close" /\ informer[frame[u].stopper] # NoInformer =>
            frame[u].stopper # ch
      BY <1>2
    <3> QED BY <1>0, <1>2, <1>6, <2>2, <3>1, <3>2 DEF RacingOn, Racing
  <2> QED BY <1>1, <1>3, <2>1, <2>2, CreditKept DEF CreditInv
<1>7. CASE c = c0 /\ informerStopper[c0] # ch
  <2>0. RacingOn(t, c)
    BY <1>0, <1>7 DEF RacingOn, Racing, c0, ch
  <2>1. \A x \in Chans : ~OrphanOf(x, c)
    BY <2>0 DEF CreditInv, Credit
  <2>2. PICK u \in Threads : u # t /\ Threads = {t, u}
    BY DEF Threads
  <2>3. ~RacingOn(u, c)
    BY <2>0, <2>2 DEF CreditInv, Credit, Threads
  <2>4. ~MayStart(c)'
    <3>1. CASE t = "listener"
      BY <1>1, <2>0, <3>1 DEF CreditInv, Credit
    <3>2. CASE t = "main"
      BY <1>0, <3>2, DeleteEffect DEF MayStart, StartPoints
    <3> QED BY <3>1, <3>2 DEF Threads
  <2>5. \A x1, x2 \in Chans : OrphanOf(x1, c)' /\ OrphanOf(x2, c)' => x1 = x2
    BY <1>4, <2>1
  <2>6. ASSUME NEW x \in Chans, OrphanOf(x, c)' PROVE ~RacingOn(u, c)'
    <3>1. x = informerStopper[c] /\ frame[u].stopper # x
      BY <1>4, <1>7, <2>1, <2>6
    <3>2. pc'[u] = pc[u] /\ frame'[u] = frame[u]
      BY <1>0, <2>2
    <3> QED BY <1>0, <1>7, <2>3, <3>1, <3>2 DEF RacingOn, Racing
  <2>7. ~RacingOn(t, c)'
    BY <1>3
  <2>8. \A x \in Chans : OrphanOf(x, c)' =>
            ~MayStart(c)' /\ \A w \in Threads : ~RacingOn(w, c)'
    BY <2>2, <2>4, <2>6, <2>7
  <2>9. ~(RacingOn("main", c)' /\ RacingOn("listener", c)')
    BY <2>7 DEF Threads
  <2> QED BY <2>4, <2>5, <2>8, <2>9 DEF Credit
<1> QED BY <1>5, <1>6, <1>7

\* CreditInv is inductive, given the types and RegistryInv.
LEMMA CreditStep ==
    ASSUME TypeOK, RegistryInv, CreditInv, [Next]_vars
    PROVE  CreditInv'
<1>0. "main" \in Threads /\ "listener" \in Threads
  BY DEF Threads
<1>1. ASSUME NEW t \in Threads, Call(t) PROVE CreditInv'
  BY <1>1, StartCredit, CreateCredit, StoreCredit, LookupCredit, CloseCredit,
     DeleteCredit DEF Call
<1>2. CASE Orchestrator \/ UNCHANGED vars
  <2>1. UNCHANGED memory
    BY <1>2 DEF Orchestrator, SaveCluster, EditCluster, DeactivateCluster,
                SecretChanged, SecretRemoved, Resync, vars, memory
  <2> QED BY <2>1 DEF memory, CreditInv, Credit, StartOnce, MayStart, OrphanOf,
                      Orphans, RacingOn, Racing
<1>3. CASE ListSecrets \/ HandleEvent \/ SyncFind \/ DeleteFind
  <2>1. /\ OnlyMoves("listener")
        /\ \A u \in Threads \ {"listener"} : pc'[u] = pc[u] /\ frame'[u] = frame[u]
    BY <1>3, HandlerEffect DEF OnlyMoves
  <2>2. (\A c \in Clusters : MayStart(c)' => MayStart(c)) /\ StartOnce'
    BY <2>1, ListenerStarts DEF CreditInv
  <2> QED BY <1>0, <1>3, <2>1, <2>2, HandlerEffect, QuietCredit
<1>4. CASE FindAllActive \/ StartNext \/ StopAll \/ StopNext \/ Signal
  <2>1. \A u \in Threads \ {"main"} : pc'[u] = pc[u] /\ frame'[u] = frame[u]
    BY <1>4, LoopEffect DEF Threads
  <2>2. \A c \in Clusters : MayStart(c)' => MayStart(c)
    BY <1>4, LoopEffect DEF MayStart, StartPoints
  <2>3. StartOnce'
    BY <1>4, LoopEffect DEF StartOnce, StartPoints
  <2>4. pc'["main"] \notin {"create", "store", "close", "delete"}
    BY <1>4, LoopEffect
  <2> QED BY <1>0, <1>4, <2>1, <2>2, <2>3, <2>4, LoopEffect, QuietCredit
<1>5. CASE StartClusterInformer \/ Restart
  <2>1. \A c \in Clusters : MayStart(c)
    BY <1>5, BootEffect DEF MayStart
  <2>2. \A c \in Clusters, x \in Chans : ~OrphanOf(x, c)'
    <3>1. \A c \in Clusters, x \in Chans : ~OrphanOf(x, c)
      BY <2>1 DEF CreditInv, Credit
    <3> QED BY <1>5, <3>1, BootEffect DEF OrphanOf, Orphans
  <2>3. \A c \in Clusters, t \in Threads : ~RacingOn(t, c)'
    BY <1>5, BootEffect DEF RacingOn, Racing, Threads
  <2>4. StartOnce'
    BY <1>5, BootEffect DEF StartOnce, StartPoints
  <2> QED BY <2>2, <2>3, <2>4 DEF CreditInv, Credit, Threads
<1>6. CASE Exit \/ Kill \/ MapFault
  BY <1>6, EndCredit DEF Exit, Kill, MapFault
<1> QED BY <1>0, <1>1, <1>2, <1>3, <1>4, <1>5, <1>6 DEF Next, Listener, Main

\* However the startup loop and the secret handlers race, at most one running
\* informer of a cluster is out of reach of stopSystemWorkflowInformer in the
\* life of a process (informerStopper is written without the mutex).
THEOREM OneOrphan == Spec => []AtMostOneOrphan
<1>1. Init => CreditInv
  <2> SUFFICES ASSUME Init PROVE CreditInv
    OBVIOUS
  <2>1. pc["main"] = "boot" /\ pc["listener"] = "off" /\ informer = NothingRuns
    BY DEF Init, Booting, Threads
  <2>2. \A c \in Clusters, x \in Chans : ~OrphanOf(x, c)
    BY <2>1 DEF OrphanOf, Orphans, NothingRuns
  <2>3. \A c \in Clusters, t \in Threads : ~RacingOn(t, c)
    BY <2>1 DEF RacingOn, Racing, Threads
  <2> QED BY <2>1, <2>2, <2>3 DEF CreditInv, Credit, StartOnce, StartPoints, Threads
<1>2. TypeOK /\ RegistryInv /\ CreditInv /\ [Next]_vars => CreditInv'
  BY CreditStep
<1>3. TypeOK /\ CreditInv => AtMostOneOrphan
  <2> SUFFICES ASSUME TypeOK, CreditInv, NEW ch1 \in Orphans, NEW ch2 \in Orphans,
                      informer[ch1].cluster = informer[ch2].cluster
               PROVE  ch1 = ch2
    BY DEF AtMostOneOrphan
  <2>1. ch1 \in Chans /\ ch2 \in Chans /\ informer[ch1] \in Informers
    BY DEF Orphans, TypeOK
  <2>2. PICK c \in Clusters : c = informer[ch1].cluster
    BY <2>1 DEF Informers
  <2>3. OrphanOf(ch1, c) /\ OrphanOf(ch2, c)
    BY <2>2 DEF OrphanOf
  <2> QED BY <2>1, <2>3 DEF CreditInv, Credit
<1> QED BY <1>1, <1>2, <1>3, TypeCorrect, RegistryInvariant, PTL DEF Spec

-----------------------------------------------------------------------------
(* Shutdown without handlers.                                              *)

\* The shutdown loop has yet to stop the cluster c.
ToStop(c) ==
    \/ c \in todo
    \/ pc["main"] \in {"lookup", "close", "delete"} /\ frame["main"].cluster = c

\* As long as no handler has run, main holds what the map holds: it stores
\* where there is no entry, stops the entry's own channel, and its shutdown
\* loop has before it every entry there is.
Sole ==
    /\ Orphans = {}
    /\ pc["main"] \in {"create", "store"} =>
            informerStopper[frame["main"].cluster] = NoChan
    /\ pc["main"] \in {"close", "delete"} =>
            informerStopper[frame["main"].cluster] = frame["main"].stopper
    /\ pc["main"] \in {"stopNext", "lookup", "close", "delete", "sleep"} =>
            \A c \in Clusters : informerStopper[c] # NoChan => ToStop(c)
    /\ pc["main"] = "sleep" => todo = {}
SoleInv == ~Listening => Sole

\* A handler that is not listening takes no step of a call.
LEMMA MainAlone ==
    ASSUME TypeOK, ~Listening
    PROVE  /\ pc["listener"] \in {"off", "list"}
           /\ frame["listener"].stopper = NoChan
  BY HeldType DEF Listening, Threads

\* Before a handler has run, a step of main keeps Sole.
LEMMA MainSole ==
    ASSUME TypeOK, RegistryInv, ~Listening, Sole, Call("main")
    PROVE  Sole'
<1> USE DEF Sole, OnlyMoves
<1>0. /\ "main" \in Threads /\ Threads = {"main", "listener"}
      /\ frame["listener"].stopper = NoChan
  BY MainAlone DEF Threads
<1>1. CASE FindById("main") \/ CheckExists("main")
  <2>1. frame["main"].op = "start"
    BY <1>0, <1>1, StartEffect DEF TypeOK, Fits
  <2>2. /\ UNCHANGED <<informer, informerStopper>>
        /\ frame["main"].stopper = NoChan /\ frame'["main"].stopper = NoChan
        /\ frame'["listener"] = frame["listener"]
        /\ \/ pc'["main"] \in {"startNext", "check"}
           \/ /\ pc'["main"] = "create"
              /\ informerStopper[frame'["main"].cluster] = NoChan
    BY <1>0, <1>1, <2>1, StartEffect DEF Leaves
  <2>3. Orphans' = {}
    BY <1>0, <2>2 DEF Orphans
  <2> QED BY <2>2, <2>3
<1>2. CASE CreateInformer("main")
  <2>1. frame["main"].op = "start"
    BY <1>0, <1>2, CreateEffect DEF TypeOK, Fits
  <2>2. /\ informerStopper' = informerStopper /\ frame["main"].stopper = NoChan
        /\ frame'["listener"] = frame["listener"] /\ pc["main"] = "create"
    BY <1>0, <1>2, CreateEffect
  <2>3. CASE Leaves("main") /\ informer' = informer
    <3>1. pc'["main"] = "startNext" /\ frame'["main"].stopper = NoChan
      BY <2>1, <2>3 DEF Leaves
    <3>2. Orphans' = {}
      BY <1>0, <2>2, <2>3, <3>1 DEF Orphans
    <3> QED BY <3>1, <3>2
  <2>4. ASSUME NEW ch \in Chans,
               pc'["main"] = "store", frame'["main"].stopper = ch,
               frame'["main"].cluster = frame["main"].cluster,
               \A x \in Chans \ {ch} : informer'[x] = informer[x]
        PROVE  Sole'
    <3>1. Orphans' = {}
      <4> SUFFICES ASSUME NEW x \in Orphans' PROVE FALSE
        OBVIOUS
      <4>1. /\ x \in Chans \ {ch} /\ informer[x] # NoInformer
            /\ \A c \in Clusters : informerStopper[c] # x
        BY <1>0, <2>2, <2>4 DEF Orphans
      <4>2. \A u \in Threads : frame[u].stopper # x
        BY <1>0, <2>2, <4>1, ChansAssumption
      <4> QED BY <4>1, <4>2 DEF Orphans
    <3> QED BY <2>2, <2>4, <3>1
  <2> QED BY <1>0, <1>2, <2>3, <2>4, CreateEffect
<1>3. CASE StoreStopper("main")
  <2>1. frame["main"].op = "start"
    BY <1>0, <1>3, StoreEffect DEF TypeOK, Fits
  <2>2. /\ informer' = informer /\ frame'["listener"] = frame["listener"]
        /\ pc["main"] = "store" /\ pc'["main"] = "startNext"
        /\ frame["main"].cluster \in Clusters
        /\ informerStopper'[frame["main"].cluster] = frame["main"].stopper
        /\ \A c \in Clusters \ {frame["main"].cluster} :
                informerStopper'[c] = informerStopper[c]
    BY <1>0, <1>3, <2>1, StoreEffect DEF Leaves
  <2>3. Orphans' = {}
    <3> SUFFICES ASSUME NEW x \in Orphans' PROVE FALSE
      OBVIOUS
    <3>1. /\ x \in Chans /\ informer[x] # NoInformer
          /\ \A c \in Clusters : informerStopper'[c] # x
      BY <2>2 DEF Orphans
    <3>2. \A c \in Clusters : informerStopper[c] # x
      BY <2>2, <3>1, ChansAssumption
    <3>3. \A u \in Threads : frame[u].stopper # x
      BY <1>0, <2>2, <3>1, ChansAssumption
    <3> QED BY <3>1, <3>2, <3>3 DEF Orphans
  <2> QED BY <2>2, <2>3
<1>4. CASE LookupStopper("main")
  <2>1. /\ UNCHANGED <<informer, informerStopper, todo>>
        /\ frame'["listener"] = frame["listener"]
        /\ pc["main"] = "lookup" /\ frame["main"].stopper = NoChan
        /\ \/ /\ informerStopper[frame["main"].cluster] = NoChan
              /\ pc'["main"] = "stopNext"
           \/ /\ pc'["main"] = "close"
              /\ frame'["main"].cluster = frame["main"].cluster
              /\ frame'["main"].stopper = informerStopper[frame["main"].cluster]
    BY <1>0, <1>4, LookupEffect
  <2>2. Orphans' = {}
    BY <1>0, <2>1, ChansAssumption DEF Orphans
  <2>3. \A c \in Clusters : informerStopper'[c] # NoChan => ToStop(c)'
    BY <2>1 DEF ToStop
  <2> QED BY <2>1, <2>2, <2>3
<1>5. CASE CloseStopper("main")
  <2>1. CASE EndProcess("panic")
    BY <2>1 DEF EndProcess, Orphans, NothingRuns, Threads
  <2>2. CASE ~EndProcess("panic")
    <3>1. /\ UNCHANGED <<frame, informerStopper, todo>>
          /\ pc["main"] = "close" /\ pc'["main"] = "delete"
          /\ \A x \in Chans : informer'[x] # NoInformer => informer'[x] = informer[x]
      BY <1>0, <1>5, <2>2, CloseEffect
    <3>2. Orphans' = {}
      BY <3>1 DEF Orphans
    <3>3. \A c \in Clusters : informerStopper'[c] # NoChan => ToStop(c)'
      BY <3>1 DEF ToStop
    <3> QED BY <3>1, <3>2, <3>3
  <2> QED BY <2>1, <2>2
<1>6. CASE DeleteStopper("main")
  <2>1. /\ informer' = informer /\ todo' = todo
        /\ frame'["listener"] = frame["listener"]
        /\ pc["main"] = "delete" /\ pc'["main"] = "stopNext"
        /\ frame["main"].cluster \in Clusters
        /\ informerStopper'[frame["main"].cluster] = NoChan
        /\ \A c \in Clusters \ {frame["main"].cluster} :
                informerStopper'[c] = informerStopper[c]
    BY <1>0, <1>6, DeleteEffect
  <2>2. informer[frame["main"].stopper] = NoInformer
    BY <1>0, <2>1 DEF RegistryInv, HeldChannels, HeldBy
  <2>3. Orphans' = {}
    <3> SUFFICES ASSUME NEW x \in Orphans' PROVE FALSE
      OBVIOUS
    <3>1. /\ x \in Chans /\ informer[x] # NoInformer
          /\ \A c \in Clusters : informerStopper'[c] # x
      BY <2>1 DEF Orphans
    <3>2. x # frame["main"].stopper
      BY <2>2, <3>1
    <3>3. \A c \in Clusters : informerStopper[c] # x
      BY <2>1, <3>1, <3>2
    <3>4. \A u \in Threads : frame[u].stopper # x
      BY <1>0, <3>1, <3>2, ChansAssumption
    <3> QED BY <3>1, <3>3, <3>4 DEF Orphans
  <2>4. \A c \in Clusters : informerStopper'[c] # NoChan => ToStop(c)'
    BY <2>1 DEF ToStop
  <2> QED BY <2>1, <2>3, <2>4
<1> QED BY <1>1, <1>2, <1>3, <1>4, <1>5, <1>6 DEF Call

\* SoleInv is inductive, given the types and RegistryInv.
LEMMA SoleStep ==
    ASSUME TypeOK, RegistryInv, SoleInv, [Next]_vars
    PROVE  SoleInv'
<1>0. "main" \in Threads /\ Threads = {"main", "listener"}
  BY DEF Threads
<1>1. ASSUME NEW how, EndProcess(how) PROVE Sole'
  BY <1>1 DEF EndProcess, Sole, Orphans, NothingRuns, Threads
<1>2. CASE Orchestrator \/ UNCHANGED vars
  <2>1. UNCHANGED memory
    BY <1>2 DEF Orchestrator, SaveCluster, EditCluster, DeactivateCluster,
                SecretChanged, SecretRemoved, Resync, vars, memory
  <2> QED BY <2>1 DEF memory, SoleInv, Sole, ToStop, Orphans, Listening
<1>3. CASE ListSecrets \/ HandleEvent \/ SyncFind \/ DeleteFind
  BY <1>3, HandlerEffect DEF SoleInv, Listening
<1>4. CASE Call("listener")
  <2>1. pc["listener"] \in CallPoints
    BY <1>4 DEF Call, FindById, CheckExists, CreateInformer, StoreStopper,
                LookupStopper, CloseStopper, DeleteStopper, CallPoints
  <2>2. CASE EndProcess("panic")
    BY <1>1, <2>2 DEF SoleInv
  <2>3. CASE ~EndProcess("panic")
    <3>1. Listening'
      BY <1>0, <1>4, <2>3, StartEffect, CreateEffect, StoreEffect, LookupEffect,
         CloseEffect, DeleteEffect DEF Call, Leaves, Listening
    <3> QED BY <3>1 DEF SoleInv
  <2> QED BY <2>2, <2>3
<1>5. CASE Call("main")
  <2>1. CASE EndProcess("panic")
    BY <1>1, <2>1 DEF SoleInv
  <2>2. CASE ~EndProcess("panic")
    <3>1. pc'["listener"] = pc["listener"]
      BY <1>0, <1>5, <2>2, StartEffect, CreateEffect, StoreEffect, LookupEffect,
         CloseEffect, DeleteEffect DEF Call, OnlyMoves
    <3> QED BY <1>5, <3>1, MainSole DEF SoleInv, Listening
  <2> QED BY <2>1, <2>2
<1>6. CASE FindAllActive \/ StartNext \/ StopAll \/ StopNext \/ Signal
  <2> SUFFICES ASSUME ~Listening', Sole PROVE Sole'
    BY <1>6, LoopEffect DEF SoleInv, Listening
  <2>1. Orphans' = {}
    BY <1>0, <1>6, LoopEffect DEF Sole, Orphans
  <2>2. pc'["main"] \notin {"create", "store", "close", "delete"}
    BY <1>6, LoopEffect
  <2>3. pc'["main"] \in {"stopNext", "lookup", "sleep"} =>
            \A c \in Clusters : informerStopper'[c] # NoChan => ToStop(c)'
    BY <1>6, LoopEffect DEF Sole, ToStop
  <2>4. pc'["main"] = "sleep" => todo' = {}
    BY <1>6, LoopEffect
  <2> QED BY <2>1, <2>2, <2>3, <2>4 DEF Sole
<1>7. CASE StartClusterInformer \/ Restart
  <2>1. Sole
    BY <1>7, BootEffect DEF SoleInv, Listening
  <2>2. Orphans' = {}
    BY <1>7, <2>1, BootEffect DEF Sole, Orphans
  <2> QED BY <1>7, <2>2, BootEffect DEF Sole, SoleInv
<1>8. CASE Exit \/ Kill \/ MapFault
  BY <1>1, <1>8 DEF Exit, Kill, MapFault, SoleInv
<1> QED BY <1>2, <1>3, <1>4, <1>5, <1>6, <1>7, <1>8 DEF Next, Listener, Main

\* StopAllSystemWorkflowInformer leaves no informer running, whatever the
\* startup loop started, if no handler of the secret informer has run.
THEOREM ShutdownStopsAll == Spec => []NothingLeftRunning
<1>1. Init => SoleInv
  BY DEF Init, Booting, SoleInv, Sole, Orphans, NothingRuns, Threads
<1>2. TypeOK /\ RegistryInv /\ SoleInv /\ [Next]_vars => SoleInv'
  BY SoleStep
<1>3. TypeOK /\ SoleInv => NothingLeftRunning
  <2> SUFFICES ASSUME TypeOK, SoleInv, pc["main"] = "sleep", ~Listening
               PROVE  informer = NothingRuns
    BY DEF NothingLeftRunning
  <2>1. Sole /\ \A c \in Clusters : informerStopper[c] = NoChan
    BY DEF SoleInv, Sole, ToStop
  <2>2. \A t \in Threads : frame[t].stopper = NoChan
    BY HeldType, MainAlone DEF Threads
  <2>3. \A ch \in Chans : informer[ch] = NoInformer
    BY <2>1, <2>2, ChansAssumption DEF Sole, Orphans
  <2> QED BY <2>3 DEF TypeOK, NothingRuns
<1> QED BY <1>1, <1>2, <1>3, TypeCorrect, RegistryInvariant, PTL DEF Spec

-----------------------------------------------------------------------------
(* A cluster whose row is inactive is watched only if its removal was      *)
(* missed.  While it is watched, or about to be, the removal is still to   *)
(* come: its secret is there, its delete event is queued, or the delete    *)
(* handler is at work.                                                     *)

\* The event that tells of the removal of c.
Removal(c) == [kind |-> "delete", cluster |-> c, action |-> "delete"]

\* It is queued.
Pending(c) == \E i \in DOMAIN queue : queue[i] = Removal(c)

\* handleClusterDelete is at work for c.
Removing(c) ==
    /\ pc["listener"] \in {"deleteFind", "lookup", "close", "delete"}
    /\ frame["listener"].op = "delete" /\ frame["listener"].cluster = c

\* The map has an entry of c, or will: a start has read an active row of c.
Live(c) ==
    \/ informerStopper[c] # NoChan
    \/ \E t \in Threads : /\ pc[t] \in {"check", "create", "store"}
                          /\ frame[t].cluster = c

\* Main starts or serves.
BeforeSignal == StartingUp \/ pc["main"] = "serving"

\* The removal of c is to come, under way, or missed.
Accounted(c) ==
    secrets[c] # "none" \/ missed[c] \/ Pending(c) \/ Removing(c)

\* Nothing is queued unless the secret informer watches.
QueueInv == ~Listening => queue = << >>

\* A process that is down or boots has an empty map.
EmptyInv == pc["main"] \in {"boot", "down"} =>
                \A c \in Clusters : informerStopper[c] = NoChan

\* An inactive cluster that is watched, or about to be, is accounted for.
AccountInv ==
    \A c \in Clusters :
        BeforeSignal /\ db[c].state = "inactive" /\ Live(c) => Accounted(c)

\* The inductive invariant of the history.
RemovalInv == QueueInv /\ EmptyInv /\ AccountInv

\* A removal stays accounted for in a step that hands it on from the secret
\* to the queue and from the queue to the handler, or misses it.
LEMMA HandedOn ==
    ASSUME NEW c \in Clusters, Accounted(c),
           missed' = [d \in Clusters |-> Stays(d)],
           db'[c].state = "inactive", pc'["main"] # "down",
           secrets[c] # "none" => secrets'[c] # "none" \/ Pending(c)' \/ Misses(c),
           Pending(c) => Pending(c)' \/ Removing(c)',
           Removing(c) => Removing(c)' \/ Misses(c)
    PROVE  Accounted(c)'
<1>1. missed[c] \/ Misses(c) => missed'[c]
  BY DEF Stays
<1> QED BY <1>1 DEF Accounted

\* A step after which c is still watched and before the signal, if it was so
\* before and the row was inactive, keeps c accounted for when it hands the
\* removal on.
LEMMA StillAccounted ==
    ASSUME AccountInv, NEW c \in Clusters,
           missed' = [d \in Clusters |-> Stays(d)],
           BeforeSignal', db'[c].state = "inactive", Live(c)',
           BeforeSignal, db[c].state = "inactive", Live(c),
           secrets[c] # "none" => secrets'[c] # "none" \/ Pending(c)' \/ Misses(c),
           Pending(c) => Pending(c)' \/ Removing(c)',
           Removing(c) => Removing(c)' \/ Misses(c)
    PROVE  Accounted(c)'
<1>1. Accounted(c)
  BY DEF AccountInv
<1>2. pc'["main"] # "down"
  BY DEF BeforeSignal, StartingUp
<1> QED BY <1>1, <1>2, HandedOn

\* What the watch appends stays behind what is queued.
LEMMA NotifyKeeps ==
    ASSUME TypeOK, NEW e \in Events, Notify(e), NEW c \in Clusters, Pending(c)
    PROVE  Pending(c)'
<1>1. queue \in Seq(Events) /\ (queue' = queue \/ queue' = Append(queue, e))
  BY DEF TypeOK, Notify
<1> QED BY <1>1 DEF Pending, Removal

\* What is heard is queued.
LEMMA HeardIsPending ==
    ASSUME TypeOK, NEW e \in Events, Notify(e), NEW c \in Clusters, Heard(c)
    PROVE  Pending(c)'
<1>1. queue \in Seq(Events) /\ queue' = Append(queue, e)
  BY DEF TypeOK, Notify, Heard
<1>2. Len(queue') \in DOMAIN queue'
  BY <1>1
<1> QED BY <1>2 DEF Pending, Removal, Heard

\* The orchestrator.
LEMMA OrchestratorAccount ==
    ASSUME TypeOK, RemovalInv, Orchestrator,
           missed' = [d \in Clusters |-> Stays(d)]
    PROVE  AccountInv'
<1> SUFFICES ASSUME NEW c \in Clusters, BeforeSignal',
                    db'[c].state = "inactive", Live(c)'
             PROVE  Accounted(c)'
  BY DEF AccountInv
<1>1. UNCHANGED memory
  BY DEF Orchestrator, SaveCluster, EditCluster, DeactivateCluster,
         SecretChanged, SecretRemoved, Resync
<1>2. BeforeSignal /\ Live(c) /\ pc'["main"] # "down"
  BY <1>1 DEF memory, BeforeSignal, StartingUp, Live
<1>3. Removing(c) => Removing(c)'
  BY <1>1 DEF memory, Removing
<1>4. AccountInv
  BY DEF RemovalInv
<1>5. CASE \E d \in Clusters : SaveCluster(d) \/ EditCluster(d)
  <2>0. PICK d \in Clusters : SaveCluster(d) \/ EditCluster(d)
    BY <1>5
  <2>1. db[c].state = "inactive" /\ UNCHANGED <<secrets, queue>>
    <3>0. db \in [Clusters -> [state : {"absent", "active", "inactive"},
                              config : Configs]]
      BY DEF TypeOK
    <3>1. CASE SaveCluster(d)
      BY <3>0, <3>1 DEF SaveCluster
    <3>2. CASE EditCluster(d)
      BY <3>0, <3>2 DEF EditCluster
    <3> QED BY <2>0, <3>1, <3>2
  <2>2. Pending(c) => Pending(c)'
    BY <2>1 DEF Pending, Removal
  <2> QED BY <1>2, <1>3, <1>4, <2>1, <2>2, StillAccounted
<1>6. CASE \E d \in Clusters : DeactivateCluster(d)
  <2>1. UNCHANGED <<secrets, queue>> /\ db[c].state \in {"active", "inactive"}
    BY <1>6 DEF DeactivateCluster, TypeOK
  <2>2. Pending(c) => Pending(c)'
    BY <2>1 DEF Pending, Removal
  <2>3. CASE db[c].state = "inactive"
    BY <1>2, <1>3, <1>4, <2>1, <2>2, <2>3, StillAccounted
  <2>4. CASE db[c].state = "active"
    <3>1. secrets[c] # "none" \/ Misses(c)
      BY <2>4 DEF Misses
    <3>2. Misses(c) => missed'[c]
      BY <1>2 DEF Stays
    <3> QED BY <2>1, <3>1, <3>2 DEF Accounted
  <2> QED BY <2>1, <2>3, <2>4
<1>7. CASE \E d \in Clusters, a \in Actions : SecretChanged(d, a)
  <2> PICK d \in Clusters, a \in Actions : SecretChanged(d, a)
    BY <1>7
  <2>1. /\ db' = db /\ secrets' = [secrets EXCEPT ![d] = a]
        /\ Notify([kind |-> "change", cluster |-> d, action |-> a])
    BY DEF SecretChanged
  <2>2. secrets[c] # "none" => secrets'[c] # "none"
    BY <2>1 DEF TypeOK, Actions
  <2>3. [kind |-> "change", cluster |-> d, action |-> a] \in Events
    BY DEF Events
  <2>4. Pending(c) => Pending(c)'
    BY <2>1, <2>3, NotifyKeeps
  <2> QED BY <1>2, <1>3, <1>4, <2>1, <2>2, <2>4, StillAccounted
<1>8. CASE \E d \in Clusters : \E kind \in {"delete", "tombstone"} :
                SecretRemoved(d, kind)
  <2> PICK d \in Clusters, kind \in {"delete", "tombstone"} :
                SecretRemoved(d, kind)
    BY <1>8
  <2> DEFINE e == [kind |-> kind, cluster |-> d, action |-> secrets[d]]
  <2>1. /\ db' = db /\ secrets' = [secrets EXCEPT ![d] = "none"]
        /\ Notify(e) /\ secrets[d] # "none"
    BY DEF SecretRemoved
  <2>2. e \in Events
    BY <2>1 DEF Events, TypeOK
  <2>3. secrets[c] # "none" => secrets'[c] # "none" \/ Heard(c) \/ Misses(c)
    BY DEF Misses
  <2>4. Heard(c) => Pending(c)'
    BY <2>1, <2>2, HeardIsPending
  <2>5. Pending(c) => Pending(c)'
    BY <2>1, <2>2, NotifyKeeps
  <2> QED BY <1>2, <1>3, <1>4, <2>1, <2>3, <2>4, <2>5, StillAccounted
<1>9. CASE \E d \in Clusters : Resync(d)
  <2> PICK d \in Clusters : Resync(d)
    BY <1>9
  <2> DEFINE e == [kind |-> "change", cluster |-> d, action |-> secrets[d]]
  <2>1. db' = db /\ secrets' = secrets /\ Notify(e) /\ secrets[d] # "none"
    BY DEF Resync
  <2>2. e \in Events
    BY <2>1 DEF Events, TypeOK
  <2>3. Pending(c) => Pending(c)'
    BY <2>1, <2>2, NotifyKeeps
  <2> QED BY <1>2, <1>3, <1>4, <2>1, <2>3, StillAccounted
<1> QED BY <1>5, <1>6, <1>7, <1>8, <1>9 DEF Orchestrator

\* A step that leaves the rows, the secrets and the queue alone.
Inside == UNCHANGED <<db, secrets, queue>>

\* A step inside the process keeps AccountInv if it reads no row it should
\* not, and if the delete handler goes on, or ends in a miss.
LEMMA InsideAccount ==
    ASSUME RemovalInv, Inside, missed' = [d \in Clusters |-> Stays(d)],
           BeforeSignal' => BeforeSignal,
           NEW c \in Clusters, BeforeSignal', db'[c].state = "inactive",
           Live(c)' => Live(c), Live(c)',
           Removing(c) => Removing(c)' \/ Misses(c)
    PROVE  Accounted(c)'
<1>1. AccountInv /\ db[c].state = "inactive" /\ secrets'[c] = secrets[c]
  BY DEF RemovalInv, Inside
<1>2. Pending(c) => Pending(c)'
  BY DEF Inside, Pending, Removal
<1> QED BY <1>1, <1>2, StillAccounted

\* The first list finds no event queued and no handler at work.
LEMMA ListAccount ==
    ASSUME TypeOK, RemovalInv, ListSecrets,
           missed' = [d \in Clusters |-> Stays(d)]
    PROVE  AccountInv'
<1> SUFFICES ASSUME NEW c \in Clusters, BeforeSignal',
                    db'[c].state = "inactive", Live(c)'
             PROVE  Accounted(c)'
  BY DEF AccountInv
<1>1. /\ pc["listener"] = "list" /\ pc'["listener"] = "idle"
      /\ pc'["main"] = pc["main"] /\ frame'["main"] = frame["main"]
      /\ UNCHANGED <<db, secrets, informerStopper>>
  BY DEF ListSecrets, Go, TypeOK, maps, Threads
<1>2. BeforeSignal /\ Live(c)
  BY <1>1 DEF BeforeSignal, StartingUp, Live, Threads
<1>3. ~Pending(c)
  BY <1>1 DEF RemovalInv, QueueInv, Listening, Pending
<1>4. ~Removing(c)
  BY <1>1 DEF Removing
<1> QED BY <1>1, <1>2, <1>3, <1>4, StillAccounted DEF RemovalInv

\* The delete event of c that is taken from the queue starts the delete
\* handler for c; another event leaves it queued.
LEMMA HandleAccount ==
    ASSUME TypeOK, RemovalInv, HandleEvent,
           missed' = [d \in Clusters |-> Stays(d)]
    PROVE  AccountInv'
<1> SUFFICES ASSUME NEW c \in Clusters, BeforeSignal',
                    db'[c].state = "inactive", Live(c)'
             PROVE  Accounted(c)'
  BY DEF AccountInv
<1>1. /\ pc["listener"] = "idle" /\ queue # << >> /\ queue' = Tail(queue)
      /\ UNCHANGED <<db, secrets, informerStopper>>
  BY DEF HandleEvent, maps
<1>2. /\ pc'["listener"] \in {"idle", "find", "syncFind", "deleteFind", "lookup"}
      /\ pc'["main"] = pc["main"] /\ frame'["main"] = frame["main"]
  BY HandlerEffect DEF OnlyMoves, Threads
<1>3. BeforeSignal /\ Live(c)
  BY <1>1, <1>2 DEF BeforeSignal, StartingUp, Live, Threads
<1>4. ~Removing(c)
  BY <1>1 DEF Removing
<1>5. Pending(c) => Pending(c)' \/ Removing(c)'
  <2> SUFFICES ASSUME NEW i \in DOMAIN queue, queue[i] = Removal(c)
               PROVE  Pending(c)' \/ Removing(c)'
    BY DEF Pending
  <2>1. queue \in Seq(Events) /\ queue # << >>
    BY <1>1 DEF TypeOK
  <2>2. CASE i = 1
    <3>1. Head(queue) = Removal(c)
      BY <2>1, <2>2
    <3>2. Head(queue).kind = "delete" /\ Head(queue).action = "delete"
          /\ Head(queue).cluster = c
      BY <3>1 DEF Removal
    <3>3. HandleClusterDeleteEvent(Head(queue))
      BY <3>2 DEF HandleEvent
    <3>4. Invoke("listener", "delete", c, "deleteFind")
      BY <3>2, <3>3 DEF HandleClusterDeleteEvent
    <3>5. /\ pc'["listener"] = "deleteFind"
          /\ frame'["listener"] = [op |-> "delete", cluster |-> c,
                                   config |-> 0, stopper |-> NoChan]
      BY <3>4, GoEffect DEF Invoke, Threads
    <3> QED BY <3>5 DEF Removing
  <2>3. CASE i # 1
    <3>1. i - 1 \in DOMAIN queue' /\ queue'[i - 1] = queue[i]
      BY <1>1, <2>1, <2>3
    <3> QED BY <3>1 DEF Pending, Removal
  <2> QED BY <2>2, <2>3
<1> QED BY <1>1, <1>3, <1>4, <1>5, StillAccounted DEF RemovalInv

\* The queries of the handlers: handleClusterDelete goes on to the stop, or
\* its end is a miss.
LEMMA QueryAccount ==
    ASSUME TypeOK, RemovalInv, SyncFind \/ DeleteFind,
           missed' = [d \in Clusters |-> Stays(d)]
    PROVE  AccountInv'
<1> SUFFICES ASSUME NEW c \in Clusters, BeforeSignal',
                    db'[c].state = "inactive", Live(c)'
             PROVE  Accounted(c)'
  BY DEF AccountInv
<1>1. Inside /\ informerStopper' = informerStopper
  BY DEF SyncFind, DeleteFind, Inside, world, maps
<1>2. /\ pc'["listener"] \in {"idle", "find", "syncFind", "deleteFind", "lookup"}
      /\ pc'["main"] = pc["main"] /\ frame'["main"] = frame["main"]
  BY HandlerEffect DEF OnlyMoves, Threads
<1>3. BeforeSignal /\ Live(c)
  BY <1>1, <1>2 DEF BeforeSignal, StartingUp, Live, Threads
<1>4. Removing(c) => Removing(c)' \/ Misses(c)
  <2> SUFFICES ASSUME Removing(c) PROVE Removing(c)' \/ Misses(c)
    OBVIOUS
  <2>1. DeleteFind /\ pc["listener"] = "deleteFind"
    BY DEF Removing, SyncFind, DeleteFind
  <2>2. CASE Go("listener", "lookup", frame["listener"])
    <3>1. pc'["listener"] = "lookup" /\ frame'["listener"] = frame["listener"]
      BY <2>2, GoEffect DEF Threads
    <3> QED BY <3>1 DEF Removing
  <2>3. CASE Return("listener")
    <3>1. pc'["listener"] = "idle"
      BY <2>3, LeaveEffect DEF Leaves, Threads
    <3> QED BY <2>1, <3>1 DEF Misses, Removing
  <2> QED BY <2>1, <2>2, <2>3 DEF DeleteFind
<1> QED BY <1>1, <1>3, <1>4, InsideAccount

\* A start of an inactive cluster is not begun, and one that is under way
\* was.
LEMMA StartAccount ==
    ASSUME TypeOK, RemovalInv, NEW t \in Threads,
           FindById(t) \/ CheckExists(t) \/ CreateInformer(t) \/ StoreStopper(t),
           missed' = [d \in Clusters |-> Stays(d)]
    PROVE  AccountInv'
<1> SUFFICES ASSUME NEW c \in Clusters, BeforeSignal',
                    db'[c].state = "inactive", Live(c)'
             PROVE  Accounted(c)'
  BY DEF AccountInv
<1>1. /\ Inside /\ pc[t] \in {"find", "check", "create", "store"}
      /\ OnlyMoves(t)
  BY StartEffect, CreateEffect, StoreEffect
     DEF FindById, CheckExists, CreateInformer, StoreStopper, Inside, world
<1>2. BeforeSignal
  BY <1>1 DEF BeforeSignal, StartingUp, OnlyMoves, Threads
<1>3. Live(c)
  <2>1. CASE FindById(t)
    <3>1. CASE Leaves(t)
      BY <1>1, <2>1, <3>1, StartEffect DEF Live, OnlyMoves, Leaves
    <3>2. CASE ~Leaves(t)
      <4>1. ~Return(t)
        BY <3>2, LeaveEffect
      <4>2. db[frame[t].cluster].state = "active" /\ db' = db
        BY <1>1, <2>1, <4>1 DEF FindById, Found, HasRow, Inside
      <4>3. frame'[t].cluster # c
        BY <2>1, <3>2, <4>2, StartEffect
      <4> QED BY <1>1, <2>1, <4>3, StartEffect DEF Live, OnlyMoves
    <3> QED BY <3>1, <3>2
  <2>2. CASE CheckExists(t)
    <3>1. pc[t] = "check"
      BY <2>2 DEF CheckExists
    <3> QED BY <2>2, <3>1, StartEffect DEF Live, OnlyMoves, Leaves
  <2>3. CASE CreateInformer(t)
    BY <2>3, CreateEffect DEF Live, OnlyMoves, Leaves
  <2>4. CASE StoreStopper(t)
    BY <2>4, StoreEffect DEF Live, OnlyMoves, Leaves
  <2> QED BY <2>1, <2>2, <2>3, <2>4
<1>4. Removing(c) => Removing(c)'
  BY <1>1 DEF Removing, OnlyMoves, Threads
<1> QED BY <1>1, <1>2, <1>3, <1>4, InsideAccount

\* The stop of the delete handler keeps its cluster and operation, and ends
\* with the entry gone.
LEMMA RemovingStop ==
    ASSUME TypeOK, NEW c \in Clusters, Removing(c), pc'["main"] # "down",
           \/ LookupStopper("listener") \/ CloseStopper("listener")
           \/ DeleteStopper("listener")
    PROVE  \/ Removing(c)'
           \/ pc'["listener"] = "idle" /\ informerStopper'[c] = NoChan
<1> USE DEF Threads
<1>1. frame["listener"] \in Frames /\ c = frame["listener"].cluster
  BY LocalsInCall DEF Removing, CallPoints
<1>2. StopReturn("listener") => pc'["listener"] = "idle"
  <2> SUFFICES ASSUME StopReturn("listener") PROVE pc'["listener"] = "idle"
    OBVIOUS
  <2>1. Return("listener")
    BY DEF StopReturn, Removing
  <2> QED BY <2>1, LeaveEffect DEF Leaves
<1>3. CASE LookupStopper("listener")
  <2>1. CASE pc'["listener"] = "close"
    <3>1. Go("listener", "close", [frame["listener"] EXCEPT
                            !.stopper = informerStopper[frame["listener"].cluster]])
      BY <1>2, <1>3, <2>1 DEF LookupStopper
    <3>2. frame'["listener"] = [frame["listener"] EXCEPT
                            !.stopper = informerStopper[frame["listener"].cluster]]
      BY <3>1, GoEffect
    <3>3. /\ frame'["listener"].op = frame["listener"].op
          /\ frame'["listener"].cluster = frame["listener"].cluster
      BY <1>1, <3>2 DEF Frames
    <3> QED BY <2>1, <3>3 DEF Removing
  <2>2. CASE pc'["listener"] # "close"
    <3>1. /\ informerStopper[c] = NoChan /\ informerStopper' = informerStopper
          /\ StopReturn("listener")
      <4>1. ~Go("listener", "close", [frame["listener"] EXCEPT
                            !.stopper = informerStopper[frame["listener"].cluster]])
        BY <2>2, GoEffect
      <4> QED BY <1>1, <1>3, <4>1 DEF LookupStopper, maps
    <3> QED BY <1>2, <3>1
  <2> QED BY <2>1, <2>2
<1>4. CASE CloseStopper("listener")
  <2>1. ~EndProcess("panic")
    BY DEF EndProcess
  <2>2. pc'["listener"] = "delete" /\ frame' = frame
    BY <1>4, <2>1, CloseEffect
  <2> QED BY <2>2 DEF Removing
<1>5. CASE DeleteStopper("listener")
  <2>1. StopReturn("listener") /\ informerStopper'[c] = NoChan
    BY <1>1, <1>5, DeleteEffect DEF DeleteStopper
  <2> QED BY <1>2, <2>1
<1> QED BY <1>3, <1>4, <1>5

\* A stop starts nothing.  When the delete handler is done with c, only the
\* startup loop can still be starting it.
LEMMA StopAccount ==
    ASSUME TypeOK, RemovalInv, NEW t \in Threads,
           LookupStopper(t) \/ CloseStopper(t) \/ DeleteStopper(t),
           missed' = [d \in Clusters |-> Stays(d)]
    PROVE  AccountInv'
<1> SUFFICES ASSUME NEW c \in Clusters, BeforeSignal',
                    db'[c].state = "inactive", Live(c)'
             PROVE  Accounted(c)'
  BY DEF AccountInv
<1>0. pc'["main"] # "down" /\ ~EndProcess("panic")
  BY DEF BeforeSignal, StartingUp, EndProcess, Threads
<1>1. /\ Inside /\ pc[t] \in {"lookup", "close", "delete"} /\ OnlyMoves(t)
      /\ pc'[t] \in {"close", "delete", "find", "idle", "stopNext"}
      /\ t = "main" => pc'[t] \in {"close", "delete", "stopNext"}
      /\ \A d \in Clusters : informerStopper'[d] \in {informerStopper[d], NoChan}
  <2>1. Inside
    BY <1>0 DEF LookupStopper, CloseStopper, DeleteStopper, Inside, world
  <2> QED BY <1>0, <2>1, LookupEffect, CloseEffect, DeleteEffect
<1>2. t = "listener"
  BY <1>1 DEF BeforeSignal, StartingUp, Threads
<1>3. /\ pc'["main"] = pc["main"] /\ frame'["main"] = frame["main"]
  BY <1>1, <1>2 DEF OnlyMoves, Threads
<1>4. BeforeSignal /\ Live(c)
  BY <1>1, <1>2, <1>3 DEF BeforeSignal, StartingUp, Live, Threads
<1>5. Removing(c) => Removing(c)' \/ Misses(c)
  <2> SUFFICES ASSUME Removing(c), ~Removing(c)' PROVE Misses(c)
    OBVIOUS
  <2>1. pc'["listener"] = "idle" /\ informerStopper'[c] = NoChan
    BY <1>0, <1>2, RemovingStop
  <2>2. pc["main"] \in {"check", "create", "store"}
    BY <1>3, <2>1 DEF Live, Threads
  <2> QED BY <2>2 DEF Misses, Removing, StartingUp
<1> QED BY <1>1, <1>4, <1>5, InsideAccount

\* The loops of main begin no start that has read a row.
LEMMA LoopAccount ==
    ASSUME TypeOK, RemovalInv,
           FindAllActive \/ StartNext \/ StopAll \/ StopNext \/ Signal,
           missed' = [d \in Clusters |-> Stays(d)]
    PROVE  AccountInv'
<1> SUFFICES ASSUME NEW c \in Clusters, BeforeSignal',
                    db'[c].state = "inactive", Live(c)'
             PROVE  Accounted(c)'
  BY DEF AccountInv
<1>1. Inside
  BY DEF FindAllActive, StartNext, StopAll, StopNext, Signal, Inside, world
<1>2. /\ informerStopper' = informerStopper
      /\ pc'["listener"] = pc["listener"]
      /\ frame'["listener"] = frame["listener"]
      /\ pc'["main"] \in {"startNext", "serving", "find", "keys", "stopNext",
                          "sleep", "lookup"}
      /\ pc["main"] \in {"findAll", "startNext"} \/ ~BeforeSignal'
  BY LoopEffect DEF BeforeSignal, StartingUp
<1>3. BeforeSignal /\ Live(c)
  BY <1>2 DEF BeforeSignal, StartingUp, Live, Threads
<1>4. Removing(c) => Removing(c)'
  BY <1>2 DEF Removing
<1> QED BY <1>1, <1>3, <1>4, InsideAccount

\* An ended process and one that boots watch nothing.
LEMMA BootAccount ==
    ASSUME TypeOK, RegistryInv, RemovalInv,
           \/ StartClusterInformer \/ Restart
           \/ \E how \in {"exit", "killed", "mapFault", "panic"} : EndProcess(how)
    PROVE  AccountInv'
<1> SUFFICES ASSUME NEW c \in Clusters, BeforeSignal', Live(c)'
             PROVE  FALSE
  BY DEF AccountInv
<1>1. CASE StartClusterInformer \/ Restart
  <2>1. /\ informerStopper'[c] = NoChan
        /\ pc'["main"] \in {"boot", "findAll"}
        /\ pc'["listener"] \in {"off", "list"}
    BY <1>1, BootEffect DEF RemovalInv, EmptyInv
  <2> QED BY <2>1 DEF Live, Threads
<1>2. CASE \E how \in {"exit", "killed", "mapFault", "panic"} : EndProcess(how)
  BY <1>2 DEF EndProcess, BeforeSignal, StartingUp, Threads
<1> QED BY <1>1, <1>2

\* Events are queued only while the secret informer watches, and a process
\* that has yet to boot has an empty map.
LEMMA QueueStep ==
    ASSUME TypeOK, RegistryInv, RemovalInv, Next
    PROVE  QueueInv' /\ EmptyInv'
<1>0. /\ QueueInv /\ EmptyInv
      /\ pc["main"] \in {"boot", "down"} => pc["listener"] = "off"
  BY DEF RemovalInv, RegistryInv, DownIsIdle
<1>1. CASE Orchestrator
  <2>1. UNCHANGED memory
    BY <1>1 DEF Orchestrator, SaveCluster, EditCluster, DeactivateCluster,
           SecretChanged, SecretRemoved, Resync
  <2>2. ~Listening => queue' = queue
    BY <1>1 DEF Orchestrator, SaveCluster, EditCluster, DeactivateCluster,
           SecretChanged, SecretRemoved, Resync, Notify
  <2> QED BY <1>0, <2>1, <2>2 DEF memory, QueueInv, EmptyInv, Listening
<1>2. CASE \E how \in {"exit", "killed", "mapFault", "panic"} : EndProcess(how)
  BY <1>2 DEF EndProcess, QueueInv, EmptyInv, EmptyRegistry
<1>3. CASE StartClusterInformer \/ Restart
  <2>1. queue' = queue /\ pc["listener"] = "off"
        /\ pc["main"] \in {"boot", "down"} /\ informerStopper' = informerStopper
    BY <1>3, BootEffect DEF StartClusterInformer, Restart, world
  <2> QED BY <1>0, <2>1 DEF QueueInv, EmptyInv, Listening
<1>4. CASE ListSecrets \/ HandleEvent \/ SyncFind \/ DeleteFind
  <2>1. /\ pc'["listener"] \in {"idle", "find", "syncFind", "deleteFind", "lookup"}
        /\ pc["listener"] # "off" /\ pc'["main"] = pc["main"]
    BY <1>4, HandlerEffect DEF OnlyMoves, Threads
  <2> QED BY <1>0, <2>1 DEF QueueInv, EmptyInv, Listening
<1>5. CASE FindAllActive \/ StartNext \/ StopAll \/ StopNext \/ Signal
  <2>1. /\ queue' = queue /\ pc'["listener"] = pc["listener"]
        /\ pc'["main"] \notin {"boot", "down"}
    BY <1>5, LoopEffect
       DEF FindAllActive, StartNext, StopAll, StopNext, Signal, world
  <2> QED BY <1>0, <2>1 DEF QueueInv, EmptyInv, Listening
<1>6. ASSUME NEW t \in Threads, Call(t), ~EndProcess("panic")
      PROVE  QueueInv' /\ EmptyInv'
  <2>1. queue' = queue
    BY <1>6 DEF Call, FindById, CheckExists, CreateInformer, StoreStopper,
                LookupStopper, CloseStopper, DeleteStopper, world
  <2>2. /\ OnlyMoves(t) /\ pc[t] \in CallPoints
        /\ t = "listener" => pc'[t] \in CallPoints \cup {"idle"}
        /\ t = "main" => pc'[t] \in CallPoints \cup {"startNext", "stopNext"}
    BY <1>6, StartEffect, CreateEffect, StoreEffect, LookupEffect, CloseEffect,
       DeleteEffect DEF Call, Leaves, CallPoints, Threads
  <2>3. CASE t = "listener"
    <3>1. pc'["main"] = pc["main"] /\ pc["listener"] # "off"
          /\ pc'["listener"] \notin {"off", "list"}
      BY <2>2, <2>3 DEF OnlyMoves, CallPoints, Threads
    <3> QED BY <1>0, <3>1 DEF QueueInv, EmptyInv, Listening
  <2>4. CASE t = "main"
    <3>1. pc'["listener"] = pc["listener"] /\ pc'["main"] \notin {"boot", "down"}
      BY <2>2, <2>4 DEF OnlyMoves, CallPoints, Threads
    <3> QED BY <1>0, <2>1, <3>1 DEF QueueInv, EmptyInv, Listening
  <2> QED BY <2>3, <2>4 DEF Threads
<1> QED BY <1>1, <1>2, <1>3, <1>4, <1>5, <1>6
        DEF Next, Listener, Main, Exit, Kill, MapFault, Threads

\* RemovalInv is inductive.
LEMMA RemovalStep ==
    ASSUME TypeOK, RegistryInv, RemovalInv, RemovalNext
    PROVE  RemovalInv'
<1> SUFFICES AccountInv'
  BY QueueStep DEF RemovalNext, RemovalInv
<1>1. Next /\ missed' = [d \in Clusters |-> Stays(d)]
  BY DEF RemovalNext
<1>2. CASE \E how \in {"exit", "killed", "mapFault", "panic"} : EndProcess(how)
  BY <1>2, BootAccount
<1>3. ASSUME NEW t \in Threads, Call(t) PROVE AccountInv'
  BY <1>1, <1>3, StartAccount, StopAccount DEF Call
<1>4. CASE Listener
  BY <1>1, <1>3, <1>4, ListAccount, HandleAccount, QueryAccount
     DEF Listener, Threads
<1>5. CASE Main
  BY <1>1, <1>2, <1>3, <1>5, LoopAccount, BootAccount DEF Main, Exit, Threads
<1> QED BY <1>1, <1>2, <1>4, <1>5, OrchestratorAccount, LoopAccount, BootAccount
        DEF Next, Kill, MapFault

\* The history changes nothing: a behaviour of the registry with the history
\* is one of the registry.
LEMMA HistoryHides == RemovalSpec => Spec
<1>1. RemovalInit => Init
  BY DEF RemovalInit
<1>2. [RemovalNext]_<<vars, missed>> => [Next]_vars
  BY DEF RemovalNext
<1> QED BY <1>1, <1>2, PTL DEF RemovalSpec, Spec

\* While main serves and the handlers have nothing to do, a cluster with an
\* inactive row is watched only if its secret is still there or its removal
\* was missed: no interleaving of the startup loop, the handlers and their
\* failures adds another way to keep watching a removed cluster.
THEOREM RemovedOrMissed == RemovalSpec => []WatchedOnlyIfMissed
<1>1. RemovalInit => RemovalInv
  BY DEF RemovalInit, Init, RemovalInv, QueueInv, EmptyInv, AccountInv,
         EmptyRegistry
<1>2. TypeOK /\ RegistryInv /\ RemovalInv /\ [RemovalNext]_<<vars, missed>>
        => RemovalInv'
  <2> SUFFICES ASSUME TypeOK, RegistryInv, RemovalInv,
                      [RemovalNext]_<<vars, missed>>
               PROVE  RemovalInv'
    OBVIOUS
  <2>1. CASE RemovalNext
    BY <2>1, RemovalStep
  <2>2. CASE UNCHANGED <<vars, missed>>
    <3>1. UNCHANGED <<db, secrets, queue, informerStopper, pc, frame, missed>>
      BY <2>2 DEF vars
    <3>2. QueueInv' /\ EmptyInv'
      BY <3>1 DEF RemovalInv, QueueInv, EmptyInv, Listening
    <3>3. AccountInv'
      BY <3>1 DEF RemovalInv, AccountInv, BeforeSignal, StartingUp, Live,
                  Accounted, Pending, Removing, Removal
    <3> QED BY <3>2, <3>3 DEF RemovalInv
  <2> QED BY <2>1, <2>2
<1>3. RemovalInv => WatchedOnlyIfMissed
  BY DEF RemovalInv, AccountInv, WatchedOnlyIfMissed, BeforeSignal, Live,
         Accounted, Pending, Removing
<1> QED BY <1>1, <1>2, <1>3, HistoryHides, TypeCorrect, RegistryInvariant, PTL
        DEF RemovalSpec
=============================================================================
