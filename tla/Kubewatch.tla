------------------------------ MODULE Kubewatch ------------------------------
(***************************************************************************)
(* The life of the process: main (src/main.go), the HTTP server goroutine  *)
(* App.Start and the controller goroutine Start of                         *)
(* src/pkg/controller/informer.go, from the first line of main to its end. *)
(* The registry of cluster informers is one value here, and can crash the  *)
(* process where its map is shared; K8sInformer models it in detail.  Any  *)
(* start-up call can fail.  External: the operating system's signals,      *)
(* net/http and the supervisor.                                            *)
(***************************************************************************)
EXTENDS Naturals

Informers == {"ci", "cd", "acd"}
Goroutines == {"main", "http", "ctl"}

VARIABLES
    conf,       \* the environment the process was started with
    pc,         \* control point of each goroutine
    server,     \* app.server: nil, made, or shut down
    stopCh,     \* stop channel of each informer of the controller
    registry,   \* the map of cluster informers: none, in use, or gone
                \* through by StopAllSystemWorkflowInformer ("stopped")
    db,         \* the database connection
    process     \* "up", or how the process ended

vars == <<conf, pc, server, stopCh, registry, db, process>>

Confs == [allClusters : BOOLEAN, external : BOOLEAN, informers : SUBSET Informers]

\* The order in which main, http and ctl come to their control points.
MainPoints == {"init", "client", "build", "spawn", "notify", "wait",
               "handoff", "shutdown", "stopAll", "sleep"}
BeforeNotify == {"init", "client", "build", "spawn", "notify"}
Stopping == {"shutdown", "stopAll", "sleep"}
HttpPoints == {"off", "assign", "listen", "serve", "done"}
CtlPoints == {"off", "clients", "ci", "cd", "acd", "recv",
              "closeAcd", "closeCd", "closeCi", "done"}

Fresh ==
    /\ pc = [main |-> "init", http |-> "off", ctl |-> "off"]
    /\ server = "nil"
    /\ stopCh = [i \in Informers |-> "none"]
    /\ registry = "none"
    /\ db = "none"
    /\ process = "up"

Init == conf \in Confs /\ Fresh

\* The configured informers: Argo CD's needs the NATS client.
Wanted(i) == i \in conf.informers /\ (i = "acd" => ~conf.external)
isClusterTypeAllAndIsInternalConfig == conf.allClusters /\ ~conf.external

At(g, p) == process = "up" /\ pc[g] = p
Go(g, p) == pc' = [pc EXCEPT ![g] = p]

\* The process ends and its goroutines with it.
End(how) ==
    /\ process' = how
    /\ UNCHANGED <<conf, pc, server, stopCh, registry, db>>

-----------------------------------------------------------------------------
(* main                                                                    *)

\* InitializeApp, then go app.Start().
InitializeApp ==
    /\ At("main", "init")
    /\ \/ /\ pc' = [pc EXCEPT !["main"] = "client", !["http"] = "assign"]
          /\ UNCHANGED <<conf, server, stopCh, registry, db, process>>
       \/ End("panic")

\* getPubSubClientForInternalConfig
GetPubSubClient ==
    /\ At("main", "client")
    /\ \/ /\ Go("main", "build")
          /\ UNCHANGED <<conf, server, stopCh, registry, db, process>>
       \/ ~conf.external /\ End("exit 2")

\* buildInformerForAllClusters: a failed query is not noticed.  A failure to get
\* a kubeconfig is dropped and ends in a nil pointer, and Go aborts the process
\* if it notices the startup loop and the secret handler in the map at once.
BuildInformers ==
    /\ At("main", "build")
    /\ \/ /\ isClusterTypeAllAndIsInternalConfig
          /\ db' = "open" /\ registry' = "running"
          /\ Go("main", "spawn")
          /\ UNCHANGED <<conf, server, stopCh, process>>
       \/ /\ ~isClusterTypeAllAndIsInternalConfig
          /\ Go("main", "spawn")
          /\ UNCHANGED <<conf, server, stopCh, registry, db, process>>
       \/ isClusterTypeAllAndIsInternalConfig /\ End("exit 2")
       \/ isClusterTypeAllAndIsInternalConfig /\ End("panic")

\* go startInformer.Start(stopChan)
SpawnController ==
    /\ At("main", "spawn")
    /\ pc' = [pc EXCEPT !["main"] = "notify", !["ctl"] = "clients"]
    /\ UNCHANGED <<conf, server, stopCh, registry, db, process>>

\* signal.Notify
Notify ==
    /\ At("main", "notify")
    /\ Go("main", "wait")
    /\ UNCHANGED <<conf, server, stopCh, registry, db, process>>

\* SIGTERM or SIGINT: it ends the process before Notify and is received by a
\* waiting main.  A later one is dropped, because the channel has no buffer.
Signal ==
    /\ process = "up"
    /\ \/ pc["main"] \in BeforeNotify /\ End("signal")
       \/ /\ pc["main"] = "wait"
          /\ Go("main", "handoff")
          /\ UNCHANGED <<conf, server, stopCh, registry, db, process>>

\* stopChan <- 0 meets <-stopChan.
Handoff ==
    /\ At("main", "handoff") /\ At("ctl", "recv")
    /\ pc' = [pc EXCEPT !["main"] = "shutdown", !["ctl"] = "closeAcd"]
    /\ UNCHANGED <<conf, server, stopCh, registry, db, process>>

\* app.server.Shutdown: a nil pointer if App.Start has not come that far.
Shutdown ==
    /\ At("main", "shutdown")
    /\ \/ /\ server # "nil"
          /\ server' = "shut"
          /\ Go("main", "stopAll")
          /\ UNCHANGED <<conf, stopCh, registry, db, process>>
       \/ server = "nil" /\ End("panic")

\* Faulty: only the connection is closed.
StopInformersDbOnly ==
    /\ At("main", "stopAll")
    /\ db' = IF isClusterTypeAllAndIsInternalConfig THEN "closed" ELSE db
    /\ Go("main", "sleep")
    /\ UNCHANGED <<conf, server, stopCh, registry, process>>

\* StopAllSystemWorkflowInformer and db.Close.  The secret handler goes on, so
\* the call may miss an informer, and it may crash: RegistryCrash.
StopInformers ==
    /\ At("main", "stopAll")
    /\ \/ /\ isClusterTypeAllAndIsInternalConfig
          /\ registry' = "stopped" /\ db' = "closed"
       \/ /\ ~isClusterTypeAllAndIsInternalConfig
          /\ UNCHANGED <<registry, db>>
    /\ Go("main", "sleep")
    /\ UNCHANGED <<conf, server, stopCh, process>>

Exit == At("main", "sleep") /\ End("exit 0")

\* stopSystemWorkflowInformer in main and in a secret handler: both can have
\* found the channel that one of them closes first, and until main is through
\* Go can notice both in the map.
RegistryCrash ==
    /\ process = "up" /\ registry # "none"
    /\ pc["main"] \in {"stopAll", "sleep"}
    /\ End("panic")

-----------------------------------------------------------------------------
(* App.Start                                                               *)

AssignServer ==
    /\ At("http", "assign")
    /\ server' = "made"
    /\ Go("http", "listen")
    /\ UNCHANGED <<conf, stopCh, registry, db, process>>

\* Faulty: every return of ListenAndServe is an error.
ListenAndServeStrict ==
    /\ \E p \in {"listen", "serve"} : At("http", p)
    /\ \/ /\ server = "made" /\ pc["http"] = "listen"
          /\ Go("http", "serve")
          /\ UNCHANGED <<conf, server, stopCh, registry, db, process>>
       \/ End("exit 2")

\* ListenAndServe listens; it returns with ErrServerClosed after Shutdown,
\* which is expected, or with another error, which ends the process.
ListenAndServe ==
    /\ \E p \in {"listen", "serve"} : At("http", p)
    /\ \/ /\ server = "made" /\ pc["http"] = "listen"
          /\ Go("http", "serve")
          /\ UNCHANGED <<conf, server, stopCh, registry, db, process>>
       \/ server = "made" /\ End("exit 2")
       \/ /\ server = "shut"
          /\ Go("http", "done")
          /\ UNCHANGED <<conf, server, stopCh, registry, db, process>>

-----------------------------------------------------------------------------
(* Start                                                                   *)

\* The clients and the CI configuration; without any kubeconfig the clients
\* are built from a nil pointer.
MakeClients ==
    /\ At("ctl", "clients")
    /\ \/ /\ Go("ctl", "ci")
          /\ UNCHANGED <<conf, server, stopCh, registry, db, process>>
       \/ End("exit 2")
       \/ End("panic")

\* Faulty: Start returns without waiting for stopChan.
StartInformerNoWait(i, next) ==
    /\ At("ctl", i)
    /\ \/ /\ stopCh' = [stopCh EXCEPT ![i] = IF Wanted(i) THEN "open" ELSE @]
          /\ Go("ctl", IF next = "recv" THEN "closeAcd" ELSE next)
          /\ UNCHANGED <<conf, server, registry, db, process>>
       \/ i # "acd" /\ End("exit 2")
       \/ i = "acd" /\ Wanted(i) /\ End("panic")

\* One informer is started if it is wanted, and the configuration of the next
\* one is read; next is the control point after it.
StartInformer(i, next) ==
    /\ At("ctl", i)
    /\ \/ /\ stopCh' = [stopCh EXCEPT ![i] = IF Wanted(i) THEN "open" ELSE @]
          /\ Go("ctl", next)
          /\ UNCHANGED <<conf, server, registry, db, process>>
       \/ i # "acd" /\ End("exit 2")
       \/ i = "acd" /\ Wanted(i) /\ End("panic")

\* Faulty: an informer that was not started has a nil channel to close.
CloseInformerAll(i, here, next) ==
    /\ At("ctl", here)
    /\ stopCh' = [stopCh EXCEPT ![i] = "closed"]
    /\ Go("ctl", next)
    /\ UNCHANGED <<conf, server, registry, db, process>>

\* The deferred closes run in reverse order.
CloseInformer(i, here, next) ==
    /\ At("ctl", here)
    /\ stopCh' = [stopCh EXCEPT ![i] = IF Wanted(i) THEN "closed" ELSE @]
    /\ Go("ctl", next)
    /\ UNCHANGED <<conf, server, registry, db, process>>

-----------------------------------------------------------------------------
\* The supervisor starts the process again, maybe with another environment.
Restart ==
    /\ process # "up"
    /\ conf' \in Confs
    /\ pc' = [main |-> "init", http |-> "off", ctl |-> "off"]
    /\ server' = "nil"
    /\ stopCh' = [i \in Informers |-> "none"]
    /\ registry' = "none"
    /\ db' = "none"
    /\ process' = "up"

Main == InitializeApp \/ GetPubSubClient \/ BuildInformers \/ SpawnController
        \/ Notify \/ Handoff \/ Shutdown \/ StopInformers \/ Exit

Http == AssignServer \/ ListenAndServe

Ctl == \/ MakeClients
       \/ StartInformer("ci", "cd") \/ StartInformer("cd", "acd")
       \/ StartInformer("acd", "recv")
       \/ CloseInformer("acd", "closeAcd", "closeCd")
       \/ CloseInformer("cd", "closeCd", "closeCi")
       \/ CloseInformer("ci", "closeCi", "done")

Next == Main \/ Http \/ Ctl \/ RegistryCrash \/ Signal \/ Restart

Spec == Init /\ [][Next]_vars

\* The goroutines keep running; nobody need send a signal.
FairSpec == Spec /\ WF_vars(Main) /\ WF_vars(Ctl)

-----------------------------------------------------------------------------
(* Properties.                                                             *)

\* Every variable has its type, and only an informer that is wanted has a
\* stop channel.
TypeOK ==
    /\ conf \in Confs
    /\ pc \in [main : MainPoints, http : HttpPoints, ctl : CtlPoints]
    /\ server \in {"nil", "made", "shut"}
    /\ stopCh \in [Informers -> {"none", "open", "closed"}]
    /\ \A i \in Informers : stopCh[i] # "none" => Wanted(i)
    /\ registry \in {"none", "running", "stopped"}
    /\ db \in {"none", "open", "closed"}
    /\ process \in {"up", "exit 0", "exit 2", "panic", "signal"}

\* An exit with code 0 is an orderly one: the server is shut down,
\* StopAllSystemWorkflowInformer has gone through the map of cluster informers,
\* the database is closed, and the controller was told to stop before all that
\* and is closing its informers.  An informer that is not in the map, or put
\* there meanwhile, runs until the process ends.
OrderlyExit ==
    process = "exit 0" =>
        /\ server = "shut"
        /\ registry # "running" /\ db # "open"
        /\ pc["ctl"] \in {"closeAcd", "closeCd", "closeCi", "done"}

\* The informers of the controller watch until main has received a signal:
\* the deferred closes run only after stopChan, and then all of them do.
WatchUntilSignal ==
    /\ \A i \in Informers : stopCh[i] = "closed" => pc["main"] \in Stopping
    /\ pc["ctl"] = "done" => \A i \in Informers : stopCh[i] # "open"

\* Once the server is shut down, the process exits with code 0 or is crashed by
\* the registry of cluster informers, if there is one: neither App.Start, which
\* sees ListenAndServe return an error, nor the controller nor a second signal
\* can turn the graceful stop into a crash or an error exit, even if Shutdown
\* comes before ListenAndServe.
GracefulStaysGraceful ==
    [][server = "shut" /\ process = "up" =>
        \/ process' \in {"up", "exit 0"}
        \/ process' = "panic" /\ registry # "none"]_vars

\* A received signal ends the process: main waits for the controller, which
\* comes to its receive or ends the process itself.
SignalEnds == At("main", "handoff") ~> process # "up"
=============================================================================
