--------------------------- MODULE KubewatchProofs ---------------------------
(***************************************************************************)
(* Proofs about the life of the process (module Kubewatch).  The control   *)
(* points of main and of the controller, app.server, the registry and the  *)
(* stop channels hang together; Inv says how, and what an exit with code 0 *)
(* promises follows from it.                                               *)
(***************************************************************************)
EXTENDS Kubewatch, TLAPS

\* The points of the controller once it has received the stop.
Closing == {"closeAcd", "closeCd", "closeCi", "done"}

\* The goroutines come to their points together: App.Start runs only after
\* InitializeApp and the controller after SpawnController, and it closes its
\* informers exactly when main has handed the signal over.
InStep ==
    /\ pc["http"] = "off" <=> pc["main"] = "init"
    /\ pc["ctl"] = "off" <=> pc["main"] \in {"init", "client", "build", "spawn"}
    /\ pc["ctl"] \in Closing <=> pc["main"] \in Stopping

\* The field app.server follows App.Start until main shuts the server down.
ServerInv ==
    /\ server = "nil" <=> pc["http"] \in {"off", "assign"}
    /\ server = "shut" <=> pc["main"] \in {"stopAll", "sleep"}

\* The registry and the database are used for all clusters only, and stopped
\* before main sleeps.
RegistryInv ==
    /\ registry = "running" \/ db = "open" =>
        isClusterTypeAllAndIsInternalConfig /\ pc["main"] # "sleep"
    /\ process = "exit 0" => pc["main"] = "sleep"

\* The deferred closes run after stopChan, in reverse order.
StopInv ==
    /\ \A i \in Informers : stopCh[i] = "closed" => pc["ctl"] \in Closing
    /\ pc["ctl"] \in {"closeCd", "closeCi", "done"} => stopCh["acd"] # "open"
    /\ pc["ctl"] \in {"closeCi", "done"} => stopCh["cd"] # "open"
    /\ pc["ctl"] = "done" => stopCh["ci"] # "open"

\* The inductive invariant.
Inv == TypeOK /\ InStep /\ ServerInv /\ RegistryInv /\ StopInv

USE DEF At, Go, Informers

-----------------------------------------------------------------------------
\* A fresh process satisfies the invariant, whatever its environment.
LEMMA FreshInv == conf \in Confs /\ Fresh => Inv
  BY DEF Fresh, Inv, TypeOK, InStep, ServerInv, RegistryInv, StopInv, Closing,
         Stopping, MainPoints, HttpPoints, CtlPoints

\* The end of the process leaves everything else as it was; only the exit
\* with code 0 asks for main to be at its end.
LEMMA EndInv ==
    ASSUME Inv, NEW how \in {"exit 0", "exit 2", "panic", "signal"}, End(how),
           how = "exit 0" => pc["main"] = "sleep"
    PROVE  Inv'
<1>1. TypeOK'
  BY DEF End, Inv, TypeOK, Wanted
<1>2. InStep' /\ ServerInv' /\ StopInv'
  BY DEF End, Inv, InStep, ServerInv, StopInv
<1>3. RegistryInv'
  BY DEF End, Inv, RegistryInv, isClusterTypeAllAndIsInternalConfig
<1> QED BY <1>1, <1>2, <1>3 DEF Inv

\* Every step of main keeps the invariant.
LEMMA MainInv == ASSUME Inv, Main PROVE Inv'
<1> USE DEF Closing, Stopping, MainPoints, HttpPoints, CtlPoints
<1>1. CASE InitializeApp
  <2>1. CASE End("panic")
    BY <2>1, EndInv
  <2>2. CASE ~End("panic")
    <3>1. /\ pc' = [pc EXCEPT !["main"] = "client", !["http"] = "assign"]
          /\ pc["main"] = "init" /\ process = "up"
          /\ UNCHANGED <<conf, server, stopCh, registry, db, process>>
      BY <1>1, <2>2 DEF InitializeApp
    <3>2. TypeOK'
      BY <3>1 DEF Inv, TypeOK, Wanted
    <3>3. InStep' /\ ServerInv' /\ StopInv'
      BY <3>1 DEF Inv, TypeOK, InStep, ServerInv, StopInv
    <3>4. RegistryInv'
      BY <3>1 DEF Inv, TypeOK, RegistryInv, isClusterTypeAllAndIsInternalConfig
    <3> QED BY <3>2, <3>3, <3>4 DEF Inv
  <2> QED BY <2>1, <2>2
<1>2. CASE GetPubSubClient
  <2>1. CASE End("exit 2")
    BY <2>1, EndInv
  <2>2. CASE ~End("exit 2")
    <3>1. TypeOK'
      BY <1>2, <2>2 DEF GetPubSubClient, Inv, TypeOK, Wanted
    <3>2. InStep' /\ ServerInv' /\ StopInv'
      BY <1>2, <2>2 DEF GetPubSubClient, Inv, TypeOK, InStep, ServerInv, StopInv
    <3>3. RegistryInv'
      BY <1>2, <2>2 DEF GetPubSubClient, Inv, TypeOK, RegistryInv,
           isClusterTypeAllAndIsInternalConfig
    <3> QED BY <3>1, <3>2, <3>3 DEF Inv
  <2> QED BY <2>1, <2>2
<1>3. CASE BuildInformers
  <2>1. CASE End("exit 2") \/ End("panic")
    BY <2>1, EndInv
  <2>2. CASE ~(End("exit 2") \/ End("panic"))
    <3>1. TypeOK'
      BY <1>3, <2>2 DEF BuildInformers, Inv, TypeOK, Wanted
    <3>2. InStep' /\ ServerInv' /\ StopInv'
      BY <1>3, <2>2 DEF BuildInformers, Inv, TypeOK, InStep, ServerInv, StopInv
    <3>3. RegistryInv'
      BY <1>3, <2>2 DEF BuildInformers, Inv, TypeOK, RegistryInv,
           isClusterTypeAllAndIsInternalConfig
    <3> QED BY <3>1, <3>2, <3>3 DEF Inv
  <2> QED BY <2>1, <2>2
<1>4. CASE SpawnController
  <2>1. TypeOK'
    BY <1>4 DEF SpawnController, Inv, TypeOK, Wanted
  <2>2. InStep' /\ ServerInv' /\ StopInv'
    BY <1>4 DEF SpawnController, Inv, TypeOK, InStep, ServerInv, StopInv
  <2>3. RegistryInv'
    BY <1>4 DEF SpawnController, Inv, TypeOK, RegistryInv,
         isClusterTypeAllAndIsInternalConfig
  <2> QED BY <2>1, <2>2, <2>3 DEF Inv
<1>5. CASE Notify
  <2>1. TypeOK'
    BY <1>5 DEF Notify, Inv, TypeOK, Wanted
  <2>2. InStep' /\ ServerInv' /\ StopInv'
    BY <1>5 DEF Notify, Inv, TypeOK, InStep, ServerInv, StopInv
  <2>3. RegistryInv'
    BY <1>5 DEF Notify, Inv, TypeOK, RegistryInv,
         isClusterTypeAllAndIsInternalConfig
  <2> QED BY <2>1, <2>2, <2>3 DEF Inv
<1>6. CASE Handoff
  <2>1. TypeOK'
    BY <1>6 DEF Handoff, Inv, TypeOK, Wanted
  <2>2. InStep' /\ ServerInv' /\ StopInv'
    BY <1>6 DEF Handoff, Inv, TypeOK, InStep, ServerInv, StopInv
  <2>3. RegistryInv'
    BY <1>6 DEF Handoff, Inv, TypeOK, RegistryInv,
         isClusterTypeAllAndIsInternalConfig
  <2> QED BY <2>1, <2>2, <2>3 DEF Inv
<1>7. CASE Shutdown
  <2>1. CASE End("panic")
    BY <2>1, EndInv
  <2>2. CASE ~End("panic")
    <3>1. TypeOK'
      BY <1>7, <2>2 DEF Shutdown, Inv, TypeOK, Wanted
    <3>2. InStep' /\ ServerInv' /\ StopInv'
      BY <1>7, <2>2 DEF Shutdown, Inv, TypeOK, InStep, ServerInv, StopInv
    <3>3. RegistryInv'
      BY <1>7, <2>2 DEF Shutdown, Inv, TypeOK, RegistryInv,
           isClusterTypeAllAndIsInternalConfig
    <3> QED BY <3>1, <3>2, <3>3 DEF Inv
  <2> QED BY <2>1, <2>2
<1>8. CASE StopInformers
  <2>1. TypeOK'
    BY <1>8 DEF StopInformers, Inv, TypeOK, Wanted
  <2>2. InStep' /\ ServerInv' /\ StopInv'
    BY <1>8 DEF StopInformers, Inv, TypeOK, InStep, ServerInv, StopInv
  <2>3. RegistryInv'
    BY <1>8 DEF StopInformers, Inv, TypeOK, RegistryInv,
         isClusterTypeAllAndIsInternalConfig
  <2> QED BY <2>1, <2>2, <2>3 DEF Inv
<1>9. CASE Exit
  BY <1>9, EndInv DEF Exit
<1> QED BY <1>1, <1>2, <1>3, <1>4, <1>5, <1>6, <1>7, <1>8, <1>9 DEF Main

\* Every step of App.Start keeps the invariant.
LEMMA HttpInv == ASSUME Inv, Http PROVE Inv'
<1> USE DEF Closing, Stopping, MainPoints, HttpPoints, CtlPoints
<1>1. CASE AssignServer
  <2>1. TypeOK'
    BY <1>1 DEF AssignServer, Inv, TypeOK, Wanted
  <2>2. InStep' /\ ServerInv' /\ StopInv'
    BY <1>1 DEF AssignServer, Inv, TypeOK, InStep, ServerInv, StopInv
  <2>3. RegistryInv'
    BY <1>1 DEF AssignServer, Inv, TypeOK, RegistryInv,
                isClusterTypeAllAndIsInternalConfig
  <2> QED BY <2>1, <2>2, <2>3 DEF Inv
<1>2. CASE ListenAndServe
  <2>1. CASE End("exit 2")
    BY <2>1, EndInv
  <2>2. CASE ~End("exit 2")
    <3>1. PICK p \in {"serve", "done"} :
            /\ pc' = [pc EXCEPT !["http"] = p]
            /\ pc["http"] \in {"listen", "serve"}
            /\ UNCHANGED <<conf, server, stopCh, registry, db, process>>
      BY <1>2, <2>2 DEF ListenAndServe
    <3>2. TypeOK'
      BY <3>1 DEF Inv, TypeOK, Wanted
    <3>3. InStep' /\ ServerInv' /\ StopInv'
      BY <3>1 DEF Inv, TypeOK, InStep, ServerInv, StopInv
    <3>4. RegistryInv'
      BY <3>1 DEF Inv, TypeOK, RegistryInv, isClusterTypeAllAndIsInternalConfig
    <3> QED BY <3>2, <3>3, <3>4 DEF Inv
  <2> QED BY <2>1, <2>2
<1> QED BY <1>1, <1>2 DEF Http

\* Starting an informer keeps the invariant.
LEMMA StartInformerInv ==
    ASSUME Inv, NEW i, NEW next,
           <<i, next>> \in {<<"ci", "cd">>, <<"cd", "acd">>, <<"acd", "recv">>},
           StartInformer(i, next)
    PROVE  Inv'
<1> USE DEF Closing, Stopping, MainPoints, HttpPoints, CtlPoints
<1>1. CASE End("exit 2") \/ End("panic")
  BY <1>1, EndInv
<1>2. CASE ~(End("exit 2") \/ End("panic"))
  <2>1. /\ process = "up" /\ pc["ctl"] = i
        /\ stopCh' = [stopCh EXCEPT ![i] = IF Wanted(i) THEN "open" ELSE @]
        /\ pc' = [pc EXCEPT !["ctl"] = next]
        /\ UNCHANGED <<conf, server, registry, db, process>>
    BY <1>2 DEF StartInformer
  <2>2. TypeOK'
    BY <2>1 DEF Inv, TypeOK, Wanted
  <2>3. InStep' /\ ServerInv' /\ StopInv'
    BY <2>1 DEF Inv, TypeOK, InStep, ServerInv, StopInv
  <2>4. RegistryInv'
    BY <2>1 DEF Inv, TypeOK, RegistryInv, isClusterTypeAllAndIsInternalConfig
  <2> QED BY <2>2, <2>3, <2>4 DEF Inv
<1> QED BY <1>1, <1>2

\* A deferred close keeps the invariant.
LEMMA CloseInformerInv ==
    ASSUME Inv, NEW i, NEW here, NEW next,
           <<i, here, next>> \in {<<"acd", "closeAcd", "closeCd">>,
                                  <<"cd", "closeCd", "closeCi">>,
                                  <<"ci", "closeCi", "done">>},
           CloseInformer(i, here, next)
    PROVE  Inv'
<1> USE DEF Closing, Stopping, MainPoints, HttpPoints, CtlPoints
<1>1. TypeOK'
  BY DEF CloseInformer, Inv, TypeOK, Wanted
<1>2. InStep' /\ ServerInv' /\ StopInv'
  BY DEF CloseInformer, Inv, TypeOK, InStep, ServerInv, StopInv
<1>3. RegistryInv'
  BY DEF CloseInformer, Inv, TypeOK, RegistryInv,
         isClusterTypeAllAndIsInternalConfig
<1> QED BY <1>1, <1>2, <1>3 DEF Inv

\* Every step of the controller keeps the invariant.
LEMMA CtlInv == ASSUME Inv, Ctl PROVE Inv'
<1> USE DEF Closing, Stopping, MainPoints, HttpPoints, CtlPoints
<1>1. CASE MakeClients
  <2>1. CASE End("exit 2") \/ End("panic")
    BY <2>1, EndInv
  <2>2. CASE ~(End("exit 2") \/ End("panic"))
    <3>1. TypeOK'
      BY <1>1, <2>2 DEF MakeClients, Inv, TypeOK, Wanted
    <3>2. InStep' /\ ServerInv' /\ StopInv'
      BY <1>1, <2>2 DEF MakeClients, Inv, TypeOK, InStep, ServerInv, StopInv
    <3>3. RegistryInv'
      BY <1>1, <2>2 DEF MakeClients, Inv, TypeOK, RegistryInv,
           isClusterTypeAllAndIsInternalConfig
    <3> QED BY <3>1, <3>2, <3>3 DEF Inv
  <2> QED BY <2>1, <2>2
<1> QED BY <1>1, StartInformerInv, CloseInformerInv DEF Ctl

\* A signal keeps the invariant.
LEMMA SignalInv == ASSUME Inv, Signal PROVE Inv'
<1>1. CASE End("signal")
  BY <1>1, EndInv
<1>2. CASE ~End("signal")
  <2> USE DEF Closing, Stopping, MainPoints, HttpPoints, CtlPoints
  <2>1. TypeOK'
    BY <1>2 DEF Signal, Inv, TypeOK, Wanted
  <2>2. InStep' /\ ServerInv' /\ StopInv'
    BY <1>2 DEF Signal, Inv, TypeOK, InStep, ServerInv, StopInv
  <2>3. RegistryInv'
    BY <1>2 DEF Signal, Inv, TypeOK, RegistryInv,
         isClusterTypeAllAndIsInternalConfig
  <2> QED BY <2>1, <2>2, <2>3 DEF Inv
<1> QED BY <1>1, <1>2

\* The supervisor's restart establishes the invariant again.
LEMMA RestartInv == ASSUME Restart PROVE Inv'
  BY DEF Restart, Inv, TypeOK, InStep, ServerInv, RegistryInv, StopInv, Closing,
         Stopping, MainPoints, HttpPoints, CtlPoints

\* Every step of the process, its goroutines and its environment keeps Inv.
LEMMA NextInv == Inv /\ [Next]_vars => Inv'
<1> SUFFICES ASSUME Inv, [Next]_vars PROVE Inv'
  OBVIOUS
<1>1. CASE UNCHANGED vars
  <2>1. TypeOK'
    BY <1>1 DEF vars, Inv, TypeOK, Wanted
  <2>2. InStep' /\ ServerInv' /\ StopInv'
    BY <1>1 DEF vars, Inv, InStep, ServerInv, StopInv
  <2>3. RegistryInv'
    BY <1>1 DEF vars, Inv, RegistryInv, isClusterTypeAllAndIsInternalConfig
  <2> QED BY <2>1, <2>2, <2>3 DEF Inv
<1>2. CASE RegistryCrash
  BY <1>2, EndInv DEF RegistryCrash
<1> QED BY <1>1, <1>2, MainInv, HttpInv, CtlInv, SignalInv, RestartInv DEF Next

\* Inv holds throughout.
LEMMA Invariant == Spec => []Inv
<1>1. Init => Inv
  BY FreshInv DEF Init
<1> QED BY <1>1, NextInv, PTL DEF Spec

-----------------------------------------------------------------------------
(* The theorems.                                                           *)

\* Every variable keeps its type, through any number of restarts, and only an
\* informer the configuration asks for ever gets a stop channel.
THEOREM TypeCorrect == Spec => []TypeOK
<1>1. Inv => TypeOK
  BY DEF Inv
<1> QED BY <1>1, Invariant, PTL

\* Whatever the configuration and wherever a signal finds the goroutines, main
\* comes to its exit with code 0 only after it has stopped the controller, shut
\* the server down, gone through the cluster informers to stop them and closed
\* the database.
THEOREM ExitIsOrderly == Spec => []OrderlyExit
<1>1. Inv => OrderlyExit
  BY DEF Inv, OrderlyExit, InStep, ServerInv, RegistryInv, Stopping, Closing
<1> QED BY <1>1, Invariant, PTL

\* No stop channel of the controller is closed before main has taken a signal,
\* and the controller does not end with one left open.
THEOREM WatchesUntilSignal == Spec => []WatchUntilSignal
<1>1. Inv => WatchUntilSignal
  BY DEF Inv, WatchUntilSignal, InStep, StopInv, Closing
<1> QED BY <1>1, Invariant, PTL

\* Once the server is shut down, only the registry of cluster informers can
\* crash the stop, where main and a secret handler meet in its map: App.Start
\* sees ErrServerClosed only, the controller is past everything that can fail,
\* and a signal finds main past Notify.  So without that registry every stop
\* that comes this far ends with code 0.
THEOREM StaysGraceful == Spec => GracefulStaysGraceful
<1> DEFINE Graceful == server = "shut" /\ process = "up" =>
                            \/ process' \in {"up", "exit 0"}
                            \/ process' = "panic" /\ registry # "none"
<1>1. ASSUME Inv, [Next]_vars, server = "shut", process = "up"
      PROVE  \/ process' \in {"up", "exit 0"}
             \/ process' = "panic" /\ registry # "none"
  <2>1. pc["main"] \in {"stopAll", "sleep"} /\ pc["ctl"] \in Closing
    BY <1>1 DEF Inv, TypeOK, InStep, ServerInv, Stopping
  <2>2. CASE Main
    BY <1>1, <2>1, <2>2 DEF Main, InitializeApp, GetPubSubClient, BuildInformers,
         SpawnController, Notify, Handoff, Shutdown, StopInformers, Exit, End
  <2>3. CASE Http
    BY <1>1, <2>3 DEF Http, AssignServer, ListenAndServe
  <2>4. CASE Ctl
    BY <1>1, <2>1, <2>4 DEF Ctl, MakeClients, StartInformer, CloseInformer, Closing
  <2>5. CASE RegistryCrash
    BY <2>5 DEF RegistryCrash, End
  <2>6. CASE Signal
    BY <1>1, <2>1, <2>6 DEF Signal, BeforeNotify
  <2>7. CASE Restart
    BY <1>1, <2>7 DEF Restart
  <2>8. CASE UNCHANGED vars
    BY <1>1, <2>8 DEF vars
  <2> QED BY <1>1, <2>2, <2>3, <2>4, <2>5, <2>6, <2>7, <2>8 DEF Next
<1>2. Inv /\ [Next]_vars => [Graceful]_vars
  BY <1>1
<1> QED BY <1>2, Invariant, PTL DEF Spec, GracefulStaysGraceful
=============================================================================
