-------------------------------- MODULE Watch --------------------------------
(***************************************************************************)
(* External: one object on the API server and client-go's shared informers *)
(* with resync 0 that watch it, as src/pkg/controller/informer.go uses     *)
(* them.  Each informer keeps a copy of the object and a queue of          *)
(* notifications its handlers have not seen yet.  An object is a record    *)
(* with at least a field rv, the resource version, which each change sets. *)
(* The informer's first sight of an object goes to AddFunc, which does     *)
(* nothing in this program, so no notification is queued for it.           *)
(***************************************************************************)
EXTENDS Naturals, Sequences

CONSTANTS
    Informers,      \* the informers that watch the object
    None,           \* no object
    MaxChanges,     \* bound: changes of the object
    MaxQueue        \* bound: undelivered notifications of an informer

ASSUME WatchAssumption == MaxChanges \in Nat /\ MaxQueue \in Nat

VARIABLES
    server,     \* the object on the API server, or None
    changes,    \* its changes so far
    store,      \* the copy of each informer, or None
    events      \* the notifications of each informer

watchVars == <<server, changes, store, events>>

Change(obj) ==
    /\ changes < MaxChanges
    /\ changes' = changes + 1
    /\ server' = IF obj = None THEN None ELSE [obj EXCEPT !.rv = changes + 1]
    /\ UNCHANGED <<store, events>>

\* The informer catches up with the server, after one change or, when its
\* watch was broken, after several; a deletion it learns of by listing again
\* is handed over as a tombstone.
Observe(i) ==
    /\ store[i] # server
    /\ store' = [store EXCEPT ![i] = server]
    /\ IF store[i] = None THEN events' = events
       ELSE /\ Len(events[i]) < MaxQueue
            /\ \E kind \in IF server # None THEN {"update"}
                           ELSE {"delete", "tombstone"} :
                events' = [events EXCEPT ![i] = Append(@,
                    [kind |-> kind, old |-> store[i], new |-> server])]
    /\ UNCHANGED <<server, changes>>

\* The next notification of informer i is taken from its queue.
Take(i) ==
    /\ events[i] # << >>
    /\ events' = [events EXCEPT ![i] = Tail(@)]
    /\ UNCHANGED <<server, changes, store>>

\* The process is restarted: the informers start from nothing.
Reset ==
    /\ store' = [i \in Informers |-> None]
    /\ events' = [i \in Informers |-> << >>]
    /\ UNCHANGED <<server, changes>>
=============================================================================
