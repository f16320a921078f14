-------------------------------- MODULE Relay --------------------------------
(***************************************************************************)
(* What a subscriber may rely on when it is told the states of a watched   *)
(* object by an informer that has no resync: states are told in their      *)
(* order, none before it was written, and none of an object that was told  *)
(* to be gone.  States may be skipped and messages lost.  A message whose  *)
(* sender has given it up may still be under way and come late; only such  *)
(* a stray may go back.                                                    *)
(***************************************************************************)
EXTENDS Naturals

VARIABLES
    latest,     \* the number of writes of the object so far
    told,       \* the version last told, and whether it was told to be gone
    strays      \* versions in messages given up by their sender

vars == <<latest, told, strays>>

NothingTold == [version |-> 0, gone |-> FALSE]

\* m may be told after told: not an older state, and after the end of an
\* object only states of a later one.
Follows(m) ==
    /\ m.version >= told.version
    /\ told.gone => m.version > told.version

Init == latest = 0 /\ told = NothingTold /\ strays = {}

Write == latest' = latest + 1 /\ UNCHANGED <<told, strays>>

Tell ==
    /\ \E m \in [version : 0..latest, gone : BOOLEAN] :
        Follows(m) /\ told' = m
    /\ UNCHANGED <<latest, strays>>

Stray ==
    /\ \E v \in 0..latest : strays' = strays \cup {v}
    /\ UNCHANGED <<latest, told>>

Arrive ==
    /\ \E v \in strays : /\ strays' = strays \ {v}
                         /\ told' = [version |-> v, gone |-> FALSE]
    /\ UNCHANGED latest

Next == Write \/ Tell \/ Stray \/ Arrive

Spec == Init /\ [][Next]_vars
=============================================================================
