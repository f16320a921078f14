---------------------------- MODULE ClusterRemoval ----------------------------
(***************************************************************************)
(* K8sInformer with a history: for each cluster, whether the process has   *)
(* missed its removal.  The registry learns of a removal in one way only,  *)
(* by a delete event of the cluster's secret that finds the row inactive.  *)
(***************************************************************************)
EXTENDS K8sInformer

VARIABLE missed

\* The watch of the secret informer saw the removal of c's secret, marked
\* "delete", in this step.
Heard(c) ==
    /\ Len(queue') > Len(queue)
    /\ queue'[Len(queue')] =
            [kind |-> "delete", cluster |-> c, action |-> "delete"]

\* The ways to miss the removal of c.  The row goes when there is no secret
\* that could tell of it; the secret goes unmarked, as a tombstone, or while
\* nobody listens; handleClusterDelete does not find an inactive row; it runs
\* while the startup loop may still start c.
Misses(c) ==
    \/ /\ db[c].state = "active" /\ db'[c].state = "inactive"
       /\ secrets[c] = "none"
    \/ secrets[c] # "none" /\ secrets'[c] = "none" /\ ~Heard(c)
    \/ /\ pc["listener"] = "deleteFind" /\ pc'["listener"] = "idle"
       /\ frame["listener"].cluster = c
    \/ /\ frame["listener"].op = "delete" /\ frame["listener"].cluster = c
       /\ StartingUp

\* What was missed is forgotten when the row is active, or the process down.
Stays(c) ==
    /\ missed[c] \/ Misses(c)
    /\ db'[c].state = "inactive" /\ pc'["main"] # "down"

RemovalInit == Init /\ missed = [c \in Clusters |-> FALSE]
RemovalNext == Next /\ missed' = [c \in Clusters |-> Stays(c)]
RemovalSpec == RemovalInit /\ [][RemovalNext]_<<vars, missed>>

\* While main serves and the handlers have nothing to do, a cluster whose row
\* is inactive is still watched only if its secret is still there or its
\* removal was missed in one of these ways: no race of the handlers with each
\* other's rows and channels, no failed start and no restart adds another.
WatchedOnlyIfMissed ==
    \A c \in Clusters :
        /\ pc["main"] = "serving"
        /\ pc["listener"] \in {"idle", "off"} /\ queue = << >>
        /\ db[c].state = "inactive"
        /\ informerStopper[c] # NoChan
        => secrets[c] # "none" \/ missed[c]
=============================================================================
