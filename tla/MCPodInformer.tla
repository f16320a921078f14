--------------------------- MODULE MCPodInformer ---------------------------
(* Instances of PodInformer for TLC.                                       *)
EXTENDS PodInformer

Waiting(name) == [name |-> name, state |-> "waiting", reason |-> "ImagePull"]
Running(name) == [name |-> name, state |-> "running", reason |-> ""]
Unset(name) == [name |-> name, state |-> "unknown", reason |-> ""]
Ended(name, exit, note, finished) ==
    [name |-> name, state |-> "terminated", reason |-> "Error", exit |-> exit,
     note |-> note, finished |-> finished]

Status(phase, message, inits, ctrs) ==
    [phase |-> phase, message |-> message, unschedulable |-> FALSE,
     inits |-> inits, ctrs |-> ctrs]

\* The life of a pod: running, and terminated by SIGTERM.
LifeStatuses ==
    {Status("Running", FALSE, << >>, <<Running("main")>>),
     Status("Failed", FALSE, << >>, <<Ended("main", 143, FALSE, 1)>>)}

\* Every way the main and wait containers of a pod can look like, in the order
\* that needs most sorting, and some ways of a sidecar.
Looks(name) ==
    {Waiting(name), Running(name), Unset(name)}
    \cup {Ended(name, exit, FALSE, 1) : exit \in {0, 1, 137, 143}}
    \cup {Ended(name, exit, FALSE, 2) : exit \in {0, 143}}
Inits == {<< >>} \cup {<<Ended("init", exit, FALSE, 1)>> : exit \in {0, 143}}
         \cup {<<Waiting("sidecar")>>}
Lists ==
    {<< >>} \cup {<<m>> : m \in Looks("main")}
    \cup {<<w, m>> : w \in Looks("wait"), m \in Looks("main")}
    \cup {<<s, w, m>> : s \in {Ended("sidecar", 137, FALSE, 2),
                               Ended("sidecar", 1, FALSE, 2),
                               Waiting("sidecar")},
                        w \in Looks("wait"), m \in Looks("main")}
AnyStatuses ==
    {Status("Failed", FALSE, inits, ctrs) : inits \in Inits, ctrs \in Lists}
    \cup {Status("Failed", TRUE, << >>, ctrs) : ctrs \in Lists}
    \cup {[Status(phase, FALSE, << >>, ctrs) EXCEPT !.unschedulable = u] :
            phase \in {"Pending", "Running", "Succeeded", "Unknown"},
            ctrs \in {<<m>> : m \in Looks("main")}, u \in BOOLEAN}
=============================================================================
