--------------------------- MODULE WorkflowStatus ---------------------------
(***************************************************************************)
(* How the informer turns a pod into the workflow status it publishes:     *)
(* assessNodeStatus and its helpers in src/pkg/informer/K8sInformer.go.    *)
(*                                                                         *)
(* A pod status is a record                                                *)
(*     phase    "Pending", "Running", "Succeeded", "Failed" or "Unknown"   *)
(*     message  whether pod.Status.Message is set                          *)
(*     unschedulable  whether a condition has that reason                  *)
(*     inits, ctrs    the container statuses, as sequences of records      *)
(*                    name, state, reason and, when terminated, exit,      *)
(*                    note (whether a message is set) and finished         *)
(* Message texts are tuples that keep what two texts can differ in.        *)
(* Progress, pod IP and host name only pass through and are left out.      *)
(***************************************************************************)
EXTENDS Naturals, Sequences, FiniteSetsExt

CONSTANT Now    \* when a handler runs: after every container finished

ASSUME NowAssumption == Now \in Nat

\* Up to this length sort.Slice is an insertion sort and keeps the order of
\* equals, and the model of the sort is exact.
MaxInsertion == 12

\* What the kubelet reports of a container, of a list of them and of a pod; a
\* name that is neither init, main nor wait is "sidecar".
IsContainer(ctr) ==
    /\ ctr.name \in {"init", "main", "wait", "sidecar"}
    /\ ctr.state \in {"waiting", "running", "unknown", "terminated"}
    /\ ctr.state = "terminated" => ctr.finished \in 0..Now
IsList(ctrs) ==
    /\ ctrs \in Seq({ctrs[i] : i \in DOMAIN ctrs})
    /\ \A i \in DOMAIN ctrs : IsContainer(ctrs[i])
IsStatus(s) ==
    /\ s = [phase |-> s.phase, message |-> s.message,
            unschedulable |-> s.unschedulable, inits |-> s.inits,
            ctrs |-> s.ctrs]
    /\ IsList(s.inits) /\ IsList(s.ctrs)
    /\ Len(s.ctrs) <= MaxInsertion

NoMessage == << >>
NoExitCode == << >>
Never == 0      \* the zero time

\* "<reason> (exit code <n>)", with ": <message>" appended if there is one.
ExitMessage(ctr) == <<"exit", ctr.reason, ctr.exit, ctr.note>>
EXIT_CODE_143_ERROR == <<"exit", "Error", 143, FALSE>>
POD_DELETED_MESSAGE == <<"pod deleted">>

\* The first element of the list whose index is in the set, if there is any.
First(list, indices) == list[Min(indices)]

\* The first waiting container, else an unschedulable condition, else nothing.
GetPendingReason(status) ==
    LET ctrs == status.ctrs
        waiting == {i \in DOMAIN ctrs : ctrs[i].state = "waiting"}
    IN  IF waiting # {} THEN <<"waiting", First(ctrs, waiting).reason>>
        ELSE IF status.unschedulable THEN <<"unschedulable">>
        ELSE NoMessage

\* Faulty: wait is preferred to main.
OrderWaitFirst(name) ==
    IF name = "wait" THEN 1 ELSE IF name = "main" THEN 2 ELSE 3

Order(name) == IF name = "main" THEN 1 ELSE IF name = "wait" THEN 2 ELSE 3

\* The i-th container goes before the j-th: sort.Slice by order(name), which
\* keeps the order of equals in a list of up to MaxInsertion.
Less(ctrs, i, j) ==
    \/ Order(ctrs[i].name) < Order(ctrs[j].name)
    \/ Order(ctrs[i].name) = Order(ctrs[j].name) /\ i < j

\* The place the i-th container is sorted to.
Place(ctrs, i) == Cardinality({j \in DOMAIN ctrs : Less(ctrs, j, i)}) + 1

\* The list in order; the slice of the informer's own copy is sorted in place.
Sorted(ctrs) ==
    [k \in DOMAIN ctrs |-> ctrs[CHOOSE i \in DOMAIN ctrs : Place(ctrs, i) = k]]

\* The loop over the containers goes past a container that is not waiting and
\* did not terminate, one that succeeded, and a sidecar that was killed.
Ignored(ctr) ==
    \/ ctr.state \in {"running", "unknown"}
    \/ ctr.state = "terminated" /\ ctr.exit = 0
    \/ /\ ctr.state = "terminated" /\ ctr.exit \in {137, 143}
       /\ ctr.name \notin {"init", "main", "wait"}

\* What the loop returns at the first container it does not go past.
Verdict(ctr) ==
    IF ctr.state = "waiting"
    THEN [phase |-> "Error", message |-> <<"before", ctr.name, ctr.reason>>]
    ELSE [phase |-> IF ctr.name \in {"init", "wait"} THEN "Error" ELSE "Failed",
          message |-> ExitMessage(ctr)]

\* The pod's own message, else the verdict on the first culprit of the list.
InferFrom(status, list) ==
    LET culprits == {i \in DOMAIN list : ~Ignored(list[i])}
    IN  IF status.message
        THEN [phase |-> "Failed", message |-> <<"pod message">>]
        ELSE IF culprits # {} THEN Verdict(First(list, culprits))
        ELSE [phase |-> "Succeeded", message |-> NoMessage]

\* Faulty: the list is put together before it is sorted.
InferFailedReasonUnsorted(status) ==
    InferFrom(status, status.inits \o status.ctrs)

\* Init containers come first, then the others in sorted order.
InferFailedReason(status) ==
    InferFrom(status, status.inits \o Sorted(status.ctrs))

\* Exit code of the first terminated main container.
GetExitCode(status) ==
    LET ctrs == status.ctrs
        mains == {i \in DOMAIN ctrs :
                    ctrs[i].name = "main" /\ ctrs[i].state = "terminated"}
    IN  IF mains = {} THEN NoExitCode ELSE <<First(ctrs, mains).exit>>

\* The time of the last finished container, but not before now while one
\* still runs; the last assignment of the loop wins.
Latest(all) ==
    LET latest[i \in 0..Len(all)] ==
            IF i = 0 THEN Never
            ELSE IF all[i].state = "running" THEN Now
            ELSE IF all[i].state = "terminated" /\ all[i].finished > latest[i-1]
            THEN all[i].finished
            ELSE latest[i-1]
    IN  latest[Len(all)]

GetLatestFinishedAt(status) == Latest(status.inits \o status.ctrs)

Completed(phase) == phase \in {"Succeeded", "Failed", "Error"}

\* The phase and message of the node.
AssessPhase(status) ==
    CASE status.phase = "Pending" ->
            [phase |-> "Pending", message |-> GetPendingReason(status)]
      [] status.phase \in {"Succeeded", "Running"} ->
            [phase |-> status.phase, message |-> NoMessage]
      [] status.phase = "Failed" -> InferFailedReason(status)
      [] OTHER -> [phase |-> "Error", message |-> <<"unexpected phase">>]

\* The pod as inferFailedReason leaves it in the informer's store.
AfterAssess(status) ==
    IF status.phase = "Failed" /\ ~status.message
    THEN [status EXCEPT !.ctrs = Sorted(@)] ELSE status

AssessNodeStatus(status) ==
    LET node == AssessPhase(status)
        pod == AfterAssess(status)
    IN  [phase      |-> node.phase,
         message    |-> node.message,
         exitCode   |-> GetExitCode(pod),
         finishedAt |-> IF Completed(node.phase)
                        THEN GetLatestFinishedAt(pod) ELSE Never]

\* A pending pod counts as a running workflow.
GetWorkflowStatus(node) ==
    LET phase == IF node.phase = "Pending" THEN "Running" ELSE node.phase IN
    [phase      |-> phase,
     message    |-> node.message,
     exitCode   |-> node.exitCode,
     finishedAt |-> IF Completed(phase) THEN node.finishedAt ELSE Never]

-----------------------------------------------------------------------------
(* The reference definition of a failed pod's node status: the comment of  *)
(* inferFailedReason ranks init containers before main, main before wait   *)
(* and wait before sidecars; the first culprit in that order decides.      *)

Rank(list, ctr) ==
    IF list = "inits" THEN 0
    ELSE IF ctr.name = "main" THEN 1
    ELSE IF ctr.name = "wait" THEN 2 ELSE 3

Positions(status) == {"inits"} \X DOMAIN status.inits
                     \cup {"ctrs"} \X DOMAIN status.ctrs
At(status, p) == IF p[1] = "inits" THEN status.inits[p[2]] ELSE status.ctrs[p[2]]

Harmless(ctr) ==
    \/ ctr.state \notin {"waiting", "terminated"}
    \/ ctr.state = "terminated" /\ ctr.exit = 0
    \/ /\ ctr.state = "terminated"
       /\ ctr.name = "sidecar" /\ ctr.exit \in {137, 143}

Ranked(status, p, q) ==
    LET r(x) == Rank(x[1], At(status, x)) IN
    r(p) < r(q) \/ (r(p) = r(q) /\ p[2] <= q[2])

ReferencePhase(status) ==
    LET culprits == {p \in Positions(status) : ~Harmless(At(status, p))}
    IN  IF culprits = {} THEN "Succeeded"
        ELSE LET p == CHOOSE p \in culprits :
                        \A q \in culprits : Ranked(status, p, q)
                 ctr == At(status, p)
             IN  IF ctr.state = "waiting" \/ ctr.name \in {"init", "wait"}
                 THEN "Error" ELSE "Failed"

Times(ctrs) == {ctr.finished : ctr \in {c \in ctrs : c.state = "terminated"}}
               \cup {Now : ctr \in {c \in ctrs : c.state = "running"}}

ReferenceFinishedAt(status) ==
    LET times == Times({At(status, p) : p \in Positions(status)})
    IN  IF times = {} THEN Never ELSE Max(times)
=============================================================================
