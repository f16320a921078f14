------------------------- MODULE MCWorkflowInformer -------------------------
(* An instance of WorkflowInformer for TLC: NATS, and an external listener *)
(* that watches all namespaces.                                            *)
EXTENDS WorkflowInformer

BothWays ==
    {[external |-> external, namespace |-> AllNamespaces,
      informers |-> {"ci", "cd"}] : external \in BOOLEAN}
=============================================================================
