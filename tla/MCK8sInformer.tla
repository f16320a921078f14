--------------------------- MODULE MCK8sInformer ---------------------------
(* Instances of K8sInformer for TLC.                                       *)
EXTENDS K8sInformer, TLC

\* Stop channels are interchangeable; no liveness run uses this.
ChanSymmetry == Permutations(Chans)
ChanClusterSymmetry == Permutations(Chans) \cup Permutations(Clusters)
=============================================================================
