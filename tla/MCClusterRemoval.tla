--------------------------- MODULE MCClusterRemoval ---------------------------
EXTENDS ClusterRemoval, MCK8sInformer
=============================================================================
