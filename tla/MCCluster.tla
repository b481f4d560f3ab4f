------------------------------ MODULE MCCluster ------------------------------
\* A small instance of Cluster for TLC: two workspaces whose ids begin alike.
EXTENDS Cluster

CONSTANTS w1, w2, n1

MCWorkspaces  == {w1, w2}
MCNamespaces  == {n1}
MCNamespaceOf == [w \in MCWorkspaces |-> n1]
=============================================================================
