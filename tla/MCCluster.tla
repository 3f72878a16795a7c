----------------------------- MODULE MCCluster -----------------------------
(* Three calls of any kind on one node: a call that finds the table empty, *)
(* one that replaces it or disconnects it, and one that uses it.           *)
EXTENDS Cluster
=============================================================================
