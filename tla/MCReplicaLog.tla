---------------------------- MODULE MCReplicaLog ----------------------------
(* Model-checking instances of ReplicaLog. *)
EXTENDS ReplicaLog
==============================================================================
