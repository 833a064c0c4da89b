--------------------------- MODULE MCRaftElection ---------------------------
(* Model-checking instances of RaftElection. *)
EXTENDS RaftElection, TLC

(* The replicas are interchangeable: safety runs only. *)
Symmetry == Permutations(Node)

(* Bound of the safety run: a state in which a replica has panicked is      *)
(* checked, but what follows its second restart is not searched.            *)
NoneRestartedTwice == \A n \in Node : status[n] # "panicked"
==============================================================================
