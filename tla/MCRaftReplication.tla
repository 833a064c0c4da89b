------------------------- MODULE MCRaftReplication -------------------------
(* Model-checking instances of RaftReplication. *)
EXTENDS RaftReplication, TLC

Symmetry == Permutations(Node)

(* For a run over many terms: elections that nobody wins are left out.       *)
EveryElectionWon ==
    currentTerm' # currentTerm /\ UNCHANGED netVars
        => \E n \in Node : state'[n] = "Leader" /\ currentTerm'[n] > currentTerm[n]

(* Every property of that run says nothing once an append has come late, and *)
(* windows never shrink: the states after it need no search.                *)
BeforeLateAppend == "late" \notin windows
==============================================================================
