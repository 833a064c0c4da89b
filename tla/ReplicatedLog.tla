---------------------------- MODULE ReplicatedLog ----------------------------
(***************************************************************************)
(* What log replication promises, without leaders, terms or messages: what  *)
(* a replica has applied only grows, and what any two replicas have applied *)
(* is the same as far as both go.  RaftReplication implements it with the   *)
(* committed prefixes of its logs, up to the windows of the code: after one *)
(* of them replicas may come to disagree, but none of them takes back what  *)
(* it has applied.                                                          *)
(***************************************************************************)
EXTENDS Integers, Sequences

CONSTANTS
    Node,   \* the replicas
    Entry   \* what they apply

VARIABLES
    applied, \* the entries each replica has applied, in order
    agreed   \* none of the windows has been hit

vars == <<applied, agreed>>

IsPrefixOf(s, u) == Len(s) <= Len(u) /\ \A i \in 1..Len(s) : s[i] = u[i]

Init ==
    /\ applied = [n \in Node |-> <<>>]
    /\ agreed = TRUE

(* n applies what there is in s beyond what it has applied; with agreement, *)
(* s goes on from what every replica has applied or is a part of it.        *)
Apply(n, s) ==
    /\ s \in Seq(Entry) /\ IsPrefixOf(applied[n], s)
    /\ agreed' =>
         /\ agreed
         /\ \A m \in Node : IsPrefixOf(applied[m], s) \/ IsPrefixOf(s, applied[m])
    /\ applied' = [applied EXCEPT ![n] = s]

HitWindow == agreed' = FALSE /\ UNCHANGED applied

Next == HitWindow \/ \E n \in Node : Apply(n, applied'[n])

Spec == Init /\ [][Next]_vars
==============================================================================
