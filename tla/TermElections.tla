---------------------------- MODULE TermElections ----------------------------
(***************************************************************************)
(* What leader election promises, without processes, messages or disks: a  *)
(* replica casts at most one vote per term, never goes back to a term      *)
(* below one it has voted in, and a candidate wins a term only with the    *)
(* votes of a quorum.  RaftElection implements it with majorities.         *)
(***************************************************************************)
EXTENDS Integers

CONSTANTS
    Node,    \* the replicas
    Term,    \* the terms
    Quorum   \* the sets of replicas whose votes win an election

VARIABLES
    granted,  \* the votes cast: [voter, cand, term]
    won       \* the elections won: [cand, term]

vars == <<granted, won>>

Init == granted = {} /\ won = {}

(* v votes for c in term t, which is above every term v has voted in. *)
Vote(v, c, t) ==
    /\ \A g \in granted : g.voter = v => g.term < t
    /\ granted' = granted \cup {[voter |-> v, cand |-> c, term |-> t]}
    /\ UNCHANGED won

(* A quorum has voted for c in term t. *)
Win(c, t) ==
    /\ \E Q \in Quorum : \A v \in Q : [voter |-> v, cand |-> c, term |-> t] \in granted
    /\ won' = won \cup {[cand |-> c, term |-> t]}
    /\ UNCHANGED granted

Next ==
    \E c \in Node, t \in Term : Win(c, t) \/ \E v \in Node : Vote(v, c, t)

Spec == Init /\ [][Next]_vars

(* No term has two winners: two quorums share a voter, who votes once.     *)
AtMostOneWinner == \A v, w \in won : v.term = w.term => v.cand = w.cand
==============================================================================
