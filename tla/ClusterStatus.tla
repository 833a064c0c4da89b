---------------------------- MODULE ClusterStatus ----------------------------
(***************************************************************************)
(* The replicas as GET /status shows them (replica/status, NodeStatus):     *)
(* their role, term and leader, and whether they can be reached.  Who votes *)
(* for whom, the messages and the disks are left out: LeaderTracker follows *)
(* a cluster that behaves so, and RaftElection implements it.               *)
(***************************************************************************)
EXTENDS Integers

CONSTANTS
    Replica,  \* the replicas
    None,     \* the empty leader ID
    MaxTerm   \* bound on the terms

VARIABLES
    node,      \* what GET /status of a replica shows
    reachable, \* the replicas that can be reached
    elected    \* history: who has led which term

clusterVars == <<node, reachable, elected>>

Status == [state : {"FOLLOWER", "CANDIDATE", "LEADER"}, term : 0..MaxTerm,
           leaderId : Replica \cup {None}]

ClusterInit ==
    /\ node = [r \in Replica |-> [state |-> "FOLLOWER", term |-> 0, leaderId |-> None]]
    /\ reachable = Replica
    /\ elected = {}

Becomes(r, status) == node' = [node EXCEPT ![r] = status]

Follower(t, leader) == [state |-> "FOLLOWER", term |-> t, leaderId |-> leader]

(* startElection leaves the leader ID as it was. *)
StartElection(r) ==
    /\ node[r].state # "LEADER" /\ node[r].term < MaxTerm
    /\ Becomes(r, [state |-> "CANDIDATE", term |-> node[r].term + 1,
                   leaderId |-> node[r].leaderId])
    /\ UNCHANGED <<reachable, elected>>

(* Once the votes are counted neither the role nor the term is looked at    *)
(* again: two replicas may come to lead one term.                           *)
BecomeLeader(r) ==
    /\ node[r].state # "LEADER" /\ node[r].term > 0
    /\ Becomes(r, [state |-> "LEADER", term |-> node[r].term, leaderId |-> r])
    /\ elected' = elected \cup {[id |-> r, term |-> node[r].term]}
    /\ UNCHANGED reachable

(* A request or an answer with a term t that some replica has reached, or    *)
(* one with a lower term, which ends a leadership as well.                  *)
SeeTerm(r) ==
    /\ \E t \in node[r].term..MaxTerm :
         /\ \E p \in Replica : t <= node[p].term
         /\ Becomes(r, Follower(t, None))
    /\ UNCHANGED <<reachable, elected>>

(* A heartbeat of a leader, which may have lost its role by now. *)
HearLeader(r, e) ==
    /\ e.id # r /\ e.term >= node[r].term
    /\ Becomes(r, Follower(e.term, e.id))
    /\ UNCHANGED <<reachable, elected>>

(* A replica is cut off and keeps its role, or it dies, with the term it was *)
(* about to adopt on disk or without; it comes back.                        *)
Disconnect(r) ==
    /\ r \in reachable
    /\ reachable' = reachable \ {r}
    /\ \/ UNCHANGED node
       \/ \E t \in node[r].term..MaxTerm : Becomes(r, Follower(t, None))
    /\ UNCHANGED elected

Reconnect(r) ==
    /\ r \notin reachable
    /\ reachable' = reachable \cup {r}
    /\ UNCHANGED <<node, elected>>

ClusterNext ==
    \E r \in Replica :
        \/ StartElection(r) \/ BecomeLeader(r) \/ SeeTerm(r)
        \/ Disconnect(r) \/ Reconnect(r)
        \/ \E e \in elected : HearLeader(r, e)

ClusterSpec == ClusterInit /\ [][ClusterNext]_clusterVars
==============================================================================
