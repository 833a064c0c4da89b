---------------------------- MODULE LeaderTracker ----------------------------
(***************************************************************************)
(* How the gateway follows the leader (gateway/leader/tracker.go): a poll    *)
(* asks every replica for its status, one request each, and then picks a    *)
(* leader from the answers, which were true at different moments.  The      *)
(* replicas of REPLICA_HTTP are those of ClusterStatus.                     *)
(***************************************************************************)
EXTENDS ClusterStatus, FiniteSets

ASSUME ReplicaAssumption == IsFiniteSet(Replica) /\ Replica # {} /\ None \notin Replica
ASSUME TermAssumption == MaxTerm \in Nat

VARIABLES
    leaderID, term, \* the tracked leader
    answers         \* the answers collected by the poll under way

pollVars == <<leaderID, term, answers>>
TrackerVars == <<clusterVars, pollVars>>

TrackerInit ==
    /\ ClusterInit
    /\ leaderID = None /\ term = 0
    /\ answers = <<>>

(* One answer of fetchStatus; a replica out of reach is not healthy. *)
Fetch(r) ==
    /\ r \notin DOMAIN answers
    /\ answers' = [p \in DOMAIN answers \cup {r} |->
                     IF p # r THEN answers[p]
                     ELSE IF r \in reachable THEN <<node[r]>> ELSE <<>>]
    /\ UNCHANGED <<leaderID, term, clusterVars>>

(* The healthy statuses of this poll. *)
Healthy == {r \in DOMAIN answers : answers[r] # <<>>}

Claim(id, t) == [id |-> id, term |-> t]

Leading ==
    {Claim(r, answers[r][1].term) : r \in {p \in Healthy : answers[p][1].state = "LEADER"}}

(* What replicas report about others, when none reports that it leads. *)
Reported ==
    {Claim(answers[r][1].leaderId, answers[r][1].term) :
        r \in {p \in Healthy : answers[p][1].leaderId # None}}

(* Mutant: any leader that answers will do, the one collected first. *)
PickAny(claims) == claims

(* Those of the highest term; among equals the first one collected wins. *)
Pick(claims) == {c \in claims : \A d \in claims : d.term <= c.term}

(* Mutant: a poll without a leader falls back to any healthy replica. *)
CandidatesAny == IF Leading # {} THEN Leading ELSE {Claim(r, answers[r][1].term) : r \in Healthy}

Candidates == IF Leading # {} THEN Leading ELSE Reported

(* The end of a poll: without a candidate the old leader stays. *)
Conclude ==
    /\ DOMAIN answers = Replica
    /\ answers' = <<>>
    /\ IF Candidates = {} THEN UNCHANGED <<leaderID, term>>
       ELSE \E c \in Pick(Candidates) : leaderID' = c.id /\ term' = c.term
    /\ UNCHANGED clusterVars

TrackerStep == Conclude \/ \E r \in Replica : Fetch(r)

TrackerNext == TrackerStep \/ (ClusterNext /\ UNCHANGED pollVars)

(* The poll runs every 500 ms, and every request of it ends within 300 ms. *)
TrackerSpec == TrackerInit /\ [][TrackerNext]_TrackerVars /\ WF_TrackerVars(TrackerStep)

------------------------------------------------------------------------------
TrackerTypeOK ==
    /\ node \in [Replica -> Status] /\ reachable \subseteq Replica
    /\ leaderID \in Replica \cup {None} /\ term \in 0..MaxTerm
    /\ leaderID = None => term = 0
    /\ DOMAIN answers \subseteq Replica

(* The tracker names only replicas that have led, in the tracked term or an *)
(* earlier one: a candidate still reports the leader before its campaign.   *)
TrackedHasLed ==
    leaderID # None => \E e \in elected : e.id = leaderID /\ e.term <= term

(* r leads, can be reached, and whoever else can be reached and leads has an *)
(* earlier term.                                                            *)
SoleLeader(r) ==
    /\ r \in reachable /\ node[r].state = "LEADER"
    /\ \A p \in reachable \ {r} : node[p].state = "LEADER" => node[p].term < node[r].term

(* A leader that stays is tracked, and stays tracked. *)
StableLeaderTracked ==
    \A r \in Replica : <>[]SoleLeader(r) => <>[](leaderID = r)
==============================================================================
