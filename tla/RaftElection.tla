---------------------------- MODULE RaftElection ----------------------------
(***************************************************************************)
(* Leader election of a replica (replica/raft): terms, votes, the election *)
(* loop with its vote goroutines, the transitions between roles, the       *)
(* step-downs that replies and SyncLog requests cause, the heartbeats that *)
(* announce a leader, and crashes with the WAL records that survive them.  *)
(*                                                                         *)
(* One atomic action is one critical section of RaftNode.mu.  Whatever the *)
(* code does between two critical sections (an RPC, a channel, a goroutine *)
(* not yet scheduled) is state of the model, so that other actions can run *)
(* in between.  The log is not part of this module: whether a candidate's  *)
(* log is up to date (rpc_server.go:57-64) is a nondeterministic choice.   *)
(***************************************************************************)
EXTENDS Integers, FiniteSets

CONSTANTS
    Node,          \* the replicas; n.peers of each is Node minus itself
    None,          \* the empty string, as votedFor and as leaderID
    MaxTerm,       \* bound: no election starts once the term is MaxTerm
    MaxElections,  \* bound: elections of all replicas together
    MaxCrash       \* bound: crashes of all replicas together

ASSUME NodeAssumption == IsFiniteSet(Node) /\ Node # {} /\ None \notin Node
ASSUME BoundAssumption == MaxTerm \in Nat /\ MaxElections \in Nat /\ MaxCrash \in Nat

VARIABLES
    \* Where each process is: "down", "panicked", "serving" (gRPC server up,
    \* RaftNode.Start not yet called) or "running".
    status,
    \* RaftNode fields.  heartbeatCancel # nil exactly when state = "Leader".
    currentTerm, votedFor, state, leaderID,
    \* What a replay of the WAL would return as Term and VotedFor.
    walTerm, walVote,
    \* Locals of startElection: "counting" up to the check of line 139, "won"
    \* between that check and BecomeLeader; the campaign's term, the peers
    \* that granted their vote and the number of negative answers.
    phase, campaign, ballots, nays,
    \* Vote goroutines waiting for their reply, requests no handler has run
    \* yet, and replies of a higher term whose goroutine has not acted yet.
    calls, reqs, resps,
    \* Heartbeats (or AppendEntries) in flight and SyncLog requests in flight.
    beats, syncs,
    \* Goroutines that are about to call BecomeFollower(term, "").
    stepDowns,
    \* Processes not yet started with a resetElectionTimer goroutine pending.
    resets,
    \* History: every vote cast, self votes included, every election won, and
    \* who has led which term.
    granted, won, led,
    crashes

nodeVars  == <<currentTerm, votedFor, state, leaderID>>
walVars   == <<walTerm, walVote>>
roundVars == <<phase, campaign, ballots, nays>>
netVars   == <<calls, reqs, resps, beats, syncs, stepDowns>>
ghostVars == <<granted, won, led>>
vars == <<status, nodeVars, walVars, roundVars, netVars, resets, ghostVars, crashes>>

Term == 0..MaxTerm

(* needed := len(peers)/2 + 1 *)
NeededTooFew == (Cardinality(Node) - 1) \div 2
Needed == (Cardinality(Node) - 1) \div 2 + 1

(* The process answers gRPC. *)
Up(n) == status[n] \in {"serving", "running"}

Votes(n) == 1 + Cardinality(ballots[n])

(* The two exits of the collector loop: enough votes, or no longer possible. *)
Elected(n) == Votes(n) >= Needed
Beaten(n)  == Cardinality(Node) - nays[n] < Needed
Decided(n) == Elected(n) \/ Beaten(n)

------------------------------------------------------------------------------
(* Mutant: the adopted term is not written to the WAL. *)
BecomeFollowerForgetful(n, t, leader) ==
    /\ state' = [state EXCEPT ![n] = "Follower"]
    /\ leaderID' = [leaderID EXCEPT ![n] = leader]
    /\ IF t > currentTerm[n]
       THEN /\ currentTerm' = [currentTerm EXCEPT ![n] = t]
            /\ votedFor' = [votedFor EXCEPT ![n] = None]
            /\ UNCHANGED walVars
       ELSE UNCHANGED <<currentTerm, votedFor, walVars>>

(* Mutant: the term is adopted whatever it is, as if the test were missing. *)
BecomeFollowerAnyTerm(n, t, leader) ==
    /\ state' = [state EXCEPT ![n] = "Follower"]
    /\ leaderID' = [leaderID EXCEPT ![n] = leader]
    /\ currentTerm' = [currentTerm EXCEPT ![n] = t]
    /\ votedFor' = [votedFor EXCEPT ![n] = None]
    /\ walTerm' = [walTerm EXCEPT ![n] = t]
    /\ walVote' = [walVote EXCEPT ![n] = None]

(* becomeFollowerLocked.  A term that is not higher still ends a leadership. *)
BecomeFollower(n, t, leader) ==
    /\ state' = [state EXCEPT ![n] = "Follower"]
    /\ leaderID' = [leaderID EXCEPT ![n] = leader]
    /\ IF t > currentTerm[n]
       THEN /\ currentTerm' = [currentTerm EXCEPT ![n] = t]
            /\ votedFor' = [votedFor EXCEPT ![n] = None]
            /\ walTerm' = [walTerm EXCEPT ![n] = t]
            /\ walVote' = [walVote EXCEPT ![n] = None]
       ELSE UNCHANGED <<currentTerm, votedFor, walVars>>

(* Every handler that accepts a candidate or a leader spawns                *)
(* resetElectionTimer; before Start the timer it resets does not exist.     *)
SpawnReset(n) ==
    resets' = IF status[n] = "serving" THEN resets \cup {n} ELSE resets

(* The loop of startElection receives one answer from voteCh. *)
Tally(n, t, peer, yes) ==
    IF phase[n] = "counting" /\ campaign[n] = t /\ ~Decided(n)
    THEN IF yes
         THEN ballots' = [ballots EXCEPT ![n] = @ \cup {peer}] /\ nays' = nays
         ELSE nays' = [nays EXCEPT ![n] = @ + 1] /\ ballots' = ballots
    ELSE UNCHANGED <<ballots, nays>>

(* startElection has returned to the election loop. *)
EndRound(n) ==
    /\ phase' = [phase EXCEPT ![n] = "idle"]
    /\ campaign' = [campaign EXCEPT ![n] = 0]
    /\ ballots' = [ballots EXCEPT ![n] = {}]
    /\ nays' = [nays EXCEPT ![n] = 0]

------------------------------------------------------------------------------
(* A cluster that has just been started, with empty WALs and no timer fired *)
(* yet.  A replica that boots later is one that crashed in this state.      *)
Init ==
    /\ status = [n \in Node |-> "running"]
    /\ currentTerm = [n \in Node |-> 0]
    /\ votedFor = [n \in Node |-> None]
    /\ state = [n \in Node |-> "Follower"]
    /\ leaderID = [n \in Node |-> None]
    /\ walTerm = [n \in Node |-> 0]
    /\ walVote = [n \in Node |-> None]
    /\ phase = [n \in Node |-> "idle"]
    /\ campaign = [n \in Node |-> 0]
    /\ ballots = [n \in Node |-> {}]
    /\ nays = [n \in Node |-> 0]
    /\ calls = {} /\ reqs = {} /\ resps = {}
    /\ beats = {} /\ syncs = {} /\ stepDowns = {}
    /\ resets = {}
    /\ granted = {} /\ won = {} /\ led = {}
    /\ crashes = 0

(* main up to grpcServer.Serve: WAL replay, RestoreState, SyncFromPeers.    *)
(* The SyncLog requests carry the restored term; peers may see them late,   *)
(* and a request of term 0 changes nothing anywhere.                        *)
Boot(n) ==
    /\ status[n] \in {"down", "panicked"}
    /\ status' = [status EXCEPT ![n] = "serving"]
    /\ IF walTerm[n] > 0
       THEN /\ currentTerm' = [currentTerm EXCEPT ![n] = walTerm[n]]
            /\ votedFor' = [votedFor EXCEPT ![n] = walVote[n]]
            /\ syncs' = syncs \cup {[src |-> n, term |-> walTerm[n]]}
       ELSE UNCHANGED <<currentTerm, votedFor, syncs>>
    /\ UNCHANGED <<state, leaderID, walVars, roundVars, calls, reqs, resps,
                   beats, stepDowns, resets, ghostVars, crashes>>

(* RaftNode.Start creates the election timer and the election loop. *)
Start(n) ==
    /\ status[n] = "serving"
    /\ status' = [status EXCEPT ![n] = "running"]
    /\ resets' = resets \ {n}
    /\ UNCHANGED <<nodeVars, walVars, roundVars, netVars, ghostVars, crashes>>

(* The election loop waits for its timer, and the node is not the leader.   *)
MayCampaign(n) ==
    /\ status[n] = "running" /\ phase[n] = "idle" /\ state[n] # "Leader"
    /\ currentTerm[n] < MaxTerm
    /\ Cardinality({g \in granted : g.voter = g.cand}) < MaxElections

(* Mutant: the vote for oneself is not written to the WAL. *)
StartElectionNoVoteRecord(n) ==
    /\ MayCampaign(n)
    /\ LET t == currentTerm[n] + 1
           asked == {[cand |-> n, peer |-> p, term |-> t] : p \in Node \ {n}}
       IN  /\ currentTerm' = [currentTerm EXCEPT ![n] = t]
           /\ walTerm' = [walTerm EXCEPT ![n] = t]
           /\ campaign' = [campaign EXCEPT ![n] = t]
           /\ calls' = calls \cup asked
           /\ reqs' = reqs \cup asked
           /\ granted' = granted \cup {[voter |-> n, cand |-> n, term |-> t]}
    /\ votedFor' = [votedFor EXCEPT ![n] = n]
    /\ state' = [state EXCEPT ![n] = "Candidate"]
    /\ phase' = [phase EXCEPT ![n] = "counting"]
    /\ UNCHANGED <<status, leaderID, walVote, ballots, nays, resps, beats, syncs,
                   stepDowns, resets, won, led, crashes>>

(* The timer fires: the first critical section of startElection and the     *)
(* vote goroutines it launches.                                             *)
StartElection(n) ==
    /\ MayCampaign(n)
    /\ LET t == currentTerm[n] + 1
           asked == {[cand |-> n, peer |-> p, term |-> t] : p \in Node \ {n}}
       IN  /\ currentTerm' = [currentTerm EXCEPT ![n] = t]
           /\ walTerm' = [walTerm EXCEPT ![n] = t]
           /\ campaign' = [campaign EXCEPT ![n] = t]
           /\ calls' = calls \cup asked
           /\ reqs' = reqs \cup asked
           /\ granted' = granted \cup {[voter |-> n, cand |-> n, term |-> t]}
    /\ votedFor' = [votedFor EXCEPT ![n] = n]
    /\ walVote' = [walVote EXCEPT ![n] = n]
    /\ state' = [state EXCEPT ![n] = "Candidate"]
    /\ phase' = [phase EXCEPT ![n] = "counting"]
    /\ UNCHANGED <<status, leaderID, ballots, nays, resps, beats, syncs,
                   stepDowns, resets, won, led, crashes>>

(* What RequestVote requires before it looks at the log. *)
AnyVote(r) == r.term >= currentTerm[r.peer]

MayVote(r) ==
    /\ r.term >= currentTerm[r.peer]
    /\ r.term > currentTerm[r.peer] \/ votedFor[r.peer] \in {None, r.cand}

(* RequestVote grants: it steps down first when the term is higher.  The    *)
(* goroutine passes the answer to the collector, or the answer is lost and  *)
(* VoteRPCFails follows.  A late answer is no other case: the collector     *)
(* only counts it, and when its loop ends is an action of its own.          *)
GrantVote(r) ==
    LET p == r.peer
        newer == r.term > currentTerm[p]
    IN  /\ Up(p) /\ MayVote(r)
        /\ reqs' = reqs \ {r}
        /\ state' = IF newer THEN [state EXCEPT ![p] = "Follower"] ELSE state
        /\ leaderID' = IF newer THEN [leaderID EXCEPT ![p] = None] ELSE leaderID
        /\ currentTerm' = [currentTerm EXCEPT ![p] = r.term]
        /\ walTerm' = [walTerm EXCEPT ![p] = r.term]
        /\ votedFor' = [votedFor EXCEPT ![p] = r.cand]
        /\ walVote' = [walVote EXCEPT ![p] = r.cand]
        /\ granted' = granted \cup {[voter |-> p, cand |-> r.cand, term |-> r.term]}
        /\ SpawnReset(p)
        /\ \/ r \in calls /\ calls' = calls \ {r} /\ Tally(r.cand, r.term, p, TRUE)
           \/ UNCHANGED <<calls, ballots, nays>>
        /\ UNCHANGED <<status, phase, campaign, resps, beats, syncs, stepDowns, won,
                       led, crashes>>

(* RequestVote refuses at the candidate's own term: a vote already cast, or *)
(* a log that is not up to date, which this module does not see.            *)
DenyVote(r) ==
    /\ Up(r.peer) /\ r.term >= currentTerm[r.peer]
    /\ reqs' = reqs \ {r}
    /\ IF r.term > currentTerm[r.peer]
       THEN BecomeFollower(r.peer, r.term, None)
       ELSE UNCHANGED <<nodeVars, walVars>>
    /\ calls' = calls \ {r}
    /\ IF r \in calls
       THEN Tally(r.cand, r.term, r.peer, FALSE)
       ELSE UNCHANGED <<ballots, nays>>
    /\ UNCHANGED <<status, phase, campaign, resps, beats, syncs, stepDowns, resets,
                   ghostVars, crashes>>

(* RequestVote of a stale term: the reply tells the candidate a higher one. *)
DenyStaleVote(r) ==
    /\ Up(r.peer) /\ r.term < currentTerm[r.peer]
    /\ reqs' = reqs \ {r}
    /\ resps' = IF r \in calls
                THEN resps \cup {[call |-> r, term |-> currentTerm[r.peer]]}
                ELSE resps
    /\ UNCHANGED <<status, nodeVars, walVars, roundVars, calls, beats, syncs,
                   stepDowns, resets, ghostVars, crashes>>

(* Mutant: the goroutine returns without putting anything in voteCh. *)
VoteReplyHigherTermSilent(r) ==
    /\ calls' = calls \ {r.call}
    /\ resps' = resps \ {r}
    /\ BecomeFollower(r.call.cand, r.term, None)
    /\ UNCHANGED <<status, roundVars, reqs, beats, syncs, stepDowns, resets,
                   ghostVars, crashes>>

(* A vote goroutine receives a higher term: BecomeFollower, then a negative *)
(* answer.  The node may by now be in a term higher than the reply's.       *)
VoteReplyHigherTerm(r) ==
    /\ calls' = calls \ {r.call}
    /\ resps' = resps \ {r}
    /\ BecomeFollower(r.call.cand, r.term, None)
    /\ Tally(r.call.cand, r.call.term, r.call.peer, FALSE)
    /\ UNCHANGED <<status, phase, campaign, reqs, beats, syncs, stepDowns, resets,
                   ghostVars, crashes>>

(* The RPC fails or its 300 ms are over: a negative answer.  The request    *)
(* may still reach the peer, the reply is dropped.                          *)
VoteRPCFails(c) ==
    /\ calls' = calls \ {c}
    /\ resps' = {r \in resps : r.call # c}
    /\ Tally(c.cand, c.term, c.peer, FALSE)
    /\ UNCHANGED <<status, nodeVars, walVars, phase, campaign, reqs, beats, syncs,
                   stepDowns, resets, ghostVars, crashes>>

(* n.state == Candidate && n.currentTerm == term *)
StillCandidate(n) == state[n] = "Candidate" /\ currentTerm[n] = campaign[n]

(* The collector has left its loop with a majority, and the check passes.   *)
(* The lock is released before BecomeLeader takes it again.                 *)
WinElection(n) ==
    /\ phase[n] = "counting" /\ Elected(n) /\ StillCandidate(n)
    /\ phase' = [phase EXCEPT ![n] = "won"]
    /\ won' = won \cup {[cand |-> n, term |-> campaign[n]]}
    /\ UNCHANGED <<status, nodeVars, walVars, campaign, ballots, nays, netVars,
                   resets, granted, led, crashes>>

(* The collector has left its loop, and startElection returns. *)
LoseElection(n) ==
    /\ phase[n] = "counting" /\ Decided(n)
    /\ ~(Elected(n) /\ StillCandidate(n))
    /\ EndRound(n)
    /\ UNCHANGED <<status, nodeVars, walVars, netVars, resets, ghostVars, crashes>>

(* BecomeLeader: state and term are not looked at again. *)
BecomeLeader(n) ==
    /\ phase[n] = "won"
    /\ state' = [state EXCEPT ![n] = "Leader"]
    /\ leaderID' = [leaderID EXCEPT ![n] = n]
    /\ led' = led \cup {[id |-> n, term |-> currentTerm[n]]}
    /\ EndRound(n)
    /\ UNCHANGED <<status, currentTerm, votedFor, walVars, netVars, resets,
                   granted, won, crashes>>

(* Mutant: the heartbeat announces the term after the leader's. *)
SendHeartbeatsNextTerm(n) ==
    LET b == [src |-> n, term |-> currentTerm[n] + 1]
    IN  /\ status[n] = "running" /\ state[n] = "Leader" /\ b \notin beats
        /\ beats' = beats \cup {b}
        /\ UNCHANGED <<status, nodeVars, walVars, roundVars, calls, reqs, resps, syncs,
                       stepDowns, resets, ghostVars, crashes>>

(* One tick of sendHeartbeats. *)
SendHeartbeats(n) ==
    LET b == [src |-> n, term |-> currentTerm[n]]
    IN  /\ status[n] = "running" /\ state[n] = "Leader" /\ b \notin beats
        /\ beats' = beats \cup {b}
        /\ UNCHANGED <<status, nodeVars, walVars, roundVars, calls, reqs, resps, syncs,
                       stepDowns, resets, ghostVars, crashes>>

(* Mutant: a stale term is accepted like any other. *)
HeartbeatAcceptedAnyTerm(b, m) ==
    /\ m # b.src /\ Up(m)
    /\ BecomeFollower(m, b.term, b.src)
    /\ SpawnReset(m)
    /\ UNCHANGED <<status, roundVars, netVars, ghostVars, crashes>>

(* Heartbeat, or the critical section of AppendEntries, accepts the sender. *)
HeartbeatAccepted(b, m) ==
    /\ m # b.src /\ Up(m) /\ b.term >= currentTerm[m]
    /\ BecomeFollower(m, b.term, b.src)
    /\ SpawnReset(m)
    /\ UNCHANGED <<status, roundVars, netVars, ghostVars, crashes>>

(* Mutant: the sending goroutine does not look at the term of the reply. *)
HeartbeatRejectedIgnored(b, m) ==
    /\ m # b.src /\ Up(m) /\ b.term < currentTerm[m]
    /\ status[b.src] = "running" /\ state[b.src] = "Leader"
    /\ currentTerm[b.src] = b.term
    /\ UNCHANGED vars

(* Heartbeat or AppendEntries is stale: the reply carries the higher term,  *)
(* and the sending goroutine acts on it unless its context is cancelled.    *)
HeartbeatRejected(b, m) ==
    /\ m # b.src /\ Up(m) /\ b.term < currentTerm[m]
    /\ status[b.src] = "running" /\ state[b.src] = "Leader"
    /\ currentTerm[b.src] = b.term
    /\ stepDowns' = stepDowns \cup {[node |-> b.src, term |-> currentTerm[m]]}
    /\ UNCHANGED <<status, nodeVars, walVars, roundVars, calls, reqs, resps, beats,
                   syncs, resets, ghostVars, crashes>>

(* SyncLog has compared the requester's term with its own and released the  *)
(* lock; a lower or equal term changes nothing.                             *)
SyncLog(s, m) ==
    /\ m # s.src /\ Up(m) /\ s.term > currentTerm[m]
    /\ stepDowns' = stepDowns \cup {[node |-> m, term |-> s.term]}
    /\ UNCHANGED <<status, nodeVars, walVars, roundVars, calls, reqs, resps, beats,
                   syncs, resets, ghostVars, crashes>>

(* A goroutine that saw a higher term gets the lock. *)
StepDown(d) ==
    /\ stepDowns' = stepDowns \ {d}
    /\ BecomeFollower(d.node, d.term, None)
    /\ UNCHANGED <<status, roundVars, calls, reqs, resps, beats, syncs, resets,
                   ghostVars, crashes>>

(* Everything the process held in memory is gone, its goroutines included.  *)
LoseMemory(n, fate) ==
    /\ status' = [status EXCEPT ![n] = fate]
    /\ currentTerm' = [currentTerm EXCEPT ![n] = 0]
    /\ votedFor' = [votedFor EXCEPT ![n] = None]
    /\ state' = [state EXCEPT ![n] = "Follower"]
    /\ leaderID' = [leaderID EXCEPT ![n] = None]
    /\ EndRound(n)
    /\ calls' = {c \in calls : c.cand # n}
    /\ resps' = {r \in resps : r.call.cand # n}
    /\ stepDowns' = {d \in stepDowns : d.node # n}
    /\ resets' = resets \ {n}
    /\ UNCHANGED <<reqs, beats, syncs, ghostVars>>

Crash(n) ==
    /\ Up(n) /\ crashes < MaxCrash
    /\ LoseMemory(n, "down")
    /\ crashes' = crashes + 1
    /\ UNCHANGED walVars

(* The terms a critical section of n may be about to write.                 *)
TermsInSight(n) ==
    (IF MayCampaign(n) THEN {currentTerm[n] + 1} ELSE {})
      \cup {r.term : r \in {q \in reqs : q.peer = n}}
      \cup {r.term : r \in {q \in resps : q.call.cand = n}}
      \cup {b.term : b \in {q \in beats : q.src # n}}
      \cup {d.term : d \in {q \in stepDowns : q.node = n}}

(* The process dies between WriteTerm and WriteVote: the WAL then holds the *)
(* new term with the vote of an older one.                                  *)
CrashBetweenWrites(n) ==
    /\ Up(n) /\ crashes < MaxCrash
    /\ \E t \in TermsInSight(n) :
         t > currentTerm[n] /\ walTerm' = [walTerm EXCEPT ![n] = t]
    /\ LoseMemory(n, "down")
    /\ crashes' = crashes + 1
    /\ UNCHANGED walVote

(* resetElectionTimer runs while n.electionTimer is still nil. *)
TimerPanic(n) ==
    /\ n \in resets
    /\ LoseMemory(n, "panicked")
    /\ UNCHANGED <<walVars, crashes>>

Next ==
    \/ \E n \in Node :
         \/ Boot(n) \/ Start(n) \/ StartElection(n)
         \/ WinElection(n) \/ LoseElection(n) \/ BecomeLeader(n)
         \/ SendHeartbeats(n)
         \/ Crash(n) \/ CrashBetweenWrites(n) \/ TimerPanic(n)
    \/ \E r \in reqs : GrantVote(r) \/ DenyVote(r) \/ DenyStaleVote(r)
    \/ \E r \in resps : VoteReplyHigherTerm(r)
    \/ \E c \in calls : VoteRPCFails(c)
    \/ \E b \in beats, m \in Node : HeartbeatAccepted(b, m) \/ HeartbeatRejected(b, m)
    \/ \E s \in syncs, m \in Node : SyncLog(s, m)
    \/ \E d \in stepDowns : StepDown(d)

Spec == Init /\ [][Next]_vars

------------------------------------------------------------------------------
(* What the code's scheduling guarantees.  A vote goroutine answers within  *)
(* 300 ms, the election loop and the other goroutines are never starved, a  *)
(* leader ticks every 150 ms, and of its heartbeats to a replica that stays *)
(* up one eventually gets through and its answer comes back.                *)
Fairness ==
    /\ \A n \in Node :
         /\ WF_vars(\E c \in calls : c.cand = n /\ VoteRPCFails(c))
         /\ WF_vars(WinElection(n) \/ LoseElection(n))
         /\ WF_vars(BecomeLeader(n))
         /\ WF_vars(SendHeartbeats(n))
         /\ WF_vars(\E d \in stepDowns : d.node = n /\ StepDown(d))
    /\ \A n, m \in Node : \A t \in Term :
         LET b == [src |-> n, term |-> t]
         IN  WF_vars(b \in beats /\ HeartbeatRejected(b, m))

FairSpec == Spec /\ Fairness

------------------------------------------------------------------------------
CallSet == [cand : Node, peer : Node, term : Term]
RespSet == [call : CallSet, term : Term]
VoteSet == [voter : Node, cand : Node, term : Term]

TypeOK ==
    /\ status \in [Node -> {"down", "panicked", "serving", "running"}]
    /\ currentTerm \in [Node -> Term]
    /\ votedFor \in [Node -> Node \cup {None}]
    /\ state \in [Node -> {"Follower", "Candidate", "Leader"}]
    /\ leaderID \in [Node -> Node \cup {None}]
    /\ walTerm \in [Node -> Term]
    /\ walVote \in [Node -> Node \cup {None}]
    /\ phase \in [Node -> {"idle", "counting", "won"}]
    /\ campaign \in [Node -> Term]
    /\ ballots \in [Node -> SUBSET Node]
    /\ nays \in [Node -> Nat]
    /\ calls \subseteq CallSet
    /\ reqs \subseteq CallSet
    /\ resps \subseteq RespSet
    /\ beats \subseteq [src : Node, term : Term]
    /\ syncs \subseteq [src : Node, term : Term]
    /\ stepDowns \subseteq [node : Node, term : Term]
    /\ resets \subseteq Node
    /\ granted \subseteq VoteSet
    /\ won \subseteq [cand : Node, term : Term]
    /\ led \subseteq [id : Node, term : Term]
    /\ crashes \in Nat

(* A replica never casts two votes in one term, whatever it was doing when  *)
(* the second request came and however often it has crashed in between: the *)
(* order of WriteTerm and WriteVote, and their replay, are what it rests on. *)
VoteOnce ==
    \A g, h \in granted :
        g.voter = h.voter /\ g.term = h.term => g.cand = h.cand

(* At most one candidate wins the election of a term (election.go:117-147). *)
OneWinnerPerTerm ==
    \A v, w \in won : v.term = w.term => v.cand = w.cand

(* BecomeLeader does not look at the term again, so a replica can lead a    *)
(* term it never won.  That is the only way to two leaders in one term: of  *)
(* two of them, one holds no vote of its own in that term.                  *)
SplitBrainOnlyThroughWindow ==
    \A n, m \in Node :
        /\ state[n] = "Leader" /\ state[m] = "Leader"
        /\ currentTerm[n] = currentTerm[m]
        /\ votedFor[n] = n /\ votedFor[m] = m
        => n = m

(* A term a replica has told anybody (by a vote, an answer, a heartbeat) is *)
(* in its WAL, so that no crash takes it back below that term.              *)
TermsPersist ==
    /\ \A g \in granted : walTerm[g.voter] >= g.term
    /\ \A r \in resps : walTerm[r.call.peer] >= r.term
    /\ \A b \in beats : walTerm[b.src] >= b.term

(* The votes and victories of this module are those TermElections allows:   *)
(* one vote per term and replica, in ascending terms, and a true majority   *)
(* behind each victory.  It holds for the odd clusters only, see Needed.    *)
Majority == {Q \in SUBSET Node : 2 * Cardinality(Q) > Cardinality(Node)}

Elections == INSTANCE TermElections WITH Quorum <- Majority

ImplementsTermElections == Elections!Spec

(* A cluster elected in this way behaves as ClusterStatus has it, the        *)
(* replicas that LeaderTracker polls: the status a running replica shows, or *)
(* would show once it is up again, and who has led which term.              *)
Role == [Follower |-> "FOLLOWER", Candidate |-> "CANDIDATE", Leader |-> "LEADER"]

Shown ==
    [n \in Node |->
        [state |-> Role[state[n]], term |-> walTerm[n], leaderId |-> leaderID[n]]]

Cluster == INSTANCE ClusterStatus
    WITH Replica <- Node, node <- Shown, reachable <- {n \in Node : Up(n)}, elected <- led

ImplementsClusterStatus == Cluster!ClusterSpec

------------------------------------------------------------------------------
(* The strengthening of VoteOnce, OneWinnerPerTerm and the others that every *)
(* step preserves.                                                          *)

(* While a process runs, the WAL holds its term and its vote; a process that *)
(* does not run holds nothing, and only a started one holds an election.    *)
WalIsCurrent ==
    \A n \in Node :
        /\ Up(n) => walTerm[n] = currentTerm[n] /\ walVote[n] = votedFor[n]
        /\ ~Up(n) => currentTerm[n] = 0 /\ votedFor[n] = None
        /\ walTerm[n] = 0 => walVote[n] = None
        /\ status[n] # "running" => phase[n] = "idle" /\ state[n] = "Follower"

(* Pending goroutines belong to running processes; nobody polls himself.    *)
GoroutinesLive ==
    /\ \A c \in calls : Up(c.cand)
    /\ \A r \in reqs : r.cand # r.peer /\ r.term > 0
    /\ \A r \in resps : Up(r.call.cand)
    /\ \A d \in stepDowns : Up(d.node)

(* The WAL is not behind any vote cast, and holds the one of its own term.  *)
VotesInWal ==
    \A g \in granted :
        /\ g.term <= walTerm[g.voter]
        /\ g.term = walTerm[g.voter] => walVote[g.voter] = g.cand

(* What the collector has counted are votes of its campaign's term.         *)
BallotsBacked ==
    \A n \in Node :
        /\ phase[n] = "idle" => ballots[n] = {}
        /\ n \notin ballots[n]
        /\ phase[n] # "idle" =>
             /\ campaign[n] <= currentTerm[n]
             /\ \A p \in ballots[n] \cup {n} :
                  [voter |-> p, cand |-> n, term |-> campaign[n]] \in granted

(* Behind every victory stand as many votes as the collector asks for.      *)
WinsBacked ==
    \A w \in won : \E Q \in SUBSET Node :
        /\ Cardinality(Q) >= Needed
        /\ \A v \in Q : [voter |-> v, cand |-> w.cand, term |-> w.term] \in granted

(* A node that still holds its own vote has not left its campaign's term,   *)
(* so that it becomes the leader of a term it has won.                      *)
OwnTermWon ==
    \A n \in Node :
        /\ phase[n] = "won" => [cand |-> n, term |-> campaign[n]] \in won
        /\ votedFor[n] = n /\ phase[n] # "idle" => currentTerm[n] = campaign[n]
        /\ votedFor[n] = n /\ state[n] = "Leader"
             => [cand |-> n, term |-> currentTerm[n]] \in won

IndInv ==
    /\ TypeOK /\ WalIsCurrent /\ GoroutinesLive /\ VotesInWal /\ VoteOnce
    /\ TermsPersist /\ BallotsBacked /\ WinsBacked /\ OwnTermWon

(* Clusters for which Needed is a majority. *)
OddCluster == Cardinality(Node) % 2 = 1

------------------------------------------------------------------------------
(* README.md:42 and :63: with 4 nodes the quorum is 3 votes, a majority.    *)
WonByMajority ==
    \A w \in won :
        2 * Cardinality({g.voter : g \in {h \in granted : h.cand = w.cand
                                                        /\ h.term = w.term}})
          > Cardinality(Node)

(* startElection always returns to the election loop: no reply, late, lost  *)
(* or of a higher term, leaves the collector waiting for voteCh.            *)
ElectionEnds == \A n \in Node : phase[n] # "idle" ~> phase[n] = "idle"

(* A leader that a running replica outranks does not stay one: a heartbeat  *)
(* that is answered with the higher term ends its leadership.               *)
Outranked(n) ==
    /\ status[n] = "running" /\ state[n] = "Leader"
    /\ \E m \in Node : status[m] = "running" /\ currentTerm[m] > currentTerm[n]

DeposedLeaderLeaves == \A n \in Node : Outranked(n) ~> ~Outranked(n)
==============================================================================
