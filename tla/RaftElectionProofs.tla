------------------------- MODULE RaftElectionProofs -------------------------
(* Theorems about RaftElection, for any number of replicas and any bounds. *)
EXTENDS RaftElection, FiniteSetTheorems, TLAPS

(***************************************************************************)
(* Type correctness.                                                       *)
(***************************************************************************)

(* becomeFollowerLocked keeps the node variables well typed.               *)
LEMMA BecomeFollowerType ==
    ASSUME TypeOK, NEW n \in Node, NEW t \in Term, NEW l \in Node \cup {None},
           BecomeFollower(n, t, l)
    PROVE  /\ currentTerm' \in [Node -> Term]
           /\ votedFor' \in [Node -> Node \cup {None}]
           /\ state' \in [Node -> {"Follower", "Candidate", "Leader"}]
           /\ leaderID' \in [Node -> Node \cup {None}]
           /\ walTerm' \in [Node -> Term]
           /\ walVote' \in [Node -> Node \cup {None}]
BY DEF BecomeFollower, TypeOK, walVars

(* Counting an answer keeps the tally well typed.                          *)
LEMMA TallyType ==
    ASSUME TypeOK, NEW n \in Node, NEW t, NEW p \in Node, NEW yes, Tally(n, t, p, yes)
    PROVE  ballots' \in [Node -> SUBSET Node] /\ nays' \in [Node -> Nat]
BY DEF Tally, TypeOK

LEMMA EndRoundType ==
    ASSUME TypeOK, NEW n \in Node, EndRound(n)
    PROVE  /\ phase' \in [Node -> {"idle", "counting", "won"}]
           /\ campaign' \in [Node -> Term]
           /\ ballots' \in [Node -> SUBSET Node]
           /\ nays' \in [Node -> Nat]
BY BoundAssumption DEF EndRound, TypeOK, Term

LEMMA LoseMemoryType ==
    ASSUME TypeOK, NEW n \in Node, NEW fate \in {"down", "panicked"},
           LoseMemory(n, fate),
           walTerm' \in [Node -> Term], walVote' \in [Node -> Node \cup {None}],
           crashes' \in Nat
    PROVE  TypeOK'
<1>1. /\ phase' \in [Node -> {"idle", "counting", "won"}]
      /\ campaign' \in [Node -> Term]
      /\ ballots' \in [Node -> SUBSET Node]
      /\ nays' \in [Node -> Nat]
  BY EndRoundType DEF LoseMemory
<1>2. /\ status' \in [Node -> {"down", "panicked", "serving", "running"}]
      /\ currentTerm' \in [Node -> Term]
      /\ votedFor' \in [Node -> Node \cup {None}]
      /\ state' \in [Node -> {"Follower", "Candidate", "Leader"}]
      /\ leaderID' \in [Node -> Node \cup {None}]
  BY BoundAssumption DEF LoseMemory, TypeOK, Term
<1>3. /\ calls' \subseteq CallSet /\ reqs' \subseteq CallSet /\ resps' \subseteq RespSet
      /\ beats' \subseteq [src : Node, term : Term]
      /\ syncs' \subseteq [src : Node, term : Term]
      /\ stepDowns' \subseteq [node : Node, term : Term]
      /\ resets' \subseteq Node
      /\ granted' \subseteq VoteSet /\ won' \subseteq [cand : Node, term : Term]
      /\ led' \subseteq [id : Node, term : Term]
  BY DEF LoseMemory, TypeOK, ghostVars
<1> QED
  BY <1>1, <1>2, <1>3 DEF TypeOK

LEMMA InitType == Init => TypeOK
BY BoundAssumption DEF Init, TypeOK, Term

LEMMA NextType == TypeOK /\ [Next]_vars => TypeOK'
<1> SUFFICES ASSUME TypeOK, [Next]_vars PROVE TypeOK'
  OBVIOUS
<1> USE DEF nodeVars, walVars, roundVars, netVars, ghostVars
<1>1. ASSUME NEW n \in Node, Boot(n) PROVE TypeOK'
  BY <1>1 DEF Boot, TypeOK
<1>2. ASSUME NEW n \in Node, Start(n) PROVE TypeOK'
  BY <1>2 DEF Start, TypeOK
<1>3. ASSUME NEW n \in Node, StartElection(n) PROVE TypeOK'
  <2>1. currentTerm[n] + 1 \in Term
    BY <1>3, BoundAssumption DEF StartElection, MayCampaign, TypeOK, Term
  <2>2. calls' \subseteq CallSet /\ reqs' \subseteq CallSet /\ granted' \subseteq VoteSet
    BY <1>3, <2>1 DEF StartElection, TypeOK, CallSet, VoteSet
  <2> QED
    BY <1>3, <2>1, <2>2 DEF StartElection, TypeOK
<1>4. ASSUME NEW n \in Node, WinElection(n) PROVE TypeOK'
  <2>1. won' \subseteq [cand : Node, term : Term]
    BY <1>4 DEF WinElection, TypeOK
  <2> QED
    BY <1>4, <2>1 DEF WinElection, TypeOK
<1>5. ASSUME NEW n \in Node, LoseElection(n) PROVE TypeOK'
  BY <1>5, EndRoundType DEF LoseElection, TypeOK
<1>6. ASSUME NEW n \in Node, BecomeLeader(n) PROVE TypeOK'
  BY <1>6, EndRoundType DEF BecomeLeader, TypeOK
<1>7. ASSUME NEW n \in Node, SendHeartbeats(n) PROVE TypeOK'
  <2>1. beats' \subseteq [src : Node, term : Term]
    BY <1>7 DEF SendHeartbeats, TypeOK
  <2> QED
    BY <1>7, <2>1 DEF SendHeartbeats, TypeOK
<1>8. ASSUME NEW n \in Node, Crash(n) PROVE TypeOK'
  BY <1>8, LoseMemoryType DEF Crash, TypeOK
<1>9. ASSUME NEW n \in Node, CrashBetweenWrites(n) PROVE TypeOK'
  <2>1. TermsInSight(n) \subseteq Term
    BY BoundAssumption DEF TermsInSight, MayCampaign, TypeOK, Term, CallSet, RespSet
  <2>2. walTerm' \in [Node -> Term] /\ walVote' \in [Node -> Node \cup {None}]
    BY <1>9, <2>1 DEF CrashBetweenWrites, TypeOK
  <2> QED
    BY <1>9, <2>2, LoseMemoryType DEF CrashBetweenWrites, TypeOK
<1>10. ASSUME NEW n \in Node, TimerPanic(n) PROVE TypeOK'
  BY <1>10, LoseMemoryType DEF TimerPanic, TypeOK
<1>11. ASSUME NEW r \in reqs, GrantVote(r) PROVE TypeOK'
  <2>1. r.cand \in Node /\ r.peer \in Node /\ r.term \in Term
    BY <1>11 DEF TypeOK, CallSet
  <2>2. granted' \subseteq VoteSet
    BY <1>11, <2>1 DEF GrantVote, TypeOK, VoteSet
  <2>3. ballots' \in [Node -> SUBSET Node] /\ nays' \in [Node -> Nat]
    BY <1>11, <2>1, TallyType DEF GrantVote, TypeOK
  <2>4. /\ calls' \subseteq CallSet /\ reqs' \subseteq CallSet /\ resets' \subseteq Node
    BY <1>11, <2>1 DEF GrantVote, TypeOK, SpawnReset
  <2>5. /\ state' \in [Node -> {"Follower", "Candidate", "Leader"}]
        /\ leaderID' \in [Node -> Node \cup {None}]
        /\ currentTerm' \in [Node -> Term] /\ votedFor' \in [Node -> Node \cup {None}]
        /\ walTerm' \in [Node -> Term] /\ walVote' \in [Node -> Node \cup {None}]
    BY <1>11, <2>1 DEF GrantVote, TypeOK
  <2> QED
    BY <1>11, <2>2, <2>3, <2>4, <2>5 DEF GrantVote, TypeOK
<1>12. ASSUME NEW r \in reqs, DenyVote(r) PROVE TypeOK'
  <2>1. r.cand \in Node /\ r.peer \in Node /\ r.term \in Term
    BY <1>12 DEF TypeOK, CallSet
  <2>2. ballots' \in [Node -> SUBSET Node] /\ nays' \in [Node -> Nat]
    BY <1>12, <2>1, TallyType DEF DenyVote, TypeOK
  <2> QED
    BY <1>12, <2>1, <2>2, BecomeFollowerType DEF DenyVote, TypeOK
<1>13. ASSUME NEW r \in reqs, DenyStaleVote(r) PROVE TypeOK'
  <2>1. resps' \subseteq RespSet
    BY <1>13 DEF DenyStaleVote, TypeOK, CallSet, RespSet
  <2> QED
    BY <1>13, <2>1 DEF DenyStaleVote, TypeOK
<1>14. ASSUME NEW r \in resps, VoteReplyHigherTerm(r) PROVE TypeOK'
  <2>1. r.call.cand \in Node /\ r.call.peer \in Node /\ r.term \in Term
    BY <1>14 DEF TypeOK, RespSet, CallSet
  <2>2. ballots' \in [Node -> SUBSET Node] /\ nays' \in [Node -> Nat]
    BY <1>14, <2>1, TallyType DEF VoteReplyHigherTerm
  <2> QED
    BY <1>14, <2>1, <2>2, BecomeFollowerType DEF VoteReplyHigherTerm, TypeOK
<1>15. ASSUME NEW c \in calls, VoteRPCFails(c) PROVE TypeOK'
  <2>1. c.cand \in Node /\ c.peer \in Node
    BY <1>15 DEF TypeOK, CallSet
  <2>2. ballots' \in [Node -> SUBSET Node] /\ nays' \in [Node -> Nat]
    BY <1>15, <2>1, TallyType DEF VoteRPCFails
  <2> QED
    BY <1>15, <2>2 DEF VoteRPCFails, TypeOK
<1>16. ASSUME NEW b \in beats, NEW m \in Node, HeartbeatAccepted(b, m) PROVE TypeOK'
  <2>1. b.src \in Node /\ b.term \in Term
    BY <1>16 DEF TypeOK
  <2> QED
    BY <1>16, <2>1, BecomeFollowerType DEF HeartbeatAccepted, TypeOK, SpawnReset
<1>17. ASSUME NEW b \in beats, NEW m \in Node, HeartbeatRejected(b, m) PROVE TypeOK'
  <2>1. stepDowns' \subseteq [node : Node, term : Term]
    BY <1>17 DEF TypeOK, HeartbeatRejected
  <2> QED
    BY <1>17, <2>1 DEF HeartbeatRejected, TypeOK
<1>18. ASSUME NEW s \in syncs, NEW m \in Node, SyncLog(s, m) PROVE TypeOK'
  <2>1. stepDowns' \subseteq [node : Node, term : Term]
    BY <1>18 DEF TypeOK, SyncLog
  <2> QED
    BY <1>18, <2>1 DEF SyncLog, TypeOK
<1>19. ASSUME NEW d \in stepDowns, StepDown(d) PROVE TypeOK'
  <2>1. d.node \in Node /\ d.term \in Term
    BY <1>19 DEF TypeOK
  <2> QED
    BY <1>19, <2>1, BecomeFollowerType DEF StepDown, TypeOK
<1>20. ASSUME UNCHANGED vars PROVE TypeOK'
  BY <1>20 DEF vars, TypeOK
<1> QED
  BY <1>1, <1>2, <1>3, <1>4, <1>5, <1>6, <1>7, <1>8, <1>9, <1>10, <1>11, <1>12,
     <1>13, <1>14, <1>15, <1>16, <1>17, <1>18, <1>19, <1>20 DEF Next

(* Every reachable state of every instance is well typed: in particular no  *)
(* message, WAL record or pending step-down names a term above the bound.   *)
THEOREM TypeCorrect == Spec => []TypeOK
<1> QED
  BY InitType, NextType, PTL DEF Spec

(***************************************************************************)
(* The inductive invariant.                                                *)
(***************************************************************************)

(* Every step that changes the WAL or casts a vote is one of four: the      *)
(* start of an election, a vote granted, a step-down, or a crash between    *)
(* the two writes.                                                          *)
LEMMA WalFootprint ==
    ASSUME TypeOK, GoroutinesLive, [Next]_vars
    PROVE  \/ UNCHANGED <<walTerm, walVote, granted>>
           \/ \E n \in Node : StartElection(n)
           \/ \E r \in reqs : GrantVote(r)
           \/ \E n \in Node, t \in Term, l \in Node \cup {None} :
                 Up(n) /\ BecomeFollower(n, t, l) /\ UNCHANGED granted
           \/ \E n \in Node : CrashBetweenWrites(n) /\ UNCHANGED granted
<1> DEFINE Goal == \/ UNCHANGED <<walTerm, walVote, granted>>
                   \/ \E n \in Node : StartElection(n)
                   \/ \E r \in reqs : GrantVote(r)
                   \/ \E n \in Node, t \in Term, l \in Node \cup {None} :
                         Up(n) /\ BecomeFollower(n, t, l) /\ UNCHANGED granted
                   \/ \E n \in Node : CrashBetweenWrites(n) /\ UNCHANGED granted
<1> USE DEF walVars, ghostVars
<1>1. ASSUME NEW n \in Node,
             \/ Boot(n) \/ Start(n) \/ WinElection(n) \/ LoseElection(n)
             \/ BecomeLeader(n) \/ SendHeartbeats(n) \/ Crash(n) \/ TimerPanic(n)
      PROVE  UNCHANGED <<walTerm, walVote, granted>>
  BY <1>1 DEF Boot, Start, WinElection, LoseElection, BecomeLeader, SendHeartbeats,
              Crash, TimerPanic, LoseMemory
<1>2. ASSUME NEW n \in Node, CrashBetweenWrites(n) PROVE UNCHANGED granted
  BY <1>2 DEF CrashBetweenWrites, LoseMemory
<1>3. ASSUME NEW r \in reqs, DenyVote(r) PROVE Goal
  <2>1. r.peer \in Node /\ r.term \in Term
    BY DEF TypeOK, CallSet
  <2> QED
    BY <1>3, <2>1 DEF DenyVote
<1>4. ASSUME NEW r \in resps, VoteReplyHigherTerm(r) PROVE Goal
  <2>1. r.call.cand \in Node /\ r.term \in Term /\ Up(r.call.cand)
    BY DEF TypeOK, RespSet, CallSet, GoroutinesLive
  <2> QED
    BY <1>4, <2>1 DEF VoteReplyHigherTerm
<1>5. ASSUME NEW b \in beats, NEW m \in Node, HeartbeatAccepted(b, m) PROVE Goal
  <2>1. b.src \in Node /\ b.term \in Term
    BY DEF TypeOK
  <2> QED
    BY <1>5, <2>1 DEF HeartbeatAccepted
<1>6. ASSUME NEW d \in stepDowns, StepDown(d) PROVE Goal
  <2>1. d.node \in Node /\ d.term \in Term /\ Up(d.node)
    BY DEF TypeOK, GoroutinesLive
  <2> QED
    BY <1>6, <2>1 DEF StepDown
<1>7. ASSUME NEW r \in reqs, DenyStaleVote(r) PROVE UNCHANGED <<walTerm, walVote, granted>>
  BY <1>7 DEF DenyStaleVote
<1>8. ASSUME NEW c \in calls, VoteRPCFails(c) PROVE UNCHANGED <<walTerm, walVote, granted>>
  BY <1>8 DEF VoteRPCFails
<1>9. ASSUME NEW b \in beats, NEW m \in Node, HeartbeatRejected(b, m)
      PROVE UNCHANGED <<walTerm, walVote, granted>>
  BY <1>9 DEF HeartbeatRejected
<1>10. ASSUME NEW x \in syncs, NEW m \in Node, SyncLog(x, m)
       PROVE UNCHANGED <<walTerm, walVote, granted>>
  BY <1>10 DEF SyncLog
<1>11. ASSUME UNCHANGED vars PROVE UNCHANGED <<walTerm, walVote, granted>>
  BY <1>11 DEF vars
<1> QED
  BY <1>1, <1>2, <1>3, <1>4, <1>5, <1>6, <1>7, <1>8, <1>9, <1>10, <1>11 DEF Next

(* The terms a crash may leave in the WAL.                                  *)
LEMMA SightType == TypeOK => \A n \in Node : TermsInSight(n) \subseteq Term
BY BoundAssumption DEF TermsInSight, MayCampaign, TypeOK, Term, CallSet, RespSet

(* No step takes a WAL back to an earlier term, and within a term a vote in *)
(* it is not replaced; the votes cast stay covered.                         *)
LEMMA WalGrows ==
    ASSUME TypeOK, GoroutinesLive, WalIsCurrent, VotesInWal, VoteOnce, [Next]_vars
    PROVE  /\ \A n \in Node : walTerm'[n] >= walTerm[n]
           /\ VotesInWal' /\ VoteOnce'
<1> DEFINE Goal == /\ \A n \in Node : walTerm'[n] >= walTerm[n]
                   /\ VotesInWal' /\ VoteOnce'
<1>a. \A g \in granted : g.voter \in Node /\ g.cand \in Node /\ g.term \in Int
  BY DEF TypeOK, VoteSet, Term
<1>b. \A n \in Node : walTerm[n] \in Int /\ currentTerm[n] \in Int
  BY DEF TypeOK, Term
<1>1. CASE UNCHANGED <<walTerm, walVote, granted>>
  BY <1>1, <1>b DEF VotesInWal, VoteOnce
<1>2. ASSUME NEW n \in Node, StartElection(n) PROVE Goal
  <2>1. Up(n) /\ walTerm[n] = currentTerm[n]
    BY <1>2 DEF StartElection, MayCampaign, Up, WalIsCurrent
  <2>2. /\ walTerm' = [walTerm EXCEPT ![n] = walTerm[n] + 1]
        /\ walVote' = [walVote EXCEPT ![n] = n]
        /\ granted' = granted \cup {[voter |-> n, cand |-> n, term |-> walTerm[n] + 1]}
    BY <1>2, <2>1 DEF StartElection
  <2>3. \A m \in Node : walTerm'[m] >= walTerm[m]
    BY <2>2, <1>b DEF TypeOK
  <2>4. VotesInWal'
    BY <2>2, <1>a, <1>b DEF VotesInWal, TypeOK
  <2>5. VoteOnce'
    BY <2>2, <1>a, <1>b DEF VotesInWal, VoteOnce
  <2> QED
    BY <2>3, <2>4, <2>5
<1>3. ASSUME NEW r \in reqs, GrantVote(r) PROVE Goal
  <2> DEFINE p == r.peer
  <2>1. /\ p \in Node /\ r.cand \in Node /\ r.term \in Int /\ p # r.cand
        /\ walTerm[p] = currentTerm[p] /\ walVote[p] = votedFor[p]
    BY <1>3 DEF TypeOK, CallSet, Term, GoroutinesLive, GrantVote, WalIsCurrent
  <2>2. /\ walTerm' = [walTerm EXCEPT ![p] = r.term]
        /\ walVote' = [walVote EXCEPT ![p] = r.cand]
        /\ granted' = granted \cup {[voter |-> p, cand |-> r.cand, term |-> r.term]}
        /\ r.term >= walTerm[p]
        /\ r.term > walTerm[p] \/ walVote[p] \in {None, r.cand}
    BY <1>3, <2>1 DEF GrantVote, MayVote
  <2>3. \A g \in granted : g.voter = p => g.term < r.term \/ (g.term = r.term /\ g.cand = r.cand)
    BY <2>1, <2>2, <1>a, <1>b, NodeAssumption DEF VotesInWal
  <2>4. \A m \in Node : walTerm'[m] >= walTerm[m]
    BY <2>1, <2>2, <1>b DEF TypeOK
  <2>5. VotesInWal'
    BY <2>1, <2>2, <2>3, <1>a, <1>b DEF VotesInWal, TypeOK
  <2>6. VoteOnce'
    BY <2>1, <2>2, <2>3, <1>a DEF VoteOnce
  <2> QED
    BY <2>4, <2>5, <2>6
<1>4. ASSUME NEW n \in Node, NEW t \in Term, NEW l \in Node \cup {None},
             Up(n), BecomeFollower(n, t, l), UNCHANGED granted
      PROVE Goal
  BY <1>4, <1>a, <1>b DEF BecomeFollower, VotesInWal, VoteOnce, WalIsCurrent, TypeOK, Term, walVars
<1>5. ASSUME NEW n \in Node, CrashBetweenWrites(n), UNCHANGED granted PROVE Goal
  <2>1. PICK t \in TermsInSight(n) : t > currentTerm[n] /\ walTerm' = [walTerm EXCEPT ![n] = t]
    BY <1>5 DEF CrashBetweenWrites
  <2>2. t \in Int /\ t > walTerm[n] /\ walVote' = walVote
    BY <1>5, <2>1, SightType DEF CrashBetweenWrites, WalIsCurrent, Term
  <2> QED
    BY <1>5, <2>1, <2>2, <1>a, <1>b DEF VotesInWal, VoteOnce, TypeOK
<1> QED
  BY <1>1, <1>2, <1>3, <1>4, <1>5, WalFootprint

(* Running processes: which goroutines exist and what the WAL holds.        *)
LEMMA WalIsCurrentStep ==
    ASSUME TypeOK, GoroutinesLive, WalIsCurrent, [Next]_vars
    PROVE  WalIsCurrent'
<1> USE DEF nodeVars, walVars, roundVars, netVars, ghostVars, Up
<1>b. \A n \in Node : walTerm[n] \in Int /\ currentTerm[n] \in Int /\ walTerm[n] >= 0
  BY DEF TypeOK, Term
<1>1. ASSUME NEW n \in Node, Boot(n) PROVE WalIsCurrent'
  BY <1>1, <1>b DEF Boot, WalIsCurrent, TypeOK
<1>2. ASSUME NEW n \in Node, Start(n) PROVE WalIsCurrent'
  BY <1>2 DEF Start, WalIsCurrent, TypeOK
<1>3. ASSUME NEW n \in Node, StartElection(n) PROVE WalIsCurrent'
  BY <1>3, <1>b DEF StartElection, MayCampaign, WalIsCurrent, TypeOK
<1>4. ASSUME NEW n \in Node, WinElection(n) PROVE WalIsCurrent'
  BY <1>4 DEF WinElection, WalIsCurrent, TypeOK
<1>5. ASSUME NEW n \in Node, LoseElection(n) PROVE WalIsCurrent'
  BY <1>5 DEF LoseElection, EndRound, WalIsCurrent, TypeOK
<1>6. ASSUME NEW n \in Node, BecomeLeader(n) PROVE WalIsCurrent'
  BY <1>6 DEF BecomeLeader, EndRound, WalIsCurrent, TypeOK
<1>7. ASSUME NEW n \in Node, Crash(n) \/ TimerPanic(n) PROVE WalIsCurrent'
  BY <1>7 DEF Crash, TimerPanic, LoseMemory, EndRound, WalIsCurrent, TypeOK
<1>8. ASSUME NEW n \in Node, CrashBetweenWrites(n) PROVE WalIsCurrent'
  <2>1. PICK t \in TermsInSight(n) : t > currentTerm[n] /\ walTerm' = [walTerm EXCEPT ![n] = t]
    BY <1>8 DEF CrashBetweenWrites
  <2>2. t \in Int /\ t > 0
    BY <2>1, <1>b, SightType DEF TypeOK, Term
  <2> QED
    BY <1>8, <2>1, <2>2 DEF CrashBetweenWrites, LoseMemory, EndRound, WalIsCurrent, TypeOK
<1>9. ASSUME NEW r \in reqs, GrantVote(r) PROVE WalIsCurrent'
  <2>1. r.peer \in Node /\ r.term \in Int
    BY DEF TypeOK, CallSet, Term
  <2>2. r.term > 0
    BY DEF GoroutinesLive
  <2> QED
    BY <1>9, <2>1, <2>2 DEF GrantVote, WalIsCurrent, TypeOK
<1>10. ASSUME NEW n \in Node, NEW t \in Term, NEW l \in Node \cup {None},
              Up(n), BecomeFollower(n, t, l), UNCHANGED <<status, phase>>
       PROVE  WalIsCurrent'
  BY <1>10, <1>b DEF BecomeFollower, WalIsCurrent, TypeOK, Term
<1>11. ASSUME NEW r \in reqs, DenyVote(r) PROVE WalIsCurrent'
  <2>1. r.peer \in Node /\ r.term \in Term
    BY DEF TypeOK, CallSet
  <2> QED
    BY <1>10, <1>11, <2>1 DEF DenyVote, WalIsCurrent
<1>12. ASSUME NEW r \in resps, VoteReplyHigherTerm(r) PROVE WalIsCurrent'
  <2>1. r.call.cand \in Node /\ r.term \in Term /\ Up(r.call.cand)
    BY DEF TypeOK, RespSet, CallSet, GoroutinesLive
  <2> QED
    BY <1>10, <1>12, <2>1 DEF VoteReplyHigherTerm
<1>13. ASSUME NEW b \in beats, NEW m \in Node, HeartbeatAccepted(b, m) PROVE WalIsCurrent'
  <2>1. b.src \in Node /\ b.term \in Term
    BY DEF TypeOK
  <2> QED
    BY <1>10, <1>13, <2>1 DEF HeartbeatAccepted
<1>14. ASSUME NEW d \in stepDowns, StepDown(d) PROVE WalIsCurrent'
  <2>1. d.node \in Node /\ d.term \in Term /\ Up(d.node)
    BY DEF TypeOK, GoroutinesLive
  <2> QED
    BY <1>10, <1>14, <2>1 DEF StepDown
<1>15. ASSUME UNCHANGED <<status, nodeVars, walVars, phase>> PROVE WalIsCurrent'
  BY <1>15 DEF WalIsCurrent
<1>16. ASSUME NEW n \in Node, SendHeartbeats(n) PROVE WalIsCurrent'
  BY <1>15, <1>16 DEF SendHeartbeats
<1>17. ASSUME NEW r \in reqs, DenyStaleVote(r) PROVE WalIsCurrent'
  BY <1>15, <1>17 DEF DenyStaleVote
<1>18. ASSUME NEW c \in calls, VoteRPCFails(c) PROVE WalIsCurrent'
  BY <1>15, <1>18 DEF VoteRPCFails
<1>19. ASSUME NEW b \in beats, NEW m \in Node, HeartbeatRejected(b, m) PROVE WalIsCurrent'
  BY <1>15, <1>19 DEF HeartbeatRejected
<1>20. ASSUME NEW x \in syncs, NEW m \in Node, SyncLog(x, m) PROVE WalIsCurrent'
  BY <1>15, <1>20 DEF SyncLog
<1>21. CASE UNCHANGED vars
  BY <1>15, <1>21 DEF vars
<1> QED
  BY <1>1, <1>2, <1>3, <1>4, <1>5, <1>6, <1>7, <1>8, <1>9, <1>11, <1>12, <1>13, <1>14,
     <1>16, <1>17, <1>18, <1>19, <1>20, <1>21 DEF Next

(* A crash takes the goroutines of the process with it; every other step    *)
(* adds goroutines to running processes only.                               *)
LEMMA GoroutinesLiveStep ==
    ASSUME TypeOK, GoroutinesLive, WalIsCurrent, [Next]_vars
    PROVE  GoroutinesLive'
<1> USE DEF nodeVars, walVars, roundVars, netVars, ghostVars
<1>1. ASSUME NEW n \in Node, Boot(n) \/ Start(n) PROVE GoroutinesLive'
  <2>1. \A m \in Node : Up(m) => Up(m)'
    BY <1>1 DEF Boot, Start, TypeOK, Up
  <2>2. /\ UNCHANGED <<calls, reqs, resps, stepDowns>>
        /\ \A c \in calls : c.cand \in Node
        /\ \A r \in resps : r.call.cand \in Node
        /\ \A d \in stepDowns : d.node \in Node
    BY <1>1 DEF Boot, Start, TypeOK, CallSet, RespSet
  <2> QED
    BY <2>1, <2>2 DEF GoroutinesLive
<1>2. ASSUME NEW n \in Node, StartElection(n) PROVE GoroutinesLive'
  <2>1. currentTerm[n] + 1 > 0
    BY DEF TypeOK, Term
  <2> DEFINE asked == {[cand |-> n, peer |-> p, term |-> currentTerm[n] + 1] : p \in Node \ {n}}
  <2>2. \A r \in asked : r.cand = n /\ r.cand # r.peer /\ r.term > 0
    BY <2>1
  <2>3. /\ calls' = calls \cup asked /\ reqs' = reqs \cup asked /\ Up(n)
        /\ UNCHANGED <<status, resps, stepDowns>>
    BY <1>2 DEF StartElection, MayCampaign, Up
  <2> HIDE DEF asked
  <2> QED
    BY <2>2, <2>3 DEF GoroutinesLive, Up
<1>3. ASSUME NEW n \in Node, NEW fate, LoseMemory(n, fate) PROVE GoroutinesLive'
  <2>1. \A m \in Node : m # n /\ Up(m) => Up(m)'
    BY <1>3 DEF LoseMemory, TypeOK, Up
  <2>2. \A r \in resps : r.call.cand \in Node
    BY DEF TypeOK, RespSet, CallSet
  <2>3. \A c \in calls : c.cand \in Node
    BY DEF TypeOK, CallSet
  <2>4. \A d \in stepDowns : d.node \in Node
    BY DEF TypeOK
  <2>5. /\ calls' = {c \in calls : c.cand # n} /\ reqs' = reqs
        /\ resps' = {r \in resps : r.call.cand # n}
        /\ stepDowns' = {d \in stepDowns : d.node # n}
    BY <1>3 DEF LoseMemory
  <2> QED
    BY <2>1, <2>2, <2>3, <2>4, <2>5 DEF GoroutinesLive
<1>4. ASSUME NEW n \in Node, Crash(n) \/ CrashBetweenWrites(n) \/ TimerPanic(n)
      PROVE  GoroutinesLive'
  BY <1>3, <1>4 DEF Crash, CrashBetweenWrites, TimerPanic
<1>5. ASSUME NEW n \in Node, WinElection(n) \/ LoseElection(n) \/ BecomeLeader(n)
                             \/ SendHeartbeats(n)
      PROVE  GoroutinesLive'
  BY <1>5 DEF WinElection, LoseElection, BecomeLeader, SendHeartbeats, GoroutinesLive, Up
<1>6. ASSUME NEW r \in reqs, GrantVote(r) \/ DenyVote(r) PROVE GoroutinesLive'
  <2>1. UNCHANGED <<status, stepDowns>> /\ reqs' \subseteq reqs
    BY <1>6 DEF GrantVote, DenyVote
  <2>2. calls' = calls \/ calls' = calls \ {r}
    BY <1>6 DEF GrantVote, DenyVote
  <2>3. resps' = resps
    BY <1>6 DEF GrantVote, DenyVote
  <2> QED
    BY <2>1, <2>2, <2>3 DEF GoroutinesLive, Up
<1>7. ASSUME NEW r \in reqs, DenyStaleVote(r) PROVE GoroutinesLive'
  BY <1>7 DEF DenyStaleVote, GoroutinesLive, Up
<1>8. ASSUME NEW r \in resps, VoteReplyHigherTerm(r) PROVE GoroutinesLive'
  BY <1>8 DEF VoteReplyHigherTerm, GoroutinesLive, Up
<1>9. ASSUME NEW c \in calls, VoteRPCFails(c) PROVE GoroutinesLive'
  BY <1>9 DEF VoteRPCFails, GoroutinesLive, Up
<1>10. ASSUME NEW b \in beats, NEW m \in Node, HeartbeatAccepted(b, m) \/ HeartbeatRejected(b, m)
       PROVE  GoroutinesLive'
  BY <1>10 DEF HeartbeatAccepted, HeartbeatRejected, GoroutinesLive, Up
<1>11. ASSUME NEW x \in syncs, NEW m \in Node, SyncLog(x, m) PROVE GoroutinesLive'
  BY <1>11 DEF SyncLog, GoroutinesLive, Up
<1>12. ASSUME NEW d \in stepDowns, StepDown(d) PROVE GoroutinesLive'
  BY <1>12 DEF StepDown, GoroutinesLive, Up
<1>13. CASE UNCHANGED vars
  BY <1>13 DEF vars, GoroutinesLive, Up
<1> QED
  BY <1>1, <1>2, <1>4, <1>5, <1>6, <1>7, <1>8, <1>9, <1>10, <1>11, <1>12, <1>13 DEF Next

(* Whatever is said in a message was in the WAL of the one who said it.     *)
LEMMA TermsPersistStep ==
    ASSUME TypeOK, WalIsCurrent, GoroutinesLive, VotesInWal, VoteOnce, TermsPersist,
           [Next]_vars
    PROVE  TermsPersist'
<1> USE DEF nodeVars, walVars, roundVars, netVars, ghostVars
<1>a. \A n \in Node : walTerm[n] \in Int /\ walTerm'[n] \in Int /\ walTerm'[n] >= walTerm[n]
  BY WalGrows, NextType DEF TypeOK, Term
<1>b. \A g \in granted' : walTerm'[g.voter] >= g.term
  <2>1. \A g \in granted' : g.term \in Int /\ walTerm'[g.voter] \in Int
    BY NextType DEF TypeOK, VoteSet, Term
  <2> QED
    BY WalGrows, <2>1 DEF VotesInWal
<1>c. /\ \A r \in resps : r.call.peer \in Node /\ r.term \in Int
      /\ \A b \in beats : b.src \in Node /\ b.term \in Int
  BY DEF TypeOK, RespSet, CallSet, Term
<1>1. CASE resps' \subseteq resps /\ beats' = beats
  BY <1>1, <1>a, <1>b, <1>c DEF TermsPersist
<1>2. ASSUME NEW n \in Node, SendHeartbeats(n) PROVE TermsPersist'
  <2>1. walTerm[n] = currentTerm[n]
    BY <1>2 DEF SendHeartbeats, WalIsCurrent, Up
  <2>2. \A b \in beats' : b \in beats \/ b = [src |-> n, term |-> walTerm[n]]
    BY <1>2, <2>1 DEF SendHeartbeats
  <2>3. resps' = resps
    BY <1>2 DEF SendHeartbeats
  <2> QED
    BY <2>2, <2>3, <1>a, <1>b, <1>c DEF TermsPersist
<1>3. ASSUME NEW r \in reqs, DenyStaleVote(r) PROVE TermsPersist'
  <2>1. r.peer \in Node /\ walTerm[r.peer] = currentTerm[r.peer]
    BY <1>3 DEF DenyStaleVote, WalIsCurrent, TypeOK, CallSet
  <2>2. \A q \in resps' : q \in resps \/ q = [call |-> r, term |-> walTerm[r.peer]]
    BY <1>3, <2>1 DEF DenyStaleVote
  <2>3. beats' = beats
    BY <1>3 DEF DenyStaleVote
  <2> QED
    BY <2>1, <2>2, <2>3, <1>a, <1>b, <1>c DEF TermsPersist
<1>4. ASSUME NEW n \in Node, 
             \/ Boot(n) \/ Start(n) \/ StartElection(n) \/ WinElection(n)
             \/ LoseElection(n) \/ BecomeLeader(n) \/ Crash(n)
             \/ CrashBetweenWrites(n) \/ TimerPanic(n)
      PROVE  resps' \subseteq resps /\ beats' = beats
  BY <1>4 DEF Boot, Start, StartElection, WinElection, LoseElection, BecomeLeader,
              Crash, CrashBetweenWrites, TimerPanic, LoseMemory
<1>5. ASSUME NEW r \in reqs, GrantVote(r) \/ DenyVote(r)
      PROVE  resps' \subseteq resps /\ beats' = beats
  BY <1>5 DEF GrantVote, DenyVote
<1>6. ASSUME NEW r \in resps, VoteReplyHigherTerm(r)
      PROVE  resps' \subseteq resps /\ beats' = beats
  BY <1>6 DEF VoteReplyHigherTerm
<1>7. ASSUME NEW c \in calls, VoteRPCFails(c)
      PROVE  resps' \subseteq resps /\ beats' = beats
  BY <1>7 DEF VoteRPCFails
<1>8. ASSUME NEW b \in beats, NEW m \in Node, HeartbeatAccepted(b, m) \/ HeartbeatRejected(b, m)
      PROVE  resps' \subseteq resps /\ beats' = beats
  BY <1>8 DEF HeartbeatAccepted, HeartbeatRejected
<1>9. ASSUME NEW x \in syncs, NEW m \in Node, SyncLog(x, m)
      PROVE  resps' \subseteq resps /\ beats' = beats
  BY <1>9 DEF SyncLog
<1>10. ASSUME NEW d \in stepDowns, StepDown(d)
       PROVE  resps' \subseteq resps /\ beats' = beats
  BY <1>10 DEF StepDown
<1>11. ASSUME UNCHANGED vars PROVE resps' \subseteq resps /\ beats' = beats
  BY <1>11 DEF vars
<1> QED
  BY <1>1, <1>2, <1>3, <1>4, <1>5, <1>6, <1>7, <1>8, <1>9, <1>10, <1>11 DEF Next

(***************************************************************************)
(* Elections are won by votes.                                             *)
(***************************************************************************)

(* A negative answer adds nobody to the tally.                              *)
LEMMA TallyNo ==
    ASSUME TypeOK, NEW n \in Node, NEW t \in Term, NEW p \in Node, Tally(n, t, p, FALSE)
    PROVE  ballots' = ballots
BY DEF Tally, TypeOK

(* A step that starts and ends no election keeps the tallies backed when    *)
(* each vote it counts has been cast in the campaign's term.                *)
LEMMA BallotsFrame ==
    ASSUME TypeOK, TypeOK', BallotsBacked, granted \subseteq granted', campaign' = campaign,
           \A n \in Node : phase'[n] = "idle" <=> phase[n] = "idle",
           \A n \in Node : currentTerm'[n] >= currentTerm[n],
           \A n \in Node : \A p \in ballots'[n] :
             \/ p \in ballots[n]
             \/ /\ p # n /\ phase[n] # "idle"
                /\ [voter |-> p, cand |-> n, term |-> campaign[n]] \in granted'
    PROVE  BallotsBacked'
<1> SUFFICES ASSUME NEW n \in Node
             PROVE  /\ phase'[n] = "idle" => ballots'[n] = {}
                    /\ n \notin ballots'[n]
                    /\ phase'[n] # "idle" =>
                         /\ campaign'[n] <= currentTerm'[n]
                         /\ \A p \in ballots'[n] \cup {n} :
                              [voter |-> p, cand |-> n, term |-> campaign'[n]] \in granted'
  BY DEF BallotsBacked
<1>1. campaign[n] \in Int /\ currentTerm[n] \in Int /\ currentTerm'[n] \in Int
  BY DEF TypeOK, Term
<1>2. CASE phase[n] = "idle"
  BY <1>2 DEF BallotsBacked
<1>3. CASE phase[n] # "idle"
  <2>1. campaign[n] <= currentTerm'[n]
    BY <1>1, <1>3 DEF BallotsBacked
  <2> QED
    BY <1>3, <2>1 DEF BallotsBacked
<1> QED
  BY <1>2, <1>3

(* So does the end of an election.                                          *)
LEMMA EndRoundFrame ==
    ASSUME TypeOK, BallotsBacked, NEW n \in Node, EndRound(n), granted' = granted,
           \A m \in Node \ {n} : currentTerm'[m] = currentTerm[m]
    PROVE  BallotsBacked'
BY DEF BallotsBacked, EndRound, TypeOK

(* becomeFollowerLocked never lowers the term.                              *)
LEMMA BecomeFollowerRaises ==
    ASSUME TypeOK, NEW n \in Node, NEW t \in Term, NEW l, BecomeFollower(n, t, l)
    PROVE  /\ \A m \in Node : currentTerm'[m] >= currentTerm[m]
           /\ \A m \in Node : \/ /\ votedFor'[m] = votedFor[m]
                                 /\ currentTerm'[m] = currentTerm[m]
                              \/ votedFor'[m] = None
           /\ \A m \in Node : state'[m] \in {state[m], "Follower"}
BY DEF BecomeFollower, TypeOK, Term

LEMMA BallotsBackedStep ==
    ASSUME TypeOK, WalIsCurrent, GoroutinesLive, BallotsBacked, [Next]_vars
    PROVE  BallotsBacked'
<1> USE DEF nodeVars, walVars, roundVars, netVars, ghostVars
<1>a. TypeOK'
  BY NextType
<1>b. \A n \in Node : currentTerm[n] \in Int
  BY DEF TypeOK, Term
<1>1. ASSUME NEW n \in Node, Boot(n) PROVE BallotsBacked'
  <2>1. \A m \in Node : currentTerm'[m] >= currentTerm[m]
    BY <1>1, <1>a, <1>b DEF Boot, WalIsCurrent, Up, TypeOK, Term
  <2> QED
    BY <1>1, <1>a, <2>1, BallotsFrame DEF Boot
<1>2. ASSUME NEW n \in Node, StartElection(n) PROVE BallotsBacked'
  <2>1. campaign'[n] = currentTerm'[n] /\ currentTerm'[n] \in Int
    BY <1>2, <1>a DEF StartElection, TypeOK, Term
  <2>2. /\ ballots[n] = {} /\ ballots' = ballots
        /\ [voter |-> n, cand |-> n, term |-> campaign'[n]] \in granted'
        /\ granted \subseteq granted'
        /\ \A m \in Node \ {n} : /\ phase'[m] = phase[m] /\ campaign'[m] = campaign[m]
                                 /\ currentTerm'[m] = currentTerm[m]
    BY <1>2 DEF StartElection, MayCampaign, BallotsBacked, TypeOK
  <2>3. phase'[n] # "idle"
    BY <1>2 DEF StartElection, TypeOK
  <2> QED
    BY <2>1, <2>2, <2>3 DEF BallotsBacked
<1>3. ASSUME NEW n \in Node, WinElection(n) PROVE BallotsBacked'
  BY <1>3, <1>a, <1>b, BallotsFrame DEF WinElection, TypeOK
<1>4. ASSUME NEW n \in Node, LoseElection(n) \/ BecomeLeader(n) PROVE BallotsBacked'
  BY <1>4, EndRoundFrame DEF LoseElection, BecomeLeader
<1>5. ASSUME NEW n \in Node, Crash(n) \/ CrashBetweenWrites(n) \/ TimerPanic(n)
      PROVE  BallotsBacked'
  BY <1>5, EndRoundFrame DEF Crash, CrashBetweenWrites, TimerPanic, LoseMemory, TypeOK
<1>6. ASSUME NEW r \in reqs, GrantVote(r) PROVE BallotsBacked'
  <2>1. /\ r.cand \in Node /\ r.peer \in Node /\ r.cand # r.peer
        /\ r.term >= currentTerm[r.peer] /\ r.term \in Int /\ r.term \in Term
    BY <1>6 DEF TypeOK, CallSet, Term, GoroutinesLive, GrantVote, MayVote
  <2>2. \A m \in Node : currentTerm'[m] >= currentTerm[m]
    BY <1>6, <1>b, <2>1 DEF GrantVote, TypeOK
  <2>3. /\ granted \subseteq granted' /\ campaign' = campaign /\ phase' = phase
        /\ [voter |-> r.peer, cand |-> r.cand, term |-> r.term] \in granted'
        /\ Tally(r.cand, r.term, r.peer, TRUE) \/ ballots' = ballots
    BY <1>6 DEF GrantVote
  <2>4. \A n \in Node : \A p \in ballots'[n] :
          \/ p \in ballots[n]
          \/ /\ p # n /\ phase[n] # "idle"
             /\ [voter |-> p, cand |-> n, term |-> campaign[n]] \in granted'
    <3>1. CASE ballots' = ballots
      BY <3>1
    <3>2. CASE Tally(r.cand, r.term, r.peer, TRUE)
      <4>1. \A n \in Node : \A p \in ballots'[n] :
              \/ p \in ballots[n]
              \/ n = r.cand /\ p = r.peer /\ phase[n] # "idle" /\ campaign[n] = r.term
        BY <2>1, <3>2 DEF Tally, TypeOK
      <4> QED
        BY <2>1, <2>3, <4>1
    <3> QED
      BY <2>3, <3>1, <3>2
  <2> QED
    BY <1>a, <2>2, <2>3, <2>4, BallotsFrame
<1>7. ASSUME NEW r \in reqs, DenyVote(r) PROVE BallotsBacked'
  <2>1. r.cand \in Node /\ r.peer \in Node /\ r.term \in Term
    BY DEF TypeOK, CallSet
  <2>2. \A m \in Node : currentTerm'[m] >= currentTerm[m]
    BY <1>7, <1>b, <2>1, BecomeFollowerRaises DEF DenyVote
  <2>3. ballots' = ballots
    BY <1>7, <2>1, TallyNo DEF DenyVote
  <2> QED
    BY <1>7, <1>a, <2>2, <2>3, BallotsFrame DEF DenyVote
<1>8. ASSUME NEW r \in resps, VoteReplyHigherTerm(r) PROVE BallotsBacked'
  <2>1. r.call.cand \in Node /\ r.call.peer \in Node /\ r.term \in Term
        /\ r.call.term \in Term
    BY DEF TypeOK, RespSet, CallSet
  <2>2. \A m \in Node : currentTerm'[m] >= currentTerm[m]
    BY <1>8, <2>1, BecomeFollowerRaises DEF VoteReplyHigherTerm
  <2>3. ballots' = ballots
    BY <1>8, <2>1, TallyNo DEF VoteReplyHigherTerm
  <2> QED
    BY <1>8, <1>a, <2>2, <2>3, BallotsFrame DEF VoteReplyHigherTerm
<1>9. ASSUME NEW c \in calls, VoteRPCFails(c) PROVE BallotsBacked'
  <2>1. c.cand \in Node /\ c.peer \in Node /\ c.term \in Term
    BY DEF TypeOK, CallSet
  <2>2. ballots' = ballots
    BY <1>9, <2>1, TallyNo DEF VoteRPCFails
  <2> QED
    BY <1>9, <1>a, <1>b, <2>2, BallotsFrame DEF VoteRPCFails
<1>10. ASSUME NEW b \in beats, NEW m \in Node, HeartbeatAccepted(b, m) PROVE BallotsBacked'
  <2>1. b.term \in Term
    BY DEF TypeOK
  <2>2. \A n \in Node : currentTerm'[n] >= currentTerm[n]
    BY <1>10, <2>1, BecomeFollowerRaises DEF HeartbeatAccepted
  <2> QED
    BY <1>10, <1>a, <2>2, BallotsFrame DEF HeartbeatAccepted
<1>11. ASSUME NEW d \in stepDowns, StepDown(d) PROVE BallotsBacked'
  <2>1. d.node \in Node /\ d.term \in Term
    BY DEF TypeOK
  <2>2. \A n \in Node : currentTerm'[n] >= currentTerm[n]
    BY <1>11, <2>1, BecomeFollowerRaises DEF StepDown
  <2> QED
    BY <1>11, <1>a, <2>2, BallotsFrame DEF StepDown
<1>12. ASSUME UNCHANGED <<currentTerm, roundVars, granted>> PROVE BallotsBacked'
  BY <1>12 DEF BallotsBacked
<1>13. ASSUME NEW n \in Node, Start(n) \/ SendHeartbeats(n) PROVE BallotsBacked'
  BY <1>12, <1>13 DEF Start, SendHeartbeats
<1>14. ASSUME NEW r \in reqs, DenyStaleVote(r) PROVE BallotsBacked'
  BY <1>12, <1>14 DEF DenyStaleVote
<1>15. ASSUME NEW b \in beats, NEW m \in Node, HeartbeatRejected(b, m) PROVE BallotsBacked'
  BY <1>12, <1>15 DEF HeartbeatRejected
<1>16. ASSUME NEW x \in syncs, NEW m \in Node, SyncLog(x, m) PROVE BallotsBacked'
  BY <1>12, <1>16 DEF SyncLog
<1>17. CASE UNCHANGED vars
  BY <1>12, <1>17 DEF vars
<1> QED
  BY <1>1, <1>2, <1>3, <1>4, <1>5, <1>6, <1>7, <1>8, <1>9, <1>10, <1>11, <1>13, <1>14,
     <1>15, <1>16, <1>17 DEF Next

(* A victory is won with the votes counted and the candidate's own.         *)
LEMMA WinsBackedStep ==
    ASSUME TypeOK, WalIsCurrent, GoroutinesLive, BallotsBacked, WinsBacked, [Next]_vars
    PROVE  WinsBacked'
<1> USE DEF nodeVars, walVars, roundVars, netVars, ghostVars
<1>1. CASE won' = won /\ granted \subseteq granted'
  BY <1>1 DEF WinsBacked
<1>2. ASSUME NEW n \in Node, WinElection(n) PROVE WinsBacked'
  <2> DEFINE Q == ballots[n] \cup {n}
  <2>1. /\ n \notin ballots[n] /\ ballots[n] \subseteq Node
        /\ \A p \in Q : [voter |-> p, cand |-> n, term |-> campaign[n]] \in granted
    BY <1>2 DEF WinElection, BallotsBacked, TypeOK
  <2>2. IsFiniteSet(ballots[n])
    BY <2>1, NodeAssumption, FS_Subset
  <2>3. Cardinality(Q) >= Needed
    <3>1. Cardinality(Q) = Cardinality(ballots[n]) + 1 /\ Cardinality(ballots[n]) \in Nat
      BY <2>1, <2>2, FS_AddElement, FS_CardinalityType
    <3> QED
      BY <1>2, <3>1 DEF WinElection, Elected, Votes
  <2>4. won' = won \cup {[cand |-> n, term |-> campaign[n]]} /\ granted' = granted
    BY <1>2 DEF WinElection
  <2>5. Q \in SUBSET Node
    BY <2>1
  <2> HIDE DEF Q
  <2> QED
    BY <2>1, <2>3, <2>4, <2>5 DEF WinsBacked
<1>3. ASSUME NEW n \in Node,
             \/ Boot(n) \/ Start(n) \/ StartElection(n) \/ LoseElection(n)
             \/ BecomeLeader(n) \/ SendHeartbeats(n) \/ Crash(n)
             \/ CrashBetweenWrites(n) \/ TimerPanic(n)
      PROVE  won' = won /\ granted \subseteq granted'
  BY <1>3 DEF Boot, Start, StartElection, LoseElection, BecomeLeader, SendHeartbeats,
              Crash, CrashBetweenWrites, TimerPanic, LoseMemory
<1>4. ASSUME NEW r \in reqs, GrantVote(r) \/ DenyVote(r) \/ DenyStaleVote(r)
      PROVE  won' = won /\ granted \subseteq granted'
  BY <1>4 DEF GrantVote, DenyVote, DenyStaleVote
<1>5. ASSUME NEW r \in resps, VoteReplyHigherTerm(r)
      PROVE  won' = won /\ granted \subseteq granted'
  BY <1>5 DEF VoteReplyHigherTerm
<1>6. ASSUME NEW c \in calls, VoteRPCFails(c)
      PROVE  won' = won /\ granted \subseteq granted'
  BY <1>6 DEF VoteRPCFails
<1>7. ASSUME NEW b \in beats, NEW m \in Node, HeartbeatAccepted(b, m) \/ HeartbeatRejected(b, m)
      PROVE  won' = won /\ granted \subseteq granted'
  BY <1>7 DEF HeartbeatAccepted, HeartbeatRejected
<1>8. ASSUME NEW x \in syncs, NEW m \in Node, SyncLog(x, m)
      PROVE  won' = won /\ granted \subseteq granted'
  BY <1>8 DEF SyncLog
<1>9. ASSUME NEW d \in stepDowns, StepDown(d)
      PROVE  won' = won /\ granted \subseteq granted'
  BY <1>9 DEF StepDown
<1>10. CASE UNCHANGED vars
  BY <1>1, <1>10 DEF vars
<1> QED
  BY <1>1, <1>2, <1>3, <1>4, <1>5, <1>6, <1>7, <1>8, <1>9, <1>10 DEF Next

(* A step that neither elects nor starts an election nor boots a process    *)
(* keeps OwnTermWon when each node keeps its vote and term, or drops its    *)
(* own vote.                                                                *)
LEMMA OwnTermFrame ==
    ASSUME TypeOK, OwnTermWon, UNCHANGED <<phase, campaign>>, won' = won,
           \A n \in Node : \/ votedFor'[n] = votedFor[n] /\ currentTerm'[n] = currentTerm[n]
                          \/ votedFor'[n] # n,
           \A n \in Node : state'[n] \in {state[n], "Follower"}
    PROVE  OwnTermWon'
BY DEF OwnTermWon, TypeOK

LEMMA OwnTermWonStep ==
    ASSUME TypeOK, WalIsCurrent, GoroutinesLive, OwnTermWon, [Next]_vars
    PROVE  OwnTermWon'
<1> USE DEF nodeVars, walVars, roundVars, netVars, ghostVars
<1>1. ASSUME NEW n \in Node, Boot(n) PROVE OwnTermWon'
  <2>1. phase[n] = "idle" /\ state[n] = "Follower"
    BY <1>1 DEF Boot, WalIsCurrent
  <2> QED
    BY <1>1, <2>1 DEF Boot, OwnTermWon, TypeOK
<1>2. ASSUME NEW n \in Node, StartElection(n) PROVE OwnTermWon'
  BY <1>2 DEF StartElection, OwnTermWon, TypeOK
<1>3. ASSUME NEW n \in Node, WinElection(n) PROVE OwnTermWon'
  BY <1>3 DEF WinElection, OwnTermWon, TypeOK
<1>4. ASSUME NEW n \in Node, LoseElection(n) PROVE OwnTermWon'
  BY <1>4 DEF LoseElection, EndRound, OwnTermWon, TypeOK
<1>5. ASSUME NEW n \in Node, BecomeLeader(n) PROVE OwnTermWon'
  BY <1>5 DEF BecomeLeader, EndRound, OwnTermWon, TypeOK
<1>6. ASSUME NEW n \in Node, Crash(n) \/ CrashBetweenWrites(n) \/ TimerPanic(n)
      PROVE  OwnTermWon'
  BY <1>6, NodeAssumption DEF Crash, CrashBetweenWrites, TimerPanic, LoseMemory, EndRound,
                              OwnTermWon, TypeOK
<1>7. ASSUME NEW r \in reqs, GrantVote(r) PROVE OwnTermWon'
  <2>1. r.peer \in Node /\ r.cand # r.peer
    BY DEF TypeOK, CallSet, GoroutinesLive
  <2>2. \A n \in Node : \/ votedFor'[n] = votedFor[n] /\ currentTerm'[n] = currentTerm[n]
                       \/ votedFor'[n] # n
    BY <1>7, <2>1 DEF GrantVote, TypeOK
  <2>3. \A n \in Node : state'[n] \in {state[n], "Follower"}
    BY <1>7 DEF GrantVote, TypeOK
  <2> QED
    BY <1>7, <2>2, <2>3, OwnTermFrame DEF GrantVote
<1>8. ASSUME NEW n \in Node, NEW t \in Term, NEW l, BecomeFollower(n, t, l),
             UNCHANGED <<phase, campaign, won>>
      PROVE  OwnTermWon'
  BY <1>8, BecomeFollowerRaises, NodeAssumption, OwnTermFrame
<1>9. ASSUME NEW r \in reqs, DenyVote(r) PROVE OwnTermWon'
  <2>1. r.peer \in Node /\ r.term \in Term
    BY DEF TypeOK, CallSet
  <2> QED
    BY <1>8, <1>9, <2>1, OwnTermFrame DEF DenyVote
<1>10. ASSUME NEW r \in resps, VoteReplyHigherTerm(r) PROVE OwnTermWon'
  <2>1. r.call.cand \in Node /\ r.term \in Term
    BY DEF TypeOK, RespSet, CallSet
  <2> QED
    BY <1>8, <1>10, <2>1 DEF VoteReplyHigherTerm
<1>11. ASSUME NEW b \in beats, NEW m \in Node, HeartbeatAccepted(b, m) PROVE OwnTermWon'
  <2>1. b.term \in Term
    BY DEF TypeOK
  <2> QED
    BY <1>8, <1>11, <2>1 DEF HeartbeatAccepted
<1>12. ASSUME NEW d \in stepDowns, StepDown(d) PROVE OwnTermWon'
  <2>1. d.node \in Node /\ d.term \in Term
    BY DEF TypeOK
  <2> QED
    BY <1>8, <1>12, <2>1 DEF StepDown
<1>13. ASSUME UNCHANGED <<currentTerm, votedFor, state, phase, campaign, won>>
       PROVE  OwnTermWon'
  BY <1>13 DEF OwnTermWon
<1>14. ASSUME NEW n \in Node, Start(n) \/ SendHeartbeats(n) PROVE OwnTermWon'
  BY <1>13, <1>14 DEF Start, SendHeartbeats
<1>15. ASSUME NEW r \in reqs, DenyStaleVote(r) PROVE OwnTermWon'
  BY <1>13, <1>15 DEF DenyStaleVote
<1>16. ASSUME NEW c \in calls, VoteRPCFails(c) PROVE OwnTermWon'
  BY <1>13, <1>16 DEF VoteRPCFails
<1>17. ASSUME NEW b \in beats, NEW m \in Node, HeartbeatRejected(b, m) PROVE OwnTermWon'
  BY <1>13, <1>17 DEF HeartbeatRejected
<1>18. ASSUME NEW x \in syncs, NEW m \in Node, SyncLog(x, m) PROVE OwnTermWon'
  BY <1>13, <1>18 DEF SyncLog
<1>19. CASE UNCHANGED vars
  BY <1>13, <1>19 DEF vars
<1> QED
  BY <1>1, <1>2, <1>3, <1>4, <1>5, <1>6, <1>7, <1>9, <1>10, <1>11, <1>12, <1>14, <1>15,
     <1>16, <1>17, <1>18, <1>19 DEF Next

(***************************************************************************)
(* The invariant and the theorems.                                         *)
(***************************************************************************)

LEMMA InitIndInv == Init => IndInv
<1> SUFFICES ASSUME Init PROVE IndInv
  OBVIOUS
<1>1. TypeOK
  BY InitType
<1>2. WalIsCurrent /\ GoroutinesLive
  BY DEF Init, WalIsCurrent, GoroutinesLive
<1>3. VotesInWal /\ VoteOnce /\ TermsPersist /\ BallotsBacked /\ WinsBacked
  BY DEF Init, VotesInWal, VoteOnce, TermsPersist, BallotsBacked, WinsBacked
<1>4. OwnTermWon
  BY DEF Init, OwnTermWon
<1> QED
  BY <1>1, <1>2, <1>3, <1>4 DEF IndInv

LEMMA NextIndInv == IndInv /\ [Next]_vars => IndInv'
<1> SUFFICES ASSUME IndInv, [Next]_vars PROVE IndInv'
  OBVIOUS
<1> USE DEF IndInv
<1>1. TypeOK'
  BY NextType
<1>2. WalIsCurrent'
  BY WalIsCurrentStep
<1>3. GoroutinesLive'
  BY GoroutinesLiveStep
<1>4. VotesInWal' /\ VoteOnce'
  BY WalGrows
<1>5. TermsPersist'
  BY TermsPersistStep
<1>6. BallotsBacked'
  BY BallotsBackedStep
<1>7. WinsBacked'
  BY WinsBackedStep
<1>8. OwnTermWon'
  BY OwnTermWonStep
<1> QED
  BY <1>1, <1>2, <1>3, <1>4, <1>5, <1>6, <1>7, <1>8

THEOREM Inductive == Spec => []IndInv
<1> QED
  BY InitIndInv, NextIndInv, PTL DEF Spec

(* No replica votes twice in a term, in clusters of every size, whenever it *)
(* crashes.                                                                 *)
THEOREM VotesOnce == Spec => []VoteOnce
<1>1. IndInv => VoteOnce
  BY DEF IndInv
<1> QED
  BY <1>1, Inductive, PTL

(* A restart never takes a replica below a term it has announced.           *)
THEOREM TermsArePersistent == Spec => []TermsPersist
<1>1. IndInv => TermsPersist
  BY DEF IndInv
<1> QED
  BY <1>1, Inductive, PTL

(* In an odd cluster len(peers)/2 + 1 votes are a majority.                 *)
LEMMA NeededIsMajority ==
    ASSUME OddCluster, NEW Q \in SUBSET Node, Cardinality(Q) >= Needed
    PROVE  Q \in Majority
<1>1. Cardinality(Node) \in Nat
  BY NodeAssumption, FS_CardinalityType
<1>2. Cardinality(Q) \in Nat
  BY NodeAssumption, FS_Subset, FS_CardinalityType
<1>3. \A k \in Nat : k % 2 = 1 => 2 * ((k - 1) \div 2 + 1) = k + 1
  OBVIOUS
<1>4. 2 * Needed = Cardinality(Node) + 1 /\ Needed \in Int
  BY <1>1, <1>3 DEF OddCluster, Needed
<1>5. 2 * Cardinality(Q) > Cardinality(Node)
  BY <1>1, <1>2, <1>4
<1> QED
  BY <1>5 DEF Majority

(* Two majorities have a replica in common.                                 *)
LEMMA MajoritiesMeet ==
    ASSUME NEW P \in Majority, NEW Q \in Majority
    PROVE  P \cap Q # {}
<1>1. /\ P \subseteq Node /\ 2 * Cardinality(P) > Cardinality(Node)
      /\ Q \subseteq Node /\ 2 * Cardinality(Q) > Cardinality(Node)
  BY DEF Majority
<1>2. Cardinality(Node) \in Nat /\ Cardinality(P) \in Nat /\ Cardinality(Q) \in Nat
  BY <1>1, NodeAssumption, FS_Subset, FS_CardinalityType
<1>3. Cardinality(P) + Cardinality(Q) > Cardinality(Node)
  BY <1>1, <1>2
<1> QED
  BY <1>1, <1>3, NodeAssumption, FS_MajoritiesIntersect

LEMMA WinnerUnique == ASSUME OddCluster, IndInv PROVE OneWinnerPerTerm
<1> SUFFICES ASSUME NEW v \in won, NEW w \in won, v.term = w.term PROVE v.cand = w.cand
  BY DEF OneWinnerPerTerm
<1>1. PICK P \in SUBSET Node :
        /\ Cardinality(P) >= Needed
        /\ \A x \in P : [voter |-> x, cand |-> v.cand, term |-> v.term] \in granted
  BY DEF IndInv, WinsBacked
<1>2. PICK Q \in SUBSET Node :
        /\ Cardinality(Q) >= Needed
        /\ \A x \in Q : [voter |-> x, cand |-> w.cand, term |-> w.term] \in granted
  BY DEF IndInv, WinsBacked
<1>3. PICK x \in P \cap Q : TRUE
  BY <1>1, <1>2, NeededIsMajority, MajoritiesMeet
<1> QED
  BY <1>1, <1>2, <1>3 DEF IndInv, VoteOnce

(* At most one candidate wins a term, in every cluster of odd size.         *)
THEOREM OneWinner == ASSUME OddCluster PROVE Spec => []OneWinnerPerTerm
<1>1. IndInv => OneWinnerPerTerm
  BY WinnerUnique
<1> QED
  BY <1>1, Inductive, PTL

(* In an odd cluster two leaders of one term are never both leaders of a    *)
(* term they have won: a split brain needs the gap before BecomeLeader.     *)
THEOREM SplitBrainNeedsWindow == ASSUME OddCluster PROVE Spec => []SplitBrainOnlyThroughWindow
<1>1. IndInv => SplitBrainOnlyThroughWindow
  BY WinnerUnique DEF IndInv, OwnTermWon, OneWinnerPerTerm, SplitBrainOnlyThroughWindow
<1> QED
  BY <1>1, Inductive, PTL

(***************************************************************************)
(* Refinement.                                                             *)
(***************************************************************************)

(* A vote the model casts is one TermElections allows, or was cast before.  *)
LEMMA VoteRefines ==
    ASSUME IndInv, NEW v \in Node, NEW c \in Node, NEW t \in Term,
           Up(v), t >= currentTerm[v],
           t > currentTerm[v] \/ votedFor[v] \in {None, c},
           granted' = granted \cup {[voter |-> v, cand |-> c, term |-> t]},
           won' = won
    PROVE  Elections!Vote(v, c, t) \/ UNCHANGED <<granted, won>>
<1>1. walTerm[v] = currentTerm[v] /\ walVote[v] = votedFor[v] /\ walTerm[v] \in Int /\ t \in Int
  BY DEF IndInv, WalIsCurrent, TypeOK, Term
<1>2. \A g \in granted : g.cand # None /\ g.term \in Int /\ g.voter \in Node
  BY NodeAssumption DEF IndInv, TypeOK, VoteSet, Term
<1>3. \A g \in granted : g.voter = v => g.term < t \/ (g.term = t /\ g.cand = c)
  BY <1>1, <1>2 DEF IndInv, VotesInWal
<1>4. CASE \E g \in granted : g.voter = v /\ g.term = t
  <2>1. PICK g \in granted : g.voter = v /\ g.term = t
    BY <1>4
  <2>2. g = [voter |-> v, cand |-> c, term |-> t]
    <3>1. g.cand = c
      BY <1>1, <1>2, <1>3, <2>1
    <3>2. g \in VoteSet
      BY DEF IndInv, TypeOK
    <3> QED
      BY <2>1, <3>1, <3>2 DEF VoteSet
  <2> QED
    BY <2>2
<1>5. CASE ~\E g \in granted : g.voter = v /\ g.term = t
  BY <1>3, <1>5 DEF Elections!Vote
<1> QED
  BY <1>4, <1>5

(* Every step of RaftElection is a step of TermElections or changes neither *)
(* votes nor victories.                                                     *)
LEMMA StepRefines ==
    ASSUME OddCluster, IndInv, IndInv', [Next]_vars
    PROVE  [Elections!Next]_<<granted, won>>
<1> USE DEF nodeVars, walVars, roundVars, netVars, ghostVars
<1>1. ASSUME NEW n \in Node, StartElection(n) PROVE [Elections!Next]_<<granted, won>>
  <2>1. currentTerm[n] + 1 \in Term /\ currentTerm[n] \in Int
    BY <1>1, BoundAssumption DEF StartElection, MayCampaign, IndInv, TypeOK, Term
  <2>2. /\ Up(n) /\ won' = won
        /\ granted' = granted \cup {[voter |-> n, cand |-> n, term |-> currentTerm[n] + 1]}
    BY <1>1 DEF StartElection, MayCampaign, Up
  <2>3. Elections!Vote(n, n, currentTerm[n] + 1) \/ UNCHANGED <<granted, won>>
    BY <2>1, <2>2, VoteRefines
  <2> QED
    BY <2>1, <2>3 DEF Elections!Next
<1>2. ASSUME NEW r \in reqs, GrantVote(r) PROVE [Elections!Next]_<<granted, won>>
  <2>1. r.peer \in Node /\ r.cand \in Node /\ r.term \in Term
    BY DEF IndInv, TypeOK, CallSet
  <2>2. /\ Up(r.peer) /\ r.term >= currentTerm[r.peer] /\ won' = won
        /\ r.term > currentTerm[r.peer] \/ votedFor[r.peer] \in {None, r.cand}
        /\ granted' = granted \cup {[voter |-> r.peer, cand |-> r.cand, term |-> r.term]}
    BY <1>2 DEF GrantVote, MayVote
  <2>3. Elections!Vote(r.peer, r.cand, r.term) \/ UNCHANGED <<granted, won>>
    BY <2>1, <2>2, VoteRefines
  <2> QED
    BY <2>1, <2>3 DEF Elections!Next
<1>3. ASSUME NEW n \in Node, WinElection(n) PROVE [Elections!Next]_<<granted, won>>
  <2> DEFINE w == [cand |-> n, term |-> campaign[n]]
  <2>1. granted' = granted /\ won' = won \cup {w} /\ campaign[n] \in Term
    BY <1>3 DEF WinElection, IndInv, TypeOK
  <2>2. PICK Q \in SUBSET Node :
          /\ Cardinality(Q) >= Needed
          /\ \A v \in Q : [voter |-> v, cand |-> n, term |-> campaign[n]] \in granted
    <3>1. w \in won' /\ w.cand = n /\ w.term = campaign[n]
      BY <2>1
    <3>2. \E Q \in SUBSET Node :
            /\ Cardinality(Q) >= Needed
            /\ \A v \in Q : [voter |-> v, cand |-> w.cand, term |-> w.term] \in granted'
      BY <3>1 DEF IndInv, WinsBacked
    <3> QED
      BY <2>1, <3>1, <3>2
  <2>3. Q \in Majority
    BY <2>2, NeededIsMajority
  <2>4. Elections!Win(n, campaign[n])
    BY <2>1, <2>2, <2>3 DEF Elections!Win
  <2> QED
    BY <2>1, <2>4 DEF Elections!Next
<1>4. ASSUME NEW n \in Node,
             \/ Boot(n) \/ Start(n) \/ LoseElection(n) \/ BecomeLeader(n)
             \/ SendHeartbeats(n) \/ Crash(n) \/ CrashBetweenWrites(n) \/ TimerPanic(n)
      PROVE  UNCHANGED <<granted, won>>
  BY <1>4 DEF Boot, Start, LoseElection, BecomeLeader, SendHeartbeats, Crash,
              CrashBetweenWrites, TimerPanic, LoseMemory
<1>5. ASSUME NEW r \in reqs, DenyVote(r) \/ DenyStaleVote(r) PROVE UNCHANGED <<granted, won>>
  BY <1>5 DEF DenyVote, DenyStaleVote
<1>6. ASSUME NEW r \in resps, VoteReplyHigherTerm(r) PROVE UNCHANGED <<granted, won>>
  BY <1>6 DEF VoteReplyHigherTerm
<1>7. ASSUME NEW c \in calls, VoteRPCFails(c) PROVE UNCHANGED <<granted, won>>
  BY <1>7 DEF VoteRPCFails
<1>8. ASSUME NEW b \in beats, NEW m \in Node, HeartbeatAccepted(b, m) \/ HeartbeatRejected(b, m)
      PROVE  UNCHANGED <<granted, won>>
  BY <1>8 DEF HeartbeatAccepted, HeartbeatRejected
<1>9. ASSUME NEW x \in syncs, NEW m \in Node, SyncLog(x, m) PROVE UNCHANGED <<granted, won>>
  BY <1>9 DEF SyncLog
<1>10. ASSUME NEW d \in stepDowns, StepDown(d) PROVE UNCHANGED <<granted, won>>
  BY <1>10 DEF StepDown
<1>11. ASSUME UNCHANGED vars PROVE UNCHANGED <<granted, won>>
  BY <1>11 DEF vars
<1> QED
  BY <1>1, <1>2, <1>3, <1>4, <1>5, <1>6, <1>7, <1>8, <1>9, <1>10, <1>11 DEF Next

(* In an odd cluster the election of the code implements TermElections: one *)
(* vote per replica and term, in ascending terms, across crashes, and a     *)
(* true majority behind each victory.                                       *)
THEOREM Refinement == ASSUME OddCluster PROVE Spec => ImplementsTermElections
<1>1. Init => Elections!Init
  BY DEF Init, Elections!Init
<1>2. IndInv /\ IndInv' /\ [Next]_vars => [Elections!Next]_Elections!vars
  BY StepRefines DEF Elections!vars
<1> QED
  BY <1>1, <1>2, Inductive, PTL DEF Spec, ImplementsTermElections, Elections!Spec

(***************************************************************************)
(* The cluster that GET /status shows.                                     *)
(***************************************************************************)

(* Whoever leads has its role and term in the history, and holds no         *)
(* election; an election is one of a term after 0.                          *)
LeadersLed ==
    \A n \in Node :
        /\ state[n] = "Leader" => phase[n] = "idle" /\ [id |-> n, term |-> currentTerm[n]] \in led
        /\ phase[n] # "idle" => campaign[n] > 0

(* Heartbeats name leaders of their term, and every term in a message or    *)
(* known to a goroutine has been reached by some replica.                   *)
TermsReached ==
    /\ \A b \in beats : [id |-> b.src, term |-> b.term] \in led
    /\ \A r \in reqs : r.term <= walTerm[r.cand]
    /\ \A s \in syncs : s.term <= walTerm[s.src]
    /\ \A d \in stepDowns : \E p \in Node : d.term <= walTerm[p]

ResetsEarly == \A n \in resets : status[n] = "serving"

ShownInv == IndInv /\ LeadersLed /\ TermsReached /\ ResetsEarly

LEMMA LeadersLedFrame ==
    ASSUME TypeOK, LeadersLed, UNCHANGED <<phase, campaign>>, led \subseteq led',
           \A n \in Node : state'[n] = "Leader" => /\ state[n] = "Leader"
                                                   /\ currentTerm'[n] = currentTerm[n]
    PROVE  LeadersLed'
BY DEF LeadersLed

LEMMA LeadersLedStep ==
    ASSUME TypeOK, WalIsCurrent, GoroutinesLive, LeadersLed, [Next]_vars
    PROVE  LeadersLed'
<1> USE DEF nodeVars, walVars, roundVars, netVars, ghostVars
<1>1. ASSUME NEW n \in Node, Boot(n) PROVE LeadersLed'
  <2>1. phase[n] = "idle" /\ state[n] = "Follower"
    BY <1>1 DEF Boot, WalIsCurrent
  <2> QED
    BY <1>1, <2>1, LeadersLedFrame DEF Boot, TypeOK
<1>2. ASSUME NEW n \in Node, StartElection(n) PROVE LeadersLed'
  <2>1. currentTerm[n] + 1 > 0
    BY DEF TypeOK, Term
  <2> QED
    BY <1>2, <2>1 DEF StartElection, LeadersLed, TypeOK
<1>3. ASSUME NEW n \in Node, WinElection(n) PROVE LeadersLed'
  BY <1>3 DEF WinElection, LeadersLed, TypeOK
<1>4. ASSUME NEW n \in Node, LoseElection(n) PROVE LeadersLed'
  BY <1>4 DEF LoseElection, EndRound, LeadersLed, TypeOK
<1>5. ASSUME NEW n \in Node, BecomeLeader(n) PROVE LeadersLed'
  BY <1>5 DEF BecomeLeader, EndRound, LeadersLed, TypeOK
<1>6. ASSUME NEW n \in Node, Crash(n) \/ CrashBetweenWrites(n) \/ TimerPanic(n)
      PROVE  LeadersLed'
  BY <1>6 DEF Crash, CrashBetweenWrites, TimerPanic, LoseMemory, EndRound, LeadersLed, TypeOK
<1>7. ASSUME NEW r \in reqs, GrantVote(r) PROVE LeadersLed'
  <2>1. r.peer \in Node /\ r.term \in Int /\ \A n \in Node : currentTerm[n] \in Int
    BY DEF TypeOK, CallSet, Term
  <2>2. \A n \in Node : state'[n] = "Leader" => /\ state[n] = "Leader"
                                                /\ currentTerm'[n] = currentTerm[n]
    <3>1. /\ currentTerm' = [currentTerm EXCEPT ![r.peer] = r.term]
          /\ r.term >= currentTerm[r.peer]
          /\ r.term > currentTerm[r.peer] => state' = [state EXCEPT ![r.peer] = "Follower"]
          /\ ~(r.term > currentTerm[r.peer]) => state' = state
      BY <1>7 DEF GrantVote, MayVote
    <3>2. CASE r.term > currentTerm[r.peer]
      BY <2>1, <3>1, <3>2 DEF TypeOK
    <3>3. CASE r.term = currentTerm[r.peer]
      BY <2>1, <3>1, <3>3 DEF TypeOK
    <3> QED
      BY <2>1, <3>1, <3>2, <3>3
  <2> QED
    BY <1>7, <2>2, LeadersLedFrame DEF GrantVote
<1>8. ASSUME NEW n \in Node, NEW t, NEW l, BecomeFollower(n, t, l),
             UNCHANGED <<phase, campaign, led>>
      PROVE  LeadersLed'
  BY <1>8, LeadersLedFrame DEF BecomeFollower, TypeOK
<1>9. ASSUME UNCHANGED <<currentTerm, state, phase, campaign, led>> PROVE LeadersLed'
  BY <1>9 DEF LeadersLed
<1>10. ASSUME NEW r \in reqs, DenyVote(r) PROVE LeadersLed'
  <2>1. r.peer \in Node
    BY DEF TypeOK, CallSet
  <2> QED
    BY <1>8, <1>9, <1>10, <2>1 DEF DenyVote
<1>11. ASSUME NEW r \in resps, VoteReplyHigherTerm(r) PROVE LeadersLed'
  <2>1. r.call.cand \in Node
    BY DEF TypeOK, RespSet, CallSet
  <2> QED
    BY <1>8, <1>11, <2>1 DEF VoteReplyHigherTerm
<1>12. ASSUME NEW b \in beats, NEW m \in Node, HeartbeatAccepted(b, m) PROVE LeadersLed'
  BY <1>8, <1>12 DEF HeartbeatAccepted
<1>13. ASSUME NEW d \in stepDowns, StepDown(d) PROVE LeadersLed'
  <2>1. d.node \in Node
    BY DEF TypeOK
  <2> QED
    BY <1>8, <1>13, <2>1 DEF StepDown
<1>14. ASSUME NEW n \in Node, Start(n) \/ SendHeartbeats(n) PROVE LeadersLed'
  BY <1>9, <1>14 DEF Start, SendHeartbeats
<1>15. ASSUME NEW r \in reqs, DenyStaleVote(r) PROVE LeadersLed'
  BY <1>9, <1>15 DEF DenyStaleVote
<1>16. ASSUME NEW c \in calls, VoteRPCFails(c) PROVE LeadersLed'
  BY <1>9, <1>16 DEF VoteRPCFails
<1>17. ASSUME NEW b \in beats, NEW m \in Node, HeartbeatRejected(b, m) PROVE LeadersLed'
  BY <1>9, <1>17 DEF HeartbeatRejected
<1>18. ASSUME NEW x \in syncs, NEW m \in Node, SyncLog(x, m) PROVE LeadersLed'
  BY <1>9, <1>18 DEF SyncLog
<1>19. CASE UNCHANGED vars
  BY <1>9, <1>19 DEF vars
<1> QED
  BY <1>1, <1>2, <1>3, <1>4, <1>5, <1>6, <1>7, <1>10, <1>11, <1>12, <1>13, <1>14, <1>15,
     <1>16, <1>17, <1>18, <1>19 DEF Next

(* A step that sends nothing new keeps what the messages say true.          *)
LEMMA TermsReachedFrame ==
    ASSUME TypeOK, TypeOK', TermsReached, led \subseteq led',
           \A n \in Node : walTerm'[n] \in Int /\ walTerm'[n] >= walTerm[n],
           beats' \subseteq beats, reqs' \subseteq reqs, syncs' \subseteq syncs,
           \A d \in stepDowns' : d \in stepDowns \/ \E p \in Node : d.term <= walTerm[p]
    PROVE  TermsReached'
<1>1. \A n \in Node : walTerm[n] \in Int
  BY DEF TypeOK, Term
<1>2. /\ \A r \in reqs : r.cand \in Node /\ r.term \in Int
      /\ \A s \in syncs : s.src \in Node /\ s.term \in Int
      /\ \A d \in stepDowns : d.term \in Int
  BY DEF TypeOK, CallSet, Term
<1>3. \A b \in beats' : [id |-> b.src, term |-> b.term] \in led'
  BY DEF TermsReached
<1>4. \A r \in reqs' : r.term <= walTerm'[r.cand]
  BY <1>1, <1>2 DEF TermsReached
<1>5. \A s \in syncs' : s.term <= walTerm'[s.src]
  BY <1>1, <1>2 DEF TermsReached
<1>6. ASSUME NEW d \in stepDowns' PROVE \E p \in Node : d.term <= walTerm'[p]
  <2>1. PICK p \in Node : d.term <= walTerm[p]
    BY <1>6 DEF TermsReached
  <2>2. d.term \in Int
    BY <1>6, TypeOK' DEF TypeOK, Term
  <2>3. d.term <= walTerm'[p]
    BY <1>1, <2>1, <2>2
  <2> QED
    BY <2>3
<1> QED
  BY <1>3, <1>4, <1>5, <1>6 DEF TermsReached

LEMMA TermsReachedStep ==
    ASSUME IndInv, LeadersLed, TermsReached, [Next]_vars
    PROVE  TermsReached'
<1> USE DEF nodeVars, walVars, roundVars, netVars, ghostVars
<1>0. TypeOK /\ TypeOK'
  BY NextType DEF IndInv
<1>a. \A n \in Node : walTerm[n] \in Int /\ walTerm'[n] \in Int /\ walTerm'[n] >= walTerm[n]
  BY <1>0, WalGrows DEF IndInv, TypeOK, Term
<1> DEFINE Quiet == /\ led \subseteq led'
                    /\ beats' \subseteq beats /\ reqs' \subseteq reqs /\ syncs' \subseteq syncs
                    /\ stepDowns' \subseteq stepDowns
<1>b. Quiet => TermsReached'
  BY <1>0, <1>a, TermsReachedFrame
<1>1. ASSUME NEW n \in Node, Boot(n) PROVE TermsReached'
  <2>1. \A s \in syncs' : s \in syncs \/ s = [src |-> n, term |-> walTerm[n]]
    BY <1>1 DEF Boot
  <2>2. UNCHANGED <<walTerm, led, beats, reqs, stepDowns>>
    BY <1>1 DEF Boot
  <2> QED
    BY <1>a, <2>1, <2>2 DEF TermsReached
<1>2. ASSUME NEW n \in Node, StartElection(n) PROVE TermsReached'
  <2> DEFINE t == currentTerm[n] + 1
  <2>1. /\ walTerm' = [walTerm EXCEPT ![n] = t] /\ UNCHANGED <<led, beats, syncs, stepDowns>>
        /\ reqs' = reqs \cup {[cand |-> n, peer |-> p, term |-> t] : p \in Node \ {n}}
    BY <1>2 DEF StartElection
  <2>2. walTerm'[n] = t /\ t \in Int
    BY <1>0, <1>a, <2>1 DEF TypeOK, Term
  <2>3. \A r \in reqs' : r \in reqs \/ (r.cand = n /\ r.term = t)
    BY <2>1
  <2>4. \A r \in reqs : r.cand \in Node /\ r.term \in Int
    BY <1>0 DEF TypeOK, CallSet, Term
  <2>5. \A s \in syncs : s.src \in Node /\ s.term \in Int
    BY <1>0 DEF TypeOK, Term
  <2> HIDE DEF t
  <2>6. \A r \in reqs' : r.term <= walTerm'[r.cand]
    BY <1>a, <2>2, <2>3, <2>4 DEF TermsReached
  <2>7. \A d \in stepDowns : \E p \in Node : d.term <= walTerm'[p]
    <3> SUFFICES ASSUME NEW d \in stepDowns PROVE \E p \in Node : d.term <= walTerm'[p]
      OBVIOUS
    <3>1. PICK p \in Node : d.term <= walTerm[p]
      BY DEF TermsReached
    <3>2. d.term \in Int
      BY <1>0 DEF TypeOK, Term
    <3> QED
      BY <1>a, <3>1, <3>2
  <2>8. \A s \in syncs : s.term <= walTerm'[s.src]
    BY <1>a, <2>5 DEF TermsReached
  <2> QED
    BY <2>1, <2>6, <2>7, <2>8 DEF TermsReached
<1>3. ASSUME NEW n \in Node, SendHeartbeats(n) PROVE TermsReached'
  <2>1. [id |-> n, term |-> currentTerm[n]] \in led
    BY <1>3 DEF SendHeartbeats, LeadersLed
  <2>2. /\ \A b \in beats' : b \in beats \/ b = [src |-> n, term |-> currentTerm[n]]
        /\ UNCHANGED <<walTerm, led, reqs, syncs, stepDowns>>
    BY <1>3 DEF SendHeartbeats
  <2> QED
    BY <2>1, <2>2 DEF TermsReached
<1>4. ASSUME NEW b \in beats, NEW m \in Node, HeartbeatRejected(b, m) PROVE TermsReached'
  <2>1. currentTerm[m] = walTerm[m]
    BY <1>4 DEF HeartbeatRejected, IndInv, WalIsCurrent
  <2>2. /\ \A d \in stepDowns' : d \in stepDowns \/ d = [node |-> b.src, term |-> walTerm[m]]
        /\ UNCHANGED <<led, beats, reqs, syncs>>
    BY <1>4, <2>1 DEF HeartbeatRejected
  <2>3. \A d \in stepDowns' : d \in stepDowns \/ \E p \in Node : d.term <= walTerm[p]
    BY <1>a, <2>2
  <2> QED
    BY <1>0, <1>a, <2>2, <2>3, TermsReachedFrame
<1>5. ASSUME NEW s \in syncs, NEW m \in Node, SyncLog(s, m) PROVE TermsReached'
  <2>1. s.src \in Node /\ s.term <= walTerm[s.src]
    BY <1>0 DEF TypeOK, TermsReached
  <2>2. /\ \A d \in stepDowns' : d \in stepDowns \/ d = [node |-> m, term |-> s.term]
        /\ UNCHANGED <<led, beats, reqs, syncs>>
    BY <1>5 DEF SyncLog
  <2>3. \A d \in stepDowns' : d \in stepDowns \/ \E p \in Node : d.term <= walTerm[p]
    BY <2>1, <2>2
  <2> QED
    BY <1>0, <1>a, <2>2, <2>3, TermsReachedFrame
<1>6. ASSUME NEW n \in Node, \/ Start(n) \/ WinElection(n) \/ LoseElection(n) \/ BecomeLeader(n)
                             \/ Crash(n) \/ CrashBetweenWrites(n) \/ TimerPanic(n)
      PROVE  Quiet
  BY <1>6 DEF Start, WinElection, LoseElection, BecomeLeader, Crash, CrashBetweenWrites,
              TimerPanic, LoseMemory
<1>7. ASSUME NEW r \in reqs, GrantVote(r) \/ DenyVote(r) \/ DenyStaleVote(r) PROVE Quiet
  BY <1>7 DEF GrantVote, DenyVote, DenyStaleVote
<1>8. ASSUME NEW r \in resps, VoteReplyHigherTerm(r) PROVE Quiet
  BY <1>8 DEF VoteReplyHigherTerm
<1>9. ASSUME NEW c \in calls, VoteRPCFails(c) PROVE Quiet
  BY <1>9 DEF VoteRPCFails
<1>10. ASSUME NEW b \in beats, NEW m \in Node, HeartbeatAccepted(b, m) PROVE Quiet
  BY <1>10 DEF HeartbeatAccepted
<1>11. ASSUME NEW d \in stepDowns, StepDown(d) PROVE Quiet
  BY <1>11 DEF StepDown
<1>12. ASSUME UNCHANGED vars PROVE Quiet
  BY <1>12 DEF vars
<1> QED
  BY <1>b, <1>1, <1>2, <1>3, <1>4, <1>5, <1>6, <1>7, <1>8, <1>9, <1>10, <1>11, <1>12 DEF Next

(* Only a process that has not started yet holds a reset in waiting.        *)
LEMMA ResetsEarlyStep ==
    ASSUME TypeOK, ResetsEarly, [Next]_vars
    PROVE  ResetsEarly'
<1> USE DEF nodeVars, walVars, roundVars, netVars, ghostVars
<1>1. ASSUME NEW n \in Node, Boot(n) PROVE ResetsEarly'
  BY <1>1 DEF Boot, ResetsEarly, TypeOK
<1>2. ASSUME NEW n \in Node, Start(n) PROVE ResetsEarly'
  BY <1>2 DEF Start, ResetsEarly, TypeOK
<1>3. ASSUME NEW n \in Node, Crash(n) \/ CrashBetweenWrites(n) \/ TimerPanic(n)
      PROVE  ResetsEarly'
  BY <1>3 DEF Crash, CrashBetweenWrites, TimerPanic, LoseMemory, ResetsEarly, TypeOK
<1>4. ASSUME NEW n \in Node, SpawnReset(n), UNCHANGED status PROVE ResetsEarly'
  BY <1>4 DEF SpawnReset, ResetsEarly
<1>5. ASSUME UNCHANGED <<status, resets>> PROVE ResetsEarly'
  BY <1>5 DEF ResetsEarly
<1>6. ASSUME NEW n \in Node, \/ StartElection(n) \/ WinElection(n) \/ LoseElection(n)
                             \/ BecomeLeader(n) \/ SendHeartbeats(n)
      PROVE  ResetsEarly'
  BY <1>5, <1>6 DEF StartElection, WinElection, LoseElection, BecomeLeader, SendHeartbeats
<1>7. ASSUME NEW r \in reqs, GrantVote(r) PROVE ResetsEarly'
  <2>1. r.peer \in Node
    BY DEF TypeOK, CallSet
  <2> QED
    BY <1>4, <1>7, <2>1 DEF GrantVote
<1>8. ASSUME NEW r \in reqs, DenyVote(r) \/ DenyStaleVote(r) PROVE ResetsEarly'
  BY <1>5, <1>8 DEF DenyVote, DenyStaleVote
<1>9. ASSUME NEW r \in resps, VoteReplyHigherTerm(r) PROVE ResetsEarly'
  BY <1>5, <1>9 DEF VoteReplyHigherTerm
<1>10. ASSUME NEW c \in calls, VoteRPCFails(c) PROVE ResetsEarly'
  BY <1>5, <1>10 DEF VoteRPCFails
<1>11. ASSUME NEW b \in beats, NEW m \in Node, HeartbeatAccepted(b, m) PROVE ResetsEarly'
  BY <1>4, <1>11 DEF HeartbeatAccepted
<1>12. ASSUME NEW b \in beats, NEW m \in Node, HeartbeatRejected(b, m) PROVE ResetsEarly'
  BY <1>5, <1>12 DEF HeartbeatRejected
<1>13. ASSUME NEW x \in syncs, NEW m \in Node, SyncLog(x, m) PROVE ResetsEarly'
  BY <1>5, <1>13 DEF SyncLog
<1>14. ASSUME NEW d \in stepDowns, StepDown(d) PROVE ResetsEarly'
  BY <1>5, <1>14 DEF StepDown
<1>15. CASE UNCHANGED vars
  BY <1>5, <1>15 DEF vars
<1> QED
  BY <1>1, <1>2, <1>3, <1>6, <1>7, <1>8, <1>9, <1>10, <1>11, <1>12, <1>13, <1>14, <1>15 DEF Next

LEMMA InitShownInv == Init => ShownInv
<1> SUFFICES ASSUME Init PROVE ShownInv
  OBVIOUS
<1>1. LeadersLed /\ TermsReached /\ ResetsEarly
  BY DEF Init, LeadersLed, TermsReached, ResetsEarly
<1> QED
  BY <1>1, InitIndInv DEF ShownInv

LEMMA NextShownInv == ShownInv /\ [Next]_vars => ShownInv'
<1> SUFFICES ASSUME ShownInv, [Next]_vars PROVE ShownInv'
  OBVIOUS
<1>1. IndInv'
  BY NextIndInv DEF ShownInv
<1>2. LeadersLed' /\ TermsReached' /\ ResetsEarly'
  BY LeadersLedStep, TermsReachedStep, ResetsEarlyStep DEF ShownInv, IndInv
<1> QED
  BY <1>1, <1>2 DEF ShownInv

LEMMA RoleNames ==
    /\ Role["Follower"] = "FOLLOWER" /\ Role["Candidate"] = "CANDIDATE" /\ Role["Leader"] = "LEADER"
    /\ \A r \in {"Follower", "Candidate", "Leader"} : Role[r] = "LEADER" => r = "Leader"
BY DEF Role

LEMMA ShownFields ==
    ASSUME NEW n \in Node
    PROVE  /\ Shown[n].state = Role[state[n]]
           /\ Shown[n].term = walTerm[n]
           /\ Shown[n].leaderId = leaderID[n]
BY DEF Shown

(* What is shown of one replica changes.                                    *)
LEMMA ShownBecomes ==
    ASSUME NEW n \in Node, NEW s,
           s = [state |-> Role[state'[n]], term |-> walTerm'[n], leaderId |-> leaderID'[n]],
           \A m \in Node \ {n} : /\ state'[m] = state[m]
                                 /\ walTerm'[m] = walTerm[m]
                                 /\ leaderID'[m] = leaderID[m]
    PROVE  Cluster!Becomes(n, s)
<1>1. \A m \in Node : Shown'[m] = IF m = n THEN s ELSE Shown[m]
  BY DEF Shown
<1>2. Shown' = [m \in Node |-> Shown'[m]] /\ Shown = [m \in Node |-> Shown[m]]
  BY DEF Shown
<1>3. Shown' = [Shown EXCEPT ![n] = s]
  BY <1>1, <1>2
<1> QED
  BY <1>3 DEF Cluster!Becomes

(* becomeFollowerLocked.                                                    *)
LEMMA BecomeFollowerShown ==
    ASSUME TypeOK, WalIsCurrent, NEW n \in Node, Up(n), NEW t, NEW l, BecomeFollower(n, t, l)
    PROVE  Cluster!Becomes(n, Cluster!Follower(IF t > walTerm[n] THEN t ELSE walTerm[n], l))
<1>1. walTerm[n] = currentTerm[n]
  BY DEF WalIsCurrent
<1>2. /\ state' = [state EXCEPT ![n] = "Follower"]
      /\ leaderID' = [leaderID EXCEPT ![n] = l]
      /\ walTerm' = IF t > walTerm[n] THEN [walTerm EXCEPT ![n] = t] ELSE walTerm
  BY <1>1 DEF BecomeFollower, walVars
<1>3. /\ state'[n] = "Follower" /\ leaderID'[n] = l
      /\ walTerm'[n] = IF t > walTerm[n] THEN t ELSE walTerm[n]
      /\ \A m \in Node \ {n} : /\ state'[m] = state[m]
                               /\ walTerm'[m] = walTerm[m]
                               /\ leaderID'[m] = leaderID[m]
  BY <1>2 DEF TypeOK
<1> QED
  BY <1>3, ShownBecomes, RoleNames DEF Cluster!Follower

(* A step-down because of a term that some replica has reached.             *)
LEMMA StepDownShown ==
    ASSUME TypeOK, WalIsCurrent, NEW n \in Node, Up(n), NEW t \in Term,
           NEW p \in Node, t <= walTerm[p],
           BecomeFollower(n, t, None), UNCHANGED <<status, led>>
    PROVE  Cluster!SeeTerm(n)
<1> DEFINE high == IF t > walTerm[n] THEN t ELSE walTerm[n]
<1>1. walTerm[n] \in Int /\ walTerm[n] <= MaxTerm /\ MaxTerm \in Int /\ t \in Int /\ t <= MaxTerm
  BY BoundAssumption DEF TypeOK, Term
<1>2. high \in walTerm[n]..MaxTerm
  BY <1>1
<1>3. \E q \in Node : high <= walTerm[q]
  BY <1>1
<1>4. Cluster!Becomes(n, Cluster!Follower(high, None))
  BY BecomeFollowerShown
<1>5. UNCHANGED {m \in Node : Up(m)}
  BY DEF Up
<1> HIDE DEF high
<1>6. \E q \in Node : high <= Shown[q].term
  BY <1>3, ShownFields
<1>7. high \in Shown[n].term..MaxTerm
  BY <1>2, ShownFields
<1> QED
  BY <1>4, <1>5, <1>6, <1>7 DEF Cluster!SeeTerm

(* A process that dies, perhaps with a later term in its WAL.               *)
LEMMA LoseMemoryShown ==
    ASSUME TypeOK, TypeOK', NEW n \in Node, Up(n), NEW fate \in {"down", "panicked"},
           LoseMemory(n, fate),
           walTerm'[n] >= walTerm[n], \A m \in Node \ {n} : walTerm'[m] = walTerm[m]
    PROVE  Cluster!Disconnect(n)
<1>1. /\ state' = [state EXCEPT ![n] = "Follower"]
      /\ leaderID' = [leaderID EXCEPT ![n] = None]
      /\ status' = [status EXCEPT ![n] = fate]
      /\ led' = led
  BY DEF LoseMemory, ghostVars
<1>2. /\ state'[n] = "Follower" /\ leaderID'[n] = None
      /\ \A m \in Node \ {n} : state'[m] = state[m] /\ leaderID'[m] = leaderID[m]
  BY <1>1 DEF TypeOK
<1>3. Cluster!Becomes(n, Cluster!Follower(walTerm'[n], None))
  BY <1>2, ShownBecomes, RoleNames DEF Cluster!Follower
<1>4. {m \in Node : Up(m)}' = {m \in Node : Up(m)} \ {n} /\ n \in {m \in Node : Up(m)}
  BY <1>1 DEF Up, TypeOK
<1>5. walTerm'[n] \in walTerm[n]..MaxTerm
  BY BoundAssumption DEF TypeOK, Term
<1>6. walTerm'[n] \in Shown[n].term..MaxTerm
  BY <1>5, ShownFields
<1> QED
  BY <1>1, <1>3, <1>4, <1>6 DEF Cluster!Disconnect

(* Each step of the election shows as a step of the cluster, or not at all. *)
LEMMA StepShows ==
    ASSUME ShownInv, [Next]_vars
    PROVE  [Cluster!ClusterNext]_(Cluster!clusterVars)
<1> USE DEF nodeVars, walVars, roundVars, netVars, ghostVars
<1> DEFINE Goal == [Cluster!ClusterNext]_(Cluster!clusterVars)
           Same == UNCHANGED <<status, state, walTerm, leaderID, led>>
<1>0. TypeOK /\ TypeOK' /\ WalIsCurrent /\ GoroutinesLive /\ IndInv
  BY NextType DEF ShownInv, IndInv
<1>a. \A n \in Node : walTerm[n] \in Int /\ walTerm'[n] \in Int /\ walTerm'[n] >= walTerm[n]
  BY <1>0, WalGrows DEF IndInv, TypeOK, Term
<1>b. Same => Goal
  <2> SUFFICES ASSUME Same PROVE Goal
    OBVIOUS
  <2>1. Shown' = Shown
    BY DEF Shown
  <2>2. {m \in Node : Up(m)}' = {m \in Node : Up(m)}
    BY DEF Up
  <2> QED
    BY <2>1, <2>2 DEF Cluster!clusterVars
<1>1. ASSUME NEW n \in Node, Boot(n) PROVE Cluster!Reconnect(n)
  <2>1. Shown' = Shown /\ led' = led
    BY <1>1 DEF Boot, Shown
  <2>2. n \notin {m \in Node : Up(m)} /\ {m \in Node : Up(m)}' = {m \in Node : Up(m)} \cup {n}
    BY <1>0, <1>1 DEF Boot, Up, TypeOK
  <2> QED
    BY <2>1, <2>2 DEF Cluster!Reconnect
<1>2. ASSUME NEW n \in Node, Start(n) PROVE Goal
  <2>1. Shown' = Shown /\ led' = led
    BY <1>2 DEF Start, Shown
  <2>2. {m \in Node : Up(m)}' = {m \in Node : Up(m)}
    BY <1>0, <1>2 DEF Start, Up, TypeOK
  <2> QED
    BY <2>1, <2>2 DEF Cluster!clusterVars
<1>3. ASSUME NEW n \in Node, StartElection(n) PROVE Cluster!StartElection(n)
  <2>1. /\ state[n] # "Leader" /\ walTerm[n] < MaxTerm /\ walTerm[n] = currentTerm[n]
        /\ led' = led
    BY <1>0, <1>3 DEF StartElection, MayCampaign, WalIsCurrent, Up
  <2>2. /\ state' = [state EXCEPT ![n] = "Candidate"]
        /\ walTerm' = [walTerm EXCEPT ![n] = walTerm[n] + 1]
        /\ leaderID' = leaderID /\ status' = status
    BY <1>3, <2>1 DEF StartElection
  <2>3. /\ state'[n] = "Candidate" /\ walTerm'[n] = walTerm[n] + 1
        /\ \A m \in Node \ {n} : state'[m] = state[m] /\ walTerm'[m] = walTerm[m]
    BY <1>0, <2>2 DEF TypeOK
  <2>4. Cluster!Becomes(n, [state |-> "CANDIDATE", term |-> Shown[n].term + 1,
                            leaderId |-> Shown[n].leaderId])
    BY <2>2, <2>3, ShownBecomes, ShownFields, RoleNames
  <2>5. Shown[n].state # "LEADER" /\ Shown[n].term < MaxTerm
    BY <1>0, <2>1, ShownFields, RoleNames DEF TypeOK
  <2>6. UNCHANGED {m \in Node : Up(m)}
    BY <2>2 DEF Up
  <2> QED
    BY <2>1, <2>4, <2>5, <2>6 DEF Cluster!StartElection
<1>4. ASSUME NEW n \in Node, BecomeLeader(n) PROVE Cluster!BecomeLeader(n)
  <2>1. /\ phase[n] = "won" /\ state[n] # "Leader" /\ walTerm[n] = currentTerm[n]
        /\ campaign[n] > 0 /\ campaign[n] <= currentTerm[n] /\ campaign[n] \in Int
    <3>1. phase[n] = "won" /\ status[n] = "running" /\ walTerm[n] = currentTerm[n]
      BY <1>0, <1>4 DEF BecomeLeader, WalIsCurrent, Up
    <3>2. campaign[n] <= currentTerm[n]
      BY <1>0, <3>1 DEF IndInv, BallotsBacked
    <3>3. campaign[n] \in Int
      BY <1>0 DEF TypeOK, Term
    <3>4. state[n] # "Leader" /\ campaign[n] > 0
      BY <3>1 DEF ShownInv, LeadersLed
    <3> QED
      BY <3>1, <3>2, <3>3, <3>4
  <2>2. /\ state' = [state EXCEPT ![n] = "Leader"] /\ leaderID' = [leaderID EXCEPT ![n] = n]
        /\ walTerm' = walTerm /\ status' = status
        /\ led' = led \cup {[id |-> n, term |-> walTerm[n]]}
    BY <1>4, <2>1 DEF BecomeLeader
  <2>3. /\ state'[n] = "Leader" /\ leaderID'[n] = n
        /\ \A m \in Node \ {n} : state'[m] = state[m] /\ leaderID'[m] = leaderID[m]
    BY <1>0, <2>2 DEF TypeOK
  <2>4. Cluster!Becomes(n, [state |-> "LEADER", term |-> Shown[n].term, leaderId |-> n])
    BY <2>2, <2>3, ShownBecomes, ShownFields, RoleNames
  <2>5. Shown[n].state # "LEADER" /\ Shown[n].term > 0
    BY <1>0, <1>a, <2>1, ShownFields, RoleNames DEF TypeOK
  <2>6. UNCHANGED {m \in Node : Up(m)}
    BY <2>2 DEF Up
  <2>7. led' = led \cup {[id |-> n, term |-> Shown[n].term]}
    BY <2>2, ShownFields
  <2> QED
    BY <2>4, <2>5, <2>6, <2>7 DEF Cluster!BecomeLeader
<1>5. ASSUME NEW n \in Node, Crash(n) \/ CrashBetweenWrites(n) \/ TimerPanic(n)
      PROVE  Cluster!Disconnect(n)
  <2>1. Up(n)
    BY <1>5 DEF Crash, CrashBetweenWrites, TimerPanic, Up, ShownInv, ResetsEarly
  <2>2. \A m \in Node \ {n} : walTerm'[m] = walTerm[m]
    BY <1>0, <1>5 DEF Crash, CrashBetweenWrites, TimerPanic, TypeOK
  <2>3. PICK fate \in {"down", "panicked"} : LoseMemory(n, fate)
    BY <1>5 DEF Crash, CrashBetweenWrites, TimerPanic
  <2> QED
    BY <1>0, <1>a, <2>1, <2>2, <2>3, LoseMemoryShown
<1>6. ASSUME NEW r \in reqs, GrantVote(r) PROVE Goal
  <2> DEFINE p == r.peer
  <2>1. /\ p \in Node /\ r.cand \in Node /\ r.term \in Term /\ r.term \in Int
        /\ r.term <= walTerm[r.cand] /\ walTerm[p] = currentTerm[p] /\ Up(p)
    BY <1>0, <1>6 DEF TypeOK, CallSet, Term, ShownInv, TermsReached, GrantVote, WalIsCurrent
  <2>2. /\ walTerm' = [walTerm EXCEPT ![p] = r.term] /\ r.term >= walTerm[p]
        /\ led' = led /\ status' = status
    BY <1>6, <2>1 DEF GrantVote, MayVote
  <2>3. UNCHANGED {m \in Node : Up(m)}
    BY <2>2 DEF Up
  <2>4. CASE r.term > walTerm[p]
    <3>1. state' = [state EXCEPT ![p] = "Follower"] /\ leaderID' = [leaderID EXCEPT ![p] = None]
      BY <1>6, <2>1, <2>4 DEF GrantVote
    <3>2. /\ state'[p] = "Follower" /\ leaderID'[p] = None /\ walTerm'[p] = r.term
          /\ \A m \in Node \ {p} : /\ state'[m] = state[m]
                                   /\ walTerm'[m] = walTerm[m]
                                   /\ leaderID'[m] = leaderID[m]
      BY <1>0, <2>1, <2>2, <3>1 DEF TypeOK
    <3>3. Cluster!Becomes(p, Cluster!Follower(r.term, None))
      BY <2>1, <3>2, ShownBecomes, RoleNames DEF Cluster!Follower
    <3>4. r.term \in walTerm[p]..MaxTerm
      BY <1>a, <2>1, <2>4, BoundAssumption DEF Term
    <3>5. Cluster!SeeTerm(p)
      BY <2>1, <2>2, <2>3, <3>3, <3>4, ShownFields DEF Cluster!SeeTerm
    <3> QED
      BY <2>1, <3>5 DEF Cluster!ClusterNext
  <2>5. CASE r.term = walTerm[p]
    <3>1. UNCHANGED <<state, leaderID>>
      BY <1>6, <2>1, <2>5 DEF GrantVote
    <3>2. walTerm' = walTerm
      BY <1>0, <2>2, <2>5 DEF TypeOK
    <3> QED
      BY <1>b, <2>2, <3>1, <3>2
  <2> QED
    BY <1>a, <2>1, <2>2, <2>4, <2>5
<1>7. ASSUME NEW n \in Node, NEW t \in Term, Up(n), NEW p \in Node, t <= walTerm[p],
             BecomeFollower(n, t, None), UNCHANGED <<status, led>>
      PROVE  Goal
  BY <1>0, <1>7, StepDownShown DEF Cluster!ClusterNext
<1>8. ASSUME NEW r \in reqs, DenyVote(r) PROVE Goal
  <2>1. /\ r.peer \in Node /\ r.cand \in Node /\ r.term \in Term
        /\ r.term <= walTerm[r.cand] /\ Up(r.peer) /\ UNCHANGED <<status, led>>
    BY <1>0, <1>8 DEF TypeOK, CallSet, ShownInv, TermsReached, DenyVote
  <2>2. BecomeFollower(r.peer, r.term, None) \/ UNCHANGED <<nodeVars, walVars>>
    BY <1>8 DEF DenyVote
  <2> QED
    BY <1>7, <1>b, <2>1, <2>2
<1>9. ASSUME NEW r \in resps, VoteReplyHigherTerm(r) PROVE Goal
  <2>1. /\ r.call.cand \in Node /\ r.call.peer \in Node /\ r.term \in Term
        /\ walTerm[r.call.peer] >= r.term /\ Up(r.call.cand) /\ UNCHANGED <<status, led>>
        /\ BecomeFollower(r.call.cand, r.term, None)
    BY <1>0, <1>9 DEF TypeOK, RespSet, CallSet, IndInv, TermsPersist, GoroutinesLive,
                      VoteReplyHigherTerm
  <2>2. r.term <= walTerm[r.call.peer]
    BY <1>a, <2>1 DEF Term
  <2> QED
    BY <1>7, <2>1, <2>2
<1>10. ASSUME NEW d \in stepDowns, StepDown(d) PROVE Goal
  <2>1. /\ d.node \in Node /\ d.term \in Term /\ Up(d.node) /\ UNCHANGED <<status, led>>
        /\ BecomeFollower(d.node, d.term, None)
    BY <1>0, <1>10 DEF TypeOK, GoroutinesLive, StepDown
  <2>2. PICK p \in Node : d.term <= walTerm[p]
    BY DEF ShownInv, TermsReached
  <2> QED
    BY <1>7, <2>1, <2>2
<1>11. ASSUME NEW b \in beats, NEW m \in Node, HeartbeatAccepted(b, m) PROVE Goal
  <2> DEFINE e == [id |-> b.src, term |-> b.term]
  <2>1. /\ e \in led /\ e.id # m /\ e.id = b.src /\ e.term = b.term /\ b.term \in Int
        /\ walTerm[m] = currentTerm[m] /\ Up(m) /\ b.term >= walTerm[m]
        /\ UNCHANGED <<status, led>> /\ BecomeFollower(m, b.term, b.src)
    BY <1>0, <1>11 DEF ShownInv, TermsReached, HeartbeatAccepted, WalIsCurrent, TypeOK, Term
  <2>2. (IF b.term > walTerm[m] THEN b.term ELSE walTerm[m]) = b.term
    BY <1>a, <2>1
  <2>3. Cluster!Becomes(m, Cluster!Follower(b.term, b.src))
    BY <1>0, <2>1, <2>2, BecomeFollowerShown
  <2>4. UNCHANGED {n \in Node : Up(n)}
    BY <2>1 DEF Up
  <2> HIDE DEF e
  <2>5. Cluster!HearLeader(m, e)
    BY <2>1, <2>3, <2>4, ShownFields DEF Cluster!HearLeader
  <2> QED
    BY <2>1, <2>5 DEF Cluster!ClusterNext
<1>12. ASSUME NEW n \in Node, WinElection(n) \/ LoseElection(n) \/ SendHeartbeats(n) PROVE Same
  BY <1>12 DEF WinElection, LoseElection, SendHeartbeats
<1>13. ASSUME NEW r \in reqs, DenyStaleVote(r) PROVE Same
  BY <1>13 DEF DenyStaleVote
<1>14. ASSUME NEW c \in calls, VoteRPCFails(c) PROVE Same
  BY <1>14 DEF VoteRPCFails
<1>15. ASSUME NEW b \in beats, NEW m \in Node, HeartbeatRejected(b, m) PROVE Same
  BY <1>15 DEF HeartbeatRejected
<1>16. ASSUME NEW s \in syncs, NEW m \in Node, SyncLog(s, m) PROVE Same
  BY <1>16 DEF SyncLog
<1>17. ASSUME UNCHANGED vars PROVE Same
  BY <1>17 DEF vars
<1>18. ASSUME NEW n \in Node, \/ Cluster!Reconnect(n) \/ Cluster!StartElection(n)
                              \/ Cluster!BecomeLeader(n) \/ Cluster!Disconnect(n)
       PROVE  Goal
  BY <1>18 DEF Cluster!ClusterNext
<1> HIDE DEF Goal, Same
<1>19. ASSUME Next PROVE Goal
  BY <1>19, <1>b, <1>1, <1>2, <1>3, <1>4, <1>5, <1>6, <1>8, <1>9, <1>10, <1>11, <1>12, <1>13,
     <1>14, <1>15, <1>16, <1>18 DEF Next
<1>20. Goal
  BY <1>b, <1>17, <1>19
<1> QED
  BY <1>20 DEF Goal

(* The replicas that the code elects behave as ClusterStatus has it, so that *)
(* what holds for the gateway beside such a cluster holds beside this one.  *)
THEOREM ShowsClusterStatus == Spec => ImplementsClusterStatus
<1>1. Init => Cluster!ClusterInit
  <2> SUFFICES ASSUME Init PROVE Cluster!ClusterInit
    OBVIOUS
  <2>1. \A n \in Node : Up(n) /\ state[n] = "Follower" /\ walTerm[n] = 0 /\ leaderID[n] = None
    BY DEF Init, Up
  <2>2. Shown = [n \in Node |-> [state |-> "FOLLOWER", term |-> 0, leaderId |-> None]]
    BY <2>1, RoleNames DEF Shown
  <2>3. led = {}
    BY DEF Init
  <2> QED
    BY <2>1, <2>2, <2>3 DEF Cluster!ClusterInit
<1>2. ShownInv /\ [Next]_vars => [Cluster!ClusterNext]_(Cluster!clusterVars)
  BY StepShows
<1>3. Spec => []ShownInv
  BY InitShownInv, NextShownInv, PTL DEF Spec
<1> QED
  BY <1>1, <1>2, <1>3, PTL DEF Spec, ImplementsClusterStatus, Cluster!ClusterSpec
==============================================================================
