-------------------------- MODULE RaftReplication --------------------------
(***************************************************************************)
(* Log replication (replica/raft/heartbeat.go, rpc_server.go, node.go): the *)
(* ticks of a leader, AppendEntries and Heartbeat at a follower, the        *)
(* bookkeeping of nextIndex and matchIndex, catchUpPeer and the commit rule.*)
(*                                                                          *)
(* One action is one critical section of RaftNode.mu, but for an election,  *)
(* which RaftElection models in detail and which is one step here.  The     *)
(* part of AppendEntries that runs after its critical section is a step of  *)
(* its own.  Replicas do not crash in this module, and an entry is its term:*)
(* a log is the sequence of the terms of its entries, entry k at index k    *)
(* (ReplicaLog!Dense).                                                      *)
(***************************************************************************)
EXTENDS Integers, FiniteSets, Sequences

CONSTANTS
    Node,        \* the replicas
    MaxTerm,     \* bound on the terms
    MaxIndex,    \* bound on the length of a leader's log
    MaxInFlight  \* bound on the requests, replies and goroutines in flight

ASSUME ReplicaAssumption == IsFiniteSet(Node) /\ Node # {}
ASSUME LimitAssumption ==
    MaxTerm \in Nat /\ MaxIndex \in Nat /\ MaxInFlight \in Nat

VARIABLES
    currentTerm,
    voted,        \* votedFor is not empty
    state,        \* "Follower" (also for a candidate) or "Leader"
    log,
    commitIndex,
    nextIndex, matchIndex,
    requests,     \* Heartbeat and AppendEntries requests no handler has run yet
    accepted,     \* AppendEntries handlers past their critical section
    replies,      \* replies a goroutine of the leader has not acted on yet
    catchups,     \* catchUpPeer goroutines
    windows       \* history: the windows of the code that were hit

nodeVars == <<currentTerm, voted, state>>
logVars  == <<log, commitIndex>>
leadVars == <<nextIndex, matchIndex>>
netVars  == <<requests, accepted, replies, catchups>>
vars     == <<nodeVars, logVars, leadVars, netVars, windows>>

Term == 0..MaxTerm

(* len(peers)/2 + 1, for elections and for commits. *)
NeededTooFew == (Cardinality(Node) - 1) \div 2
Needed == (Cardinality(Node) - 1) \div 2 + 1

Last(n) == Len(log[n])

TermAt(n, i) == IF i \in 1..Last(n) THEN log[n][i] ELSE 0

LastTerm(n) == TermAt(n, Last(n))

Min(i, j) == IF i <= j THEN i ELSE j

Prefix(n, i) == SubSeq(log[n], 1, i)

Room ==
    Cardinality(requests) + Cardinality(accepted) + Cardinality(replies)
      + Cardinality(catchups) < MaxInFlight

(* The context of the leadership of term t is not cancelled: its RPCs still *)
(* run and their replies still come back.                                   *)
Leads(n, t) == state[n] = "Leader" /\ currentTerm[n] = t

(* becomeFollowerLocked. *)
BecomeFollower(n, t) ==
    /\ currentTerm' = [currentTerm EXCEPT ![n] = IF t > @ THEN t ELSE @]
    /\ voted' = [voted EXCEPT ![n] = @ /\ t <= currentTerm[n]]
    /\ state' = [state EXCEPT ![n] = "Follower"]

Init ==
    /\ currentTerm = [n \in Node |-> 0]
    /\ voted = [n \in Node |-> FALSE]
    /\ state = [n \in Node |-> "Follower"]
    /\ log = [n \in Node |-> <<>>]
    /\ commitIndex = [n \in Node |-> 0]
    /\ nextIndex = [n \in Node |-> [m \in Node |-> 1]]
    /\ matchIndex = [n \in Node |-> [m \in Node |-> 0]]
    /\ requests = {} /\ accepted = {} /\ replies = {} /\ catchups = {}
    /\ windows = {}

------------------------------------------------------------------------------
(* Elections. *)

(* Mutant: the log of the candidate is not looked at. *)
UpToDateAlways(n, p) == TRUE

(* RequestVote: the log of candidate n is at least as up to date as p's.    *)
UpToDate(n, p) ==
    \/ LastTerm(n) > LastTerm(p)
    \/ LastTerm(n) = LastTerm(p) /\ Last(n) >= Last(p)

(* n starts an election that the peers in P hear of; the one of a higher    *)
(* term answer nothing that helps and are not in P.  n leads if the votes   *)
(* suffice.                                                                 *)
Campaign(n, P) ==
    LET t == currentTerm[n] + 1
        grant == {p \in P : UpToDate(n, p) /\ (currentTerm[p] < t \/ ~voted[p])}
        wins == 1 + Cardinality(grant) >= Needed
    IN  /\ state[n] # "Leader" /\ t <= MaxTerm
        /\ \A p \in P : p # n /\ currentTerm[p] <= t
        /\ currentTerm' = [m \in Node |-> IF m \in P \cup {n} THEN t ELSE currentTerm[m]]
        /\ voted' = [m \in Node |->
                        \/ m \in grant \cup {n}
                        \/ voted[m] /\ (m \in P => currentTerm[m] = t)]
        /\ state' = [m \in Node |->
                        IF m = n THEN IF wins THEN "Leader" ELSE "Follower"
                        ELSE IF m \in P /\ currentTerm[m] < t THEN "Follower"
                        ELSE state[m]]
        /\ IF wins
           THEN /\ nextIndex' = [nextIndex EXCEPT ![n] = [m \in Node |-> Last(n) + 1]]
                /\ matchIndex' = [matchIndex EXCEPT ![n] = [m \in Node |-> 0]]
           ELSE UNCHANGED leadVars
        /\ UNCHANGED <<logVars, netVars, windows>>

------------------------------------------------------------------------------
(* The leader. *)

(* Replicate appends an entry for a client. *)
Replicate(n) ==
    /\ state[n] = "Leader" /\ Last(n) < MaxIndex
    /\ log' = [log EXCEPT ![n] = Append(@, currentTerm[n])]
    /\ UNCHANGED <<nodeVars, commitIndex, leadVars, netVars, windows>>

(* Only the sender of a tick acts on an unsuccessful reply. *)
AppendRequest(n, p, first, entries, ticked) ==
    [kind |-> "AppendEntries", src |-> n, dst |-> p, term |-> currentTerm[n],
     prev |-> first - 1, prevTerm |-> TermAt(n, first - 1),
     entries |-> entries, commit |-> commitIndex[n], tick |-> ticked]

HeartbeatRequest(n, p) ==
    [kind |-> "Heartbeat", src |-> n, dst |-> p, term |-> currentTerm[n],
     commit |-> commitIndex[n]]

(* The task of one peer in a tick of sendHeartbeats.  The tasks of the other *)
(* peers are independent of it, and may be late or lost.                    *)
Tick(n, p) ==
    /\ state[n] = "Leader" /\ p # n /\ Room
    /\ requests' = requests \cup
         {LET i == nextIndex[n][p]
          IN  IF i <= Last(n)
              THEN AppendRequest(n, p, i, SubSeq(log[n], i, Last(n)), TRUE)
              ELSE HeartbeatRequest(n, p)}
    /\ UNCHANGED <<nodeVars, logVars, leadVars, accepted, replies, catchups, windows>>

(* A request or a reply is lost, or the RPC's deadline passes. *)
Lose ==
    /\ \/ \E r \in requests : requests' = requests \ {r} /\ UNCHANGED replies
       \/ \E q \in replies : replies' = replies \ {q} /\ UNCHANGED requests
    /\ UNCHANGED <<nodeVars, logVars, leadVars, accepted, catchups, windows>>

(* A reply travels back only while the context of the RPC lives. *)
Answer(r, q) ==
    replies' = IF Leads(r.src, r.term) THEN replies \cup {q} ELSE replies

(* Mutant: an entry of any term may be committed. *)
CommittableAnyTerm(n, match, i) ==
    1 + Cardinality({p \in Node \ {n} : match[p] >= i}) >= Needed

(* tryAdvanceCommitIndex: enough copies, and an entry of the current term.  *)
Committable(n, match, i) ==
    /\ 1 + Cardinality({p \in Node \ {n} : match[p] >= i}) >= Needed
    /\ log[n][i] = currentTerm[n]

(* advanceCommitTo takes every index up to a committable one. *)
Advance(n, match) ==
    commitIndex' = [commitIndex EXCEPT ![n] =
        LET able == {i \in (@ + 1)..Last(n) : Committable(n, match, i)}
        IN  IF state[n] = "Leader" /\ able # {}
            THEN CHOOSE i \in able : \A j \in able : j <= i ELSE @]

(* Mutant: the match index is set one too high. *)
LastNewOff(q) == q.last + 1

(* nextIdx + len(entries) - 1 *)
LastNew(q) == q.last

(* A successful reply: it may be one of an earlier leadership, as only the   *)
(* term inside it was compared, before the lock.                            *)
ReplySuccess(q) ==
    LET n == q.src
        p == q.dst
        newer == LastNew(q) > matchIndex[n][p]
        match == [matchIndex[n] EXCEPT ![p] = IF newer THEN LastNew(q) ELSE @]
    IN  /\ q.kind = "Success"
        /\ replies' = replies \ {q}
        /\ matchIndex' = [matchIndex EXCEPT ![n] = match]
        /\ nextIndex' = IF newer THEN [nextIndex EXCEPT ![n][p] = LastNew(q) + 1]
                                 ELSE nextIndex
        /\ Advance(n, match)
        /\ windows' = IF state[n] = "Leader" /\ currentTerm[n] # q.term
                      THEN windows \cup {"stale"} ELSE windows
        /\ UNCHANGED <<nodeVars, log, requests, accepted, catchups>>

(* An unsuccessful one: back off, and start catchUpPeer. *)
ReplyConflict(q) ==
    LET n == q.src
        p == q.dst
        i == nextIndex[n][p]
        next == IF q.conflict > 0 THEN q.conflict ELSE IF i > 1 THEN i - 1 ELSE i
    IN  /\ q.kind = "Conflict"
        /\ replies' = replies \ {q}
        /\ nextIndex' = [nextIndex EXCEPT ![n][p] = next]
        /\ catchups' = IF Leads(n, q.term)
                       THEN catchups \cup {[stage |-> "start", src |-> n, dst |-> p,
                                            term |-> q.term, from |-> next]}
                       ELSE catchups
        /\ UNCHANGED <<nodeVars, logVars, matchIndex, requests, accepted, windows>>

(* A reply of a higher term. *)
ReplyHigher(q) ==
    /\ q.kind = "Higher"
    /\ replies' = replies \ {q}
    /\ BecomeFollower(q.src, q.higher)
    /\ UNCHANGED <<logVars, leadVars, requests, accepted, catchups, windows>>

(* catchUpPeer reads the entries before it takes the lock. *)
CatchUpRead(c) ==
    /\ c.stage = "start"
    /\ catchups' = (catchups \ {c}) \cup
         IF c.from <= Last(c.src)
         THEN {[stage |-> "send", src |-> c.src, dst |-> c.dst, term |-> c.term,
                from |-> c.from, entries |-> SubSeq(log[c.src], c.from, Last(c.src))]}
         ELSE {}
    /\ UNCHANGED <<nodeVars, logVars, leadVars, requests, accepted, replies, windows>>

(* Its critical section; with a cancelled context the RPC is not sent, and  *)
(* one whose entry at from - 1 a late append cut meanwhile is taken as lost. *)
CatchUpSend(c) ==
    /\ c.stage = "send"
    /\ catchups' = catchups \ {c}
    /\ requests' = IF Leads(c.src, c.term) /\ c.from - 1 <= Last(c.src)
                   THEN requests \cup
                          {AppendRequest(c.src, c.dst, c.from, c.entries, FALSE)}
                   ELSE requests
    /\ UNCHANGED <<nodeVars, logVars, leadVars, accepted, replies, windows>>

------------------------------------------------------------------------------
(* The follower. *)

(* Heartbeat or AppendEntries of a stale term. *)
Reject(r) ==
    /\ r.term < currentTerm[r.dst]
    /\ requests' = requests \ {r}
    /\ Answer(r, [kind |-> "Higher", src |-> r.src, dst |-> r.dst,
                  higher |-> currentTerm[r.dst]])
    /\ UNCHANGED <<nodeVars, logVars, leadVars, accepted, catchups, windows>>

(* The prefix that a follower commits is not the one its leader committed.  *)
(* (The committed prefix of the leader is still what it was on sending.)    *)
Blind(r, entries, i) == SubSeq(entries, 1, i) # Prefix(r.src, i)

(* Heartbeat commits without a consistency check. *)
Heartbeat(r) ==
    LET n == r.dst
        i == Min(r.commit, Last(n))
        commits == i > commitIndex[n]
    IN  /\ r.kind = "Heartbeat" /\ r.term >= currentTerm[n]
        /\ requests' = requests \ {r}
        /\ BecomeFollower(n, r.term)
        /\ commitIndex' = [commitIndex EXCEPT ![n] = IF commits THEN i ELSE @]
        /\ windows' = IF commits /\ Blind(r, log[n], i)
                      THEN windows \cup {"blind"} ELSE windows
        /\ UNCHANGED <<log, leadVars, accepted, replies, catchups>>

(* The critical section of AppendEntries. *)
AcceptAppend(r) ==
    /\ r.kind = "AppendEntries" /\ r.term >= currentTerm[r.dst]
    /\ requests' = requests \ {r}
    /\ accepted' = accepted \cup {r}
    /\ BecomeFollower(r.dst, r.term)
    /\ UNCHANGED <<logVars, leadVars, replies, catchups, windows>>

(* The rest of AppendEntries.  Meanwhile the node may have voted for another *)
(* candidate, or may even lead.                                             *)
Conflict(r, i) ==
    IF r.tick
    THEN Answer(r, [kind |-> "Conflict", src |-> r.src, dst |-> r.dst,
                    term |-> r.term, conflict |-> i])
    ELSE UNCHANGED replies

(* Mutant: an entry at prevLogIndex will do, whatever its term. *)
ConsistentByIndex(r) == r.prev \in 0..Last(r.dst)

(* The consistency check. *)
Consistent(r) ==
    r.prev \in 0..Last(r.dst) /\ TermAt(r.dst, r.prev) = r.prevTerm

(* The entries of the request that conflict with the log. *)
Conflicts(r) ==
    {k \in DOMAIN r.entries :
        r.prev + k <= Last(r.dst) /\ log[r.dst][r.prev + k] # r.entries[k]}

(* Mutant: TruncateFrom cuts committed entries too. *)
RefusedNever(r) == FALSE

(* TruncateFrom refuses to cut the first of them. *)
Refused(r) ==
    /\ Consistent(r)
    /\ \E k \in Conflicts(r) :
         /\ \A j \in Conflicts(r) : k <= j
         /\ r.prev + k <= commitIndex[r.dst]

AppendInconsistent(r) ==
    /\ ~Consistent(r)
    /\ accepted' = accepted \ {r}
    /\ Conflict(r, IF r.prev > Last(r.dst) THEN Last(r.dst) + 1 ELSE r.prev)
    /\ UNCHANGED <<nodeVars, logVars, leadVars, requests, catchups, windows>>

AppendRefused(r) ==
    /\ Refused(r)
    /\ accepted' = accepted \ {r}
    /\ Conflict(r, 0)
    /\ UNCHANGED <<nodeVars, logVars, leadVars, requests, catchups, windows>>

(* Mutant: entries the log has an index for are skipped, conflict or not. *)
MergedWithoutTruncation(r) ==
    IF r.prev + Len(r.entries) <= Last(r.dst)
    THEN log[r.dst]
    ELSE log[r.dst] \o SubSeq(r.entries, Last(r.dst) - r.prev + 1, Len(r.entries))

(* The log after the loop: unchanged if it has all the entries already. *)
Merged(r) ==
    IF Conflicts(r) = {} /\ r.prev + Len(r.entries) <= Last(r.dst)
    THEN log[r.dst]
    ELSE Prefix(r.dst, r.prev) \o r.entries

AppendDone(r) ==
    LET n == r.dst
        i == Min(r.commit, Len(Merged(r)))
        commits == i > commitIndex[n]
    IN  /\ Consistent(r) /\ ~Refused(r)
        /\ accepted' = accepted \ {r}
        /\ log' = [log EXCEPT ![n] = Merged(r)]
        /\ commitIndex' = [commitIndex EXCEPT ![n] = IF commits THEN i ELSE @]
        /\ Answer(r, [kind |-> "Success", src |-> r.src, dst |-> n, term |-> r.term,
                      last |-> r.prev + Len(r.entries)])
        /\ windows' = windows
             \cup (IF commits /\ Blind(r, Merged(r), i) THEN {"blind"} ELSE {})
             \cup (IF currentTerm[n] # r.term THEN {"late"} ELSE {})
        /\ UNCHANGED <<nodeVars, leadVars, requests, catchups>>

Next ==
    \/ \E n \in Node :
         \/ \E P \in SUBSET Node : Campaign(n, P)
         \/ Replicate(n)
         \/ \E p \in Node : Tick(n, p)
    \/ \E r \in requests : Reject(r) \/ Heartbeat(r) \/ AcceptAppend(r)
    \/ \E r \in accepted : AppendInconsistent(r) \/ AppendRefused(r) \/ AppendDone(r)
    \/ \E q \in replies : ReplySuccess(q) \/ ReplyConflict(q) \/ ReplyHigher(q)
    \/ \E c \in catchups : CatchUpRead(c) \/ CatchUpSend(c)
    \/ Lose

Spec == Init /\ [][Next]_vars

------------------------------------------------------------------------------
TypeOK ==
    /\ currentTerm \in [Node -> Term]
    /\ voted \in [Node -> BOOLEAN]
    /\ state \in [Node -> {"Follower", "Leader"}]
    /\ log \in [Node -> Seq(1..MaxTerm)]
    /\ \A n \in Node : commitIndex[n] \in 0..Last(n)
    /\ nextIndex \in [Node -> [Node -> 1..(MaxIndex + 1)]]
    /\ matchIndex \in [Node -> [Node -> 0..MaxIndex]]
    /\ windows \subseteq {"late", "blind", "stale"}

(* Two logs with the same term at an index are the same up to it, whatever  *)
(* heartbeats and replies do: only a late AppendEntries breaks it.          *)
LogMatching ==
    "late" \notin windows =>
        \A n, m \in Node : \A i \in 1..Min(Last(n), Last(m)) :
            log[n][i] = log[m][i] => Prefix(n, i) = Prefix(m, i)

(* What replicas have committed agrees, until one of the windows is hit.    *)
CommittedAgree ==
    windows = {} =>
        \A n, m \in Node : \A i \in 1..Min(commitIndex[n], commitIndex[m]) :
            log[n][i] = log[m][i]

(* The leader of the highest term has whatever any replica has committed.   *)
LeaderComplete ==
    windows = {} =>
        \A n, m \in Node :
            state[n] = "Leader" /\ (\A k \in Node : currentTerm[k] <= currentTerm[n])
            => /\ commitIndex[m] <= Last(n)
               /\ Prefix(n, commitIndex[m]) = Prefix(m, commitIndex[m])

(* matchIndex counts copies that are there: as long as the peer follows the *)
(* leader's term, its log is the leader's up to matchIndex.                 *)
MatchIsCopy ==
    windows \subseteq {"blind"} =>
        \A n, m \in Node :
            state[n] = "Leader" /\ m # n /\ currentTerm[m] <= currentTerm[n]
            => /\ matchIndex[n][m] <= Min(Last(n), Last(m))
               /\ Prefix(m, matchIndex[n][m]) = Prefix(n, matchIndex[n][m])

(* log.go:121-123: a truncation at or below the commit index "indicates a   *)
(* bug in the caller".  Until a window is hit, no AppendEntries of the term  *)
(* its node is in asks for one.  (A request of an earlier term that is held  *)
(* after its critical section may: the node has since followed, and         *)
(* committed for, a later leader, and the truncation is refused.)           *)
RefusedOnlyThroughWindow ==
    windows = {} => \A r \in accepted : r.term = currentTerm[r.dst] => ~Refused(r)

(* What the replicas have committed is a log that ReplicatedLog allows: an  *)
(* entry that a replica has committed is never cut or replaced, not even by *)
(* an AppendEntries that comes late, and until a window is hit all commit   *)
(* one sequence.                                                            *)
Committed == [n \in Node |-> Prefix(n, commitIndex[n])]

Replicated ==
    INSTANCE ReplicatedLog WITH
        Entry <- 1..MaxTerm, applied <- Committed, agreed <- windows = {}

ImplementsReplicatedLog == Replicated!Spec
==============================================================================
