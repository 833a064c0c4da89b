--------------------------- MODULE FollowerAppend ---------------------------
(***************************************************************************)
(* The handlers of AppendEntries at one follower (replica/raft/            *)
(* rpc_server.go) call the log (replica/log/log.go) without the mutex of    *)
(* the node, one locked call after another: two handlers, of a tick and of  *)
(* catchUpPeer or of two leaders, interleave between any two calls.         *)
(* RaftReplication takes the loop as one step; here each call is a step.    *)
(*                                                                          *)
(* The leader of a term is a constant log: what it sends is a segment of it.*)
(***************************************************************************)
EXTENDS Integers, FiniteSets, Sequences

CONSTANTS
    Handler,      \* the handlers that may run at once
    LeaderLog,    \* LeaderLog[t][i]: the term of entry i of the leader of t
    LeaderCommit  \* LeaderCommit[t]: how far the leader of t commits

Term == DOMAIN LeaderLog

ASSUME HandlerAssumption == IsFiniteSet(Handler)

ASSUME LeaderAssumption ==
    /\ Term \subseteq Nat \ {0}
    /\ \A t \in Term :
         LeaderLog[t] \in Seq(Term) /\ LeaderCommit[t] \in 0..Len(LeaderLog[t])

(* The logs of two leaders that agree on an entry agree on all before it.   *)
ASSUME MatchingAssumption ==
    \A t, u \in Term : \A i \in DOMAIN LeaderLog[t] \cap DOMAIN LeaderLog[u] :
        LeaderLog[t][i] = LeaderLog[u][i] =>
            \A j \in 1..i : LeaderLog[t][j] = LeaderLog[u][j]

(* A later leader has what an earlier one committed. *)
ASSUME CompletenessAssumption ==
    \A t, u \in Term : t < u =>
        /\ LeaderCommit[t] <= Len(LeaderLog[u])
        /\ \A i \in 1..LeaderCommit[t] : LeaderLog[u][i] = LeaderLog[t][i]

VARIABLES
    currentTerm,
    log,         \* entries in the order of the slice, with their index
    commitIndex, \* RaftLog.commitIndex
    nodeCommit,  \* RaftNode.commitIndex
    handler,     \* what each handler is doing
    acked,       \* history: highest index acknowledged to the current leader
    windows      \* history: the interleavings that went wrong

vars == <<currentTerm, log, commitIndex, nodeCommit, handler, acked, windows>>

Idle == [pc |-> "idle"]

Index == UNION {DOMAIN LeaderLog[t] : t \in Term}

Lesser(i, j) == IF i <= j THEN i ELSE j

(* GetEntry returns the first entry of an index: the positions it may take. *)
Positions(i) == {k \in DOMAIN log : log[k].index = i}

(* The term GetEntry(i) reports, 0 if there is no such entry. *)
GetEntry(i) ==
    IF Positions(i) = {} THEN 0
    ELSE log[CHOOSE k \in Positions(i) : \A j \in Positions(i) : k <= j].term

LastIndex == IF log = <<>> THEN 0 ELSE log[Len(log)].index

(* Mutant: an entry at the index will do, whatever its term. *)
SeenByIndex(t, i) == IF GetEntry(i) = 0 THEN "missing" ELSE "same"

(* What the loop finds at an index of the request. *)
Seen(t, i) ==
    IF GetEntry(i) = 0 THEN "missing"
    ELSE IF GetEntry(i) = LeaderLog[t][i] THEN "same" ELSE "conflict"

Init ==
    /\ currentTerm = 0 /\ log = <<>> /\ commitIndex = 0 /\ nodeCommit = 0
    /\ handler = [h \in Handler |-> Idle]
    /\ acked = 0 /\ windows = {}

Goto(h, r) == handler' = [handler EXCEPT ![h] = r]

Adopt(t) ==
    /\ t >= currentTerm
    /\ currentTerm' = t
    /\ acked' = IF t > currentTerm THEN 0 ELSE acked

(* The critical section of AppendEntries: entries prev + 1 .. last. *)
Accept(h, t, prev, last, commit) ==
    /\ handler[h] = Idle
    /\ Adopt(t)
    /\ Goto(h, [pc |-> "check", term |-> t, next |-> prev + 1, last |-> last,
                commit |-> commit])
    /\ UNCHANGED <<log, commitIndex, nodeCommit, windows>>

(* Mutant: the entry at prevLogIndex may be of any term. *)
PrevExists(r) == r.next = 1 \/ GetEntry(r.next - 1) # 0

PrevMatches(r) ==
    \/ r.next = 1
    \/ GetEntry(r.next - 1) = LeaderLog[r.term][r.next - 1]

(* The consistency check. *)
Check(h) ==
    LET r == handler[h]
    IN  /\ r.pc = "check"
        /\ Goto(h, IF PrevMatches(r) THEN [r EXCEPT !.pc = "look"] ELSE Idle)
        /\ UNCHANGED <<currentTerm, log, commitIndex, nodeCommit, acked, windows>>

(* GetEntry in the loop. *)
Look(h) ==
    LET r == handler[h]
        found == Seen(r.term, r.next)
    IN  /\ r.pc = "look" /\ r.next <= r.last
        /\ Goto(h, CASE found = "same"     -> [r EXCEPT !.next = @ + 1]
                     [] found = "conflict" -> [r EXCEPT !.pc = "truncate"]
                     [] found = "missing"  -> [r EXCEPT !.pc = "append"])
        /\ UNCHANGED <<currentTerm, log, commitIndex, nodeCommit, acked, windows>>

(* The handler changes the log after the follower has moved on to a later    *)
(* leader.                                                                  *)
Late(r) == IF r.term # currentTerm THEN {"late"} ELSE {}

(* Another handler is about to act on its answer of GetEntry. *)
Stale(h) ==
    IF \E g \in Handler \ {h} : handler[g].pc \in {"truncate", "append"}
    THEN {"stale"} ELSE {}

(* Mutant: one entry too many stays. *)
KeepFirst(i) == {k \in DOMAIN log : \A j \in 1..k : log[j].index <= i}

(* What TruncateFrom(i) keeps: all before the first index at or above i. *)
Kept(i) == {k \in DOMAIN log : \A j \in 1..k : log[j].index < i}

(* TruncateFrom; it refuses at or below the commit index, and the handler   *)
(* returns.                                                                 *)
TruncateFrom(h) ==
    LET r == handler[h]
    IN  /\ r.pc = "truncate"
        /\ IF r.next <= commitIndex
           THEN Goto(h, Idle) /\ UNCHANGED <<log, windows>>
           ELSE /\ log' = SubSeq(log, 1, Cardinality(Kept(r.next)))
                /\ Goto(h, [r EXCEPT !.pc = "append"])
                /\ windows' = windows \cup Stale(h) \cup Late(r)
        /\ UNCHANGED <<currentTerm, commitIndex, nodeCommit, acked>>

(* AppendEntry, after TruncateFrom or on a missing index. *)
AppendEntry(h) ==
    LET r == handler[h]
    IN  /\ r.pc = "append"
        /\ log' = Append(log, [index |-> r.next, term |-> LeaderLog[r.term][r.next]])
        /\ Goto(h, [r EXCEPT !.pc = "look", !.next = @ + 1])
        /\ windows' = windows \cup Stale(h) \cup Late(r)
        /\ UNCHANGED <<currentTerm, commitIndex, nodeCommit, acked>>

Goal(r) == Lesser(r.commit, LastIndex)

(* Mutant: a lower commit index is taken too. *)
RaisesOrLowers(r) == Goal(r) # commitIndex

Raises(r) == Goal(r) > commitIndex

Acknowledge(r) ==
    acked' = IF r.term = currentTerm /\ r.last > acked THEN r.last ELSE acked

(* The reads before Commit; without anything to commit the handler answers. *)
ReadCommit(h) ==
    LET r == handler[h]
    IN  /\ r.pc = "look" /\ r.next > r.last
        /\ IF Raises(r)
           THEN Goto(h, [r EXCEPT !.pc = "commit", !.commit = Goal(r)]) /\ UNCHANGED acked
           ELSE Goto(h, Idle) /\ Acknowledge(r)
        /\ windows' = IF Raises(r) /\ Goal(r) > r.last
                      THEN windows \cup {"blind"} ELSE windows
        /\ UNCHANGED <<currentTerm, log, commitIndex, nodeCommit>>

(* One of the handlers H is between the reads and the end of its commit. *)
Crossing(H) == \E g \in H : handler[g].pc \in {"commit", "publish"}

(* Commit writes what was computed, whatever the commit index is by now. *)
Commit(h) ==
    LET r == handler[h]
    IN  /\ r.pc = "commit"
        /\ commitIndex' = r.commit
        /\ Goto(h, [r EXCEPT !.pc = "publish"])
        /\ windows' = IF Crossing(Handler \ {h}) THEN windows \cup {"crossed"} ELSE windows
        /\ UNCHANGED <<currentTerm, log, nodeCommit, acked>>

(* The node's copy follows, and the handler answers. *)
Publish(h) ==
    LET r == handler[h]
    IN  /\ r.pc = "publish"
        /\ nodeCommit' = commitIndex
        /\ Goto(h, Idle)
        /\ Acknowledge(r)
        /\ UNCHANGED <<currentTerm, log, commitIndex, windows>>

(* Heartbeat compares with the node's copy, under its mutex, and commits    *)
(* what the follower has, checked or not.                                   *)
Heartbeat(t, commit) ==
    LET new == Lesser(commit, LastIndex)
    IN  /\ Adopt(t) /\ new > nodeCommit
        /\ commitIndex' = new /\ nodeCommit' = new
        /\ windows' = windows
             \cup (IF new > acked' THEN {"blind"} ELSE {})
             \cup (IF Crossing(Handler) THEN {"crossed"} ELSE {})
        /\ UNCHANGED <<log, handler>>

Next ==
    \/ \E t \in Term : \E commit \in 0..LeaderCommit[t] :
         \/ \E h \in Handler, last \in DOMAIN LeaderLog[t] : \E prev \in 0..(last - 1) :
              Accept(h, t, prev, last, commit)
         \/ Heartbeat(t, commit)
    \/ \E h \in Handler :
         \/ Check(h) \/ Look(h) \/ TruncateFrom(h) \/ AppendEntry(h)
         \/ ReadCommit(h) \/ Commit(h) \/ Publish(h)

Spec == Init /\ [][Next]_vars

------------------------------------------------------------------------------
TypeOK ==
    /\ currentTerm \in Term \cup {0}
    /\ \A k \in DOMAIN log : log[k].index \in Index /\ log[k].term \in Term
    /\ commitIndex \in Index \cup {0} /\ nodeCommit \in Index \cup {0}
    /\ acked \in Index \cup {0}
    /\ \A h \in Handler :
         handler[h].pc \in {"idle", "check", "look", "truncate", "append", "commit", "publish"}
    /\ windows \subseteq {"stale", "late", "blind", "crossed"}

(* An index is doubled or skipped only if the log changes between GetEntry  *)
(* and the call that acts on its answer, or a handler acts under a later    *)
(* leader than its own.                                                     *)
Dense == windows \subseteq {"blind", "crossed"} => \A k \in DOMAIN log : log[k].index = k

(* What was acknowledged to the leader of the current term is there, and is *)
(* what the vote rule of RequestVote sees, whatever the commit index does,  *)
(* unless a handler acts late or on a stale answer.                         *)
AckedHeld ==
    windows \subseteq {"blind", "crossed"} =>
        /\ acked <= LastIndex
        /\ \A i \in 1..acked : GetEntry(i) = LeaderLog[currentTerm][i]

(* A committed entry reads as the one the leaders committed, even after the *)
(* commit index fell back and rose again.                                   *)
CommittedReadable ==
    windows \subseteq {"crossed"} =>
        \A i \in 1..commitIndex : \E t \in Term :
            i <= LeaderCommit[t] /\ GetEntry(i) = LeaderLog[t][i]

(* The commit indexes fall back only after a heartbeat or another handler   *)
(* has committed between the reads and the end of a handler's commit.       *)
CommitFallsOnlyCrossing ==
    []["crossed" \notin windows' =>
         commitIndex' >= commitIndex /\ nodeCommit' >= nodeCommit]_vars
==============================================================================
