--------------------------- MODULE ClientRequests ---------------------------
(***************************************************************************)
(* POST /stroke, POST /undo and GET /entries at one replica (replica/       *)
(* main.go), and RaftNode.Replicate with its commit notifiers (replica/raft *)
(* /node.go), while the replica wins and loses leaderships.                 *)
(*                                                                          *)
(* A notifier belongs to an index, not to an entry: an index that is        *)
(* truncated and written again while a request waits is what these          *)
(* properties are about.  The other replicas are the environment: they      *)
(* depose this one, replace what it has not committed, and tell it what to  *)
(* commit.  The replica has peers (advanceCommitTo is not called by         *)
(* Replicate itself) and does not crash.                                    *)
(***************************************************************************)
EXTENDS Integers, FiniteSets, Sequences

CONSTANTS
    Request,  \* strokes and undos posted by the gateway
    Other,    \* the requests other replicas served
    MaxTerm,  \* bound on the terms
    MaxIndex  \* bound on the length of the log

ASSUME RequestAssumption == IsFiniteSet(Request) /\ Other \notin Request
ASSUME LimitAssumption == MaxTerm \in Nat /\ MaxIndex \in Nat

VARIABLES
    state, currentTerm,
    log,         \* entries [term, by], entry k at index k
    commitIndex,
    notifiers,   \* commitNotifiers: the request that waits for an index
    signalled,   \* requests whose channel holds a signal
    pc,          \* how far the handler of a request is
    index,       \* the index Replicate gave to a request
    reader,      \* a GET /entries between its two reads
    response,    \* what the last GET /entries answered
    led,         \* history: the terms this replica has led
    made,        \* history: the log as the request's append left it
    cut,         \* history: requests whose entry has been truncated
    posted       \* history: the indexes onCommit was called for

nodeVars == <<state, currentTerm, led>>
waitVars == <<notifiers, signalled, pc, index, made>>
readVars == <<reader, response>>
vars == <<nodeVars, log, commitIndex, waitVars, readVars, cut, posted>>

Entry == [term : 1..MaxTerm, by : Request \cup {Other}]

Prefix(s, i) == SubSeq(s, 1, i)

TermAt(i) == IF i \in DOMAIN log THEN log[i].term ELSE 0

Init ==
    /\ state = "Follower" /\ currentTerm = 0 /\ led = {}
    /\ log = <<>> /\ commitIndex = 0
    /\ notifiers = <<>> /\ signalled = {}
    /\ pc = [r \in Request |-> "new"]
    /\ index = [r \in Request |-> 0]
    /\ made = [r \in Request |-> <<>>]
    /\ reader = <<>> /\ response = <<>>
    /\ cut = {} /\ posted = {}

------------------------------------------------------------------------------
(* The handlers of strokes and undos. *)

(* GetState: a request at a follower is refused with 503. *)
CheckLeader(r) ==
    /\ pc[r] = "new"
    /\ pc' = [pc EXCEPT ![r] = IF state = "Leader" THEN "checked" ELSE "refused"]
    /\ UNCHANGED <<nodeVars, log, commitIndex, notifiers, signalled, index, made,
                   readVars, cut, posted>>

WithNotifier(i, r) ==
    [j \in DOMAIN notifiers \cup {i} |-> IF j = i THEN r ELSE notifiers[j]]

Without(I) == [j \in DOMAIN notifiers \ I |-> notifiers[j]]

(* The critical section of Replicate, which looks at the state again.       *)
Replicate(r) ==
    /\ pc[r] = "checked"
    /\ IF state # "Leader"
       THEN /\ pc' = [pc EXCEPT ![r] = "refused"]
            /\ UNCHANGED <<log, notifiers, index, made>>
       ELSE /\ Len(log) < MaxIndex
            /\ log' = Append(log, [term |-> currentTerm, by |-> r])
            /\ index' = [index EXCEPT ![r] = Len(log')]
            /\ made' = [made EXCEPT ![r] = log']
            /\ notifiers' = WithNotifier(Len(log'), r)
            /\ pc' = [pc EXCEPT ![r] = "waiting"]
    /\ UNCHANGED <<nodeVars, commitIndex, signalled, readVars, cut, posted>>

(* The select of Replicate takes the signal, and the handler answers 200. *)
Answer(r) ==
    /\ pc[r] = "waiting" /\ r \in signalled
    /\ pc' = [pc EXCEPT ![r] = "committed"]
    /\ UNCHANGED <<nodeVars, log, commitIndex, notifiers, signalled, index, made,
                   readVars, cut, posted>>

(* Or the timer, which may win over a signal. *)
Expire(r) ==
    /\ pc[r] = "waiting"
    /\ pc' = [pc EXCEPT ![r] = "expired"]
    /\ UNCHANGED <<nodeVars, log, commitIndex, notifiers, signalled, index, made,
                   readVars, cut, posted>>

(* Mutant: the notifier of the last index is deleted. *)
ForgottenLast(r) == {Len(log)}

(* The notifier deleted by a request that timed out, whoever it belongs to. *)
Forgotten(r) == {index[r]}

(* It is deleted under the mutex, and the handler answers 503. *)
TimeOut(r) ==
    /\ pc[r] = "expired"
    /\ notifiers' = Without(Forgotten(r))
    /\ pc' = [pc EXCEPT ![r] = "timeout"]
    /\ UNCHANGED <<nodeVars, log, commitIndex, signalled, index, made, readVars, cut, posted>>

(* Mutant: GET /entries copies the log before it reads the commit index. *)
ReadEntriesLogFirst ==
    /\ \/ reader = <<>> /\ reader' = <<log>> /\ UNCHANGED response
       \/ /\ reader # <<>> /\ reader' = <<>>
          /\ response' = Prefix(reader[1],
                IF commitIndex < Len(reader[1]) THEN commitIndex ELSE Len(reader[1]))
    /\ UNCHANGED <<nodeVars, log, commitIndex, waitVars, cut, posted>>

(* GET /entries reads the commit index, then the entries. *)
ReadEntries ==
    /\ \/ reader = <<>> /\ reader' = <<commitIndex>> /\ UNCHANGED response
       \/ reader # <<>> /\ reader' = <<>> /\ response' = Prefix(log, reader[1])
    /\ UNCHANGED <<nodeVars, log, commitIndex, waitVars, cut, posted>>

------------------------------------------------------------------------------
(* The replica in its cluster. *)

BecomeLeader ==
    /\ state = "Follower" /\ currentTerm < MaxTerm
    /\ state' = "Leader" /\ currentTerm' = currentTerm + 1
    /\ led' = led \cup {currentTerm + 1}
    /\ UNCHANGED <<log, commitIndex, waitVars, readVars, cut, posted>>

(* A message of another replica's term. *)
BecomeFollower ==
    /\ currentTerm < MaxTerm
    /\ state' = "Follower" /\ currentTerm' = currentTerm + 1
    /\ UNCHANGED <<led, log, commitIndex, waitVars, readVars, cut, posted>>

(* Mutant: the notifier after the committed index is signalled. *)
NotifiedNext(i) == {notifiers[j] : j \in DOMAIN notifiers \cap (commitIndex + 1)..(i + 1)}

(* The requests whose notifiers are signalled up to i. *)
Notified(i) == {notifiers[j] : j \in DOMAIN notifiers \cap (commitIndex + 1)..i}

Posted(i) == (commitIndex + 1)..i

(* advanceCommitTo(i), of an entry of the current term that enough replicas *)
(* have: it signals, and starts onCommit for, every entry up to i.          *)
AdvanceCommitTo(i) ==
    /\ state = "Leader" /\ i \in (commitIndex + 1)..Len(log)
    /\ log[i].term = currentTerm
    /\ commitIndex' = i
    /\ signalled' = signalled \cup Notified(i)
    /\ notifiers' = Without(1..i)
    /\ posted' = posted \cup Posted(i)
    /\ UNCHANGED <<nodeVars, log, pc, index, made, readVars, cut>>

(* Heartbeat or AppendEntries commit at a follower: nobody is notified.     *)
FollowerCommit(i) ==
    /\ state = "Follower" /\ i \in (commitIndex + 1)..Len(log)
    /\ commitIndex' = i
    /\ UNCHANGED <<nodeVars, log, waitVars, readVars, cut, posted>>

(* Another leader puts e at index k + 1, truncating there if it conflicts.  *)
(* The entry is of a leader this replica was not, or its own, come back.    *)
FollowerAppend(k, e) ==
    /\ state = "Follower" /\ k \in commitIndex..Len(log) /\ k < MaxIndex
    /\ TermAt(k) <= e.term /\ TermAt(k + 1) # e.term
    /\ IF e.by = Other THEN e.term \in (1..currentTerm) \ led
                       ELSE made[e.by] = Append(Prefix(log, k), e)
    /\ log' = Append(Prefix(log, k), e)
    /\ cut' = cut \cup ({log[j].by : j \in (k + 1)..Len(log)} \ {Other})
    /\ UNCHANGED <<nodeVars, commitIndex, waitVars, readVars, posted>>

(* A stroke and an undo go the same way. *)
HandlerStep(r) == CheckLeader(r) \/ Replicate(r) \/ Answer(r) \/ Expire(r) \/ TimeOut(r)

Next ==
    \/ \E r \in Request : HandlerStep(r)
    \/ ReadEntries
    \/ BecomeLeader \/ BecomeFollower
    \/ \E i \in 1..MaxIndex : AdvanceCommitTo(i) \/ FollowerCommit(i)
    \/ \E k \in 0..MaxIndex, e \in Entry : FollowerAppend(k, e)

Spec == Init /\ [][Next]_vars

------------------------------------------------------------------------------
TypeOK ==
    /\ state \in {"Follower", "Leader"} /\ currentTerm \in 0..MaxTerm
    /\ log \in Seq(Entry) /\ commitIndex \in 0..Len(log)
    /\ DOMAIN notifiers \subseteq 1..MaxIndex
    /\ \A i \in DOMAIN notifiers : index[notifiers[i]] = i
    /\ pc \in [Request -> {"new", "checked", "refused", "waiting", "committed",
                           "expired", "timeout"}]

(* The entry of r is in the log, and is committed. *)
Committed(r) == index[r] \in 1..commitIndex /\ log[index[r]].by = r

(* node.go:392-393: Replicate "blocks until committed (or timeout)" and     *)
(* "Returns the committed entry or an error".  It does, and the entry stays, *)
(* unless it was truncated while the request waited: then the notifier of   *)
(* its index may answer for another entry.                                  *)
AckedUnlessCut ==
    \A r \in Request \ cut : pc[r] = "committed" => Committed(r)

(* No other request was ever given the index of r. *)
OwnIndex(r) == \A q \in Request \ {r} : index[q] # index[r]

(* A request that waits is found by the commit of its entry, through any     *)
(* leadership that leaves the entry in place: its notifier is registered    *)
(* until this replica, as a leader, commits the entry, and then signalled.  *)
NotifierOwned ==
    \A r \in Request \ cut :
        pc[r] = "waiting" /\ OwnIndex(r) =>
            /\ index[r] > commitIndex =>
                 index[r] \in DOMAIN notifiers /\ notifiers[index[r]] = r
            /\ index[r] \in posted => r \in signalled

(* GET /entries answers a prefix of what is committed, although it reads    *)
(* the commit index and the entries one after the other.                    *)
SnapshotCommitted ==
    Len(response) <= commitIndex /\ response = Prefix(log, Len(response))
==============================================================================
