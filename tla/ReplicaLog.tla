----------------------------- MODULE ReplicaLog -----------------------------
(***************************************************************************)
(* The log of one replica: RaftLog (replica/log/log.go) in memory, the WAL *)
(* (replica/log/wal.go) behind it, and a process that dies and comes back. *)
(* The callers are those of replica/raft: Replicate appends as the leader, *)
(* AppendEntries appends and truncates as a follower, Heartbeat,           *)
(* AppendEntries and advanceCommitTo commit, and the term and the vote are *)
(* written to the same file.  Callers do not run concurrently here.        *)
(***************************************************************************)
EXTENDS Integers, Sequences, FiniteSets

CONSTANTS
    MaxTerm,    \* bound on the terms
    MaxIndex,   \* bound on the indexes of entries
    MaxLines,   \* bound on the lines of the WAL
    MaxCrash    \* bound on the crashes

ASSUME LogBounds ==
    MaxTerm \in Nat /\ MaxIndex \in Nat /\ MaxLines \in Nat /\ MaxCrash \in Nat

VARIABLES
    up,           \* the process runs
    entries,      \* RaftLog.entries: a sequence of [index, term]
    commitIndex,  \* RaftLog.commitIndex
    nodeCommit,   \* RaftNode.commitIndex, which a restart leaves at 0
    term,         \* RaftNode.currentTerm
    wal,          \* the lines of wal.log
    unended,      \* the last line has no newline: a write was cut short
    torn,         \* history: some write was cut short
    truncated,    \* history: entries were truncated
    mixed,        \* history: a WAL with truncated entries was replayed
    commits,      \* history: the entries ever committed
    crashes

logVars == <<entries, commitIndex, nodeCommit, term>>
vars == <<up, logVars, wal, unended, torn, truncated, mixed, commits, crashes>>

Entry == [index : 1..MaxIndex, term : 1..MaxTerm]

(* Lines of the WAL.  VOTE records go the way of TERM records and are left  *)
(* out; a line no json.Unmarshal accepts is a Garbled one.                  *)
EntryLine(e)  == [type |-> "ENTRY", entry |-> e]
TermLine(t)   == [type |-> "TERM", term |-> t]
CommitLine(c) == [type |-> "COMMIT", commit |-> c]
Garbled       == [type |-> "GARBLED"]

------------------------------------------------------------------------------
(* Reading a sequence of entries.                                           *)

Has(s, i) == \E k \in DOMAIN s : s[k].index = i

(* GetEntry scans from the front and returns the first match. *)
GetEntry(s, i) ==
    s[CHOOSE k \in DOMAIN s : s[k].index = i /\ \A j \in 1..(k - 1) : s[j].index # i]

LastIndex(s) == IF s = <<>> THEN 0 ELSE s[Len(s)].index

(* Mutant: nothing is cut. *)
CutNothing(s, i) == s

(* TruncateFrom cuts before the first entry of index i or more. *)
Cut(s, i) ==
    LET kept == {k \in DOMAIN s : \A j \in 1..k : s[j].index < i}
    IN  [k \in kept |-> s[k]]

EntryLines(w) == {k \in DOMAIN w : w[k].type = "ENTRY"}

UpTo(w, k) == Cardinality({j \in EntryLines(w) : j <= k})

(* Replay: the entries of the file in its order, whatever their indexes.    *)
Entries(w) ==
    [n \in 1..Cardinality(EntryLines(w)) |->
        w[CHOOSE k \in EntryLines(w) : UpTo(w, k) = n].entry]

LastOf(w, type, none) ==
    LET at == {k \in DOMAIN w : w[k].type = type}
    IN  IF at = {} THEN none ELSE w[CHOOSE k \in at : \A j \in at : j <= k]

WalTerm(w) == LastOf(w, "TERM", TermLine(0)).term

WalCommit(w) == LastOf(w, "COMMIT", CommitLine(0)).commit

(* json.Encoder writes the record and a newline at the end of the file: an  *)
(* unended line swallows the record.                                        *)
Written(w, open, line) ==
    IF open THEN [w EXCEPT ![Len(w)] = Garbled] ELSE Append(w, line)

Readable(e) == Has(entries, e.index) /\ GetEntry(entries, e.index) = e

------------------------------------------------------------------------------
Init ==
    /\ up = TRUE
    /\ entries = <<>> /\ commitIndex = 0 /\ nodeCommit = 0 /\ term = 0
    /\ wal = <<>> /\ unended = FALSE
    /\ torn = FALSE /\ truncated = FALSE /\ mixed = FALSE /\ commits = {} /\ crashes = 0

(* Mutant: memory changes, the file does not. *)
NothingWritten(line) ==
    /\ Len(wal) < MaxLines
    /\ UNCHANGED <<wal, unended>>

(* WAL.write returns: the record is on disk. *)
WalWrite(line) ==
    /\ Len(wal) < MaxLines
    /\ wal' = Written(wal, unended, line)
    /\ unended' = FALSE

(* becomeFollowerLocked or startElection enters a higher term. *)
AdoptTerm(t) ==
    /\ up /\ t > term
    /\ WalWrite(TermLine(t))
    /\ term' = t
    /\ UNCHANGED <<up, entries, commitIndex, nodeCommit, torn, truncated, mixed, commits, crashes>>

(* AppendEntry. *)
AppendEntry(base, e) ==
    /\ WalWrite(EntryLine(e))
    /\ entries' = Append(base, e)

(* Mutant: the new entry gets the index of the last one. *)
ReplicateAtLast ==
    /\ up /\ term > 0 /\ LastIndex(entries) < MaxIndex
    /\ AppendEntry(entries, [index |-> LastIndex(entries), term |-> term])
    /\ UNCHANGED <<up, commitIndex, nodeCommit, term, torn, truncated, mixed, commits, crashes>>

(* Replicate: the leader appends at the end of its log. *)
Replicate ==
    /\ up /\ term > 0 /\ LastIndex(entries) < MaxIndex
    /\ AppendEntry(entries, [index |-> LastIndex(entries) + 1, term |-> term])
    /\ UNCHANGED <<up, commitIndex, nodeCommit, term, torn, truncated, mixed, commits, crashes>>

(* AppendEntries, one turn of its loop, for an entry that the log lacks.    *)
(* The consistency check has found the entry before it.                     *)
AppendMissing(e) ==
    /\ up /\ e.term <= term
    /\ e.index = 1 \/ Has(entries, e.index - 1)
    /\ ~Has(entries, e.index)
    /\ AppendEntry(entries, e)
    /\ UNCHANGED <<up, commitIndex, nodeCommit, term, torn, truncated, mixed, commits, crashes>>

(* Mutant: off by one. *)
RefusesBelow(i) == i < commitIndex

(* TruncateFrom returns an error: the loop ends, the RPC fails.             *)
Refuses(i) == i <= commitIndex

(* AppendEntries, one turn of its loop, for an entry of another term than   *)
(* the one the log has: TruncateFrom and AppendEntry.                       *)
ReplaceConflict(e) ==
    /\ up /\ e.term <= term
    /\ e.index = 1 \/ Has(entries, e.index - 1)
    /\ Has(entries, e.index) /\ GetEntry(entries, e.index).term # e.term
    /\ ~Refuses(e.index)
    /\ AppendEntry(Cut(entries, e.index), e)
    /\ truncated' = TRUE
    /\ UNCHANGED <<up, commitIndex, nodeCommit, term, torn, mixed, commits, crashes>>

(* The commit index after a commit: Heartbeat and advanceCommitTo compare   *)
(* with RaftNode.commitIndex, AppendEntries with RaftLog.commitIndex.       *)
MayCommit(i) == i > nodeCommit /\ i <= LastIndex(entries)

Commit(i) ==
    /\ up /\ MayCommit(i)
    /\ WalWrite(CommitLine(i))
    /\ commitIndex' = i /\ nodeCommit' = i
    /\ commits' = commits \cup
         {GetEntry(entries, j) : j \in {k \in 1..i : Has(entries, k)}}
    /\ UNCHANGED <<up, entries, term, torn, truncated, mixed, crashes>>

(* The process dies between two operations. *)
Die ==
    /\ up /\ crashes < MaxCrash
    /\ up' = FALSE
    /\ entries' = <<>> /\ commitIndex' = 0 /\ nodeCommit' = 0 /\ term' = 0
    /\ crashes' = crashes + 1

Crash == Die /\ UNCHANGED <<wal, unended, torn, truncated, mixed, commits>>

(* The records an operation may be writing. *)
Pending ==
    {TermLine(t) : t \in (term + 1)..MaxTerm}
      \cup {CommitLine(i) : i \in {j \in 1..MaxIndex : MayCommit(j)}}
      \cup {EntryLine(e) : e \in
              {f \in Entry : f.term <= term /\ (f.index = 1 \/ Has(entries, f.index - 1))
                                /\ ~Has(entries, f.index)}}

(* The process dies in WAL.write.  The record is complete, or lacks its     *)
(* newline, or only a part of it is in the file.                            *)
CrashWriting(line) ==
    /\ Die /\ Len(wal) < MaxLines
    /\ \/ /\ wal' = Written(wal, unended, line)
          /\ unended' = FALSE /\ torn' = torn
       \/ /\ wal' = Written(wal, unended, line)
          /\ unended' = TRUE /\ torn' = TRUE
       \/ /\ wal' = Written(wal, unended, Garbled)
          /\ unended' = TRUE /\ torn' = TRUE
    /\ UNCHANGED <<truncated, mixed, commits>>

(* Mutant: the commit index is not restored. *)
RestartUncommitted ==
    /\ ~up
    /\ up' = TRUE
    /\ entries' = Entries(wal) /\ commitIndex' = 0 /\ nodeCommit' = 0
    /\ term' = WalTerm(wal)
    /\ mixed' = (mixed \/ truncated)
    /\ UNCHANGED <<wal, unended, torn, truncated, commits, crashes>>

(* LoadFromWAL and RestoreState. *)
Restart ==
    /\ ~up
    /\ up' = TRUE
    /\ entries' = Entries(wal) /\ commitIndex' = WalCommit(wal) /\ nodeCommit' = 0
    /\ term' = WalTerm(wal)
    /\ mixed' = (mixed \/ truncated)
    /\ UNCHANGED <<wal, unended, torn, truncated, commits, crashes>>

Next ==
    \/ \E t \in 1..MaxTerm : AdoptTerm(t)
    \/ Replicate
    \/ \E e \in Entry : AppendMissing(e) \/ ReplaceConflict(e)
    \/ \E i \in 1..MaxIndex : Commit(i)
    \/ Crash \/ (\E line \in Pending : CrashWriting(line)) \/ Restart

Spec == Init /\ [][Next]_vars

------------------------------------------------------------------------------
TypeOK ==
    /\ up \in BOOLEAN /\ unended \in BOOLEAN
    /\ torn \in BOOLEAN /\ truncated \in BOOLEAN
    /\ entries \in Seq(Entry)
    /\ commitIndex \in 0..MaxIndex /\ nodeCommit \in 0..commitIndex
    /\ term \in 0..MaxTerm
    /\ Len(wal) <= MaxLines
    /\ commits \subseteq Entry
    /\ crashes \in 0..MaxCrash

(* The last record the WAL has of an index is the entry in memory, however  *)
(* often the log was truncated, until a write is cut short or a WAL with    *)
(* truncated entries is replayed: a replay in which the last record of an   *)
(* index wins would restore every entry.                                    *)
LastEntry(s, i) ==
    s[CHOOSE k \in DOMAIN s : s[k].index = i /\ \A j \in (k + 1)..Len(s) : s[j].index # i]

LastRecordIsCurrent ==
    up /\ ~torn /\ ~mixed =>
        \A i \in 1..MaxIndex :
            Has(entries, i) => /\ Has(Entries(wal), i)
                               /\ LastEntry(Entries(wal), i) = GetEntry(entries, i)

(* Until then the entry at position k has index k, as LastIndex, GetEntry   *)
(* and the nextIndex arithmetic of a leader expect.                         *)
Dense ==
    ~torn /\ ~mixed => \A k \in DOMAIN entries : entries[k].index = k

(* While the process runs, no entry at or below the commit index changes,   *)
(* whatever a leader sends (TruncateFrom's guard), as long as the log is    *)
(* Dense: one with gaps or repetitions cuts at another place than it reads. *)
CommittedFrozen ==
    [][up /\ up' /\ ~torn /\ ~mixed => \A i \in 1..commitIndex :
          Has(entries, i) => Has(entries', i) /\ GetEntry(entries', i) = GetEntry(entries, i)]_vars

(* Without truncations and torn writes a restart gives back every entry     *)
(* that was ever committed; the first one also the commit index.            *)
RestartRestores ==
    [][~up /\ up' /\ ~torn /\ ~truncated =>
          \A e \in commits : Readable(e)' /\ (crashes = 1 => e.index <= commitIndex')]_vars
==============================================================================
