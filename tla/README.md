# Verification of the distributed drawing board (miniRAFT)

TLA+ models of the replicas of this repository, the configurations that check
them with TLC and the proofs TLAPS checks. Paths are relative to the
repository; line numbers are in `PROJECT.json`, under `map`.

## 1. The system

Browsers draw strokes on a canvas. A gateway forwards each stroke to the leader
of four replicas that keep a log with their own version of Raft, and broadcasts
every committed entry back to all browsers.

| Component | State | Operations | Talks to |
|---|---|---|---|
| Election (`replica/raft/election.go`, `node.go`, `rpc_server.go`) | `currentTerm`, `votedFor`, `state`, `leaderID`, election timer, heartbeat context | election loop, `startElection` with one goroutine per peer, `RequestVote`, `BecomeFollower`, `BecomeLeader`, `SyncLog` | peers over gRPC, the WAL |
| Log and WAL (`replica/log`) | `entries`, `commitIndex`; the lines of `wal.log` | `AppendEntry`, `TruncateFrom`, `Commit`, `Replay`, `LoadFromWAL` | file system |
| Replication (`heartbeat.go`, `rpc_server.go`, `node.go`) | `nextIndex`, `matchIndex`, `commitIndex` | `sendHeartbeats`, `catchUpPeer`, `AppendEntries`, `Heartbeat`, `tryAdvanceCommitIndex`, `advanceCommitTo`, `SyncFromPeers` | peers, log |
| Client requests (`node.go`, `replica/main.go`) | `commitNotifiers`, `onCommit` | `Replicate`, `strokeHandler`, `undoHandler`, `entriesHandler`, `notifyGatewayCommitted` | gateway over HTTP |
| Leader tracker (`gateway/leader`) | leader, term, last statuses | `poll` every 500 ms | `/status` of the replicas |
| WebSocket hub (`gateway/ws`, `gateway/main.go`) | clients with a queue of 256 messages, stroke buffer, seen stroke ids | `forwardStrokeToLeader`, `forwardUndoToLeader`, `drainBuffer`, `sendCanvasSync`, `BroadcastMessage` | tracker, leader, browsers |
| SSE hub (`gateway/sse`) | clients with a queue of 64 messages | `Broadcast` | dashboard |
| Chaos handler (`gateway/chaos`) | partitioned containers | stop, kill, partition, heal, heal after 15 s | Docker |
| Browser (`frontend/src`) | committed and pending strokes, undo and redo stacks, connection | messages of the hub, mouse, undo, redo, reconnect | hub |

What is hard:

* **Concurrency.** `RaftNode.mu` is released around every RPC, and often
  between a check and the act it is for. Vote goroutines, heartbeat goroutines,
  gRPC handlers and the election loop all run at once.
* **Failure.** A process can die between two records of one change, or inside
  one write. Docker restarts it.
* **Ordering.** Requests and replies of an earlier term arrive in a later one;
  the gRPC server is up before the node is started.
* **Boundaries.** The quorum expression, commit indexes after a restart, queues
  of a fixed size.

What makes each component correct: *election* – one vote per replica and term,
one winner per term, no term forgotten, elections that end, outranked leaders
that leave; *log* – dense indexes, committed entries that stay, a replay that
gives back what was there; *replication* – matching logs, committed entries that
every later leader has, a commit index only over matching entries; *client
requests* – an acknowledged stroke is committed, and it is the caller's; *hub* –
no stroke lost or applied twice, browsers that converge; *chaos* – a heal undoes
the partition it is for; *browser* – the canvas shows the committed strokes that
were not undone. `hazards` in `PROJECT.json` lists what a test would hardly
reach, each at its line, with the properties that cover it.

## 2. Modules

| Module | What it is |
|---|---|
| `TermElections` | Abstract specification: replicas vote once per term, in ascending terms; a candidate with a quorum of votes wins the term. |
| `ClusterStatus` | Abstract specification: the replicas as `GET /status` shows them, their roles, terms and leaders, and which can be reached. |
| `RaftElection` | The election code, one action per critical section of `RaftNode.mu`. |
| `RaftElectionProofs` | Theorems about `RaftElection`, for every cluster and every bound. |
| `ReplicaLog` | `RaftLog` and the WAL of one replica, with crashes. |
| `ReplicaLogProofs` | Theorems about `ReplicaLog`, for every bound. |
| `ReplicatedLog` | Abstract specification: what a replica has applied only grows, and any two replicas apply one sequence. |
| `RaftReplication` | Replication between replicas that do not crash: ticks, `AppendEntries`, `Heartbeat`, bookkeeping, catch-up, commits. |
| `RaftReplicationProofs` | Types, logs and commits of `RaftReplication`, and that it implements `ReplicatedLog`, for every cluster of odd size and every bound. |
| `FollowerAppend` | The handlers of `AppendEntries` and `Heartbeat` at one follower, one action per call of the log. |
| `FollowerAppendProofs` | Theorems about `FollowerAppend`, for any number of handlers and any logs of leaders. |
| `ClientRequests` | `Replicate`, its commit notifiers, `strokeHandler`, `undoHandler` and `entriesHandler` at one replica. |
| `ClientRequestsProofs` | Theorems about `ClientRequests`, for any requests and bounds. |
| `LeaderTracker` | The gateway's poll of the replicas of `ClusterStatus`, answer by answer. |
| `StrokeForwarding` | The gateway's way of a stroke or an undo to the leader: deduplication, buffer, retry. |
| `GatewayProofs` | Theorems about `StrokeForwarding`, for any items, goroutines and repetitions, and about `LeaderTracker`, for any replicas and terms. |
| `CanvasSync` | One browser, its connections to the hub, and the committed log it draws. |
| `CanvasSyncProofs` | Theorems about `CanvasSync`, for any strokes, connections, entries and queue sizes. |
| `ChaosPartitions` | Partitions, heals and auto-heals of the chaos endpoint. |
| `ChaosPartitionsProofs` | Theorems about `ChaosPartitions`, for any replicas, requests and goroutines. |

For each module that is checked, `MC<module>` is its instance for TLC and
`MC<module>_<question>.cfg` the configuration of a run.

How they compose: `RaftElection` implements `TermElections` and `ClusterStatus`, and
`RaftReplication` implements `ReplicatedLog` (each an `INSTANCE` with a refinement mapping, checked
as a property and proved). `LeaderTracker` extends `ClusterStatus`, so that what holds of
the tracker beside any such cluster holds beside the one that `RaftElection` describes. The
others meet at their interfaces. What one module proves or
checks is what another takes for granted, by name: one leader per term
(`RaftElection!OneWinnerPerTerm`) in `RaftReplication`; a log whose
position k holds index k (`ReplicaLog!Dense`) in `RaftReplication` and
`ClientRequests`; logs of leaders that match (`RaftReplication!LogMatching`) in
`FollowerAppend`, and later leaders that have what was committed
(`RaftReplication!LeaderComplete`) there and in `ClientRequests`; a request
that is logged and answered 503 nevertheless (`ClientRequests`, a timeout) and a
tracked replica that does not lead (`LeaderTracker`) in `StrokeForwarding`; strokes
logged at most once (`StrokeForwarding!LoggedOnce`) in `CanvasSync`. Where a
guarantee has an exception, the exception is named in the property and the module that
relies on it says so.

Operators whose comment begins with "Mutant:" belong to no specification: each
is a plausible mistake in the definition after it, and shows that the
property it is paired with in `PROJECT.json` would notice.

Variables marked "history" are written and never read by an action (but for
bounds). Several record a *window*: that the code has just done one of the things it does
not exclude, between two calls or two locks. A property of the form "`windows` is
within W => P" then says that nothing but the windows outside W breaks P.

Each module has a `TypeOK`. The runs check it where a proof uses it or where nothing
else would notice a log or an index out of range (`ReplicaLog`, `RaftReplication`,
`ChaosPartitions`, and `RaftElection` as a part of `IndInv`); in the other modules it documents the state,
and can be added to the `INVARIANTS` of the run.

### RaftElection

`status` says where the process is: `serving` is the stretch of `main` between
`grpcServer.Serve` and `node.Start`, which matters because handlers spawn
`resetElectionTimer`. `phase`, `campaign`, `ballots` and `nays` are the locals
of `startElection`: `counting` lasts until the check of line 139, `won` from
there to `BecomeLeader`, which takes the lock a second time. `calls` are the
vote goroutines that wait for a reply, `reqs` the requests no handler has run
yet (they outlive their caller), `resps` the replies of a higher term a
goroutine holds and has not acted on. `beats` are heartbeats and the entry part
of `AppendEntries` seen as announcements of a leader: a message, once sent, may
arrive any number of times at any time, since every tick sends another one.
`stepDowns` are goroutines that are about to call `BecomeFollower`.
`walTerm` and `walVote` are what a replay would return. `granted`, `won` and `led`
record history; no action reads them, but for the bound on elections.

`Shown` maps the state to `ClusterStatus`: role and leader of each replica, and the term in
its WAL, which is the term it shows while it runs and the one it will come back with. A
crash, in the middle of two writes or not, is then a `Disconnect`, a restart a `Reconnect`, and
every step-down a `SeeTerm`.

Abstractions: the log is not part of the module, so `DenyVote` may refuse any
candidate (a superset of what the up-to-date check refuses). Timers fire at any
time. A lost reply is `VoteRPCFails`; a lost request is one that no handler ever
takes. WAL writes succeed. `SyncLog` requests are kept only when they carry a
term above 0, the only ones that change anything.

### ReplicaLog

`entries`, `commitIndex`, `nodeCommit` and `term` are in memory, `wal` is the
file, a sequence of lines. `CrashWriting` is a death inside `WAL.write`: the line
is complete, complete but for its newline, or partial. `Written` models what the
next record does to such a line: `json.Encoder` appends to it, and `Replay`
skips a line it cannot parse. `Restart` is `LoadFromWAL` and `RestoreState`:
entries in the order of the file, the last commit index, and a
`RaftNode.commitIndex` of 0. `Entries` numbers the lines of the file that hold an entry
(`EntryLines`, `UpTo`) instead of filtering it with `SelectSeq`, whose operator argument no
prover can expand. The operations are those its callers in
`replica/raft` perform, one at a time; their concurrency belongs to
`RaftReplication` and `FollowerAppend`. VOTE records are left out, as they are treated
exactly like TERM records.

### RaftReplication

`currentTerm`, `state`, `nextIndex`, `matchIndex` and `commitIndex` are the
fields of `RaftNode`; `log` is the sequence of the terms of its entries, which
`ReplicaLog!Dense` justifies. `requests` are RPCs no handler has run.
`AcceptAppend` is the critical section of `AppendEntries`; the request is then in
`accepted` until `AppendInconsistent`, `AppendRefused` or `AppendDone` runs what
follows the unlock, whatever the replica has become meanwhile. `replies`
are held by a goroutine of the leader that has not taken the lock yet: it
compares terms before it does, hence `ReplySuccess` may belong to an earlier
leadership. A reply reaches it only while the context of its leadership
lives (`Leads`). `catchups` are `catchUpPeer` goroutines, which read the
entries in one step and the term and the commit index in a second one.

`windows` is history: `late` – entries were appended for a leader whose term is
no longer the replica's; `blind` – a replica committed a prefix that is not its
leader's, as `Heartbeat` has no consistency check; `stale` – a leader counted
a success that belongs to a term of its past. No action reads it. The
guarantees of Raft are stated for as long as the windows that break them were not
hit, so that the runs show which window breaks which guarantee and that nothing
else does.

Abstractions: replicas do not crash, an election is one step (`RaftElection` has
its detail; `Campaign` leads only with `Needed` votes of replicas with a log that
is not ahead), the loop over the entries of one request is one step, the peers of
a tick are ticked one by one, replies that change nothing are left out (of a
`Heartbeat`, or a failure of `catchUpPeer`), and a `catchUpPeer` whose leader's log
a late append has cut in between sends nothing.

### FollowerAppend

What `RaftReplication` takes as one step is here the loop of `rpc_server.go:149-190`:
the check of the term under `n.mu`, then for each entry `GetEntry`, `TruncateFrom`
and `AppendEntry`, then the reads of the commit index, `Commit`, and the
publication in `RaftNode`. `handler` holds the place of each handler in it. The leader of a
term is a constant log (`LeaderLog`, `LeaderCommit`), so that what a request
carries is a segment of it. Of these logs it is assumed that two which agree on an entry
agree before it (`MatchingAssumption`) and that a later one has what an earlier one
committed (`CompletenessAssumption`): this is what `LeadersComplete` proves of leaders. The windows: `stale` – the log changed between
`GetEntry` and the call that acts on its answer; `late` – a handler changes the log for
a leader the follower has left; `blind` – a heartbeat commits what is not the leader's;
`crossed` – another handler, or a heartbeat, commits while a handler is between its reads of
the commit index and the publication of what it wrote (`Crossing`).

### ClientRequests

One replica: `Replicate` in its three parts (the check of `state` by the HTTP handler, the
critical section that appends and registers the notifier, the wait with its timeout),
`advanceCommitTo` as a leader, which notifies and posts, a commit as a follower, which
does neither, and `GET /entries`, which reads the commit index first and the
entries then. The environment deposes the replica, truncates what is not committed and appends
entries of `Other`. `cut` records requests whose entry has been truncated.

### LeaderTracker

`poll` starts one request per replica: `answers` collects the statuses, each of the moment
it was given, and the poll ends with `Pick` over them. The replicas are those of
`ClusterStatus`: they campaign, win, follow, restart and are cut off, see terms and hear leaders
late, and two of them may lead one term (the window of `BecomeLeader`, and clusters
of even size). A candidate still reports the leader of the term before, as
`startElection` leaves `leaderID` alone.

### StrokeForwarding

A task is a goroutine of `forwardStrokeToLeader` or `forwardUndoToLeader`, an attempt is the
POST, the answer a step of its own: the leader logs and answers 200, logs and
answers 503 (its timeout), answers 503, or cannot be reached. The buffer's timeout, its
drain every 100 ms and the expiry of the cache after 60 s are actions; `causes` records why an
item went without being logged, or may be logged twice.

### CanvasSync

The state of one page (`drawing.js`, `Canvas.jsx`, `useDrawingWS.js`) and, per connection, of
`Client` in the hub: registration, the bounded queue, the close of `Send`. A committed
entry is a post of its own goroutine (any order, or lost); `BroadcastMessage` puts it into the
queues that have room; `sendCanvasSync` takes its copy in one step and queues it in another.
The windows since the last sync: `missed` – a message was lost, or skipped
by a full queue; `overtaken` – the posts of one stroke came in another order than the
log's; `stale` – a sync missed an entry whose broadcast was over. There are no strokes of
another user: what the browser sent on an earlier connection comes back under another
user id and is treated the same way.

### ChaosPartitions

`attached` is the network Docker keeps, `partitioned` the map of the handler, `proc` the
requests and the auto-heal goroutines, each between two calls of Docker. The Docker
daemon is external: a call fails, succeeds, or succeeds and reports a failure.
`gaps` records why a partition may outlast its 15 s: `unrecorded` (the disconnect was
carried out and reported as failed), `erased` (a heal deleted the entry of a newer
partition), `failed` (Docker did not reconnect it for the auto-heal), `restarted`
(the gateway forgot it). The runtime's check for concurrent map writes is part of
`CrashGateway`.

## 3. Runs

| Run | Bounds | What holds |
|---|---|---|
| `election_safety` | 3 replicas, 2 terms, 2 elections, 1 crash, nothing searched after a panic; symmetric | `VoteOnce`, `OneWinnerPerTerm`, `SplitBrainOnlyThroughWindow`, `TermsPersist`, `IndInv` |
| `election_liveness` | 3 replicas, 2 terms, 2 elections, no crash, no symmetry | `ElectionEnds`, `DeposedLeaderLeaves`; `RaftElection` implements `TermElections` and `ClusterStatus` |
| `election_quorum4` | 4 replicas, 1 election | `WonByMajority` is **violated**: 2 votes of 4 win |
| `log_safety` | 2 terms, 3 indexes, 6 WAL lines, 2 crashes | `TypeOK`, `LastRecordIsCurrent`, `Dense`, `CommittedFrozen`, `RestartRestores` |
| `replication_concurrent` | 3 replicas, 2 terms, 2 indexes, 2 in flight; symmetric | `TypeOK`, `MatchIsCopy`; `RaftReplication` implements `ReplicatedLog` |
| `replication_terms` | 3 replicas, 5 terms, 2 indexes, 1 in flight; elections nobody wins left out, nothing searched after a late append; symmetric | `LeaderComplete`, `LogMatching`, `CommittedAgree`, `RefusedOnlyThroughWindow` |
| `follower_append` | 2 handlers, 2 leaders with logs of 2 and 3 entries that differ at index 2; symmetric | `Dense`, `AckedHeld`, `CommittedReadable`, `CommitFallsOnlyCrossing` |
| `requests_safety` | 2 requests, 5 terms, 3 indexes; symmetric | `AckedUnlessCut`, `NotifierOwned`, `SnapshotCommitted` |
| `leader_tracking` | 2 replicas, 2 terms | `TrackedHasLed`, `StableLeaderTracked` |
| `stroke_forwarding` | 1 stroke sent up to 3 times, 1 undo, 3 goroutines | `LoggedOnce`, `NothingLostSilently`, `ItemsSettle` |
| `board_canvas` | 2 strokes, 2 connections, 3 entries, queues of 2; symmetric | `Converged`, `OwnStrokesStay`, `UndoStackDistinct`, `BroadcastNeverPanics` |
| `chaos_heal` | 2 replicas, 2 requests, 2 auto-heals | `TypeOK`, `PartitionRemembered`, `AutoHeals` |

Why the bounds suffice. *Election:* two elections by different replicas, in one
term or in two, are what a double vote, a double winner, a stale reply and the
window between the two locks need; one crash reaches every pair of WAL records (a panic can only
follow a restart, so the search ends there: going on would be a second crash, which the
proofs cover); three
replicas are the smallest cluster in which a voter is neither of two
candidates. *Log:* six lines hold an append, a truncation, a commit and two terms,
and two crashes let a record follow a cut one and be replayed. *Replication:*
two indexes separate `prevLogIndex` from the entries; one message in flight lets
elections fall between any two steps of an RPC, two let requests of two leaders
overtake one another; five terms are what the commit rule needs (section 5), and
the search ends at a late append as no property of that run says anything after one.
*Follower:* two handlers are a race, and two logs that differ after a committed entry, one longer
than the other, make it truncate, append and skip. *Requests:* two requests
contend for one index, and five terms let the replica lead, be cut, and lead
again. *Tracker:* two terms give a leader, and a successor whose campaign reports it (three
terms hold as well and take several times as long).
*Forwarding:* three goroutines are an attempt, the client's second one and the drain of
the buffer. *Canvas:* three entries are a stroke, its undo and another stroke; a queue of
two is full after one entry beside a sync; the second connection is the reconnect. *Chaos:* two
requests and two goroutines let a heal end between any two steps of the
partition after it. Every run sets `CHECK_DEADLOCK FALSE`: at its bounds a model stops,
which the program does not do.

Fairness, only where a liveness property is checked:

* `election_liveness`: a vote goroutine ends because its context has a timeout of
  300 ms; the election loop, `BecomeLeader` and goroutines that call
  `BecomeFollower` are runnable and the Go scheduler runs them; a leader has a ticker; and
  of the heartbeats to a replica that stays up one is eventually answered. Nothing
  makes an election succeed or even start: Raft does not promise it, and two
  candidates may split votes for ever.
* `leader_tracking`: the ticker polls every 500 ms, and each request of a poll ends
  after 300 ms at most. The replicas are under no fairness.
* `stroke_forwarding`: the HTTP client has a timeout, the pauses between attempts are
  bounded, and the loop over the buffer runs every 100 ms, so each goroutine goes on
  and a buffered item is drained or expires. Nothing makes a leader appear.
* `chaos_heal`: a sleep of 15 s ends and Docker's answer, or the end of the
  connection to it, ends each call.

## 4. Proofs

`RaftElectionProofs` proves, for any finite set of replicas and any bounds:

* `TypeCorrect`, `VotesOnce`, `TermsArePersistent`: `TypeOK`, `VoteOnce`
  and `TermsPersist` in every reachable state.
* `OneWinner` and `SplitBrainNeedsWindow`, for clusters of odd size
  (`OddCluster`); for even ones `Needed` is only half the cluster, which is
  what `election_quorum4` shows.
* `Refinement`: in a cluster of odd size the code implements `TermElections`.
* `ShowsClusterStatus`: in every cluster, even ones included, the code implements
  `ClusterStatus`.

The argument is the inductive invariant `IndInv`. `VoteOnce` alone is not
inductive: a replica that restarts decides from what the WAL gives back. Hence
`WalIsCurrent` (while a process runs, the WAL holds its term and vote),
`VotesInWal` (no vote was cast in a term beyond the WAL's, and the vote of its
own term is the one written) and `GoroutinesLive` (replies and step-downs in
flight belong to processes that run). With `VotesInWal`, a vote in a term can
only be cast when that term is new to the WAL or the WAL already names the same
candidate, also after a crash between the two records: the term then is higher
than that of every vote cast. `BallotsBacked` ties the collector's count to votes
really cast and `WinsBacked` ties every victory to `Needed` votes; two sets of
`Needed` replicas of an odd cluster intersect, and `VoteOnce` makes the two
candidates one. `OwnTermWon` follows a node from its victory through the window
to its leadership as long as it has not voted for anyone else.

`ShowsClusterStatus` needs more than `IndInv`, as `ClusterStatus` lets a replica
follow only one that has led, and adopt only a term that some replica has reached. `ShownInv`
adds that heartbeats name leaders in `led` and every term in a request, a `SyncLog` or
a pending step-down is one that its origin has in its WAL (`TermsReached`, which rests on
`WalGrows`: no WAL goes back), that a leader is in `led` and holds no election
(`LeadersLed`), and that only a process that is serving can panic on its timer
(`ResetsEarly`). The run that checks it has no crashes; a longer search with one
agreed before the proof, which has no such bound.

Assumptions: `NodeAssumption` (finite, not empty, `None` no member) and
`BoundAssumption`. The liveness properties are only model-checked: TLAPS does not
reason about `ENABLED` and fairness.

`ChaosPartitionsProofs` proves, for any replicas, any number of requests and any number of
auto-heal goroutines, `PartitionRememberedAlways` and `ChaosTypeCorrect`. The invariant is
`Shape /\ PartitionRemembered`. `Shape` is stronger than `TypeOK` in what it
says of `proc`: which fields a process has at which place, needed to know that
`proc[p].service` is a service in every step that uses it. With it,
`PartitionRemembered` is inductive: a container leaves the network only in
`Disconnect`, whose request then records it or leaves `unrecorded`; only `Delete` and
a restart take an entry away, and each leaves its gap unless another
request is about to write the entry again (`OthersRecord`: a step of one process does not
end the recording of another). `AutoHeals` is model-checked only. Assumptions:
`ServiceAssumption` and `ProcessAssumption`.

`GatewayProofs` proves `LoggedOnceAlways` and `NothingLostSilentlyAlways`, for any
sets of strokes, undos and goroutines and any bound on repetitions. `LoggedOnce` alone
is not inductive: its invariant is `Single`, for every item without an excuse. There is
at most one copy of the item among the goroutines and the buffer; once it is logged the only
goroutine that may hold it waits for its answer; and while there is any copy, a further one is
barred, for a stroke by the cache and for an undo as it is sent once. For
`NothingLostSilently` two facts are needed beside it: what is in the cache was sent
(`SeenWasSent`), so that dropping a duplicate loses nothing new, and a goroutine that ends
with success has its item in the log (`AppendedIsLogged`). `ItemsSettle` is model-checked only.
Assumptions: `ItemAssumption` and `TaskAssumption`.

It also proves `TrackerNamesLeaders`, for any replicas and terms. What the tracker names comes
from answers that may all be out of date, so the invariant `TrackerInv` says of everything
that is or was shown what `TrackedHasLed` says of the tracker: whoever a status calls leader, its
replica or another one, has led in the status's term or an earlier one (`StatusLed`, of
the replicas in `NodesLed` and of the answers in `AnswersLed`). Leaderships are never
taken back (`StillLed`), so an old answer stays true. Assumption: `TermAssumption`.

`ReplicaLogProofs` proves, for any terms, indexes, lines and crashes (`LogBounds`),
`TypeCorrect`, `DenseAlways`, `LastRecordAlways`, `CommittedStays` and
`RestartGivesBack`. `Dense` depends on what a later replay will find, so the invariant ties
memory to the file: `Memory` (until a write is cut short or truncated entries are replayed,
the log is dense, and the last record of an index in the file is its entry), `Disk` (as
long as nothing was truncated either, the entries of the file are the log, and all that was
committed is among them) and `FirstLife` (until the first restart the last COMMIT record
bounds what was committed). The lemmas say what each of the readers of a file (`Entries`,
`LastEntry`, `WalCommit`, `WalTerm`) finds after one more line, and that `TruncateFrom`
keeps exactly the entries below its index when the log is dense (least elements of sets of
naturals take the place of an induction over the log).

`RaftReplicationProofs` proves `TypeCorrect` for every cluster
and, for clusters of odd size (`OddCluster`), the safety of the replication, each for as long as
its windows were not hit: `LogsMatch`, `MatchCopies`, `CommitsAgree`, `LeadersComplete`,
`NothingRefused`. The hypothesis is needed: two elections of an even cluster may both be won
in one term, as `election_quorum4` shows of the four replicas the repository deploys, and
nothing below holds then. The state does not hold what the argument is about, the past,
so the invariants say that a past exists which explains the state:

* `D` and `W` – the terms that were won, and by whom (`Elect`); quorums of an odd cluster
  intersect, so a term has one winner.
* `H[t]` – the ledger of term t, all that its leader ever had in its log (`Ledger`). What
  the logs and the messages hold of a term's entries comes from its ledger (`LogsLed`, `NetLed`), and
  ledgers agree below an entry they share. `LogMatching` follows.
* `K[p][t]` – at which indexes replica p held an entry of term t when it left
  the term. With it "a majority will have acknowledged index i in term t" (`Choosable`) can
  only become false, and a later winner has all entries that are choosable
  (`Carried`), by the comparison of logs in `RequestVote`. Messages and match
  indexes only count what was held (`RepliesTrue`, `Counted`), hence `MatchIsCopy`.
* `Safe` – each commit index, of replicas and of requests in flight, lies in a prefix
  of a ledger that ends at a chosen entry of the leader's own term. The rule
  `Committable` enters here. `CommittedAgree`, `LeaderComplete` and
  `RefusedOnlyThroughWindow` follow, as later ledgers carry what was chosen.

A step picks the past after it from the past before it (`ElectExtends`, and the same for ledgers and
what was left). A search with D, W, H and K as history variables confirmed the
invariant before the proof. Assumptions: `ReplicaAssumption` and `LimitAssumption`.

`ReplicatesLog` proves that the committed prefixes of the logs implement `ReplicatedLog`. Its
first half holds without any window: a committed entry is never cut, not even by an entry that
is appended late (`Durable`, `MergedKeeps`, `LogGrows`: the loop of `AppendEntries` keeps what is
at or below the commit index, as `Refused` ends it otherwise), and commit indexes do not fall.
The second half is `OneSequence`: as long as no window was hit, what any two replicas have
committed is one sequence (`CommittedComparable`, from `CommittedAgree`). The two are more than
`CommittedAgree` alone, which says nothing about what a replica committed earlier.

`FollowerAppendProofs` proves, for any number of handlers, `TypeCorrect`, `DenseAlways`, `AckedIsHeld`,
`CommittedReads` and `CommitFalls`. The invariant says what a handler may rely on between two of
its calls: what it has seen of its request is in the log (`Seeing`), for an
old leader only as far as that leader had committed; what it is about to do still fits
(`Acting`). A truncation disturbs other handlers in general, but not these claims: it cuts at an
entry that is not the current leader's, and neither what the current leader has nor what earlier
ones committed is above such an entry. `CommitsOrdered` relates the two commit
indexes: the log's is ahead only while a handler is about to publish. Assumptions: `LeaderAssumption`,
`MatchingAssumption` and `CompletenessAssumption`.

`ClientRequestsProofs` proves, for any requests, terms and indexes, `TypeCorrect`,
`AckedIsCommitted`, `NotifierStays` and `SnapshotIsCommitted`. A signal carries no name, so the
invariant follows an entry from `Replicate` to the answer: the entry of a request that was
not cut stays at its index (`EntriesStay`), an index is signalled only when it is
committed (`SignalsCommitted`), and a request is answered 200 only on a signal. `ReaderBelow` is the commit
index `GET /entries` holds between its two reads: it only grows behind it. Assumptions:
`RequestAssumption` and `LimitAssumption`.

`CanvasSyncProofs` proves `CanvasConverges`, `OwnStrokesAlwaysStay`,
`UndoStackStaysDistinct` and `BroadcastsAreSafe`, for any strokes, any number of connections and
entries and queues of any size. An entry is `Coming` while its post is under way or it is in the
queue of the browser's connection, and `Ahead` of the syncs on their way when each of them has it.
The invariant has

* `HubOK` – the life of a connection: it is registered while it is up, closed only after it
  left the map, and its one sync is a copy of the log as it was. `BroadcastNeverPanics` follows.
* `HeardOnce`, `DrawsOnce` and `Stacked` – an entry is in a queue or posted, never both or
  twice, a stroke is drawn once in the log, and one on the undo stack is not coming any
  more: so its commit cannot stack it again.
* `Recoverable` – a stroke that is neither pending nor undone is in the log, and it is not
  coming any more or ahead of every sync. This is what a sync needs that is not stale:
  what it lacks is coming, so it has every such stroke. `OwnStrokesStay` alone is not
  inductive, as it says nothing of the snapshot.
* `InOrder` and `Shown` – unless a window was met, what is queued about a stroke comes in the
  order of the log, and the canvas shows what the last entry of a stroke says once
  it is not coming any more, unless the user's undo of it is still under way. With nothing
  under way this is `Converged`.

A search of the run's instance confirmed this invariant before the proof. What
`Replay` leaves is stated by `ReplayFacts`. Assumption: `LimitAssumption`.

Two properties turned out to be wrong when their proof was tried, in ways the bounds of the
runs had hidden. `RefusedOnlyThroughWindow` spoke of every accepted request; with two messages in
flight, one that is held after its critical section, of a term the replica has left, does
ask for the truncation of an entry committed since, and is refused. It now speaks of
requests of the replica's own term. And `crossed` missed a heartbeat that commits between the read
and the write of the only handler there is; with one handler the commit index fell although nothing had
crossed.

Only model-checked: liveness (`ElectionEnds`, `DeposedLeaderLeaves`, `StableLeaderTracked`,
`ItemsSettle`, `AutoHeals`), because the proof system has no rules for `ENABLED` and
fairness. Every other property of a passing run is proved.

## 5. What the checks show about the code

One statement of the repository does not hold of its code (`findings` in
`PROJECT.json`): the README gives three votes as the quorum of its four replicas, and
the code wins an election, and commits, with two.

What does hold, with its exceptions:

* *Votes are safe across any crash*, and the only way to two leaders in one term of
  an odd cluster is the window of `election.go:143`, where `BecomeLeader` takes the lock a
  second time and may follow a step-down. A handler that runs before `Start` meets
  a nil timer (`TimerPanic`); nothing but timing excludes it.
* *Logs* are dense, and a restart gives them back, until a WAL with truncated entries is
  replayed (the replay returns the truncated ones first) or a record follows one cut short
  (both are lost). `commitIndex` of the log never falls under sequential calls but after
  a restart, as `RaftNode.commitIndex` starts at 0.
* *Replication* keeps the guarantees of Raft until one of three windows is hit: entries
  appended late for an earlier leader, a heartbeat that commits a prefix it did not
  compare (only then may a leader of the replica's term ask for the truncation of a
  committed entry; a request held since an earlier term may always, and is refused), a
  success counted in a later leadership than its own.
* *A follower* doubles or skips an index only if two handlers interleave inside the loop of
  `rpc_server.go:149`, or one acts late; its commit index falls only if two
  handlers, or a handler and a heartbeat, commit at once. A committed entry reads the same again afterwards.
* *A client* that was told "committed" was told the truth unless its entry was truncated
  while it waited: the notifier of its index then answers for another entry. What
  `GET /entries` returns is a prefix of the committed log, although it reads in two steps.
* *The tracked leader* has led, though perhaps an earlier term than the tracked one; a
  sole leader that stays is tracked in the end.
* *A stroke* is logged twice only after a 503 for an entry that was logged, or after
  60 s. It is lost only to a broken connection, a second 503, the buffer's
  expiry, or because the drain takes a buffered stroke for its own duplicate; an undo is
  lost to its first 503. Everything settles.
* *The canvas* shows the committed log when nothing is under way, unless since the last
  sync a message was lost or skipped, posts of one stroke overtook one another, or
  the sync was older than a broadcast before it. The last is also the only way for a
  stroke the user drew to vanish. A broadcast never sends on a closed channel; a late
  `CANVAS_SYNC` may, and the gateway panics.
* *A partition* heals after its 15 s unless the disconnect reported a failure, Docker
  refused, the gateway was restarted, or an earlier heal deleted the entry late.

A leader sends entries of earlier terms only after it has appended one of its own,
as `nextIndex` starts beyond its log and heartbeats reveal no mismatch. The rule
that it commits only entries of its own term (`Committable`) looks redundant
therefore; it is not. A reply with a conflict that belongs to an earlier
leadership can set `nextIndex` back, and a leader then copies old entries alone to
a majority. It takes five terms, hence `replication_terms`.

## 6. Plan

Done, in this order: `RaftElection` with `TermElections` and its proofs, `ReplicaLog`,
`RaftReplication`, `FollowerAppend`, `ClientRequests`, `LeaderTracker`,
`StrokeForwarding` and its proofs, `CanvasSync`, `ChaosPartitions` and its proofs, then
the proofs of `RaftReplication`, `ReplicaLog`, `ClientRequests`, `FollowerAppend` and `CanvasSync`,
then `ReplicatedLog`, `ClusterStatus` and their refinements, and the proof of `LeaderTracker`.

Open:

1. Crashes and `SyncFromPeers` in `RaftReplication`; its runs are at the limit of what TLC
   finishes in minutes, so this needs a smaller abstraction of the RPCs.
2. `ERROR` and `LEADER_CHANGED` messages of the hub, the stroke being drawn in the
   browser.

Not modelled, and why: the generated gRPC code, whose messages are the records of the
models; the SSE hub, a broadcast of a snapshot that the next one replaces; metrics,
status endpoints, dashboard and toolbar (no state of their own that another part
depends on; the status a poll reads is in `ClusterStatus`); `log/replication.go`,
which nothing calls; the HTTP client of the chaos handler and the stopping and killing
of containers; failing WAL writes and lines beyond 64 KB; JSON, colours, rendering and
the contents of strokes; real time, beyond the order in which things may happen.
