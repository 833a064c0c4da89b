-------------------------- MODULE StrokeForwarding --------------------------
(***************************************************************************)
(* How the gateway forwards strokes and undos to the tracked leader         *)
(* (gateway/ws/handler.go): one goroutine per message, a cache of the       *)
(* strokes seen in the last 60 s, a buffer while no leader is tracked, and  *)
(* one retry after a 503.                                                   *)
(*                                                                          *)
(* What the tracked replica does is the environment: it may be unreachable, *)
(* may not lead, and may log an item and still answer 503 (LeaderTracker,   *)
(* ClientRequests!TimeOut).  Which replica it is makes no difference here.  *)
(***************************************************************************)
EXTENDS Integers, FiniteSets

CONSTANTS
    Stroke,   \* strokes of the clients, by strokeId
    Undo,     \* undos
    Task,     \* the goroutines that may forward at once
    MaxSends  \* bound on how often one stroke reaches the gateway

Item == Stroke \cup Undo

ASSUME ItemAssumption == IsFiniteSet(Item) /\ Stroke \cap Undo = {}
ASSUME TaskAssumption == IsFiniteSet(Task) /\ MaxSends \in Nat

VARIABLES
    tracked, \* the tracker knows a leader; it never forgets it again
    seen,    \* seenStrokes
    buffer,  \* what waits for a leader
    task,    \* the forwarding goroutines
    sends,   \* how often a client has sent an item
    logged,  \* how often a leader has appended it
    causes   \* history: why an item was dropped, or may be logged again

vars == <<tracked, seen, buffer, task, sends, logged, causes>>

Idle == [pc |-> "idle"]

Init ==
    /\ tracked = FALSE /\ seen = {} /\ buffer = {}
    /\ task = [t \in Task |-> Idle]
    /\ sends = [i \in Item |-> 0]
    /\ logged = [i \in Item |-> 0]
    /\ causes = [i \in Item |-> {}]

Note(i, cause) == causes' = [causes EXCEPT ![i] = @ \cup {cause}]

Begin(t, i) == task' = [task EXCEPT ![t] = [pc |-> "attempt", item |-> i, retried |-> FALSE]]

Goto(t, pc) == task' = [task EXCEPT ![t].pc = pc]

End(t) == task' = [task EXCEPT ![t] = Idle]

Busy(i) == \E t \in Task : task[t] # Idle /\ task[t].item = i

(* A poll has found a leader. *)
TrackLeader == ~tracked /\ tracked' = TRUE /\ UNCHANGED <<seen, buffer, task, sends, logged, causes>>

(* Mutant: strokes are not deduplicated. *)
DuplicateNever(i) == FALSE

(* A stroke the gateway has seen is dropped; undos are not looked at. *)
Duplicate(i) == i \in seen

(* handleMessage starts a goroutine: a message is new, or a stroke that a   *)
(* browser sends again after it has reconnected.                            *)
Receive(t, i) ==
    /\ task[t] = Idle /\ sends[i] < (IF i \in Undo THEN 1 ELSE MaxSends)
    /\ sends' = [sends EXCEPT ![i] = @ + 1]
    /\ IF Duplicate(i)
       THEN UNCHANGED <<seen, task>>
       ELSE Begin(t, i) /\ seen' = seen \cup ({i} \cap Stroke)
    /\ UNCHANGED <<tracked, buffer, logged, causes>>

(* Without a tracked leader the item goes to the buffer. *)
Buffer(t) ==
    /\ task[t].pc = "attempt" /\ ~tracked
    /\ buffer' = buffer \cup {task[t].item}
    /\ End(t)
    /\ UNCHANGED <<tracked, seen, sends, logged, causes>>

Post(t) ==
    /\ task[t].pc = "attempt" /\ tracked
    /\ Goto(t, "posted")
    /\ UNCHANGED <<tracked, seen, buffer, sends, logged, causes>>

(* The post cannot be delivered, or its answer is lost: no second attempt.  *)
PostFails(t) ==
    /\ task[t].pc \in {"posted", "logged"}
    /\ End(t) /\ Note(task[t].item, "connection")
    /\ UNCHANGED <<tracked, seen, buffer, sends, logged>>

(* The leader appends the item. *)
Append(t) ==
    /\ task[t].pc = "posted"
    /\ Goto(t, "logged")
    /\ logged' = [logged EXCEPT ![task[t].item] = @ + 1]
    /\ UNCHANGED <<tracked, seen, buffer, sends, causes>>

Succeed(t) ==
    /\ task[t].pc = "logged"
    /\ End(t)
    /\ UNCHANGED <<tracked, seen, buffer, sends, logged, causes>>

(* Mutant: the attempts are not counted. *)
RetriesForever(t) == task[t].item \in Stroke

(* Strokes get a second attempt after a 503, undos do not. *)
Retries(t) == task[t].item \in Stroke /\ ~task[t].retried

(* 503: the replica does not lead, or the entry was not committed in time.  *)
(* The goroutine sleeps 60 ms before the second attempt.                    *)
Unavailable(t) ==
    /\ task[t].pc \in {"posted", "logged"}
    /\ IF Retries(t)
       THEN /\ task' = [task EXCEPT ![t].pc = "attempt", ![t].retried = TRUE]
            /\ IF task[t].pc = "logged" THEN Note(task[t].item, "late503")
                                        ELSE UNCHANGED causes
       ELSE End(t) /\ Note(task[t].item,
                           IF task[t].item \in Undo THEN "undo503" ELSE "second503")
    /\ UNCHANGED <<tracked, seen, buffer, sends, logged>>

(* Mutant: the buffer is emptied without forwarding. *)
DrainForgets(t, i) ==
    /\ i \in buffer /\ tracked /\ task[t] = Idle
    /\ buffer' = buffer \ {i}
    /\ UNCHANGED <<tracked, seen, task, sends, logged, causes>>

(* drainBuffer forwards what it holds once there is a leader.  A stroke was *)
(* marked as seen before it was buffered, and is dropped as a duplicate.    *)
Drain(t, i) ==
    /\ i \in buffer /\ tracked /\ task[t] = Idle
    /\ buffer' = buffer \ {i}
    /\ IF Duplicate(i) THEN UNCHANGED task /\ Note(i, "drained")
                       ELSE Begin(t, i) /\ UNCHANGED causes
    /\ UNCHANGED <<tracked, seen, sends, logged>>

(* After 2 s in the buffer an item is dropped and its client told. *)
BufferTimeout(i) ==
    /\ i \in buffer
    /\ buffer' = buffer \ {i}
    /\ Note(i, "timeout")
    /\ UNCHANGED <<tracked, seen, task, sends, logged>>

(* A stroke leaves the cache after 60 s, when no goroutine and no buffer    *)
(* holds it any more.                                                       *)
ExpireSeen(i) ==
    /\ i \in seen \ buffer /\ ~Busy(i)
    /\ seen' = seen \ {i}
    /\ Note(i, "expired")
    /\ UNCHANGED <<tracked, buffer, task, sends, logged>>

TaskStep(t) ==
    Buffer(t) \/ Post(t) \/ PostFails(t) \/ Append(t) \/ Succeed(t) \/ Unavailable(t)

Next ==
    \/ TrackLeader
    \/ \E t \in Task : TaskStep(t) \/ \E i \in Item : Receive(t, i) \/ Drain(t, i)
    \/ \E i \in Item : BufferTimeout(i) \/ ExpireSeen(i)

(* HTTP requests have timeouts, and the buffer is looked at every 100 ms. *)
Spec ==
    /\ Init /\ [][Next]_vars
    /\ \A t \in Task : WF_vars(TaskStep(t))
    /\ \A i \in Item : WF_vars(BufferTimeout(i))

------------------------------------------------------------------------------
TypeOK ==
    /\ tracked \in BOOLEAN /\ seen \subseteq Stroke /\ buffer \subseteq Item
    /\ \A t \in Task : task[t] # Idle =>
         task[t].pc \in {"attempt", "posted", "logged"} /\ task[t].item \in Item
    /\ \A i \in Item : causes[i] \subseteq
         {"connection", "timeout"} \cup
           (IF i \in Undo THEN {"undo503"} ELSE {"late503", "second503", "drained", "expired"})

(* A stroke is logged twice only if a 503 came for an entry that was logged, *)
(* or the stroke had left the cache when it came again.                     *)
LoggedOnce ==
    \A i \in Item :
        logged[i] > 1 => causes[i] \cap {"late503", "expired"} # {}

(* What a client sent is on its way, buffered or logged, unless it was       *)
(* dropped for one of five reasons; the retry of a client is none of them.  *)
NothingLostSilently ==
    \A i \in Item :
        sends[i] > 0 /\ logged[i] = 0 /\ ~Busy(i) /\ i \notin buffer =>
            causes[i] \cap {"connection", "undo503", "second503", "drained", "timeout"} # {}

(* Every item a client sends is settled: its goroutine ends, and it does not *)
(* stay in the buffer.                                                      *)
ItemsSettle == \A i \in Item : (Busy(i) \/ i \in buffer) ~> (~Busy(i) /\ i \notin buffer)
==============================================================================
