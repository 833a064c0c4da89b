---------------------------- MODULE GatewayProofs ----------------------------
(***************************************************************************)
(* Proofs about the gateway: StrokeForwarding, for any items, any number of *)
(* goroutines and of repetitions, and LeaderTracker, for any replicas and   *)
(* terms.                                                                   *)
(***************************************************************************)
EXTENDS StrokeForwarding, LeaderTracker, TLAPS

(***************************************************************************)
(* Forwarding.  An item that nothing excuses exists once: in one goroutine, *)
(* in the buffer, or in the log.                                            *)
(***************************************************************************)

Forwarding == [pc : {"attempt", "posted", "logged"}, item : Item, retried : BOOLEAN]

Cause == {"connection", "undo503", "late503", "second503", "drained", "expired", "timeout"}

Shape ==
    /\ tracked \in BOOLEAN /\ seen \subseteq Stroke /\ buffer \subseteq Item
    /\ task \in [Task -> {Idle} \cup Forwarding]
    /\ sends \in [Item -> Nat] /\ logged \in [Item -> Nat]
    /\ causes \in [Item -> SUBSET Cause]

Holds(t, i) == task[t] # Idle /\ task[t].item = i

(* A goroutine whose item the leader has appended. *)
AppendedIsLogged ==
    \A t \in Task : task[t] # Idle /\ task[t].pc = "logged" => logged[task[t].item] > 0

(* What is in the cache has been sent. *)
SeenWasSent == \A i \in seen : sends[i] > 0

(* What stops a second copy: a stroke is in the cache, an undo is sent once. *)
Barred(i) == IF i \in Undo THEN sends[i] > 0 ELSE i \in seen

Excused(i) == causes[i] \cap {"late503", "expired"} # {}

Single(i) ==
    /\ Busy(i) \/ i \in buffer \/ logged[i] > 0 => Barred(i)
    /\ \A t, u \in Task : Holds(t, i) /\ Holds(u, i) => t = u
    /\ i \in buffer => ~Busy(i)
    /\ logged[i] > 0 =>
         /\ logged[i] = 1 /\ i \notin buffer
         /\ \A t \in Task : Holds(t, i) => task[t].pc = "logged"

Singles == \A i \in Item : Excused(i) \/ Single(i)

IInv == Shape /\ AppendedIsLogged /\ SeenWasSent /\ Singles /\ NothingLostSilently

------------------------------------------------------------------------------
(* Nothing is sent, held or logged at first. *)
LEMMA InitIInv == Init => IInv
  <1> SUFFICES ASSUME Init PROVE IInv
    OBVIOUS
  <1>1. Shape
    BY DEF Init, Shape
  <1>2. AppendedIsLogged /\ SeenWasSent /\ NothingLostSilently
    BY DEF Init, AppendedIsLogged, SeenWasSent, NothingLostSilently
  <1>3. Singles
    BY DEF Init, Singles, Single, Holds, Busy, Barred
  <1> QED BY <1>1, <1>2, <1>3 DEF IInv

(* A goroutine that is at some place is not idle. *)
LEMMA Forwards ==
    ASSUME Shape, NEW t \in Task, task[t].pc \in {"attempt", "posted", "logged"}
    PROVE  task[t] # Idle /\ task[t] \in Forwarding /\ task[t].item \in Item
  <1>1. task[t] # Idle
    BY DEF Idle
  <1>2. task[t] \in {Idle} \cup Forwarding
    BY DEF Shape
  <1> QED BY <1>1, <1>2 DEF Forwarding

(* A goroutine that starts. *)
LEMMA Begun ==
    ASSUME Shape, NEW t \in Task, NEW i \in Item, Begin(t, i)
    PROVE  /\ task' = [task EXCEPT ![t] = task'[t]]
           /\ task'[t] \in Forwarding /\ task'[t] # Idle
           /\ task'[t].pc = "attempt" /\ task'[t].item = i
  <1> DEFINE x == [pc |-> "attempt", item |-> i, retried |-> FALSE]
  <1>1. x \in Forwarding
    BY DEF Forwarding
  <1>2. x.pc = "attempt" /\ x.item = i /\ x # Idle
    BY DEF Idle
  <1>3. task' = [task EXCEPT ![t] = x] /\ task'[t] = x
    BY DEF Begin, Shape
  <1> HIDE DEF x
  <1> QED BY <1>1, <1>2, <1>3

(* A goroutine that goes on keeps its item. *)
LEMMA Gone ==
    ASSUME Shape, NEW t \in Task, NEW pc \in {"attempt", "posted", "logged"},
           task[t].pc \in {"attempt", "posted", "logged"}, Goto(t, pc)
    PROVE  /\ task' = [task EXCEPT ![t] = task'[t]]
           /\ task'[t] \in Forwarding /\ task'[t] # Idle
           /\ task'[t].pc = pc /\ task'[t].item = task[t].item
  <1> DEFINE x == [task[t] EXCEPT !.pc = pc]
  <1>1. task[t] \in Forwarding
    BY Forwards
  <1>2. x \in Forwarding /\ x.pc = pc /\ x.item = task[t].item
    BY <1>1 DEF Forwarding
  <1>3. x # Idle
    BY <1>2 DEF Idle
  <1>4. task' = [task EXCEPT ![t] = x] /\ task'[t] = x
    BY DEF Goto, Shape
  <1> HIDE DEF x
  <1> QED BY <1>2, <1>3, <1>4

(* The second attempt is for the same item. *)
LEMMA Retried ==
    ASSUME Shape, NEW t \in Task, task[t].pc \in {"posted", "logged"},
           task' = [task EXCEPT ![t].pc = "attempt", ![t].retried = TRUE]
    PROVE  /\ task' = [task EXCEPT ![t] = task'[t]]
           /\ task'[t] \in Forwarding /\ task'[t] # Idle
           /\ task'[t].pc = "attempt" /\ task'[t].item = task[t].item
  <1> DEFINE x == [task[t] EXCEPT !.pc = "attempt", !.retried = TRUE]
  <1>1. task[t] \in Forwarding
    BY Forwards
  <1>2. x \in Forwarding /\ x.pc = "attempt" /\ x.item = task[t].item
    BY <1>1 DEF Forwarding
  <1>3. x # Idle
    BY <1>2 DEF Idle
  <1>4. task' = [task EXCEPT ![t] = x] /\ task'[t] = x
    BY DEF Shape
  <1> HIDE DEF x
  <1> QED BY <1>2, <1>3, <1>4

(* Causes are only added. *)
LEMMA Noted ==
    ASSUME Shape, NEW i \in Item, NEW c \in Cause, Note(i, c)
    PROVE  /\ causes' \in [Item -> SUBSET Cause]
           /\ c \in causes'[i]
           /\ \A j \in Item : causes[j] \subseteq causes'[j]
  BY DEF Note, Shape

(* Every step keeps the shape of the state. *)
LEMMA ShapeStep == ASSUME Shape, [Next]_vars PROVE Shape'
  <1> USE DEF Shape
  <1>1. CASE TrackLeader
    BY <1>1 DEF TrackLeader
  <1>2. ASSUME NEW t \in Task, NEW i \in Item, Receive(t, i) PROVE Shape'
    <2>1. sends' \in [Item -> Nat] /\ UNCHANGED <<tracked, buffer, logged, causes>>
      BY <1>2 DEF Receive
    <2>2. CASE Duplicate(i)
      BY <1>2, <2>1, <2>2 DEF Receive
    <2>3. CASE ~Duplicate(i)
      <3>1. Begin(t, i) /\ seen' = seen \cup ({i} \cap Stroke)
        BY <1>2, <2>3 DEF Receive
      <3> QED BY <2>1, <3>1, Begun
    <2> QED BY <2>2, <2>3
  <1>3. ASSUME NEW t \in Task, Buffer(t) PROVE Shape'
    BY <1>3, Forwards DEF Buffer, End
  <1>4. ASSUME NEW t \in Task, Post(t) PROVE Shape'
    BY <1>4, Gone DEF Post
  <1>5. ASSUME NEW t \in Task, PostFails(t) PROVE Shape'
    BY <1>5, Forwards, Noted DEF PostFails, End, Cause
  <1>6. ASSUME NEW t \in Task, Append(t) PROVE Shape'
    BY <1>6, Gone, Forwards DEF Append
  <1>7. ASSUME NEW t \in Task, Succeed(t) PROVE Shape'
    BY <1>7 DEF Succeed, End
  <1>8. ASSUME NEW t \in Task, Unavailable(t) PROVE Shape'
    <2>1. task[t].item \in Item
      BY <1>8, Forwards DEF Unavailable
    <2>2. CASE Retries(t)
      <3>1. task' \in [Task -> {Idle} \cup Forwarding]
        BY <1>8, <2>2, Retried DEF Unavailable
      <3>2. causes' \in [Item -> SUBSET Cause]
        BY <1>8, <2>1, <2>2, Noted DEF Unavailable, Cause
      <3> QED BY <1>8, <3>1, <3>2 DEF Unavailable
    <2>3. CASE ~Retries(t)
      <3>1. causes' \in [Item -> SUBSET Cause]
        BY <1>8, <2>1, <2>3, Noted DEF Unavailable, Cause
      <3> QED BY <1>8, <2>3, <3>1 DEF Unavailable, End
    <2> QED BY <2>2, <2>3
  <1>9. ASSUME NEW t \in Task, NEW i \in Item, Drain(t, i) PROVE Shape'
    <2>1. CASE Duplicate(i)
      BY <1>9, <2>1, Noted DEF Drain, Cause
    <2>2. CASE ~Duplicate(i)
      BY <1>9, <2>2, Begun DEF Drain
    <2> QED BY <2>1, <2>2
  <1>10. ASSUME NEW i \in Item, BufferTimeout(i) PROVE Shape'
    BY <1>10, Noted DEF BufferTimeout, Cause
  <1>11. ASSUME NEW i \in Item, ExpireSeen(i) PROVE Shape'
    BY <1>11, Noted DEF ExpireSeen, Cause
  <1>12. CASE UNCHANGED vars
    BY <1>12 DEF vars
  <1> QED
    BY <1>1, <1>2, <1>3, <1>4, <1>5, <1>6, <1>7, <1>8, <1>9, <1>10, <1>11, <1>12
    DEF Next, TaskStep

------------------------------------------------------------------------------
(* An item is busy if a goroutine holds it. *)
LEMMA BusyHolds == \A i : Busy(i) <=> \E t \in Task : Holds(t, i)
  BY DEF Busy, Holds

(* One that ends holds nothing, and nobody else changes. *)
LEMMA EndedHolds ==
    ASSUME Shape, NEW t \in Task, End(t)
    PROVE  /\ \A u \in Task, i \in Item : Holds(u, i)' <=> u # t /\ Holds(u, i)
           /\ \A u \in Task : task'[u] # Idle => task'[u] = task[u]
  BY DEF Shape, End, Holds

(* A goroutine that goes on holds what it held, whatever its place. *)
LEMMA KeptHolds ==
    ASSUME Shape, NEW t \in Task, task[t].pc \in {"attempt", "posted", "logged"},
           task' = [task EXCEPT ![t] = task'[t]], task'[t] # Idle,
           task'[t].item = task[t].item
    PROVE  /\ \A u \in Task, i \in Item : Holds(u, i)' <=> Holds(u, i)
           /\ \A u \in Task \ {t} : task'[u] = task[u]
  BY Forwards DEF Shape, Holds

(* One that starts holds its item, and nobody else changes. *)
LEMMA BegunHolds ==
    ASSUME Shape, NEW t \in Task, NEW j \in Item, task[t] = Idle, Begin(t, j)
    PROVE  /\ \A u \in Task, i \in Item : Holds(u, i)' <=> Holds(u, i) \/ (u = t /\ i = j)
           /\ \A u \in Task \ {t} : task'[u] = task[u]
  <1>1. /\ task' = [task EXCEPT ![t] = task'[t]]
        /\ task'[t] # Idle /\ task'[t].item = j
    BY Begun
  <1> QED BY <1>1 DEF Shape, Holds

(* An item that gets nothing new stays single. *)
LEMMA SingleShrinks ==
    ASSUME NEW i \in Item, Single(i),
           i \in buffer' => i \in buffer, logged'[i] = logged[i],
           Barred(i) => Barred(i)',
           \A t \in Task : Holds(t, i)' => Holds(t, i) /\ (task[t].pc = "logged" => task'[t].pc = "logged")
    PROVE  Single(i)'
  BY BusyHolds DEF Single, Busy, Holds

(* No step forgets why something happened. *)
LEMMA CausesGrow ==
    ASSUME Shape, [Next]_vars
    PROVE  \A i \in Item : causes[i] \subseteq causes'[i]
  <1>1. ASSUME NEW t \in Task, PostFails(t) PROVE \A i \in Item : causes[i] \subseteq causes'[i]
    BY <1>1, Forwards, Noted DEF PostFails, Cause
  <1>2. ASSUME NEW t \in Task, Unavailable(t) PROVE \A i \in Item : causes[i] \subseteq causes'[i]
    BY <1>2, Forwards, Noted DEF Unavailable, Cause
  <1>3. ASSUME NEW t \in Task, NEW i \in Item, Drain(t, i)
        PROVE  \A j \in Item : causes[j] \subseteq causes'[j]
    BY <1>3, Noted DEF Drain, Cause
  <1>4. ASSUME NEW i \in Item, BufferTimeout(i) \/ ExpireSeen(i)
        PROVE  \A j \in Item : causes[j] \subseteq causes'[j]
    BY <1>4, Noted DEF BufferTimeout, ExpireSeen, Cause
  <1>5. CASE UNCHANGED causes
    BY <1>5
  <1> QED
    BY <1>1, <1>2, <1>3, <1>4, <1>5
    DEF Next, TaskStep, TrackLeader, Receive, Buffer, Post, Append, Succeed, vars

(* A goroutine takes a place only with its item logged. *)
LEMMA AppendedIsLoggedStep == ASSUME Shape, AppendedIsLogged, [Next]_vars PROVE AppendedIsLogged'
  <1> SUFFICES ASSUME NEW u \in Task, task'[u] # Idle, task'[u].pc = "logged"
               PROVE  logged'[task'[u].item] > 0
    BY DEF AppendedIsLogged
  <1>0. ASSUME UNCHANGED logged, task'[u] = task[u] PROVE logged'[task'[u].item] > 0
    BY <1>0 DEF AppendedIsLogged
  <1>1. ASSUME NEW t \in Task, NEW i \in Item, Receive(t, i) PROVE logged'[task'[u].item] > 0
    <2>1. CASE Duplicate(i)
      BY <1>1, <2>1, <1>0 DEF Receive
    <2>2. CASE ~Duplicate(i)
      <3>1. Begin(t, i) /\ UNCHANGED logged /\ task[t] = Idle
        BY <1>1, <2>2 DEF Receive
      <3> QED BY <3>1, <1>0, Begun, BegunHolds
    <2> QED BY <2>1, <2>2
  <1>2. ASSUME NEW t \in Task, NEW i \in Item, Drain(t, i) PROVE logged'[task'[u].item] > 0
    <2>1. CASE Duplicate(i)
      BY <1>2, <2>1, <1>0 DEF Drain
    <2>2. CASE ~Duplicate(i)
      <3>1. Begin(t, i) /\ UNCHANGED logged /\ task[t] = Idle
        BY <1>2, <2>2 DEF Drain
      <3> QED BY <3>1, <1>0, Begun, BegunHolds
    <2> QED BY <2>1, <2>2
  <1>3. ASSUME NEW t \in Task, End(t), UNCHANGED logged PROVE logged'[task'[u].item] > 0
    BY <1>3, <1>0, EndedHolds
  <1>4. ASSUME NEW t \in Task, Post(t) PROVE logged'[task'[u].item] > 0
    BY <1>4, <1>0, Gone, KeptHolds DEF Post
  <1>5. ASSUME NEW t \in Task, Append(t) PROVE logged'[task'[u].item] > 0
    <2>1. /\ task[t].item \in Item /\ task'[t].item = task[t].item
          /\ \A v \in Task \ {t} : task'[v] = task[v]
      BY <1>5, Forwards, Gone, KeptHolds DEF Append
    <2>2. logged' = [logged EXCEPT ![task[t].item] = @ + 1] /\ logged \in [Item -> Nat]
      BY <1>5 DEF Append, Shape
    <2>3. CASE u = t
      BY <2>1, <2>2, <2>3
    <2>4. CASE u # t
      <3>1. task[u] # Idle /\ task[u].pc = "logged" /\ task'[u].item = task[u].item
        BY <2>1, <2>4
      <3>2. logged[task[u].item] > 0 /\ task[u].item \in Item
        BY <3>1, Forwards DEF AppendedIsLogged
      <3> QED BY <2>2, <3>1, <3>2
    <2> QED BY <2>3, <2>4
  <1>6. ASSUME NEW t \in Task, Unavailable(t) PROVE logged'[task'[u].item] > 0
    <2>1. CASE Retries(t)
      <3>1. /\ task'[t].pc = "attempt" /\ UNCHANGED logged
            /\ \A v \in Task \ {t} : task'[v] = task[v]
        BY <1>6, <2>1, Retried, KeptHolds DEF Unavailable
      <3> QED BY <3>1, <1>0
    <2>2. CASE ~Retries(t)
      BY <1>6, <2>2, <1>3 DEF Unavailable
    <2> QED BY <2>1, <2>2
  <1>7. CASE UNCHANGED <<task, logged>>
    BY <1>7, <1>0
  <1> QED
    BY <1>1, <1>2, <1>3, <1>4, <1>5, <1>6, <1>7
    DEF Next, TaskStep, TrackLeader, Buffer, PostFails, Succeed, BufferTimeout, ExpireSeen, vars

(* Only a stroke that is sent enters the cache. *)
LEMMA SeenWasSentStep == ASSUME Shape, SeenWasSent, [Next]_vars PROVE SeenWasSent'
  <1>1. ASSUME NEW t \in Task, NEW i \in Item, Receive(t, i) PROVE SeenWasSent'
    <2>1. sends' = [sends EXCEPT ![i] = @ + 1] /\ seen' \subseteq seen \cup {i}
      BY <1>1 DEF Receive
    <2>2. sends \in [Item -> Nat] /\ seen \subseteq Item
      BY DEF Shape, Item
    <2> QED BY <2>1, <2>2 DEF SeenWasSent
  <1>2. CASE seen' \subseteq seen /\ UNCHANGED sends
    BY <1>2 DEF SeenWasSent
  <1> QED
    BY <1>1, <1>2
    DEF Next, TaskStep, TrackLeader, Buffer, Post, PostFails, Append, Succeed, Unavailable,
        Drain, BufferTimeout, ExpireSeen, vars

(* An item that starts in a goroutine was not there before. *)
LEMMA SingleBegins ==
    ASSUME Shape, NEW t \in Task, NEW i \in Item, task[t] = Idle, Begin(t, i),
           UNCHANGED logged, i \notin buffer', Barred(i)', ~Busy(i), logged[i] = 0
    PROVE  Single(i)'
  <1>1. \A u \in Task : Holds(u, i)' => u = t
    BY BegunHolds, BusyHolds
  <1> QED BY <1>1 DEF Single

(* No step makes a second copy but for the two excuses. *)
LEMMA SinglesStep == ASSUME Shape, Singles, [Next]_vars PROVE Singles'
  <1> SUFFICES ASSUME NEW i \in Item, ~Excused(i)' PROVE Single(i)'
    BY DEF Singles
  <1>0. Single(i)
    BY CausesGrow DEF Singles, Excused
  <1>1. ASSUME NEW t \in Task, NEW j \in Item, Receive(t, j) PROVE Single(i)'
    <2>1. /\ task[t] = Idle /\ UNCHANGED <<buffer, logged>>
          /\ sends' = [sends EXCEPT ![j] = @ + 1] /\ sends \in [Item -> Nat]
          /\ j \in Undo => sends[j] < 1
      BY <1>1 DEF Receive, Shape
    <2>2. seen \subseteq seen'
      BY <1>1 DEF Receive
    <2>3. Barred(i) => Barred(i)'
      BY <2>1, <2>2 DEF Barred
    <2>4. CASE Duplicate(j)
      <3>1. UNCHANGED task
        BY <1>1, <2>4 DEF Receive
      <3> QED BY <1>0, <2>1, <2>3, <3>1, SingleShrinks DEF Holds
    <2>5. CASE ~Duplicate(j) /\ i # j
      <3>1. Begin(t, j)
        BY <1>1, <2>5 DEF Receive
      <3>2. \A u \in Task : Holds(u, i)' => Holds(u, i) /\ task'[u] = task[u]
        BY <2>1, <2>5, <3>1, BegunHolds DEF Holds
      <3> QED BY <1>0, <2>1, <2>3, <3>2, SingleShrinks
    <2>6. CASE ~Duplicate(j) /\ i = j
      <3>1. Begin(t, j) /\ seen' = seen \cup ({j} \cap Stroke)
        BY <1>1, <2>6 DEF Receive
      <3>2. ~Barred(i) /\ Barred(i)'
        BY <2>1, <2>6, <3>1 DEF Barred, Duplicate, Item
      <3>3. ~Busy(i) /\ i \notin buffer /\ logged[i] = 0
        BY <1>0, <3>2 DEF Single, Shape
      <3> QED BY <2>1, <2>6, <3>1, <3>2, <3>3, SingleBegins
    <2> QED BY <2>4, <2>5, <2>6
  <1>2. ASSUME NEW t \in Task, NEW j \in Item, Drain(t, j) PROVE Single(i)'
    <2>1. /\ task[t] = Idle /\ UNCHANGED <<seen, sends, logged>>
          /\ j \in buffer /\ buffer' = buffer \ {j}
      BY <1>2 DEF Drain
    <2>2. Barred(i) <=> Barred(i)'
      BY <2>1 DEF Barred
    <2>3. CASE Duplicate(j)
      <3>1. UNCHANGED task
        BY <1>2, <2>3 DEF Drain
      <3> QED BY <1>0, <2>1, <2>2, <3>1, SingleShrinks DEF Holds
    <2>4. CASE ~Duplicate(j) /\ i # j
      <3>1. Begin(t, j)
        BY <1>2, <2>4 DEF Drain
      <3>2. \A u \in Task : Holds(u, i)' => Holds(u, i) /\ task'[u] = task[u]
        BY <2>1, <2>4, <3>1, BegunHolds DEF Holds
      <3> QED BY <1>0, <2>1, <2>2, <3>2, SingleShrinks
    <2>5. CASE ~Duplicate(j) /\ i = j
      <3>1. Begin(t, j)
        BY <1>2, <2>5 DEF Drain
      <3>2. Barred(i) /\ ~Busy(i) /\ logged[i] = 0
        BY <1>0, <2>1, <2>5 DEF Single, Shape
      <3> QED BY <2>1, <2>2, <2>5, <3>1, <3>2, SingleBegins
    <2> QED BY <2>3, <2>4, <2>5
  <1>3. ASSUME NEW t \in Task, Buffer(t) PROVE Single(i)'
    <2>1. /\ task[t].pc = "attempt" /\ End(t) /\ buffer' = buffer \cup {task[t].item}
          /\ UNCHANGED <<seen, sends, logged>>
      BY <1>3 DEF Buffer
    <2>2. Barred(i) <=> Barred(i)'
      BY <2>1 DEF Barred
    <2>3. \A u \in Task : Holds(u, i)' => u # t /\ Holds(u, i) /\ task'[u] = task[u]
      BY <2>1, EndedHolds DEF Holds
    <2>4. CASE task[t].item # i
      BY <1>0, <2>1, <2>2, <2>3, <2>4, SingleShrinks
    <2>5. CASE task[t].item = i
      <3>1. Holds(t, i) /\ Busy(i)
        BY <2>1, <2>5, Forwards, BusyHolds DEF Holds
      <3>2. \A u \in Task : ~Holds(u, i)'
        BY <1>0, <2>3, <3>1 DEF Single
      <3>3. Barred(i)' /\ logged'[i] = 0
        BY <1>0, <2>1, <2>2, <3>1 DEF Single, Shape
      <3> QED BY <3>2, <3>3, BusyHolds DEF Single, Busy, Holds
    <2> QED BY <2>4, <2>5
  <1>4. ASSUME NEW t \in Task, End(t), UNCHANGED <<seen, buffer, sends, logged>> PROVE Single(i)'
    <2>1. \A u \in Task : Holds(u, i)' => Holds(u, i) /\ task'[u] = task[u]
      BY <1>4, EndedHolds DEF Holds
    <2> QED BY <1>0, <1>4, <2>1, SingleShrinks DEF Barred
  <1>5. ASSUME NEW t \in Task, Post(t) PROVE Single(i)'
    <2>1. /\ task[t].pc = "attempt" /\ Goto(t, "posted")
          /\ UNCHANGED <<seen, buffer, sends, logged>>
      BY <1>5 DEF Post
    <2>2. \A u \in Task : Holds(u, i)' => Holds(u, i) /\ (u # t => task'[u] = task[u])
      BY <2>1, Gone, KeptHolds
    <2> QED BY <1>0, <2>1, <2>2, SingleShrinks DEF Barred
  <1>6. ASSUME NEW t \in Task, Append(t) PROVE Single(i)'
    <2>1. /\ task[t].pc = "posted" /\ Goto(t, "logged") /\ task[t].item \in Item
          /\ UNCHANGED <<seen, buffer, sends>>
          /\ logged' = [logged EXCEPT ![task[t].item] = @ + 1] /\ logged \in [Item -> Nat]
      BY <1>6, Forwards DEF Append, Shape
    <2>2. \A u \in Task : Holds(u, i)' => Holds(u, i) /\ (u # t => task'[u] = task[u])
      BY <2>1, Gone, KeptHolds
    <2>3. CASE task[t].item # i
      BY <1>0, <2>1, <2>2, <2>3, SingleShrinks DEF Barred, Holds
    <2>4. CASE task[t].item = i
      <3>1. Holds(t, i) /\ Busy(i)
        BY <2>1, <2>4, Forwards, BusyHolds DEF Holds
      <3>2. logged[i] = 0 /\ i \notin buffer' /\ Barred(i)'
        BY <1>0, <2>1, <3>1 DEF Single, Barred
      <3>3. logged'[i] = 1
        BY <2>1, <2>4, <3>2
      <3>4. \A u \in Task : Holds(u, i)' => u = t /\ task'[u].pc = "logged"
        BY <1>0, <2>1, <2>2, <3>1, Gone DEF Single
      <3> QED BY <3>2, <3>3, <3>4, BusyHolds DEF Single
    <2> QED BY <2>3, <2>4
  <1>7. ASSUME NEW t \in Task, Unavailable(t) PROVE Single(i)'
    <2>1. task[t].pc \in {"posted", "logged"} /\ UNCHANGED <<seen, buffer, sends, logged>>
      BY <1>7 DEF Unavailable
    <2>2. CASE Retries(t)
      <3>1. /\ \A u \in Task : Holds(u, i)' => Holds(u, i) /\ (u # t => task'[u] = task[u])
            /\ task[t].item \in Item
        BY <1>7, <2>1, <2>2, Retried, KeptHolds, Forwards DEF Unavailable
      <3>2. CASE task[t].pc = "logged" /\ task[t].item = i
        <4>1. Note(i, "late503")
          BY <1>7, <2>2, <3>2 DEF Unavailable
        <4>2. "late503" \in causes'[i]
          BY <4>1, Noted DEF Cause
        <4> QED BY <4>2 DEF Excused
      <3>3. CASE task[t].pc = "posted" \/ task[t].item # i
        <4>1. \A u \in Task : Holds(u, i)' =>
                Holds(u, i) /\ (task[u].pc = "logged" => task'[u].pc = "logged")
          BY <3>1, <3>3 DEF Holds
        <4> QED BY <1>0, <2>1, <4>1, SingleShrinks DEF Barred
      <3> QED BY <2>1, <3>2, <3>3
    <2>3. CASE ~Retries(t)
      BY <1>7, <2>1, <2>3, <1>4 DEF Unavailable
    <2> QED BY <2>2, <2>3
  <1>8. ASSUME NEW j \in Item, BufferTimeout(j) PROVE Single(i)'
    BY <1>0, <1>8, SingleShrinks DEF BufferTimeout, Barred, Holds
  <1>9. ASSUME NEW j \in Item, ExpireSeen(j) PROVE Single(i)'
    <2>1. CASE i = j
      BY <1>9, <2>1, Noted DEF ExpireSeen, Excused, Cause
    <2>2. CASE i # j
      BY <1>0, <1>9, <2>2, SingleShrinks DEF ExpireSeen, Barred, Holds
    <2> QED BY <2>1, <2>2
  <1>10. CASE UNCHANGED <<seen, buffer, task, sends, logged>>
    BY <1>0, <1>10, SingleShrinks DEF Barred, Holds
  <1> QED
    BY <1>1, <1>2, <1>3, <1>4, <1>5, <1>6, <1>7, <1>8, <1>9, <1>10
    DEF Next, TaskStep, TrackLeader, PostFails, Succeed, vars

------------------------------------------------------------------------------
(* Why an item may be gone. *)
Reasons(i) == causes[i] \cap {"connection", "undo503", "second503", "drained", "timeout"} # {}

(* Whoever ends has its item in the buffer, in the log, or a reason on       *)
(* record; whoever empties the buffer hands over or leaves a reason.        *)
LEMMA NothingLostStep ==
    ASSUME Shape, AppendedIsLogged, SeenWasSent, NothingLostSilently, [Next]_vars
    PROVE  NothingLostSilently'
  <1> SUFFICES ASSUME NEW i \in Item, sends'[i] > 0, logged'[i] = 0, ~Busy(i)', i \notin buffer'
               PROVE  Reasons(i)'
    BY DEF NothingLostSilently, Reasons
  <1>0. Reasons(i) => Reasons(i)'
    BY CausesGrow DEF Reasons
  <1>b. \A u \in Task : ~Holds(u, i)'
    BY DEF Busy, Holds
  <1>a. ASSUME sends[i] > 0, logged[i] = 0, ~Busy(i), i \notin buffer PROVE Reasons(i)'
    BY <1>a, <1>0 DEF NothingLostSilently, Reasons
  <1>1. ASSUME NEW t \in Task, NEW j \in Item, Receive(t, j) PROVE Reasons(i)'
    <2>1. /\ task[t] = Idle /\ UNCHANGED <<buffer, logged>>
          /\ sends' = [sends EXCEPT ![j] = @ + 1] /\ sends \in [Item -> Nat]
      BY <1>1 DEF Receive, Shape
    <2>2. CASE Duplicate(j)
      <3>1. UNCHANGED task /\ sends[j] > 0
        BY <1>1, <2>2 DEF Receive, Duplicate, SeenWasSent
      <3> QED BY <1>a, <2>1, <3>1 DEF Busy
    <2>3. CASE ~Duplicate(j)
      <3>1. Begin(t, j)
        BY <1>1, <2>3 DEF Receive
      <3>2. i # j /\ ~Busy(i)
        BY <2>1, <3>1, <1>b, BegunHolds, BusyHolds
      <3> QED BY <1>a, <2>1, <3>2
    <2> QED BY <2>2, <2>3
  <1>2. ASSUME NEW t \in Task, NEW j \in Item, Drain(t, j) PROVE Reasons(i)'
    <2>1. /\ task[t] = Idle /\ UNCHANGED <<sends, logged>> /\ buffer' = buffer \ {j}
      BY <1>2 DEF Drain
    <2>2. CASE Duplicate(j)
      <3>1. UNCHANGED task /\ Note(j, "drained")
        BY <1>2, <2>2 DEF Drain
      <3>2. CASE i = j
        BY <3>1, <3>2, Noted DEF Reasons, Cause
      <3>3. CASE i # j
        BY <1>a, <2>1, <3>1, <3>3 DEF Busy
      <3> QED BY <3>2, <3>3
    <2>3. CASE ~Duplicate(j)
      <3>1. Begin(t, j)
        BY <1>2, <2>3 DEF Drain
      <3>2. i # j /\ ~Busy(i)
        BY <2>1, <3>1, <1>b, BegunHolds, BusyHolds
      <3> QED BY <1>a, <2>1, <3>2
    <2> QED BY <2>2, <2>3
  <1>3. ASSUME NEW t \in Task, End(t), UNCHANGED <<sends, logged>>, buffer \subseteq buffer',
               Holds(t, i) => Reasons(i)'
        PROVE  Reasons(i)'
    <2>1. CASE Holds(t, i)
      BY <1>3, <2>1
    <2>2. CASE ~Holds(t, i)
      <3>1. ~Busy(i)
        BY <1>3, <2>2, <1>b, EndedHolds, BusyHolds
      <3> QED BY <1>3, <1>a, <3>1
    <2> QED BY <2>1, <2>2
  <1>4. ASSUME NEW t \in Task, Buffer(t) PROVE Reasons(i)'
    <2>1. ~Holds(t, i)
      BY <1>4 DEF Buffer, Holds
    <2> QED BY <1>3, <1>4, <2>1 DEF Buffer
  <1>5. ASSUME NEW t \in Task, Post(t) PROVE Reasons(i)'
    <2>1. ~Busy(i)
      BY <1>5, Gone, <1>b, KeptHolds, BusyHolds DEF Post
    <2> QED BY <1>5, <1>a, <2>1 DEF Post
  <1>6. ASSUME NEW t \in Task, PostFails(t) PROVE Reasons(i)'
    <2>1. Holds(t, i) => Reasons(i)'
      BY <1>6, Noted DEF PostFails, Holds, Reasons, Cause
    <2> QED BY <1>3, <1>6, <2>1 DEF PostFails
  <1>7. ASSUME NEW t \in Task, Append(t) PROVE Reasons(i)'
    <2>1. /\ task[t].item \in Item /\ logged \in [Item -> Nat]
          /\ logged' = [logged EXCEPT ![task[t].item] = @ + 1]
      BY <1>7, Forwards DEF Append, Shape
    <2>2. logged[i] = 0 /\ ~Busy(i)
      BY <1>7, <2>1, Gone, <1>b, KeptHolds, BusyHolds DEF Append
    <2> QED BY <1>7, <1>a, <2>2 DEF Append
  <1>8. ASSUME NEW t \in Task, Succeed(t) PROVE Reasons(i)'
    <2>1. ~Holds(t, i)
      BY <1>8 DEF Succeed, Holds, AppendedIsLogged
    <2> QED BY <1>3, <1>8, <2>1 DEF Succeed
  <1>9. ASSUME NEW t \in Task, Unavailable(t) PROVE Reasons(i)'
    <2>1. CASE Retries(t)
      <3>1. ~Busy(i)
        BY <1>9, <2>1, Retried, <1>b, KeptHolds, BusyHolds DEF Unavailable
      <3> QED BY <1>9, <1>a, <3>1 DEF Unavailable
    <2>2. CASE ~Retries(t)
      <3>1. Holds(t, i) => Reasons(i)'
        BY <1>9, <2>2, Noted DEF Unavailable, Holds, Reasons, Cause
      <3> QED BY <1>3, <1>9, <2>2, <3>1 DEF Unavailable
    <2> QED BY <2>1, <2>2
  <1>10. ASSUME NEW j \in Item, BufferTimeout(j) PROVE Reasons(i)'
    <2>1. CASE i = j
      BY <1>10, <2>1, Noted DEF BufferTimeout, Reasons, Cause
    <2>2. CASE i # j
      BY <1>10, <1>a, <2>2 DEF BufferTimeout, Busy
    <2> QED BY <2>1, <2>2
  <1>11. CASE UNCHANGED <<buffer, task, sends, logged>>
    BY <1>11, <1>a DEF Busy
  <1> QED
    BY <1>1, <1>2, <1>4, <1>5, <1>6, <1>7, <1>8, <1>9, <1>10, <1>11
    DEF Next, TaskStep, TrackLeader, ExpireSeen, vars

------------------------------------------------------------------------------
(* A copy is in one place, and whatever disappears leaves a reason. *)
THEOREM ForwardingInductive == Spec => []IInv
  <1>1. Init => IInv
    BY InitIInv
  <1>2. IInv /\ [Next]_vars => IInv'
    BY ShapeStep, AppendedIsLoggedStep, SeenWasSentStep, SinglesStep, NothingLostStep DEF IInv
  <1> QED BY <1>1, <1>2, PTL DEF Spec

(* However many goroutines forward: the leader gets an item twice only after *)
(* a 503 for a logged entry, or when the cache has forgotten the stroke.     *)
THEOREM LoggedOnceAlways == Spec => []LoggedOnce
  <1>1. IInv => LoggedOnce
    BY DEF IInv, Shape, Singles, Single, Excused, LoggedOnce
  <1> QED BY <1>1, ForwardingInductive, PTL

(* However often browsers repeat a stroke: it is on its way, buffered or     *)
(* logged, or one of the five reasons is on record.                         *)
THEOREM NothingLostSilentlyAlways == Spec => []NothingLostSilently
  <1>1. IInv => NothingLostSilently
    BY DEF IInv
  <1> QED BY <1>1, ForwardingInductive, PTL

(***************************************************************************)
(* The leader tracker.                                                     *)
(***************************************************************************)

(* id has led term t or an earlier one. *)
HasLed(led, id, t) == \E e \in led : e.id = id /\ e.term <= t

(* A status that replica r shows or has shown. *)
StatusLed(led, r, s) ==
    /\ s \in Status
    /\ s.leaderId # None => HasLed(led, s.leaderId, s.term)
    /\ s.state = "LEADER" => HasLed(led, r, s.term)

AnswersLed(led, a) ==
    \A r \in DOMAIN a : r \in Replica /\ (a[r] # <<>> => StatusLed(led, r, a[r][1]))

NodesLed(led, nodes) ==
    nodes \in [Replica -> Status] /\ \A r \in Replica : StatusLed(led, r, nodes[r])

TrackerInv ==
    /\ elected \subseteq [id : Replica, term : 0..MaxTerm]
    /\ NodesLed(elected, node)
    /\ AnswersLed(elected, answers)
    /\ leaderID \in Replica \cup {None} /\ term \in 0..MaxTerm
    /\ TrackedHasLed

(* Terms of leaderships are never taken back.                               *)
LEMMA StillLed ==
    ASSUME NEW led, NEW led2, led \subseteq led2, NEW r, NEW s, StatusLed(led, r, s)
    PROVE  StatusLed(led2, r, s)
BY DEF StatusLed, HasLed

LEMMA AnswersStillLed ==
    ASSUME NEW led, NEW led2, led \subseteq led2, NEW a, AnswersLed(led, a)
    PROVE  AnswersLed(led2, a)
BY StillLed DEF AnswersLed

LEMMA NodeBecomes ==
    ASSUME NEW led, NEW led2, led \subseteq led2, NodesLed(led, node),
           NEW r \in Replica, NEW s, StatusLed(led2, r, s), Becomes(r, s)
    PROVE  NodesLed(led2, node')
<1>1. node' = [node EXCEPT ![r] = s] /\ node \in [Replica -> Status] /\ s \in Status
  BY DEF Becomes, NodesLed, StatusLed
<1>2. \A p \in Replica : StatusLed(led2, p, node[p])
  BY StillLed DEF NodesLed
<1>3. \A p \in Replica : node'[p] = IF p = r THEN s ELSE node[p]
  BY <1>1
<1>4. node' \in [Replica -> Status]
  BY <1>1
<1> QED
  BY <1>2, <1>3, <1>4 DEF NodesLed

LEMMA InitTracker == TrackerInit => TrackerInv
<1> SUFFICES ASSUME TrackerInit PROVE TrackerInv
  OBVIOUS
<1>1. DOMAIN answers = {}
  BY DEF TrackerInit
<1>2. \A r \in Replica : node[r] \in Status /\ node[r].leaderId = None /\ node[r].state = "FOLLOWER"
  <2> DEFINE s == [state |-> "FOLLOWER", term |-> 0, leaderId |-> None]
  <2>1. s \in Status
    BY TermAssumption DEF Status
  <2>2. \A r \in Replica : node[r] = s
    BY DEF TrackerInit, ClusterInit
  <2>3. s.leaderId = None /\ s.state = "FOLLOWER"
    OBVIOUS
  <2> HIDE DEF s
  <2> QED
    BY <2>1, <2>2, <2>3
<1>4. node \in [Replica -> Status]
  BY <1>2 DEF TrackerInit, ClusterInit
<1>5. "FOLLOWER" # "LEADER"
  OBVIOUS
<1>3. NodesLed(elected, node)
  BY <1>2, <1>4, <1>5 DEF NodesLed, StatusLed
<1> QED
  BY <1>1, <1>3, TermAssumption DEF TrackerInit, ClusterInit, TrackerInv, AnswersLed, TrackedHasLed

(* What a replica does leaves what the tracker has heard.                   *)
LEMMA ClusterInv ==
    ASSUME TrackerInv, ClusterNext, UNCHANGED pollVars
    PROVE  TrackerInv'
<1>0. MaxTerm \in Nat /\ \A r \in Replica : StatusLed(elected, r, node[r]) /\ node[r] \in Status
  BY TermAssumption DEF TrackerInv, NodesLed, StatusLed
<1>1. SUFFICES ASSUME elected \subseteq elected',
                      elected' \subseteq [id : Replica, term : 0..MaxTerm],
                      NodesLed(elected', node')
               PROVE  TrackerInv'
  <2>1. PICK r \in Replica :
          \/ StartElection(r) \/ BecomeLeader(r) \/ SeeTerm(r)
          \/ Disconnect(r) \/ Reconnect(r)
          \/ \E e \in elected : HearLeader(r, e)
    BY DEF ClusterNext
  <2> DEFINE Goal == /\ elected \subseteq elected'
                     /\ elected' \subseteq [id : Replica, term : 0..MaxTerm]
                     /\ NodesLed(elected', node')
  <2>2. \A s : Becomes(r, s) /\ elected' = elected
                 /\ StatusLed(elected, r, s) => Goal
    BY NodeBecomes DEF TrackerInv
  <2> DEFINE s == node[r]
  <2>3. s \in Status /\ StatusLed(elected, r, s) /\ s.term \in 0..MaxTerm
    BY <1>0 DEF Status
  <2>4. CASE StartElection(r)
    <3> DEFINE s2 == [state |-> "CANDIDATE", term |-> s.term + 1, leaderId |-> s.leaderId]
    <3>1. s2 \in Status /\ s.term + 1 \in Int
      BY <1>0, <2>3, <2>4 DEF StartElection, Status
    <3>2. \A id : HasLed(elected, id, s.term) => HasLed(elected, id, s.term + 1)
      <4>1. \A e \in elected : e.term \in Int
        BY <1>0 DEF TrackerInv
      <4> QED
        BY <2>3, <4>1 DEF HasLed
    <3>3. StatusLed(elected, r, s2)
      BY <2>3, <3>1, <3>2 DEF StatusLed
    <3>4. Becomes(r, s2) /\ elected' = elected
      BY <2>4 DEF StartElection
    <3> HIDE DEF s2
    <3> QED
      BY <2>2, <3>3, <3>4
  <2>5. CASE BecomeLeader(r)
    <3> DEFINE s2 == [state |-> "LEADER", term |-> s.term, leaderId |-> r]
               e == [id |-> r, term |-> s.term]
    <3>1. /\ s2 \in Status /\ s2.leaderId = r /\ s2.term = s.term /\ s2.state = "LEADER"
      BY <2>3 DEF Status
    <3>2. /\ Becomes(r, s2) /\ elected' = elected \cup {e}
      BY <2>5 DEF BecomeLeader
    <3>3. HasLed(elected', r, s.term)
      <4>1. e \in elected' /\ e.id = r /\ e.term <= s.term
        BY <2>3, <3>2
      <4> QED
        BY <4>1 DEF HasLed
    <3>4. StatusLed(elected', r, s2)
      BY <3>1, <3>3 DEF StatusLed
    <3>5. elected' \subseteq [id : Replica, term : 0..MaxTerm]
      BY <2>3, <3>2 DEF TrackerInv
    <3> HIDE DEF s2
    <3>6. NodesLed(elected', node')
      BY <3>2, <3>4, NodeBecomes DEF TrackerInv
    <3> QED
      BY <3>2, <3>5, <3>6
  <2>6. CASE SeeTerm(r)
    <3>1. PICK t \in s.term..MaxTerm : Becomes(r, Follower(t, None))
      BY <2>6 DEF SeeTerm
    <3>2. StatusLed(elected, r, Follower(t, None))
      BY <1>0, <2>3 DEF StatusLed, Status, Follower
    <3>3. elected' = elected
      BY <2>6 DEF SeeTerm
    <3> QED
      BY <2>2, <3>1, <3>2, <3>3
  <2>7. ASSUME NEW e \in elected, HearLeader(r, e) PROVE Goal
    <3> DEFINE s2 == Follower(e.term, e.id)
    <3>1. e.id \in Replica /\ e.term \in 0..MaxTerm
      BY DEF TrackerInv
    <3>2. HasLed(elected, e.id, e.term)
      BY <1>0, <3>1 DEF HasLed
    <3>3. StatusLed(elected, r, s2)
      BY <3>1, <3>2 DEF StatusLed, Status, Follower
    <3>4. Becomes(r, s2) /\ elected' = elected
      BY <2>7 DEF HearLeader
    <3> HIDE DEF s2
    <3> QED
      BY <2>2, <3>3, <3>4
  <2>8. ASSUME UNCHANGED <<node, elected>> PROVE Goal
    BY <2>8 DEF TrackerInv
  <2>9. CASE Disconnect(r)
    <3>1. CASE UNCHANGED node
      BY <2>8, <2>9, <3>1 DEF Disconnect
    <3>2. ASSUME NEW t \in s.term..MaxTerm, Becomes(r, Follower(t, None)) PROVE Goal
      <4>1. StatusLed(elected, r, Follower(t, None))
        BY <1>0, <2>3 DEF StatusLed, Status, Follower
      <4>2. elected' = elected
        BY <2>9 DEF Disconnect
      <4> QED
        BY <2>2, <3>2, <4>1, <4>2
    <3> QED
      BY <2>9, <3>1, <3>2 DEF Disconnect
  <2>10. CASE Reconnect(r)
    BY <2>8, <2>10 DEF Reconnect
  <2> QED
    BY <2>1, <2>4, <2>5, <2>6, <2>7, <2>9, <2>10
<1>2. AnswersLed(elected', answers')
  BY <1>1, AnswersStillLed DEF TrackerInv, pollVars
<1>3. TrackedHasLed'
  BY <1>1 DEF TrackerInv, TrackedHasLed, pollVars
<1> QED
  BY <1>1, <1>2, <1>3 DEF TrackerInv, pollVars

(* An answer is what the replica shows at that moment.                      *)
LEMMA FetchInv ==
    ASSUME TrackerInv, NEW r \in Replica, Fetch(r)
    PROVE  TrackerInv'
<1>1. /\ DOMAIN answers' = DOMAIN answers \cup {r}
      /\ \A p \in DOMAIN answers : answers'[p] = IF p # r THEN answers[p] ELSE answers'[r]
      /\ answers'[r] = <<node[r]>> \/ answers'[r] = <<>>
      /\ UNCHANGED <<leaderID, term>> /\ UNCHANGED clusterVars
  BY DEF Fetch
<1>2. <<node[r]>>[1] = node[r] /\ StatusLed(elected, r, node[r])
  BY DEF TrackerInv, NodesLed
<1>3. ASSUME NEW p \in DOMAIN answers'
      PROVE  p \in Replica /\ (answers'[p] # <<>> => StatusLed(elected, p, answers'[p][1]))
  <2>1. CASE p = r
    BY <1>1, <1>2, <2>1
  <2>2. CASE p # r
    BY <1>1, <1>3, <2>2 DEF TrackerInv, AnswersLed
  <2> QED
    BY <2>1, <2>2
<1>4. AnswersLed(elected, answers')
  BY <1>3 DEF AnswersLed
<1> QED
  BY <1>1, <1>4 DEF TrackerInv, TrackedHasLed, clusterVars

(* Whoever a poll picks has led in the term it picks, or before.            *)
LEMMA CandidatesLed ==
    ASSUME TrackerInv, NEW c \in Candidates
    PROVE  c.id \in Replica /\ c.term \in 0..MaxTerm /\ HasLed(elected, c.id, c.term)
<1>1. ASSUME NEW r \in Healthy
      PROVE  r \in Replica /\ StatusLed(elected, r, answers[r][1])
  BY <1>1 DEF TrackerInv, AnswersLed, Healthy
<1>2. CASE c \in Leading
  <2>1. PICK r \in Healthy : answers[r][1].state = "LEADER" /\ c = Claim(r, answers[r][1].term)
    BY <1>2 DEF Leading
  <2>2. c.id = r /\ c.term = answers[r][1].term
    BY <2>1 DEF Claim
  <2> QED
    BY <1>1, <2>1, <2>2 DEF StatusLed, Status
<1>3. CASE c \in Reported
  <2>1. PICK r \in Healthy : /\ answers[r][1].leaderId # None
                             /\ c = Claim(answers[r][1].leaderId, answers[r][1].term)
    BY <1>3 DEF Reported
  <2>2. c.id = answers[r][1].leaderId /\ c.term = answers[r][1].term
    BY <2>1 DEF Claim
  <2> QED
    BY <1>1, <2>1, <2>2 DEF StatusLed, Status
<1> QED
  BY <1>2, <1>3 DEF Candidates

LEMMA ConcludeInv == ASSUME TrackerInv, Conclude PROVE TrackerInv'
<1>1. answers' = <<>> /\ UNCHANGED <<node, reachable, elected>>
  BY DEF Conclude, clusterVars
<1>2. AnswersLed(elected', answers')
  <2>1. DOMAIN answers' = {}
    BY <1>1
  <2> QED
    BY <2>1 DEF AnswersLed
<1>3. CASE UNCHANGED <<leaderID, term>>
  BY <1>1, <1>2, <1>3 DEF TrackerInv, TrackedHasLed
<1>4. ASSUME NEW c \in Candidates, leaderID' = c.id, term' = c.term PROVE TrackerInv'
  <2>1. c.id \in Replica /\ c.term \in 0..MaxTerm /\ HasLed(elected, c.id, c.term)
    BY CandidatesLed
  <2> QED
    BY <1>1, <1>2, <1>4, <2>1 DEF TrackerInv, TrackedHasLed, HasLed
<1> QED
  BY <1>3, <1>4 DEF Conclude, Pick

(* Whatever the replicas do and however old the answers of a poll are, the  *)
(* tracker names only replicas that have led, in the term it reports or in  *)
(* an earlier one.                                                          *)
THEOREM TrackerNamesLeaders == TrackerSpec => []TrackedHasLed
<1>1. TrackerInv /\ [TrackerNext]_TrackerVars => TrackerInv'
  <2> SUFFICES ASSUME TrackerInv, [TrackerNext]_TrackerVars PROVE TrackerInv'
    OBVIOUS
  <2>1. CASE UNCHANGED TrackerVars
    BY <2>1 DEF TrackerVars, clusterVars, pollVars, TrackerInv, TrackedHasLed
  <2> QED
    BY <2>1, ClusterInv, FetchInv, ConcludeInv DEF TrackerNext, TrackerStep
<1>2. TrackerInv => TrackedHasLed
  BY DEF TrackerInv
<1> QED
  BY <1>1, <1>2, InitTracker, PTL DEF TrackerSpec
==============================================================================
