----------------------- MODULE ChaosPartitionsProofs -----------------------
(***************************************************************************)
(* Proofs about ChaosPartitions, for any replicas, requests and auto-heal    *)
(* goroutines.  PartitionRemembered needs the shape of the processes and of *)
(* the history beside it, and then is inductive: only Disconnect takes a    *)
(* container off the network, and every later step that takes its entry or  *)
(* its request away leaves a gap.                                           *)
(***************************************************************************)
EXTENDS ChaosPartitions, TLAPS

Waiting ==
    [pc : {"disconnect", "record", "sleep", "connect", "delete"},
     service : Service, todo : SUBSET Service]

Ranging == [pc : {"all"}, todo : SUBSET Service]

Gaps == SUBSET {"unrecorded", "erased", "failed", "restarted"}

Shape ==
    /\ attached \subseteq Service /\ partitioned \subseteq Service
    /\ proc \in [Request \cup Healer -> {Idle} \cup Waiting \cup Ranging]
    /\ gaps \in [Service -> Gaps]

IInv == Shape /\ PartitionRemembered

------------------------------------------------------------------------------
(* What a process that is not recording does to itself forgets no request    *)
(* that is.                                                                 *)
LEMMA OthersRecord ==
    ASSUME NEW p, NEW s, NEW x, Shape, ~At(p, "record"),
           proc' = [proc EXCEPT ![p] = x], Recording(s)
    PROVE  Recording(s)'
  <1>1. PICK q \in Request : At(q, "record") /\ proc[q].service = s
    BY DEF Recording
  <1>2. q # p /\ q \in DOMAIN proc
    BY <1>1 DEF Shape
  <1>3. proc'[q] = proc[q]
    BY <1>2
  <1> QED BY <1>1, <1>3 DEF Recording, At

(* A process that waits for its turn has a service. *)
LEMMA HasService ==
    ASSUME NEW p \in Request \cup Healer, Shape,
           At(p, "disconnect") \/ At(p, "record") \/ At(p, "sleep")
             \/ At(p, "connect") \/ At(p, "delete")
    PROVE  proc[p] \in Waiting /\ proc[p].service \in Service /\ proc[p].todo \subseteq Service
  <1>1. proc[p] \in {Idle} \cup Waiting \cup Ranging
    BY DEF Shape
  <1>2. proc[p] \notin {Idle} /\ proc[p] \notin Ranging
    BY DEF At, Idle, Ranging
  <1> QED BY <1>1, <1>2 DEF Waiting

(* The step that ends one service of a heal. *)
LEMMA ProceedShape ==
    ASSUME NEW p \in Request \cup Healer, Shape, At(p, "connect") \/ At(p, "delete"), Proceed(p)
    PROVE  /\ proc' \in [Request \cup Healer -> {Idle} \cup Waiting \cup Ranging]
           /\ \E x : proc' = [proc EXCEPT ![p] = x]
  <1>1. proc[p].todo \subseteq Service
    BY HasService
  <1>2. CASE proc[p].todo = {}
    <2>1. proc' = [proc EXCEPT ![p] = Idle]
      BY <1>2 DEF Proceed
    <2> QED BY <2>1 DEF Shape
  <1>3. CASE proc[p].todo # {}
    <2>1. proc' = [proc EXCEPT ![p] = [pc |-> "all", todo |-> proc[p].todo]]
      BY <1>3 DEF Proceed
    <2>2. [pc |-> "all", todo |-> proc[p].todo] \in Ranging
      BY <1>1 DEF Ranging
    <2> QED BY <2>1, <2>2 DEF Shape
  <1> QED BY <1>2, <1>3

------------------------------------------------------------------------------
(* The initial states: every container is on the network. *)
LEMMA InitIInv == Init => IInv
  BY DEF Init, IInv, Shape, PartitionRemembered, Gaps

(* The starts of requests, and the steps that change only their process. *)
LEMMA OnlyProcess ==
    ASSUME NEW p \in Request \cup Healer, NEW x \in {Idle} \cup Waiting \cup Ranging,
           IInv, ~At(p, "record"), proc' = [proc EXCEPT ![p] = x],
           UNCHANGED <<attached, partitioned, gaps>>
    PROVE  IInv'
  <1>1. Shape'
    BY DEF IInv, Shape
  <1>2. PartitionRemembered'
    <2> SUFFICES ASSUME NEW s \in Service \ attached'
                 PROVE  \/ s \in partitioned' \/ Recording(s)'
                        \/ gaps'[s] \cap {"unrecorded", "erased", "restarted"} # {}
      BY DEF PartitionRemembered
    <2>1. Recording(s) => Recording(s)'
      BY OthersRecord DEF IInv
    <2> QED BY <2>1 DEF IInv, PartitionRemembered
  <1> QED BY <1>1, <1>2 DEF IInv

(* NetworkDisconnect: the request goes on to record, or leaves a gap. *)
LEMMA DisconnectIInv ==
    ASSUME NEW q \in Request, IInv, Disconnect(q) PROVE IInv'
  <1> DEFINE t == proc[q].service
  <1>1. t \in Service /\ proc[q] \in Waiting /\ ~At(q, "record")
    BY HasService DEF IInv, Disconnect, At
  <1>2. CASE t \in attached /\ attached' = attached \ {t} /\ Goto(q, "record") /\ UNCHANGED <<gaps, partitioned>>
    <2>1. proc' = [proc EXCEPT ![q] = [proc[q] EXCEPT !.pc = "record"]]
      BY <1>2 DEF Goto
    <2>2. [proc[q] EXCEPT !.pc = "record"] \in Waiting
      BY <1>1 DEF Waiting
    <2>3. Shape'
      BY <1>2, <2>1, <2>2 DEF IInv, Shape
    <2>4. \A s \in Service : s = t => Recording(s)'
      <3>1. proc'[q] = [proc[q] EXCEPT !.pc = "record"]
        BY <2>1 DEF IInv, Shape
      <3>2. proc'[q].pc = "record" /\ proc'[q].service = proc[q].service
        BY <1>1, <3>1 DEF Waiting
      <3> QED BY <3>2 DEF Recording, At
    <2>5. \A s \in Service : Recording(s) => Recording(s)'
      BY <1>1, <2>1, OthersRecord DEF IInv
    <2>6. PartitionRemembered'
      BY <1>2, <2>4, <2>5 DEF IInv, PartitionRemembered
    <2> QED BY <2>3, <2>6 DEF IInv
  <1>3. CASE t \in attached /\ attached' = attached \ {t} /\ End(q) /\ Gap(t, "unrecorded") /\ UNCHANGED partitioned
    <2>1. Shape'
      BY <1>1, <1>3 DEF IInv, Shape, End, Gap, Gaps
    <2>2. \A s \in Service : Recording(s) => Recording(s)'
      BY <1>1, <1>3, OthersRecord DEF IInv, End
    <2>3. \A s \in Service : gaps[s] \subseteq gaps'[s] /\ "unrecorded" \in gaps'[t]
      BY <1>1, <1>3 DEF IInv, Shape, Gap
    <2>4. PartitionRemembered'
      BY <1>3, <2>2, <2>3 DEF IInv, PartitionRemembered
    <2> QED BY <2>1, <2>4 DEF IInv
  <1>4. CASE End(q) /\ UNCHANGED <<attached, gaps, partitioned>>
    BY <1>1, <1>4, OnlyProcess DEF End
  <1> QED BY <1>2, <1>3, <1>4 DEF Disconnect

(* Recording replaces the request that is about to record by the entry. *)
LEMMA RecordIInv ==
    ASSUME NEW q \in Request, IInv, Record(q) PROVE IInv'
  <1> DEFINE t == proc[q].service
  <1>1. t \in Service
    BY HasService DEF IInv, Record
  <1>2. PICK h \in Healer : At(h, "idle") /\ proc' = [proc EXCEPT ![q] = Idle, ![h] = Asleep(t)]
    BY DEF Record
  <1>3. Asleep(t) \in Waiting
    BY <1>1 DEF Asleep, Waiting
  <1>4. Shape'
    BY <1>1, <1>2, <1>3 DEF IInv, Shape, Record
  <1>5. \A s \in Service : s # t /\ Recording(s) => Recording(s)'
    <2> SUFFICES ASSUME NEW s \in Service, s # t, Recording(s) PROVE Recording(s)'
      OBVIOUS
    <2>1. PICK r \in Request : At(r, "record") /\ proc[r].service = s
      BY DEF Recording
    <2>2. r # q /\ r # h
      BY <1>2, <2>1 DEF At
    <2>3. proc'[r] = proc[r]
      BY <1>2, <2>2 DEF IInv, Shape
    <2> QED BY <2>1, <2>3 DEF Recording, At
  <1>6. PartitionRemembered'
    BY <1>5 DEF IInv, PartitionRemembered, Record
  <1> QED BY <1>4, <1>6 DEF IInv

(* NetworkConnect: the only gaps that go are those of a container that is    *)
(* back on the network.                                                     *)
LEMMA ConnectIInv ==
    ASSUME NEW p \in Request \cup Healer, IInv, Connect(p) PROVE IInv'
  <1> DEFINE t == proc[p].service
  <1>1. t \in Service /\ proc[p] \in Waiting /\ ~At(p, "record")
    BY HasService DEF IInv, Connect, At
  <1>2. /\ proc' \in [Request \cup Healer -> {Idle} \cup Waiting \cup Ranging]
        /\ \E x : proc' = [proc EXCEPT ![p] = x]
    <2>1. CASE Proceed(p)
      BY <2>1, ProceedShape DEF IInv, Connect
    <2>2. CASE Goto(p, "delete")
      <3>1. proc' = [proc EXCEPT ![p] = [proc[p] EXCEPT !.pc = "delete"]]
        BY <2>2 DEF Goto
      <3>2. [proc[p] EXCEPT !.pc = "delete"] \in Waiting
        BY <1>1 DEF Waiting
      <3> QED BY <3>1, <3>2 DEF IInv, Shape
    <2> QED BY <2>1, <2>2 DEF Connect
  <1>3. \A s \in Service : Recording(s) => Recording(s)'
    BY <1>1, <1>2, OthersRecord DEF IInv
  <1>4. CASE Attach(t)
    <2>1. Shape'
      BY <1>1, <1>2, <1>4 DEF IInv, Shape, Attach, Connect, Gaps
    <2>2. \A s \in Service : s # t => gaps'[s] = gaps[s]
      BY <1>4 DEF IInv, Shape, Attach
    <2>3. PartitionRemembered'
      BY <1>3, <1>4, <2>2 DEF IInv, PartitionRemembered, Attach, Connect
    <2> QED BY <2>1, <2>3 DEF IInv
  <1>5. CASE UNCHANGED attached /\ (Gap(t, "failed") \/ UNCHANGED gaps)
    <2>1. Shape'
      BY <1>1, <1>2, <1>5 DEF IInv, Shape, Gap, Connect, Gaps
    <2>2. \A s \in Service : gaps[s] \subseteq gaps'[s]
      BY <1>5 DEF IInv, Shape, Gap
    <2>3. PartitionRemembered'
      BY <1>3, <1>5, <2>2 DEF IInv, PartitionRemembered, Connect
    <2> QED BY <2>1, <2>3 DEF IInv
  <1> QED BY <1>4, <1>5 DEF Connect

(* Deleting the entry of a container that is off the network leaves a gap.   *)
LEMMA DeleteIInv ==
    ASSUME NEW p \in Request \cup Healer, IInv, Delete(p) PROVE IInv'
  <1> DEFINE t == proc[p].service
  <1>1. t \in Service /\ ~At(p, "record")
    BY HasService DEF IInv, Delete, At
  <1>2. /\ proc' \in [Request \cup Healer -> {Idle} \cup Waiting \cup Ranging]
        /\ \E x : proc' = [proc EXCEPT ![p] = x]
    BY ProceedShape DEF IInv, Delete
  <1>3. \A s \in Service : Recording(s) => Recording(s)'
    BY <1>1, <1>2, OthersRecord DEF IInv
  <1>4. Shape'
    BY <1>1, <1>2 DEF IInv, Shape, Delete, Gap, Gaps
  <1>5. \A s \in Service : gaps[s] \subseteq gaps'[s]
    BY DEF IInv, Shape, Delete, Gap
  <1>6. t \in attached \/ Recording(t) \/ "erased" \in gaps'[t]
    BY <1>1 DEF IInv, Shape, Delete, Gap
  <1>7. PartitionRemembered'
    BY <1>3, <1>5, <1>6 DEF IInv, PartitionRemembered, Delete
  <1> QED BY <1>4, <1>7 DEF IInv

(* A restart of the gateway leaves a gap for every partition. *)
LEMMA CrashIInv == ASSUME IInv, CrashGateway PROVE IInv'
  <1>1. Shape'
    BY DEF IInv, Shape, CrashGateway, Gaps
  <1>2. PartitionRemembered'
    BY DEF PartitionRemembered, CrashGateway
  <1> QED BY <1>1, <1>2 DEF IInv

(* The steps that change only their process. *)
LEMMA QuietIInv ==
    ASSUME IInv,
           \/ \E q \in Request : Partition(q) \/ Heal(q) \/ HealAll(q) \/ NextOfAll(q)
           \/ \E h \in Healer : Wake(h)
    PROVE  IInv'
  <1>1. ASSUME NEW q \in Request, Partition(q) \/ Heal(q) PROVE IInv'
    <2>1. PICK s \in Service, pc \in {"disconnect", "connect"} : Begin(q, pc, s)
      BY <1>1 DEF Partition, Found, Heal, IInv, Shape
    <2>2. [pc |-> pc, service |-> s, todo |-> {}] \in Waiting
      BY DEF Waiting
    <2> QED BY <1>1, <2>1, <2>2, OnlyProcess DEF Partition, Heal, Begin, At
  <1>2. ASSUME NEW q \in Request, HealAll(q) PROVE IInv'
    <2>1. [pc |-> "all", todo |-> partitioned] \in Ranging
      BY DEF Ranging, IInv, Shape
    <2> QED BY <1>2, <2>1, OnlyProcess DEF HealAll, At
  <1>3. ASSUME NEW q \in Request, NextOfAll(q) PROVE IInv'
    <2> DEFINE left == proc[q].todo \cap partitioned
    <2>1. CASE left = {} /\ End(q)
      BY <1>3, <2>1, OnlyProcess DEF NextOfAll, End, At
    <2>2. CASE \E s \in left :
                 proc' = [proc EXCEPT ![q] = [pc |-> "connect", service |-> s, todo |-> left \ {s}]]
      <3>1. PICK s \in left :
              proc' = [proc EXCEPT ![q] = [pc |-> "connect", service |-> s, todo |-> left \ {s}]]
        BY <2>2
      <3>2. [pc |-> "connect", service |-> s, todo |-> left \ {s}] \in Waiting
        BY DEF Waiting, IInv, Shape
      <3> QED BY <1>3, <3>1, <3>2, OnlyProcess DEF NextOfAll, At
    <2> QED BY <1>3, <2>1, <2>2 DEF NextOfAll
  <1>4. ASSUME NEW h \in Healer, Wake(h) PROVE IInv'
    <2>1. CASE End(h)
      BY <1>4, <2>1, OnlyProcess DEF Wake, End, At
    <2>2. CASE Goto(h, "connect")
      <3>1. [proc[h] EXCEPT !.pc = "connect"] \in Waiting
        BY <1>4, HasService DEF Wake, IInv, Waiting
      <3>2. proc' = [proc EXCEPT ![h] = [proc[h] EXCEPT !.pc = "connect"]]
        BY <2>2 DEF Goto
      <3> QED BY <1>4, <3>1, <3>2, OnlyProcess DEF Wake, At
    <2> QED BY <1>4, <2>1, <2>2 DEF Wake
  <1> QED BY <1>1, <1>2, <1>3, <1>4

(* Every step preserves the invariant. *)
LEMMA NextIInv == IInv /\ [Next]_vars => IInv'
  <1> SUFFICES ASSUME IInv, [Next]_vars PROVE IInv'
    OBVIOUS
  <1>1. CASE UNCHANGED vars
    BY <1>1 DEF vars, IInv, Shape, PartitionRemembered, Recording, At
  <1>2. CASE \E q \in Request : Disconnect(q)
    BY <1>2, DisconnectIInv
  <1>3. CASE \E q \in Request : Record(q)
    BY <1>3, RecordIInv
  <1>4. CASE \E p \in Request \cup Healer : Connect(p)
    BY <1>4, ConnectIInv
  <1>5. CASE \E p \in Request \cup Healer : Delete(p)
    BY <1>5, DeleteIInv
  <1>6. CASE CrashGateway
    BY <1>6, CrashIInv
  <1>7. CASE \/ \E q \in Request : Partition(q) \/ Heal(q) \/ HealAll(q) \/ NextOfAll(q)
             \/ \E h \in Healer : Wake(h)
    BY <1>7, QuietIInv
  <1> QED BY <1>1, <1>2, <1>3, <1>4, <1>5, <1>6, <1>7 DEF Next, RequestStep, HealerStep

(* A container off the network keeps its entry, or a reason is known. *)
THEOREM PartitionRememberedAlways == Spec => []PartitionRemembered
  <1>1. IInv => PartitionRemembered
    BY DEF IInv
  <1> QED BY InitIInv, NextIInv, <1>1, PTL DEF Spec

(* The types of the state. *)
THEOREM ChaosTypeCorrect == Spec => []TypeOK
  <1>1. IInv => TypeOK
    BY DEF IInv, Shape, TypeOK, Gaps, Waiting, Ranging, Idle, At
  <1> QED BY InitIInv, NextIInv, <1>1, PTL DEF Spec
=============================================================================
