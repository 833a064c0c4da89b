-------------------------- MODULE ChaosPartitions --------------------------
(***************************************************************************)
(* The chaos endpoint of the gateway (gateway/chaos/chaos.go): requests that*)
(* stop, partition or heal the container of a replica, the map of the       *)
(* partitions made, which nothing protects, and one goroutine per partition *)
(* that heals it 15 s later.                                                *)
(*                                                                          *)
(* The Docker daemon is external.  A call may fail, may fail although it    *)
(* was carried out (the request's context ends with the client's            *)
(* connection), and always returns.  "random" targets and modes are the     *)
(* choices of a request.  Stopping and killing a container touch neither    *)
(* the map nor the network, and an attached container is a running one here: *)
(* a request for one that is not found is refused.                          *)
(***************************************************************************)
EXTENDS Integers, FiniteSets

CONSTANTS
    Service, \* the replicas
    Request, \* the requests in progress at once
    Healer   \* bound on the auto-heal goroutines at once

ASSUME ServiceAssumption == IsFiniteSet(Service)
ASSUME ProcessAssumption == IsFiniteSet(Request \cup Healer) /\ Request \cap Healer = {}

VARIABLES
    attached,    \* the containers on the network of the cluster
    partitioned, \* the keys of ChaosHandler.partitioned
    proc,        \* the requests and the auto-heal goroutines
    gaps         \* history: why a partition may outlast its 15 s

vars == <<attached, partitioned, proc, gaps>>

Idle == [pc |-> "idle"]

Init ==
    /\ attached = Service
    /\ partitioned = {}
    /\ proc = [p \in Request \cup Healer |-> Idle]
    /\ gaps = [s \in Service |-> {}]

At(p, pc) == proc[p].pc = pc

Asleep(s) == [pc |-> "sleep", service |-> s, todo |-> {}]

Begin(p, pc, s) == proc' = [proc EXCEPT ![p] = [pc |-> pc, service |-> s, todo |-> {}]]

Goto(p, pc) == proc' = [proc EXCEPT ![p].pc = pc]

End(p) == proc' = [proc EXCEPT ![p] = Idle]

Gap(s, why) == gaps' = [gaps EXCEPT ![s] = @ \cup {why}]

------------------------------------------------------------------------------
(* Partitioning. *)

(* Bound: what is left of Healer once every partition under way has its own. *)
FreeHealers ==
    Cardinality({h \in Healer : At(h, "idle")})
      - Cardinality({q \in Request : At(q, "disconnect") \/ At(q, "record")})

(* networkForContainer finds a network only while the container is on it. *)
Found(s) == s \in attached

(* A request for a target, random or not, whose container is found. *)
Partition(q) ==
    /\ At(q, "idle") /\ FreeHealers > 0
    /\ \E s \in Service : Found(s) /\ Begin(q, "disconnect", s)
    /\ UNCHANGED <<attached, partitioned, gaps>>

(* NetworkDisconnect succeeds, fails, or fails although it was carried out. *)
Disconnect(q) ==
    /\ At(q, "disconnect")
    /\ LET s == proc[q].service
       IN  \/ /\ s \in attached /\ attached' = attached \ {s}
              /\ Goto(q, "record") /\ UNCHANGED gaps
           \/ /\ s \in attached /\ attached' = attached \ {s}
              /\ End(q) /\ Gap(s, "unrecorded")
           \/ End(q) /\ UNCHANGED <<attached, gaps>>
    /\ UNCHANGED partitioned

(* Mutant: the map has container ids for keys. *)
RecordByContainer(q) ==
    /\ At(q, "record")
    /\ partitioned' = partitioned \cup {<<"container", proc[q].service>>}
    /\ \E h \in Healer :
         At(h, "idle") /\ proc' = [proc EXCEPT ![q] = Idle, ![h] = Asleep(proc[q].service)]
    /\ UNCHANGED <<attached, gaps>>

(* Mutant: no auto-heal is started for a service that has an entry. *)
RecordOnce(q) ==
    /\ At(q, "record")
    /\ partitioned' = partitioned \cup {proc[q].service}
    /\ IF proc[q].service \in partitioned THEN End(q)
       ELSE \E h \in Healer :
         At(h, "idle") /\ proc' = [proc EXCEPT ![q] = Idle, ![h] = Asleep(proc[q].service)]
    /\ UNCHANGED <<attached, gaps>>

(* The partition is recorded under its service, and its auto-heal started. *)
Record(q) ==
    /\ At(q, "record")
    /\ partitioned' = partitioned \cup {proc[q].service}
    /\ \E h \in Healer :
         At(h, "idle") /\ proc' = [proc EXCEPT ![q] = Idle, ![h] = Asleep(proc[q].service)]
    /\ UNCHANGED <<attached, gaps>>

------------------------------------------------------------------------------
(* Healing. *)

(* A heal of a service that has an entry; of any other it is refused. *)
Heal(q) ==
    /\ At(q, "idle")
    /\ \E s \in partitioned : Begin(q, "connect", s)
    /\ UNCHANGED <<attached, partitioned, gaps>>

(* "all" goes through the map; an entry added meanwhile, which the range may *)
(* or may not meet, is left to another request.                             *)
HealAll(q) ==
    /\ At(q, "idle") /\ partitioned # {}
    /\ proc' = [proc EXCEPT ![q] = [pc |-> "all", todo |-> partitioned]]
    /\ UNCHANGED <<attached, partitioned, gaps>>

NextOfAll(q) ==
    /\ At(q, "all")
    /\ LET left == proc[q].todo \cap partitioned
       IN  \/ \E s \in left :
                proc' = [proc EXCEPT ![q] = [pc |-> "connect", service |-> s, todo |-> left \ {s}]]
           \/ left = {} /\ End(q)
    /\ UNCHANGED <<attached, partitioned, gaps>>

(* The 15 s are over: the goroutine looks for the entry of its service, not *)
(* for that of its partition.                                               *)
Wake(h) ==
    /\ At(h, "sleep")
    /\ IF proc[h].service \in partitioned THEN Goto(h, "connect") ELSE End(h)
    /\ UNCHANGED <<attached, partitioned, gaps>>

(* The rest of a range over "all", or the end. *)
Proceed(p) ==
    proc' = [proc EXCEPT ![p] = IF @.todo = {} THEN Idle ELSE [pc |-> "all", todo |-> @.todo]]

Attach(s) == attached' = attached \cup {s} /\ gaps' = [gaps EXCEPT ![s] = {}]

(* Mutant: the entry goes even if the container could not be connected. *)
ConnectForgets(p) ==
    /\ At(p, "connect")
    /\ partitioned' = partitioned \ {proc[p].service}
    /\ LET s == proc[p].service
       IN  \/ s \notin attached /\ Attach(s) /\ Proceed(p)
           \/ /\ Proceed(p) /\ UNCHANGED attached
              /\ IF p \in Healer /\ s \notin attached THEN Gap(s, "failed") ELSE UNCHANGED gaps

(* NetworkConnect fails for a container that is attached already, may fail,  *)
(* and may fail although it was carried out; the entry is kept then.         *)
Connect(p) ==
    /\ At(p, "connect")
    /\ LET s == proc[p].service
       IN  \/ s \notin attached /\ Attach(s) /\ Goto(p, "delete")
           \/ s \notin attached /\ Attach(s) /\ Proceed(p)
           \/ /\ Proceed(p) /\ UNCHANGED attached
              /\ IF p \in Healer /\ s \notin attached THEN Gap(s, "failed") ELSE UNCHANGED gaps
    /\ UNCHANGED partitioned

Recording(s) == \E q \in Request : At(q, "record") /\ proc[q].service = s

(* The entry is deleted by its key; it may be that of a newer partition. *)
Delete(p) ==
    /\ At(p, "delete")
    /\ LET s == proc[p].service
       IN  /\ partitioned' = partitioned \ {s}
           /\ IF s \notin attached /\ ~Recording(s) THEN Gap(s, "erased") ELSE UNCHANGED gaps
    /\ Proceed(p)
    /\ UNCHANGED attached

(* The gateway ends, also because the runtime has found two of its           *)
(* goroutines in the map at once, and is started again.                     *)
CrashGateway ==
    /\ proc' = [p \in DOMAIN proc |-> Idle]
    /\ partitioned' = {}
    /\ gaps' = [s \in Service |-> IF s \in attached THEN {} ELSE {"restarted"}]
    /\ UNCHANGED attached

------------------------------------------------------------------------------
RequestStep(q) == Disconnect(q) \/ Record(q) \/ NextOfAll(q) \/ Connect(q) \/ Delete(q)

HealerStep(h) == Wake(h) \/ Connect(h) \/ Delete(h)

Next ==
    \/ \E q \in Request : Partition(q) \/ Heal(q) \/ HealAll(q) \/ RequestStep(q)
    \/ \E h \in Healer : HealerStep(h)
    \/ CrashGateway

Spec ==
    /\ Init /\ [][Next]_vars
    /\ \A q \in Request : WF_vars(RequestStep(q))
    /\ \A h \in Healer : WF_vars(HealerStep(h))

------------------------------------------------------------------------------
TypeOK ==
    /\ attached \subseteq Service
    /\ partitioned \subseteq Service
    /\ \A p \in Request \cup Healer :
         At(p, "idle") \/ At(p, "all") \/ proc[p].service \in Service
    /\ gaps \in [Service -> SUBSET {"unrecorded", "erased", "failed", "restarted"}]

(* A container off the network can be healed: it has an entry, or is about   *)
(* to get one, unless the call that took it off reported a failure, the     *)
(* deletion that ends an earlier heal took the entry with it, or the gateway *)
(* was restarted and forgot it.                                             *)
PartitionRemembered ==
    \A s \in Service \ attached :
        \/ s \in partitioned \/ Recording(s)
        \/ gaps[s] \cap {"unrecorded", "erased", "restarted"} # {}

(* The promise of the endpoint: a partition does not outlast its auto-heal,  *)
(* unless it is not remembered or Docker refused to connect the container.  *)
AutoHeals ==
    \A s \in Service : s \notin attached ~> (s \in attached \/ gaps[s] # {})
==============================================================================
