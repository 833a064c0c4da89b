----------------------- MODULE RaftReplicationProofs -----------------------
(***************************************************************************)
(* Theorems about RaftReplication, for any number of nodes, terms, entries  *)
(* and messages; those about logs and commits are for clusters of odd size. *)
(* First the types; then the leaders that were elected and the logs they    *)
(* led (Elect, Ledger), from which the logs match; then, from the agreement *)
(* of logs with those ledgers, what copies, commits and leaders promise.    *)
(***************************************************************************)
EXTENDS RaftReplication, SequenceTheorems, FiniteSetTheorems, TLAPS

(***************************************************************************)
(* Sequences.                                                              *)
(***************************************************************************)

(* A suffix of a log, as a tick and catchUpPeer read it.                    *)
LEMMA SuffixFacts ==
    ASSUME NEW S, NEW s \in Seq(S), NEW i \in Nat, i >= 1, i <= Len(s)
    PROVE  /\ SubSeq(s, i, Len(s)) \in Seq(S)
           /\ Len(SubSeq(s, i, Len(s))) = Len(s) - i + 1
           /\ \A k \in 1..(Len(s) - i + 1) : SubSeq(s, i, Len(s))[k] = s[i + k - 1]
<1>1. Len(s) \in Nat
  BY LenProperties
<1>2. \A k \in i..Len(s) : s[k] \in S
  BY <1>1, ElementOfSeq
<1> QED
  BY <1>1, <1>2, SubSeqProperties

(* A prefix, and two prefixes that are equal.                               *)
LEMMA PrefixFacts ==
    ASSUME NEW S, NEW s \in Seq(S), NEW i \in Nat, i <= Len(s)
    PROVE  /\ SubSeq(s, 1, i) \in Seq(S)
           /\ Len(SubSeq(s, 1, i)) = i
           /\ \A k \in 1..i : SubSeq(s, 1, i)[k] = s[k]
<1>1. Len(s) \in Nat
  BY LenProperties
<1>2. \A k \in 1..i : s[k] \in S
  BY <1>1, ElementOfSeq
<1>3. /\ SubSeq(s, 1, i) \in Seq(S)
      /\ Len(SubSeq(s, 1, i)) = IF 1 <= i THEN i - 1 + 1 ELSE 0
      /\ \A k \in 1..(i - 1 + 1) : SubSeq(s, 1, i)[k] = s[1 + k - 1]
  BY <1>2, SubSeqProperties
<1> QED
  BY <1>3

LEMMA PrefixesEqual ==
    ASSUME NEW S, NEW s \in Seq(S), NEW u \in Seq(S), NEW i \in Nat,
           i <= Len(s), i <= Len(u)
    PROVE  SubSeq(s, 1, i) = SubSeq(u, 1, i) <=> \A k \in 1..i : s[k] = u[k]
<1>1. /\ SubSeq(s, 1, i) \in Seq(S) /\ Len(SubSeq(s, 1, i)) = i
      /\ \A k \in 1..i : SubSeq(s, 1, i)[k] = s[k]
  BY PrefixFacts
<1>2. /\ SubSeq(u, 1, i) \in Seq(S) /\ Len(SubSeq(u, 1, i)) = i
      /\ \A k \in 1..i : SubSeq(u, 1, i)[k] = u[k]
  BY PrefixFacts
<1>3. ASSUME \A k \in 1..i : s[k] = u[k] PROVE SubSeq(s, 1, i) = SubSeq(u, 1, i)
  BY <1>1, <1>2, <1>3, SeqEqual
<1>4. ASSUME SubSeq(s, 1, i) = SubSeq(u, 1, i) PROVE \A k \in 1..i : s[k] = u[k]
  BY <1>1, <1>2, <1>4
<1> QED
  BY <1>3, <1>4

(* A set of naturals has a least element, a bounded one a greatest.         *)
LEMMA LeastOfNat ==
    ASSUME NEW S \in SUBSET Nat, S # {}
    PROVE  \E m \in S : \A k \in S : m <= k
<1> DEFINE R == {ss \in Nat \X Nat : ss[1] < ss[2]}
<1>1. IsWellFoundedOn(R, Nat)
  BY NatLessThanWellFounded DEF OpToRel
<1>2. S \subseteq Nat
  OBVIOUS
<1> HIDE DEF R
<1>3. PICK m \in S : \A k \in S : ~(<<k, m>> \in R)
  BY <1>1, <1>2, WFMin
<1>4. \A k \in S : <<k, m>> \in R <=> k < m
  BY <1>2 DEF R
<1>5. ASSUME NEW k \in S PROVE m <= k
  <2>1. k \in Nat /\ m \in Nat
    BY <1>2
  <2>2. ~(k < m)
    BY <1>3, <1>4
  <2> QED
    BY <2>1, <2>2
<1> QED
  BY <1>5

LEMMA GreatestBelow ==
    ASSUME NEW b \in Nat, NEW S \in SUBSET (0..b), S # {}
    PROVE  \E m \in S : \A k \in S : k <= m
<1> DEFINE T == {b - k : k \in S}
<1>1. T \in SUBSET Nat /\ T # {}
  <2>1. \A k \in S : b - k \in Nat
    OBVIOUS
  <2> QED
    BY <2>1
<1>2. PICK x \in T : \A y \in T : x <= y
  BY <1>1, LeastOfNat
<1>3. PICK m \in S : x = b - m
  BY <1>2
<1>4. \A k \in S : b - m <= b - k /\ k \in Nat
  BY <1>2, <1>3
<1> QED
  BY <1>3, <1>4

(***************************************************************************)
(* Type correctness.                                                       *)
(***************************************************************************)

RequestOK(r) ==
    /\ r.kind \in {"Heartbeat", "AppendEntries"}
    /\ r.src \in Node /\ r.dst \in Node /\ r.src # r.dst
    /\ r.term \in Term /\ r.commit \in Nat
    /\ r.kind = "AppendEntries" =>
         /\ r.prev \in Nat /\ r.prevTerm \in Term /\ (r.prev = 0 => r.prevTerm = 0)
         /\ r.entries \in Seq(1..MaxTerm) /\ r.prev + Len(r.entries) <= MaxIndex

ReplyOK(q) ==
    /\ q.kind \in {"Success", "Conflict", "Higher"}
    /\ q.src \in Node /\ q.dst \in Node /\ q.src # q.dst
    /\ q.kind = "Success" => q.term \in Term /\ q.last \in 0..MaxIndex
    /\ q.kind = "Conflict" => q.term \in Term /\ q.conflict \in 0..(MaxIndex + 1)
    /\ q.kind = "Higher" => q.higher \in Term

CatchUpOK(c) ==
    /\ c.stage \in {"start", "send"}
    /\ c.src \in Node /\ c.dst \in Node /\ c.src # c.dst
    /\ c.term \in Term /\ c.from \in 1..(MaxIndex + 1)
    /\ c.stage = "send" =>
         c.entries \in Seq(1..MaxTerm) /\ c.from - 1 + Len(c.entries) <= MaxIndex

(* TypeOK is inductive together with the shape of what is in flight.        *)
NodesOK ==
    /\ currentTerm \in [Node -> Term]
    /\ voted \in [Node -> BOOLEAN]
    /\ state \in [Node -> {"Follower", "Leader"}]
    /\ \A n \in Node : state[n] = "Leader" => currentTerm[n] >= 1

LogsOK ==
    /\ log \in [Node -> Seq(1..MaxTerm)]
    /\ commitIndex \in [Node -> Nat]
    /\ \A n \in Node : commitIndex[n] <= Len(log[n]) /\ Len(log[n]) <= MaxIndex

LeadersOK ==
    /\ nextIndex \in [Node -> [Node -> 1..(MaxIndex + 1)]]
    /\ matchIndex \in [Node -> [Node -> 0..MaxIndex]]

NetOK ==
    /\ \A r \in requests : RequestOK(r)
    /\ \A r \in accepted : RequestOK(r) /\ r.kind = "AppendEntries"
    /\ \A q \in replies : ReplyOK(q)
    /\ \A c \in catchups : CatchUpOK(c)

Shape == NodesOK /\ LogsOK /\ LeadersOK /\ NetOK /\ windows \subseteq {"late", "blind", "stale"}

LEMMA ShapeType == Shape => TypeOK
BY DEF Shape, NodesOK, LogsOK, LeadersOK, TypeOK, Last

LEMMA InitShape == Init => Shape
BY LimitAssumption, EmptySeq
   DEF Init, Shape, NodesOK, LogsOK, LeadersOK, NetOK, Term

LEMMA BecomeFollowerOK ==
    ASSUME NodesOK, NEW n \in Node, NEW t \in Term, BecomeFollower(n, t)
    PROVE  NodesOK'
BY LimitAssumption DEF NodesOK, BecomeFollower, Term

LEMMA CampaignOK ==
    ASSUME NodesOK, NEW n \in Node, NEW P \in SUBSET Node, Campaign(n, P)
    PROVE  NodesOK'
BY LimitAssumption DEF NodesOK, Campaign, Term

(* What a request built from the leader's log carries.                      *)
LEMMA AppendRequestOK ==
    ASSUME NodesOK, LogsOK, NEW n \in Node, NEW p \in Node, n # p, NEW i \in Nat,
           i >= 1, i <= Last(n) + 1, NEW entries \in Seq(1..MaxTerm),
           i - 1 + Len(entries) <= MaxIndex, NEW ticked
    PROVE  RequestOK(AppendRequest(n, p, i, entries, ticked))
<1>1. TermAt(n, i - 1) \in Term /\ (i - 1 = 0 => TermAt(n, i - 1) = 0)
  <2>1. Last(n) \in Nat /\ \A k \in 1..Last(n) : log[n][k] \in 1..MaxTerm
    BY LenProperties, ElementOfSeq DEF LogsOK, Last
  <2> QED
    BY <2>1, LimitAssumption DEF TermAt, Term
<1> QED
  BY <1>1 DEF RequestOK, AppendRequest, NodesOK, LogsOK

(* The log after the loop of AppendEntries holds all the entries, and its   *)
(* committed part is not cut.                                               *)
LEMMA MergedOK ==
    ASSUME LogsOK, NEW r, RequestOK(r), r.kind = "AppendEntries", Consistent(r), ~Refused(r)
    PROVE  /\ Merged(r) \in Seq(1..MaxTerm)
           /\ Len(Merged(r)) <= MaxIndex
           /\ r.prev + Len(r.entries) <= Len(Merged(r))
           /\ commitIndex[r.dst] <= Len(Merged(r))
<1> DEFINE n == r.dst
           es == r.entries
           hi == r.prev + Len(es)
<1>1. /\ n \in Node /\ log[n] \in Seq(1..MaxTerm) /\ Len(log[n]) \in Nat
      /\ Len(log[n]) <= MaxIndex /\ commitIndex[n] \in Nat /\ commitIndex[n] <= Len(log[n])
  BY LenProperties DEF LogsOK, RequestOK
<1>2. /\ es \in Seq(1..MaxTerm) /\ Len(es) \in Nat /\ DOMAIN es = 1..Len(es)
      /\ r.prev \in Nat /\ hi <= MaxIndex /\ r.prev <= Len(log[n])
  BY LenProperties DEF RequestOK, Consistent, Last
<1>3. CASE Conflicts(r) = {} /\ hi <= Last(n)
  BY <1>1, <1>2, <1>3, LimitAssumption DEF Merged, Last
<1>4. CASE ~(Conflicts(r) = {} /\ hi <= Last(n))
  <2>1. Merged(r) = SubSeq(log[n], 1, r.prev) \o es
    BY <1>4 DEF Merged, Prefix
  <2>2. SubSeq(log[n], 1, r.prev) \in Seq(1..MaxTerm) /\ Len(SubSeq(log[n], 1, r.prev)) = r.prev
    BY <1>1, <1>2, PrefixFacts
  <2>3. Merged(r) \in Seq(1..MaxTerm) /\ Len(Merged(r)) = hi
    BY <1>2, <2>1, <2>2, ConcatProperties
  <2>4. commitIndex[n] <= hi
    <3>1. CASE Conflicts(r) = {}
      BY <1>1, <1>2, <1>4, <3>1 DEF Last
    <3>2. CASE Conflicts(r) # {}
      <4>1. PICK k \in Conflicts(r) : \A j \in Conflicts(r) : k <= j
        <5>1. Conflicts(r) \subseteq Nat
          BY <1>2 DEF Conflicts
        <5> QED
          BY <3>2, <5>1, LeastOfNat
      <4>2. k \in 1..Len(es) /\ ~(r.prev + k <= commitIndex[n])
        BY <1>2, <4>1 DEF Refused, Conflicts
      <4> QED
        BY <1>1, <1>2, <4>2
    <3> QED
      BY <3>1, <3>2
  <2> QED
    BY <1>1, <1>2, <2>3, <2>4
<1> QED
  BY <1>3, <1>4

(* advanceCommitTo stays within the log.                                    *)
LEMMA AdvanceOK ==
    ASSUME LogsOK, NEW n \in Node, NEW match, Advance(n, match), log' = log
    PROVE  /\ LogsOK'
           /\ \A m \in Node : commitIndex'[m] >= commitIndex[m]
           /\ commitIndex'[n] = commitIndex[n]
              \/ (/\ state[n] = "Leader" /\ commitIndex'[n] \in 1..Last(n)
                  /\ Committable(n, match, commitIndex'[n]))
           /\ \A m \in Node \ {n} : commitIndex'[m] = commitIndex[m]
<1> DEFINE able == {i \in (commitIndex[n] + 1)..Last(n) : Committable(n, match, i)}
<1>1. commitIndex[n] \in Nat /\ Last(n) \in Nat
  BY LenProperties DEF LogsOK, Last
<1>2. CASE state[n] = "Leader" /\ able # {}
  <2>1. able \in SUBSET (0..Last(n))
    BY <1>1
  <2>2. \E i \in able : \A j \in able : j <= i
    BY <1>1, <1>2, <2>1, GreatestBelow
  <2>3. commitIndex' = [commitIndex EXCEPT ![n] = CHOOSE i \in able : \A j \in able : j <= i]
    BY <1>2 DEF Advance
  <2> DEFINE c == CHOOSE i \in able : \A j \in able : j <= i
  <2>4. c \in able
    BY <2>2
  <2> HIDE DEF c
  <2>5. c \in Nat /\ c >= commitIndex[n] /\ c \in 1..Last(n) /\ Committable(n, match, c)
    BY <1>1, <2>4
  <2>6. commitIndex' = [commitIndex EXCEPT ![n] = c]
    BY <2>3 DEF c
  <2> HIDE DEF able
  <2>7. LogsOK'
    BY <1>1, <2>5, <2>6 DEF LogsOK, Last
  <2> QED
    BY <1>1, <1>2, <2>5, <2>6, <2>7 DEF LogsOK
<1>3. CASE ~(state[n] = "Leader" /\ able # {})
  <2>1. commitIndex' = [commitIndex EXCEPT ![n] = commitIndex[n]]
    BY <1>3 DEF Advance
  <2> QED
    BY <1>1, <2>1 DEF LogsOK
<1> QED
  BY <1>2, <1>3

LEMMA NextShape == Shape /\ [Next]_vars => Shape'
<1> SUFFICES ASSUME Shape, [Next]_vars PROVE Shape'
  OBVIOUS
<1> USE DEF Shape, nodeVars, logVars, leadVars
<1>0. /\ \A n \in Node : Last(n) \in Nat /\ Last(n) <= MaxIndex /\ log[n] \in Seq(1..MaxTerm)
      /\ \A n \in Node : commitIndex[n] \in Nat /\ currentTerm[n] \in Term
  BY LenProperties DEF LogsOK, NodesOK, Last
<1>1. ASSUME NEW n \in Node, NEW P \in SUBSET Node, Campaign(n, P) PROVE Shape'
  <2>1. LogsOK' /\ NetOK' /\ windows' = windows
    BY <1>1 DEF Campaign, LogsOK, NetOK, netVars
  <2>2. LeadersOK'
    <3>1. /\ [m \in Node |-> Last(n) + 1] \in [Node -> 1..(MaxIndex + 1)]
          /\ [m \in Node |-> 0] \in [Node -> 0..MaxIndex]
      BY <1>0, LimitAssumption
    <3>2. \/ UNCHANGED leadVars
          \/ /\ nextIndex' = [nextIndex EXCEPT ![n] = [m \in Node |-> Last(n) + 1]]
             /\ matchIndex' = [matchIndex EXCEPT ![n] = [m \in Node |-> 0]]
      BY <1>1 DEF Campaign
    <3> QED
      BY <3>1, <3>2 DEF LeadersOK
  <2> QED
    BY <1>1, <2>1, <2>2, CampaignOK
<1>2. ASSUME NEW n \in Node, Replicate(n) PROVE Shape'
  <2>1. NodesOK' /\ LeadersOK' /\ NetOK' /\ windows' = windows
    BY <1>2 DEF Replicate, NodesOK, LeadersOK, NetOK, netVars
  <2>2. currentTerm[n] \in 1..MaxTerm
    BY <1>0, <1>2, LimitAssumption DEF Replicate, NodesOK, Term
  <2>3. /\ Append(log[n], currentTerm[n]) \in Seq(1..MaxTerm)
        /\ Len(Append(log[n], currentTerm[n])) = Last(n) + 1
    BY <1>0, <2>2, AppendProperties DEF Last
  <2>4. LogsOK'
    <3> DEFINE new == Append(log[n], currentTerm[n])
    <3>1. /\ log' = [log EXCEPT ![n] = new] /\ commitIndex' = commitIndex /\ Last(n) + 1 <= MaxIndex
      BY <1>0, <1>2, LimitAssumption DEF Replicate
    <3>2. new \in Seq(1..MaxTerm) /\ Len(new) = Last(n) + 1
      BY <2>3
    <3> HIDE DEF new
    <3> QED
      BY <1>0, <3>1, <3>2 DEF LogsOK, Last
  <2> QED
    BY <2>1, <2>4
<1>3. ASSUME NEW n \in Node, NEW p \in Node, Tick(n, p) PROVE Shape'
  <2> DEFINE i == nextIndex[n][p]
             r == IF i <= Last(n) THEN AppendRequest(n, p, i, SubSeq(log[n], i, Last(n)), TRUE)
                                  ELSE HeartbeatRequest(n, p)
  <2>1. requests' = requests \cup {r} /\ UNCHANGED <<nodeVars, logVars, leadVars, accepted, replies, catchups, windows>>
    BY <1>3 DEF Tick
  <2>2. i \in Nat /\ i >= 1
    BY <1>3, LimitAssumption DEF LeadersOK
  <2>3. RequestOK(r)
    <3>1. CASE i <= Last(n)
      <4>1. SubSeq(log[n], i, Last(n)) \in Seq(1..MaxTerm) /\ Len(SubSeq(log[n], i, Last(n))) = Last(n) - i + 1
        BY <1>0, <2>2, <3>1, SuffixFacts DEF Last
      <4>2. /\ n # p /\ i <= Last(n) + 1 /\ i - 1 + Len(SubSeq(log[n], i, Last(n))) <= MaxIndex
        BY <1>0, <1>3, <2>2, <3>1, <4>1, LimitAssumption DEF Tick
      <4>3. RequestOK(AppendRequest(n, p, i, SubSeq(log[n], i, Last(n)), TRUE))
        BY <2>2, <4>1, <4>2, AppendRequestOK, Zenon
      <4> QED
        BY <3>1, <4>3, Zenon
    <3>2. CASE ~(i <= Last(n))
      BY <1>0, <1>3, <3>2 DEF Tick, HeartbeatRequest, RequestOK
    <3> QED
      BY <3>1, <3>2
  <2> HIDE DEF r
  <2> QED
    BY <2>1, <2>3 DEF NodesOK, LogsOK, LeadersOK, NetOK
<1>4. ASSUME Lose PROVE Shape'
  BY <1>4 DEF Lose, NodesOK, LogsOK, LeadersOK, NetOK
<1>5. ASSUME NEW r \in requests, Reject(r) PROVE Shape'
  <2>1. RequestOK(r)
    BY DEF NetOK
  <2> DEFINE q == [kind |-> "Higher", src |-> r.src, dst |-> r.dst, higher |-> currentTerm[r.dst]]
  <2>2. ReplyOK(q)
    BY <1>0, <2>1 DEF RequestOK, ReplyOK
  <2>3. replies' \subseteq replies \cup {q}
    BY <1>5 DEF Reject, Answer
  <2> HIDE DEF q
  <2> QED
    BY <1>5, <2>2, <2>3 DEF Reject, NodesOK, LogsOK, LeadersOK, NetOK
<1>6. ASSUME NEW r \in requests, Heartbeat(r) PROVE Shape'
  <2>1. RequestOK(r)
    BY DEF NetOK
  <2>2. NodesOK'
    BY <1>6, <2>1, BecomeFollowerOK DEF Heartbeat, RequestOK
  <2>3. LogsOK'
    BY <1>0, <1>6, <2>1 DEF Heartbeat, LogsOK, Min, RequestOK, Last
  <2> QED
    BY <1>6, <2>2, <2>3 DEF Heartbeat, LeadersOK, NetOK
<1>7. ASSUME NEW r \in requests, AcceptAppend(r) PROVE Shape'
  <2>1. RequestOK(r)
    BY DEF NetOK
  <2>2. NodesOK'
    BY <1>7, <2>1, BecomeFollowerOK DEF AcceptAppend, RequestOK
  <2> QED
    BY <1>7, <2>1, <2>2 DEF AcceptAppend, LogsOK, LeadersOK, NetOK
<1>8. ASSUME NEW r \in accepted, AppendInconsistent(r) PROVE Shape'
  <2>1. RequestOK(r) /\ r.kind = "AppendEntries"
    BY DEF NetOK
  <2> DEFINE i == IF r.prev > Last(r.dst) THEN Last(r.dst) + 1 ELSE r.prev
             q == [kind |-> "Conflict", src |-> r.src, dst |-> r.dst, term |-> r.term, conflict |-> i]
  <2>2. ReplyOK(q)
    BY <1>0, <2>1, LenProperties, LimitAssumption DEF RequestOK, ReplyOK
  <2>3. replies' \subseteq replies \cup {q}
    BY <1>8 DEF AppendInconsistent, Conflict, Answer
  <2> HIDE DEF q
  <2> QED
    BY <1>8, <2>2, <2>3 DEF AppendInconsistent, NodesOK, LogsOK, LeadersOK, NetOK
<1>9. ASSUME NEW r \in accepted, AppendRefused(r) PROVE Shape'
  <2>1. RequestOK(r) /\ r.kind = "AppendEntries"
    BY DEF NetOK
  <2> DEFINE q == [kind |-> "Conflict", src |-> r.src, dst |-> r.dst, term |-> r.term, conflict |-> 0]
  <2>2. ReplyOK(q)
    BY <2>1, LimitAssumption DEF RequestOK, ReplyOK
  <2>3. replies' \subseteq replies \cup {q}
    BY <1>9 DEF AppendRefused, Conflict, Answer
  <2> HIDE DEF q
  <2> QED
    BY <1>9, <2>2, <2>3 DEF AppendRefused, NodesOK, LogsOK, LeadersOK, NetOK
<1>10. ASSUME NEW r \in accepted, AppendDone(r) PROVE Shape'
  <2>1. RequestOK(r) /\ r.kind = "AppendEntries"
    BY DEF NetOK
  <2> DEFINE n == r.dst
             new == Merged(r)
             i == Min(r.commit, Len(new))
             q == [kind |-> "Success", src |-> r.src, dst |-> n, term |-> r.term,
                   last |-> r.prev + Len(r.entries)]
  <2>2. /\ new \in Seq(1..MaxTerm) /\ Len(new) \in Nat /\ Len(new) <= MaxIndex
        /\ commitIndex[n] <= Len(new)
    BY <1>10, <2>1, MergedOK, LenProperties DEF AppendDone
  <2>3. ReplyOK(q)
    BY <2>1, LenProperties, LimitAssumption DEF RequestOK, ReplyOK
  <2>4. /\ log' = [log EXCEPT ![n] = new]
        /\ commitIndex' = [commitIndex EXCEPT ![n] = IF i > commitIndex[n] THEN i ELSE @]
        /\ UNCHANGED <<nodeVars, leadVars, requests, catchups>>
        /\ accepted' = accepted \ {r}
        /\ replies' \subseteq replies \cup {q}
        /\ windows' \subseteq windows \cup {"late", "blind"}
    BY <1>10 DEF AppendDone, Answer
  <2>5. n \in Node /\ r.commit \in Nat
    BY <2>1 DEF RequestOK
  <2> HIDE DEF q, new, n
  <2>6. LogsOK'
    BY <1>0, <2>2, <2>4, <2>5 DEF LogsOK, Min
  <2> QED
    BY <2>3, <2>4, <2>6 DEF NodesOK, LeadersOK, NetOK
<1>11. ASSUME NEW q \in replies, ReplySuccess(q) PROVE Shape'
  <2>1. ReplyOK(q)
    BY DEF NetOK
  <2> DEFINE n == q.src
             newer == LastNew(q) > matchIndex[n][q.dst]
             match == [matchIndex[n] EXCEPT ![q.dst] = IF newer THEN LastNew(q) ELSE @]
  <2>2. /\ matchIndex' = [matchIndex EXCEPT ![n] = match]
        /\ nextIndex' = IF newer THEN [nextIndex EXCEPT ![n][q.dst] = LastNew(q) + 1] ELSE nextIndex
        /\ Advance(n, match) /\ replies' \subseteq replies
        /\ windows' \subseteq windows \cup {"stale"}
        /\ UNCHANGED <<nodeVars, log, requests, accepted, catchups>>
    BY <1>11 DEF ReplySuccess
  <2>3. n \in Node /\ q.dst \in Node /\ LastNew(q) \in 0..MaxIndex
    BY <1>11, <2>1 DEF ReplySuccess, ReplyOK, LastNew
  <2>4. LeadersOK'
    <3>1. match \in [Node -> 0..MaxIndex]
      BY <2>3 DEF LeadersOK
    <3>2. LastNew(q) + 1 \in 1..(MaxIndex + 1)
      BY <2>3, LimitAssumption
    <3> HIDE DEF match
    <3> QED
      BY <2>2, <2>3, <3>1, <3>2 DEF LeadersOK
  <2>5. LogsOK'
    BY <2>2, <2>3, AdvanceOK
  <2> QED
    BY <2>2, <2>4, <2>5 DEF NodesOK, NetOK
<1>12. ASSUME NEW q \in replies, ReplyConflict(q) PROVE Shape'
  <2>1. ReplyOK(q) /\ q.kind = "Conflict"
    BY <1>12 DEF NetOK, ReplyConflict
  <2> DEFINE n == q.src
             i == nextIndex[n][q.dst]
             next == IF q.conflict > 0 THEN q.conflict ELSE IF i > 1 THEN i - 1 ELSE i
             c == [stage |-> "start", src |-> n, dst |-> q.dst, term |-> q.term, from |-> next]
  <2>2. n \in Node /\ q.dst \in Node /\ next \in 1..(MaxIndex + 1)
    BY <2>1, LimitAssumption DEF ReplyOK, LeadersOK
  <2>3. CatchUpOK(c)
    BY <2>1, <2>2 DEF ReplyOK, CatchUpOK
  <2>4. /\ nextIndex' = [nextIndex EXCEPT ![n][q.dst] = next]
        /\ catchups' \subseteq catchups \cup {c} /\ replies' \subseteq replies
        /\ UNCHANGED <<nodeVars, logVars, matchIndex, requests, accepted, windows>>
    BY <1>12 DEF ReplyConflict
  <2> HIDE DEF next, c, n
  <2> QED
    BY <2>2, <2>3, <2>4 DEF NodesOK, LogsOK, LeadersOK, NetOK
<1>13. ASSUME NEW q \in replies, ReplyHigher(q) PROVE Shape'
  <2>1. ReplyOK(q)
    BY DEF NetOK
  <2>2. NodesOK'
    BY <1>13, <2>1, BecomeFollowerOK DEF ReplyHigher, ReplyOK
  <2> QED
    BY <1>13, <2>2 DEF ReplyHigher, LogsOK, LeadersOK, NetOK
<1>14. ASSUME NEW c \in catchups, CatchUpRead(c) PROVE Shape'
  <2>1. CatchUpOK(c)
    BY DEF NetOK
  <2> DEFINE d == [stage |-> "send", src |-> c.src, dst |-> c.dst, term |-> c.term,
                   from |-> c.from, entries |-> SubSeq(log[c.src], c.from, Last(c.src))]
  <2>2. ASSUME c.from <= Last(c.src) PROVE CatchUpOK(d)
    <3>1. /\ c.src \in Node /\ c.from \in Nat /\ c.from >= 1 /\ c.from \in 1..(MaxIndex + 1)
      BY <2>1, LimitAssumption DEF CatchUpOK
    <3>2. /\ d.entries \in Seq(1..MaxTerm) /\ Len(d.entries) = Last(c.src) - c.from + 1
      BY <1>0, <2>2, <3>1, SuffixFacts DEF Last
    <3> QED
      BY <1>0, <2>1, <3>1, <3>2 DEF CatchUpOK
  <2>3. catchups' \subseteq catchups \cup {d} /\ (d \in catchups' => d \in catchups \/ c.from <= Last(c.src))
    BY <1>14 DEF CatchUpRead
  <2> HIDE DEF d
  <2> QED
    BY <1>14, <2>2, <2>3 DEF CatchUpRead, NodesOK, LogsOK, LeadersOK, NetOK
<1>15. ASSUME NEW c \in catchups, CatchUpSend(c) PROVE Shape'
  <2>1. CatchUpOK(c) /\ c.stage = "send"
    BY <1>15 DEF NetOK, CatchUpSend
  <2> DEFINE r == AppendRequest(c.src, c.dst, c.from, c.entries, FALSE)
  <2>2. ASSUME c.from - 1 <= Last(c.src) PROVE RequestOK(r)
    <3>1. /\ c.src \in Node /\ c.dst \in Node /\ c.src # c.dst
          /\ c.from \in Nat /\ c.from >= 1 /\ c.from <= Last(c.src) + 1
          /\ c.entries \in Seq(1..MaxTerm) /\ c.from - 1 + Len(c.entries) <= MaxIndex
      BY <1>0, <2>1, <2>2, LimitAssumption DEF CatchUpOK
    <3> QED
      BY <3>1, AppendRequestOK, Zenon
  <2>3. requests' \subseteq requests \cup {r} /\ (r \in requests' => r \in requests \/ c.from - 1 <= Last(c.src))
    BY <1>15 DEF CatchUpSend
  <2> HIDE DEF r
  <2> QED
    BY <1>15, <2>2, <2>3 DEF CatchUpSend, NodesOK, LogsOK, LeadersOK, NetOK
<1>16. ASSUME UNCHANGED vars PROVE Shape'
  BY <1>16 DEF vars, netVars, NodesOK, LogsOK, LeadersOK, NetOK
<1> QED
  BY <1>1, <1>2, <1>3, <1>4, <1>5, <1>6, <1>7, <1>8, <1>9, <1>10, <1>11, <1>12,
     <1>13, <1>14, <1>15, <1>16 DEF Next

LEMMA AlwaysShape == Spec => []Shape
BY InitShape, NextShape, PTL DEF Spec

(* Every reachable state is well typed, whatever the network does: in        *)
(* particular no commit index is above the length of the log it belongs to. *)
THEOREM TypeCorrect == Spec => []TypeOK
BY AlwaysShape, ShapeType, PTL

(***************************************************************************)
(* What a step does to the terms, to the leaders and to what is in flight. *)
(***************************************************************************)

(* Terms never fall, and a vote is forgotten only with its term.            *)
TermsGrow ==
    \A n \in Node :
        /\ currentTerm'[n] >= currentTerm[n]
        /\ currentTerm'[n] = currentTerm[n] /\ voted[n] => voted'[n]

(* Nobody is elected.                                                       *)
NoneElected ==
    \A n \in Node :
        state'[n] = "Leader" => state[n] = "Leader" /\ currentTerm'[n] = currentTerm[n]

LEMMA TermsFollow ==
    ASSUME NodesOK, NEW n \in Node, NEW t \in Term, BecomeFollower(n, t)
    PROVE  TermsGrow /\ NoneElected /\ (t >= currentTerm[n] => currentTerm'[n] = t)
BY DEF NodesOK, BecomeFollower, TermsGrow, NoneElected, Term

LEMMA TermsSame ==
    ASSUME NodesOK, UNCHANGED nodeVars
    PROVE  TermsGrow /\ NoneElected
BY DEF NodesOK, nodeVars, TermsGrow, NoneElected, Term

LEMMA TermsCampaign ==
    ASSUME NodesOK, NEW n \in Node, NEW P \in SUBSET Node, Campaign(n, P)
    PROVE  /\ TermsGrow
           /\ \A m \in Node \ {n} :
                state'[m] = "Leader" => state[m] = "Leader" /\ currentTerm'[m] = currentTerm[m]
BY DEF NodesOK, Campaign, TermsGrow, Term

(* What a leader puts in flight.                                            *)
Sent(r) ==
    /\ UNCHANGED <<nodeVars, logVars, windows>>
    /\ Leads(r.src, r.term) /\ r.commit = commitIndex[r.src]
    /\ r.kind = "AppendEntries" =>
         /\ r.prev <= Last(r.src) /\ r.prevTerm = TermAt(r.src, r.prev)
         /\ \/ /\ r.prev + 1 <= Last(r.src)
               /\ r.entries = SubSeq(log[r.src], r.prev + 1, Last(r.src))
            \/ \E c \in catchups :
                 /\ c.stage = "send" /\ c.src = r.src /\ c.term = r.term
                 /\ c.from = r.prev + 1 /\ c.entries = r.entries

(* What catchUpPeer reads.                                                  *)
Read(d) ==
    /\ UNCHANGED <<nodeVars, logVars, windows>>
    /\ \E c \in catchups : c.src = d.src /\ c.term = d.term
    /\ d.from <= Last(d.src)
    /\ d.entries = SubSeq(log[d.src], d.from, Last(d.src))

(* Where everything in flight after a step comes from.                      *)
Traffic ==
    /\ \A r \in requests' : r \in requests \/ Sent(r)
    /\ \A r \in accepted' :
         \/ r \in accepted
         \/ r \in requests /\ currentTerm'[r.dst] = r.term
    /\ \A c \in catchups' :
         \/ c \in catchups
         \/ c.stage = "start" /\ Leads(c.src, c.term) /\ UNCHANGED nodeVars
         \/ c.stage = "send" /\ Read(c)
    /\ \A q \in replies' :
         \/ q \in replies
         \/ q.kind # "Success"
         \/ \E r \in accepted :
              /\ AppendDone(r)
              /\ q.dst = r.dst /\ q.term = r.term /\ q.last = r.prev + Len(r.entries)

LEMMA StepTraffic == ASSUME Shape, [Next]_vars PROVE Traffic
<1> USE DEF Shape, nodeVars, logVars, leadVars
<1>1. ASSUME NEW n \in Node, NEW P \in SUBSET Node, Campaign(n, P) PROVE Traffic
  BY <1>1 DEF Campaign, Traffic, netVars
<1>2. ASSUME NEW n \in Node, Replicate(n) PROVE Traffic
  BY <1>2 DEF Replicate, Traffic, netVars
<1>3. ASSUME NEW n \in Node, NEW p \in Node, Tick(n, p) PROVE Traffic
  <2> DEFINE i == nextIndex[n][p]
             r == IF i <= Last(n) THEN AppendRequest(n, p, i, SubSeq(log[n], i, Last(n)), TRUE)
                                  ELSE HeartbeatRequest(n, p)
  <2>1. requests' = requests \cup {r} /\ UNCHANGED <<nodeVars, logVars, leadVars, accepted, replies, catchups, windows>>
    BY <1>3 DEF Tick
  <2>2. i \in Nat /\ i >= 1 /\ Last(n) \in Nat /\ i - 1 + 1 = i
    BY <1>3, LimitAssumption, LenProperties DEF LeadersOK, LogsOK, Last
  <2>3. Sent(r)
    <3>1. CASE i <= Last(n)
      <4>1. /\ r.src = n /\ r.term = currentTerm[n] /\ r.commit = commitIndex[n]
            /\ r.prev = i - 1 /\ r.prevTerm = TermAt(n, i - 1)
            /\ r.entries = SubSeq(log[n], i, Last(n))
        BY <3>1 DEF AppendRequest
      <4> HIDE DEF r
      <4>2. r.prev <= Last(n) /\ r.prev + 1 = i
        BY <2>2, <3>1, <4>1
      <4>3. state[n] = "Leader" /\ r.prev + 1 <= Last(n)
        BY <1>3, <3>1, <4>2 DEF Tick
      <4>4. r.prevTerm = TermAt(n, r.prev) /\ r.entries = SubSeq(log[n], r.prev + 1, Last(n))
        BY <4>1, <4>2
      <4> HIDE DEF i
      <4> QED
        BY <2>1, <4>1, <4>2, <4>3, <4>4 DEF Sent, Leads
    <3>2. CASE ~(i <= Last(n))
      BY <1>3, <2>1, <3>2 DEF Sent, HeartbeatRequest, Leads, Tick
    <3> QED
      BY <3>1, <3>2
  <2> HIDE DEF r
  <2> QED
    BY <2>1, <2>3 DEF Traffic
<1>4. ASSUME Lose PROVE Traffic
  BY <1>4 DEF Lose, Traffic
<1>5. ASSUME NEW r \in requests, Reject(r) PROVE Traffic
  BY <1>5 DEF Reject, Answer, Traffic
<1>6. ASSUME NEW r \in requests, Heartbeat(r) PROVE Traffic
  BY <1>6 DEF Heartbeat, Traffic
<1>7. ASSUME NEW r \in requests, AcceptAppend(r) PROVE Traffic
  <2>1. currentTerm'[r.dst] = r.term
    BY <1>7, TermsFollow DEF NetOK, RequestOK, AcceptAppend
  <2> QED
    BY <1>7, <2>1 DEF AcceptAppend, Traffic
<1>8. ASSUME NEW r \in accepted, AppendInconsistent(r) \/ AppendRefused(r) PROVE Traffic
  BY <1>8 DEF AppendInconsistent, AppendRefused, Conflict, Answer, Traffic
<1>10. ASSUME NEW r \in accepted, AppendDone(r) PROVE Traffic
  <2> DEFINE q == [kind |-> "Success", src |-> r.src, dst |-> r.dst, term |-> r.term,
                   last |-> r.prev + Len(r.entries)]
  <2>1. /\ accepted' = accepted \ {r} /\ replies' \subseteq replies \cup {q}
        /\ requests' = requests /\ catchups' = catchups
    BY <1>10 DEF AppendDone, Answer
  <2>2. q.dst = r.dst /\ q.term = r.term /\ q.last = r.prev + Len(r.entries)
    OBVIOUS
  <2> HIDE DEF q
  <2> QED
    BY <1>10, <2>1, <2>2 DEF Traffic
<1>11. ASSUME NEW q \in replies, ReplySuccess(q) PROVE Traffic
  BY <1>11 DEF ReplySuccess, Traffic
<1>12. ASSUME NEW q \in replies, ReplyConflict(q) PROVE Traffic
  BY <1>12 DEF ReplyConflict, Traffic
<1>13. ASSUME NEW q \in replies, ReplyHigher(q) PROVE Traffic
  BY <1>13 DEF ReplyHigher, Traffic
<1>14. ASSUME NEW c \in catchups, CatchUpRead(c) PROVE Traffic
  <2> DEFINE d == [stage |-> "send", src |-> c.src, dst |-> c.dst, term |-> c.term,
                   from |-> c.from, entries |-> SubSeq(log[c.src], c.from, Last(c.src))]
  <2>1. catchups' \subseteq catchups \cup {d} /\ (d \in catchups' => d \in catchups \/ c.from <= Last(c.src))
    BY <1>14 DEF CatchUpRead
  <2>2. UNCHANGED <<nodeVars, logVars, windows, requests, accepted, replies>>
    BY <1>14 DEF CatchUpRead
  <2>3. c.from <= Last(c.src) => d.stage = "send" /\ Read(d)
    BY <2>2 DEF Read
  <2> HIDE DEF d
  <2>4. \A e \in catchups' : e \in catchups \/ (e.stage = "send" /\ Read(e))
    BY <2>1, <2>3
  <2>5. requests' = requests /\ accepted' = accepted /\ replies' = replies
    BY <2>2
  <2> QED
    BY <2>4, <2>5 DEF Traffic
<1>15. ASSUME NEW c \in catchups, CatchUpSend(c) PROVE Traffic
  <2>1. CatchUpOK(c) /\ c.stage = "send" /\ c.from \in Nat
    BY <1>15, LimitAssumption DEF NetOK, CatchUpSend, CatchUpOK
  <2> DEFINE r == AppendRequest(c.src, c.dst, c.from, c.entries, FALSE)
  <2>2. requests' \subseteq requests \cup {r}
        /\ (r \in requests' => r \in requests \/ (Leads(c.src, c.term) /\ c.from - 1 <= Last(c.src)))
    BY <1>15 DEF CatchUpSend
  <2>3. UNCHANGED <<nodeVars, logVars, windows, accepted, replies>> /\ catchups' \subseteq catchups
    BY <1>15 DEF CatchUpSend
  <2>4. Leads(c.src, c.term) /\ c.from - 1 <= Last(c.src) => Sent(r)
    BY <1>15, <2>1, <2>3 DEF Sent, AppendRequest, Leads
  <2> HIDE DEF r
  <2> QED
    BY <2>2, <2>3, <2>4 DEF Traffic
<1>16. ASSUME UNCHANGED vars PROVE Traffic
  BY <1>16 DEF vars, netVars, Traffic
<1> QED
  BY <1>1, <1>2, <1>3, <1>4, <1>5, <1>6, <1>7, <1>8, <1>10, <1>11, <1>12,
     <1>13, <1>14, <1>15, <1>16 DEF Next

(* A step is an election, a client's entry, the end of an AppendEntries, or *)
(* leaves logs alone and elects nobody.                                     *)
Quiet == NoneElected /\ TermsGrow /\ UNCHANGED log

LEMMA StepKinds ==
    ASSUME Shape, [Next]_vars
    PROVE  \/ \E n \in Node : \E P \in SUBSET Node : Campaign(n, P)
           \/ \E n \in Node : Replicate(n)
           \/ \E r \in accepted : AppendDone(r)
           \/ Quiet
<1> USE DEF Shape, Quiet
<1>1. ASSUME NEW r \in requests, Heartbeat(r) \/ AcceptAppend(r) PROVE Quiet
  BY <1>1, TermsFollow DEF NetOK, RequestOK, Heartbeat, AcceptAppend, logVars
<1>2. ASSUME NEW q \in replies, ReplyHigher(q) PROVE Quiet
  BY <1>2, TermsFollow DEF NetOK, ReplyOK, ReplyHigher, logVars
<1>3. ASSUME UNCHANGED <<nodeVars, log>> PROVE Quiet
  BY <1>3, TermsSame
<1>4. ASSUME NEW n \in Node, NEW p \in Node, Tick(n, p) PROVE Quiet
  BY <1>3, <1>4 DEF Tick, logVars
<1>5. ASSUME NEW r \in requests, Reject(r) PROVE Quiet
  BY <1>3, <1>5 DEF Reject, logVars
<1>6. ASSUME NEW r \in accepted, AppendInconsistent(r) \/ AppendRefused(r) PROVE Quiet
  BY <1>3, <1>6 DEF AppendInconsistent, AppendRefused, logVars
<1>7. ASSUME NEW q \in replies, ReplySuccess(q) \/ ReplyConflict(q) PROVE Quiet
  BY <1>3, <1>7 DEF ReplySuccess, ReplyConflict, logVars
<1>8. ASSUME NEW c \in catchups, CatchUpRead(c) \/ CatchUpSend(c) PROVE Quiet
  BY <1>3, <1>8 DEF CatchUpRead, CatchUpSend, logVars
<1>9. ASSUME Lose \/ UNCHANGED vars PROVE Quiet
  BY <1>3, <1>9 DEF Lose, vars, logVars
<1> QED
  BY <1>1, <1>2, <1>4, <1>5, <1>6, <1>7, <1>8, <1>9 DEF Next

(* Terms never fall, and windows that were hit stay hit.                    *)
LEMMA StepGrows ==
    ASSUME Shape, [Next]_vars
    PROVE  TermsGrow /\ windows \subseteq windows'
           /\ \A n \in Node : commitIndex'[n] >= commitIndex[n]
<1> USE DEF Shape, TermsGrow, logVars, nodeVars
<1>0. \A n \in Node : commitIndex[n] \in Nat /\ currentTerm[n] \in Nat
  BY DEF LogsOK, NodesOK, Term
<1> DEFINE Goal == windows \subseteq windows' /\ \A n \in Node : commitIndex'[n] >= commitIndex[n]
<1>1. ASSUME NEW r \in requests, Heartbeat(r) PROVE Goal
  <2>1. r.dst \in Node /\ r.commit \in Nat /\ Last(r.dst) \in Nat
    BY LenProperties DEF NetOK, RequestOK, LogsOK, Last
  <2>2. Min(r.commit, Last(r.dst)) \in Nat
    BY <2>1 DEF Min
  <2> QED
    BY <1>0, <1>1, <2>1, <2>2 DEF Heartbeat, LogsOK
<1>2. ASSUME NEW r \in accepted, AppendDone(r) PROVE Goal /\ UNCHANGED nodeVars
  <2>1. RequestOK(r) /\ r.kind = "AppendEntries"
    BY DEF NetOK
  <2>2. r.dst \in Node /\ r.commit \in Nat /\ Len(Merged(r)) \in Nat
    BY <1>2, <2>1, MergedOK, LenProperties DEF AppendDone, RequestOK
  <2>3. Min(r.commit, Len(Merged(r))) \in Nat
    BY <2>2 DEF Min
  <2> QED
    BY <1>0, <1>2, <2>2, <2>3 DEF AppendDone, LogsOK
<1>3. ASSUME NEW q \in replies, ReplySuccess(q) PROVE Goal
  <2>1. q.src \in Node
    BY DEF NetOK, ReplyOK
  <2>2. PICK match : Advance(q.src, match) /\ log' = log
    BY <1>3 DEF ReplySuccess
  <2> QED
    BY <1>3, <2>1, <2>2, AdvanceOK DEF ReplySuccess
<1>4. ASSUME UNCHANGED <<commitIndex, windows>> PROVE Goal
  BY <1>0, <1>4
<1>5. ASSUME NEW n \in Node, NEW P \in SUBSET Node, Campaign(n, P) PROVE Goal /\ TermsGrow
  BY <1>4, <1>5, TermsCampaign DEF Campaign
<1>6. ASSUME NEW n \in Node, Replicate(n) \/ \E p \in Node : Tick(n, p) PROVE Goal /\ UNCHANGED nodeVars
  BY <1>4, <1>6 DEF Replicate, Tick
<1>7. ASSUME NEW r \in requests, Reject(r) \/ AcceptAppend(r) PROVE Goal
  BY <1>4, <1>7 DEF Reject, AcceptAppend
<1>8. ASSUME NEW r \in accepted, AppendInconsistent(r) \/ AppendRefused(r) PROVE Goal
  BY <1>4, <1>8 DEF AppendInconsistent, AppendRefused
<1>9. ASSUME NEW q \in replies, ReplyConflict(q) \/ ReplyHigher(q) PROVE Goal
  BY <1>4, <1>9 DEF ReplyConflict, ReplyHigher
<1>10. ASSUME NEW c \in catchups, CatchUpRead(c) \/ CatchUpSend(c) PROVE Goal
  BY <1>4, <1>10 DEF CatchUpRead, CatchUpSend
<1>11. ASSUME Lose \/ UNCHANGED vars PROVE Goal
  BY <1>4, <1>11 DEF Lose, vars
<1>12. Goal
  <2> HIDE DEF Goal
  <2> QED
    BY <1>1, <1>2, <1>3, <1>5, <1>6, <1>7, <1>8, <1>9, <1>10, <1>11 DEF Next
<1>13. TermsGrow
  <2> HIDE DEF TermsGrow
  <2> QED
    BY <1>2, <1>5, <1>6, StepKinds, TermsSame DEF Quiet
<1> QED
  BY <1>12, <1>13

(***************************************************************************)
(* Elections.                                                              *)
(***************************************************************************)

OddCluster == Cardinality(Node) % 2 = 1

Quorum == {Q \in SUBSET Node : Cardinality(Q) >= Needed}

(* p votes for nobody any more in term t.                                   *)
Spent(p, t) == currentTerm[p] > t \/ (currentTerm[p] = t /\ voted[p])

Won(t) == \E Q \in Quorum : \A p \in Q : Spent(p, t)

(* In a cluster of odd size two quorums have a replica in common.           *)
LEMMA QuorumsMeet ==
    ASSUME OddCluster, NEW P \in Quorum, NEW Q \in Quorum
    PROVE  P \cap Q # {}
<1>1. /\ Cardinality(Node) \in Nat /\ Cardinality(P) \in Nat /\ Cardinality(Q) \in Nat
      /\ P \subseteq Node /\ Q \subseteq Node
      /\ Cardinality(P) >= Needed /\ Cardinality(Q) >= Needed
  BY ReplicaAssumption, FS_Subset, FS_CardinalityType DEF Quorum
<1>2. \A k \in Nat : k % 2 = 1 => 2 * ((k - 1) \div 2 + 1) = k + 1
  OBVIOUS
<1>3. 2 * Needed = Cardinality(Node) + 1 /\ Needed \in Int
  BY <1>1, <1>2 DEF OddCluster, Needed
<1>4. Cardinality(P) + Cardinality(Q) > Cardinality(Node)
  BY <1>1, <1>3
<1> QED
  BY <1>1, <1>4, ReplicaAssumption, FS_MajoritiesIntersect

(* n and a set of others that makes up the number.                          *)
LEMMA WithItself ==
    ASSUME NEW n \in Node, NEW S \in SUBSET (Node \ {n}), 1 + Cardinality(S) >= Needed
    PROVE  S \cup {n} \in Quorum
<1>1. IsFiniteSet(S) /\ n \notin S
  BY ReplicaAssumption, FS_Subset
<1>2. Cardinality(S \cup {n}) = Cardinality(S) + 1 /\ Cardinality(S) \in Nat
  BY <1>1, FS_AddElement, FS_CardinalityType
<1> QED
  BY <1>2 DEF Quorum

LEMMA WonStable ==
    ASSUME NodesOK, TermsGrow, NodesOK', NEW t \in Term, Won(t)
    PROVE  Won(t)'
<1>1. PICK Q \in Quorum : \A p \in Q : Spent(p, t)
  BY DEF Won
<1>2. Q \subseteq Node /\ Q \in Quorum'
  BY DEF Quorum, Needed
<1>3. \A p \in Q : Spent(p, t)'
  BY <1>1, <1>2 DEF Spent, NodesOK, TermsGrow, Term
<1> QED
  BY <1>2, <1>3 DEF Won

(* The votes that elect n are of a term no quorum had spent.                *)
LEMMA FreshWin ==
    ASSUME OddCluster, NodesOK, NEW n \in Node, NEW P \in SUBSET Node, Campaign(n, P),
           state'[n] = "Leader", NEW t, t = currentTerm[n] + 1
    PROVE  /\ currentTerm'[n] = t /\ t \in Term
           /\ ~Won(t) /\ Won(t)'
           /\ \E Q \in Quorum :
                \A p \in Q : /\ currentTerm[p] <= t /\ currentTerm'[p] = t
                             /\ p = n \/ UpToDate(n, p)
<1> DEFINE grant == {p \in P : UpToDate(n, p) /\ (currentTerm[p] < t \/ ~voted[p])}
           Q == grant \cup {n}
<1>1. /\ \A p \in P : p # n /\ currentTerm[p] <= t
      /\ currentTerm' = [m \in Node |-> IF m \in P \cup {n} THEN t ELSE currentTerm[m]]
      /\ voted' = [m \in Node |-> \/ m \in grant \cup {n}
                                  \/ voted[m] /\ (m \in P => currentTerm[m] = t)]
      /\ t <= MaxTerm
  BY DEF Campaign
<1>2. 1 + Cardinality(grant) >= Needed
  BY DEF Campaign, NodesOK
<1>3. grant \in SUBSET (Node \ {n})
  BY <1>1
<1>4. Q \in Quorum
  BY <1>2, <1>3, WithItself
<1>5. \A p \in Q : /\ ~Spent(p, t) /\ p \in Node
                   /\ currentTerm[p] <= t /\ currentTerm'[p] = t /\ voted'[p]
                   /\ p = n \/ UpToDate(n, p)
  BY <1>1, <1>3 DEF Spent, NodesOK, Term
<1> HIDE DEF Q, grant
<1>6. ~Won(t)
  BY <1>4, <1>5, QuorumsMeet DEF Won
<1>7. Won(t)'
  <2>1. Q \in Quorum'
    BY <1>4 DEF Quorum, Needed
  <2>2. \A p \in Q : Spent(p, t)'
    BY <1>5 DEF Spent
  <2> QED
    BY <2>1, <2>2 DEF Won
<1>8. currentTerm'[n] = t /\ t \in Term
  BY <1>1, LimitAssumption DEF NodesOK, Term
<1> QED
  BY <1>4, <1>5, <1>6, <1>7, <1>8

(* Who leads after a step led before it, or is elected in a later term.     *)
LEMMA LeadersStep ==
    ASSUME Shape, [Next]_vars, NEW n \in Node, state'[n] = "Leader"
    PROVE  \/ state[n] = "Leader" /\ currentTerm'[n] = currentTerm[n]
           \/ /\ currentTerm'[n] > currentTerm[n]
              /\ \E P \in SUBSET Node : Campaign(n, P)
<1> USE DEF Shape
<1>1. ASSUME NEW m \in Node, NEW P \in SUBSET Node, Campaign(m, P), m # n
      PROVE  state[n] = "Leader" /\ currentTerm'[n] = currentTerm[n]
  BY <1>1, TermsCampaign
<1>2. ASSUME NEW P \in SUBSET Node, Campaign(n, P)
      PROVE  currentTerm'[n] > currentTerm[n]
  BY <1>2 DEF Campaign, NodesOK, Term
<1>3. ASSUME UNCHANGED nodeVars \/ Quiet
      PROVE  state[n] = "Leader" /\ currentTerm'[n] = currentTerm[n]
  BY <1>3 DEF nodeVars, Quiet, NoneElected
<1>4. ASSUME NEW m \in Node, Replicate(m) PROVE UNCHANGED nodeVars
  BY <1>4 DEF Replicate
<1>5. ASSUME NEW r \in accepted, AppendDone(r) PROVE UNCHANGED nodeVars
  BY <1>5 DEF AppendDone
<1> QED
  BY <1>1, <1>2, <1>3, <1>4, <1>5, StepKinds

(* D holds the terms that were won so far and W their winners: every leader *)
(* and everything in flight belongs to one of them.                         *)
Elect(D, W) ==
    /\ D \subseteq Term
    /\ \A t \in D : Won(t)
    /\ \A n \in Node :
         state[n] = "Leader" => currentTerm[n] \in D /\ W[currentTerm[n]] = n
    /\ \A r \in requests \cup accepted :
         /\ r.term \in D /\ W[r.term] = r.src
         /\ r.term <= currentTerm[r.src] /\ r.commit <= commitIndex[r.src]
    /\ \A r \in accepted : r.term <= currentTerm[r.dst]
    /\ \A c \in catchups :
         c.term \in D /\ W[c.term] = c.src /\ c.term <= currentTerm[c.src]

(* D2 and W2 are D and W after a step.                                      *)
ElectExtends(D, W, D2, W2) ==
    /\ D \subseteq D2 /\ D2 \subseteq Term
    /\ \A t \in D : W2[t] = W[t]
    /\ \A t \in D2 : t \in D \/ Won(t)'
    /\ \A n \in Node :
         state'[n] = "Leader" =>
            \/ state[n] = "Leader" /\ currentTerm'[n] = currentTerm[n]
            \/ currentTerm'[n] \in D2 /\ W2[currentTerm'[n]] = n

LEMMA ElectStep ==
    ASSUME Shape, Shape', [Next]_vars, NEW D, NEW W, NEW D2, NEW W2,
           Elect(D, W), ElectExtends(D, W, D2, W2)
    PROVE  Elect(D2, W2)'
<1> USE DEF ElectExtends
<1>0. Traffic /\ TermsGrow /\ \A n \in Node : commitIndex'[n] >= commitIndex[n]
  BY StepTraffic, StepGrows
<1>t. \A n \in Node : /\ currentTerm[n] \in Int /\ currentTerm'[n] \in Int
                      /\ commitIndex[n] \in Int /\ commitIndex'[n] \in Int
                      /\ currentTerm'[n] >= currentTerm[n]
                      /\ commitIndex'[n] >= commitIndex[n]
  BY <1>0 DEF Shape, NodesOK, LogsOK, Term, TermsGrow
<1>1. \A t \in D2 : Won(t)'
  <2>1. \A t \in D : Won(t)'
    BY <1>0, WonStable DEF Elect, Shape
  <2> QED
    BY <2>1
<1>2. \A n \in Node :
        state'[n] = "Leader" => currentTerm'[n] \in D2 /\ W2[currentTerm'[n]] = n
  BY DEF Elect
<1>3. ASSUME NEW r \in requests \cup accepted
      PROVE  /\ r.term \in D2 /\ W2[r.term] = r.src
             /\ r.term <= currentTerm'[r.src] /\ r.commit <= commitIndex'[r.src]
  <2>1. RequestOK(r)
    BY DEF Shape, NetOK
  <2>2. /\ r.term \in D /\ W[r.term] = r.src /\ r.term \in Int /\ r.commit \in Int /\ r.src \in Node
        /\ r.term <= currentTerm[r.src] /\ r.commit <= commitIndex[r.src]
    BY <2>1 DEF Elect, RequestOK, Term
  <2> QED
    BY <2>2, <1>t
<1>4. ASSUME NEW r \in requests', Sent(r)
      PROVE  /\ r.term \in D2 /\ W2[r.term] = r.src
             /\ r.term <= currentTerm'[r.src] /\ r.commit <= commitIndex'[r.src]
  <2>1. RequestOK(r)
    BY DEF Shape, NetOK
  <2>2. /\ r.src \in Node /\ state[r.src] = "Leader" /\ currentTerm[r.src] = r.term
        /\ r.commit = commitIndex[r.src]
    BY <1>4, <2>1 DEF Sent, Leads, RequestOK
  <2>3. r.term \in D /\ W[r.term] = r.src
    BY <2>2 DEF Elect
  <2> QED
    BY <2>2, <2>3, <1>t
<1>5. \A r \in requests' \cup accepted' :
         /\ r.term \in D2 /\ W2[r.term] = r.src
         /\ r.term <= currentTerm'[r.src] /\ r.commit <= commitIndex'[r.src]
  BY <1>0, <1>3, <1>4 DEF Traffic
<1>6. ASSUME NEW r \in accepted' PROVE r.term <= currentTerm'[r.dst]
  <2>1. r.dst \in Node /\ r.term \in Int
    BY DEF Shape, NetOK, RequestOK, Term
  <2>2. r \in accepted \/ currentTerm'[r.dst] = r.term
    BY <1>0 DEF Traffic
  <2> QED
    BY <1>t, <2>1, <2>2 DEF Elect
<1>7. ASSUME NEW c \in catchups'
      PROVE  c.term \in D2 /\ W2[c.term] = c.src /\ c.term <= currentTerm'[c.src]
  <2>1. c.src \in Node /\ c.term \in Int
    BY DEF Shape, NetOK, CatchUpOK, Term
  <2>2. \/ c \in catchups
        \/ Leads(c.src, c.term)
        \/ \E d \in catchups : d.src = c.src /\ d.term = c.term
    BY <1>0 DEF Traffic, Read
  <2>3. c.term \in D /\ W[c.term] = c.src /\ c.term <= currentTerm[c.src]
    BY <2>1, <2>2, <1>t DEF Elect, Leads
  <2> QED
    BY <2>1, <2>3, <1>t
<1> QED
  BY <1>1, <1>2, <1>5, <1>6, <1>7 DEF Elect

(***************************************************************************)
(* The logs.                                                               *)
(***************************************************************************)

(* s and u are the same up to index i.                                      *)
Agree(s, u, i) == i <= Len(s) /\ i <= Len(u) /\ \A k \in 1..i : s[k] = u[k]

(* H[t] is the log of the leader of term t, as far as it got: it holds      *)
(* entries of won terms in order, each with what its own leader had below.  *)
Ledger(D, H) ==
    /\ D \subseteq Term
    /\ H \in [Term -> Seq(1..MaxTerm)]
    /\ \A t \in D : \A i \in 1..Len(H[t]) :
         H[t][i] \in D /\ H[t][i] <= t /\ Agree(H[t], H[H[t][i]], i)
    /\ \A t \in D : \A i, j \in 1..Len(H[t]) : i <= j => H[t][i] <= H[t][j]

(* Every log is, up to each of its entries, that of the entry's leader.     *)
LogsLed(D, H) ==
    /\ \A n \in Node : \A i \in 1..Len(log[n]) :
         /\ log[n][i] \in D /\ log[n][i] <= currentTerm[n]
         /\ Agree(log[n], H[log[n][i]], i)
    /\ \A n \in Node : state[n] = "Leader" => log[n] = H[currentTerm[n]]

(* The entries from index i on are those of the leader of t.                *)
Carries(H, t, i, entries) ==
    /\ i + Len(entries) <= Len(H[t])
    /\ \A k \in 1..Len(entries) : entries[k] = H[t][i + k]

NetLed(H) ==
    /\ \A r \in requests \cup accepted : r.kind = "AppendEntries" =>
         /\ Carries(H, r.term, r.prev, r.entries)
         /\ r.prev # 0 => r.prevTerm = H[r.term][r.prev]
    /\ \A c \in catchups : c.stage = "send" /\ Leads(c.src, c.term) =>
         Carries(H, c.term, c.from - 1, c.entries)

(* Leaders' logs only grow.                                                 *)
LedgerExtends(D, H, D2, H2) ==
    /\ D \subseteq D2
    /\ \A t \in D : Agree(H[t], H2[t], Len(H[t]))

LEMMA SuffixCarried ==
    ASSUME NEW H, NEW t, H[t] \in Seq(1..MaxTerm), NEW i \in Nat, i + 1 <= Len(H[t])
    PROVE  Carries(H, t, i, SubSeq(H[t], i + 1, Len(H[t])))
<1> DEFINE es == SubSeq(H[t], i + 1, Len(H[t]))
<1>1. Len(H[t]) \in Nat
  BY LenProperties
<1>2. /\ Len(es) = Len(H[t]) - (i + 1) + 1
      /\ \A k \in 1..(Len(H[t]) - (i + 1) + 1) : es[k] = H[t][i + 1 + k - 1]
  BY <1>1, SuffixFacts
<1> HIDE DEF es
<1>3. ASSUME NEW k \in 1..Len(es) PROVE es[k] = H[t][i + k]
  <2>1. i + 1 + k - 1 = i + k /\ k \in 1..(Len(H[t]) - (i + 1) + 1)
    BY <1>1, <1>2
  <2> QED
    BY <1>2, <2>1
<1>4. i + Len(es) <= Len(H[t])
  BY <1>1, <1>2
<1>5. Carries(H, t, i, es)
  BY <1>3, <1>4 DEF Carries
<1> QED
  BY <1>5 DEF es

LEMMA NetLedStep ==
    ASSUME Shape, Shape', [Next]_vars, NEW D, NEW W, NEW H, NEW D2, NEW H2,
           Elect(D, W), Ledger(D, H), LogsLed(D, H), NetLed(H),
           Ledger(D2, H2), LedgerExtends(D, H, D2, H2)
    PROVE  NetLed(H2)'
<1>1. Traffic
  BY StepTraffic
<1>2. ASSUME NEW t \in D, NEW i \in Nat, NEW entries \in Seq(1..MaxTerm),
             Carries(H, t, i, entries)
      PROVE  Carries(H2, t, i, entries)
  <2>1. /\ Len(H[t]) \in Nat /\ Len(H2[t]) \in Nat /\ Len(entries) \in Nat
        /\ Len(H[t]) <= Len(H2[t]) /\ \A k \in 1..Len(H[t]) : H2[t][k] = H[t][k]
    BY LenProperties DEF Ledger, LedgerExtends, Agree
  <2>2. ASSUME NEW k \in 1..Len(entries) PROVE entries[k] = H2[t][i + k]
    <3>1. i + k \in 1..Len(H[t]) /\ entries[k] = H[t][i + k]
      BY <1>2, <2>1 DEF Carries
    <3> QED
      BY <2>1, <3>1
  <2>3. i + Len(entries) <= Len(H2[t])
    BY <1>2, <2>1 DEF Carries
  <2> QED
    BY <2>2, <2>3 DEF Carries
<1>3. ASSUME NEW r \in requests \cup accepted, r.kind = "AppendEntries"
      PROVE  /\ Carries(H2, r.term, r.prev, r.entries)
             /\ r.prev # 0 => r.prevTerm = H2[r.term][r.prev]
  <2>1. RequestOK(r) /\ r.term \in D
    BY DEF Shape, NetOK, Elect
  <2>2. /\ Carries(H, r.term, r.prev, r.entries)
        /\ r.prev # 0 => r.prevTerm = H[r.term][r.prev]
        /\ r.prev \in Nat /\ r.entries \in Seq(1..MaxTerm) /\ Len(r.entries) \in Nat
    BY <1>3, <2>1, LenProperties DEF NetLed, RequestOK
  <2>3. Carries(H2, r.term, r.prev, r.entries)
    BY <1>2, <2>1, <2>2
  <2>4. r.prev # 0 => r.prev \in 1..Len(H[r.term])
    BY <2>1, <2>2, LenProperties DEF Carries, Ledger
  <2> QED
    BY <2>1, <2>2, <2>3, <2>4 DEF LedgerExtends, Agree
<1>4. ASSUME NEW r \in requests', Sent(r), r.kind = "AppendEntries"
      PROVE  /\ Carries(H2, r.term, r.prev, r.entries)
             /\ r.prev # 0 => r.prevTerm = H2[r.term][r.prev]
  <2> DEFINE n == r.src
  <2>1. RequestOK(r)
    BY DEF Shape, NetOK
  <2>2. /\ n \in Node /\ state[n] = "Leader" /\ currentTerm[n] = r.term
        /\ r.prev <= Last(n) /\ r.prevTerm = TermAt(n, r.prev)
        /\ r.prev \in Nat /\ r.entries \in Seq(1..MaxTerm)
    BY <1>4, <2>1 DEF Sent, Leads, RequestOK
  <2>3. r.term \in D /\ log[n] = H[r.term] /\ Len(log[n]) \in Nat /\ log[n] \in Seq(1..MaxTerm)
    BY <2>2, LenProperties DEF Elect, LogsLed, Shape, LogsOK
  <2>4. Carries(H, r.term, r.prev, r.entries)
    <3>1. CASE /\ r.prev + 1 <= Last(n)
               /\ r.entries = SubSeq(log[n], r.prev + 1, Last(n))
      BY <2>2, <2>3, <3>1, SuffixCarried DEF Last
    <3>2. CASE \E c \in catchups :
                 /\ c.stage = "send" /\ c.src = n /\ c.term = r.term
                 /\ c.from = r.prev + 1 /\ c.entries = r.entries
      <4>1. PICK c \in catchups :
                 /\ c.stage = "send" /\ c.src = n /\ c.term = r.term
                 /\ c.from = r.prev + 1 /\ c.entries = r.entries
        BY <3>2
      <4>2. c.from - 1 = r.prev
        BY <2>2, <4>1
      <4> QED
        BY <2>2, <4>1, <4>2 DEF NetLed, Leads
    <3> QED
      BY <1>4, <3>1, <3>2 DEF Sent
  <2>5. Carries(H2, r.term, r.prev, r.entries)
    BY <1>2, <2>2, <2>3, <2>4
  <2>6. r.prev # 0 => r.prev \in 1..Len(H[r.term]) /\ r.prevTerm = H[r.term][r.prev]
    BY <2>2, <2>3 DEF TermAt, Last
  <2> QED
    BY <2>3, <2>5, <2>6 DEF LedgerExtends, Agree
<1>5. \A r \in requests' \cup accepted' : r.kind = "AppendEntries" =>
         /\ Carries(H2, r.term, r.prev, r.entries)
         /\ r.prev # 0 => r.prevTerm = H2[r.term][r.prev]
  BY <1>1, <1>3, <1>4 DEF Traffic
<1>6. ASSUME NEW c \in catchups', c.stage = "send", Leads(c.src, c.term)'
      PROVE  Carries(H2, c.term, c.from - 1, c.entries)
  <2>1. /\ c.src \in Node /\ c.term \in Int /\ c.from - 1 \in Nat /\ c.from \in Nat /\ c.from >= 1
        /\ c.entries \in Seq(1..MaxTerm)
    BY <1>6, LimitAssumption DEF Shape, NetOK, CatchUpOK, Term
  <2>2. CASE c \in catchups
    <3>1. c.term \in D /\ c.term <= currentTerm[c.src] /\ currentTerm[c.src] \in Int
      BY <2>1, <2>2 DEF Elect, Shape, NodesOK, Term
    <3>2. Leads(c.src, c.term)
      BY <1>6, <2>1, <3>1, LeadersStep DEF Leads
    <3> QED
      BY <1>2, <1>6, <2>1, <2>2, <3>1, <3>2 DEF NetLed
  <2>3. CASE Read(c)
    <3>1. Leads(c.src, c.term)
      BY <1>6, <2>3 DEF Read, Leads, nodeVars
    <3>2. c.term \in D /\ log[c.src] = H[c.term] /\ log[c.src] \in Seq(1..MaxTerm) /\ Len(log[c.src]) \in Nat
      BY <2>1, <3>1, LenProperties DEF Leads, Elect, LogsLed, Shape, LogsOK
    <3>3. /\ c.from <= Len(log[c.src])
          /\ c.entries = SubSeq(log[c.src], c.from, Len(log[c.src]))
      BY <2>3 DEF Read, Last
    <3>4. c.from - 1 + 1 = c.from
      BY <2>1
    <3>6. Carries(H, c.term, c.from - 1, c.entries)
      BY <2>1, <3>2, <3>3, <3>4, SuffixCarried
    <3> QED
      BY <1>2, <2>1, <3>2, <3>6
  <2> QED
    BY <1>1, <1>6, <2>2, <2>3 DEF Traffic
<1> QED
  BY <1>5, <1>6 DEF NetLed

(* A log that has an entry of the leader's log at its place has all that is *)
(* below it.                                                                *)
LEMMA EntryAgrees ==
    ASSUME NEW D, NEW H, Ledger(D, H), LogsLed(D, H), LogsOK, NEW n \in Node, NEW t \in D,
           NEW i \in 1..Len(log[n]), i <= Len(H[t]), log[n][i] = H[t][i]
    PROVE  Agree(log[n], H[t], i)
<1>1. Len(log[n]) \in Nat /\ Len(H[t]) \in Nat
  BY LenProperties DEF LogsOK, Ledger
<1>2. Agree(log[n], H[H[t][i]], i)
  BY DEF LogsLed
<1>3. Agree(H[t], H[H[t][i]], i)
  BY <1>1 DEF Ledger
<1> QED
  BY <1>2, <1>3 DEF Agree

(* AppendEntries makes the log that of the leader it came from, up to the   *)
(* last entry of the request at least.                                      *)
LEMMA MergedFollows ==
    ASSUME Shape, NEW D, NEW H, Ledger(D, H), LogsLed(D, H), NetLed(H),
           NEW r \in accepted, r.term \in D, Consistent(r), ~Refused(r)
    PROVE  /\ Agree(Merged(r), H[r.term], r.prev + Len(r.entries))
           /\ Merged(r) = log[r.dst] \/ Len(Merged(r)) = r.prev + Len(r.entries)
           /\ \A j \in Nat : Agree(log[r.dst], H[r.term], j) => Agree(Merged(r), H[r.term], j)
<1> DEFINE n == r.dst
           es == r.entries
           L == H[r.term]
           hi == r.prev + Len(es)
<1>1. RequestOK(r) /\ r.kind = "AppendEntries"
  BY DEF Shape, NetOK
<1>2. /\ n \in Node /\ r.prev \in Nat /\ es \in Seq(1..MaxTerm) /\ Len(es) \in Nat
      /\ DOMAIN es = 1..Len(es) /\ hi \in Nat
  BY <1>1, LenProperties DEF RequestOK
<1>3. /\ log[n] \in Seq(1..MaxTerm) /\ Len(log[n]) \in Nat /\ L \in Seq(1..MaxTerm) /\ Len(L) \in Nat
  BY <1>2, LenProperties DEF Shape, LogsOK, Ledger
<1>4. hi <= Len(L) /\ \A k \in 1..Len(es) : es[k] = L[r.prev + k]
  BY <1>1 DEF NetLed, Carries
<1>5. r.prev <= Len(log[n]) /\ Agree(log[n], L, r.prev)
  <2>1. r.prev <= Len(log[n]) /\ TermAt(n, r.prev) = r.prevTerm
    BY <1>2 DEF Consistent, Last
  <2>2. CASE r.prev = 0
    BY <1>2, <1>3, <2>2 DEF Agree
  <2>3. CASE r.prev # 0
    <3>1. r.prev \in 1..Len(log[n]) /\ r.prev <= Len(L) /\ log[n][r.prev] = L[r.prev]
      BY <1>1, <1>2, <1>3, <1>4, <2>1, <2>3 DEF NetLed, TermAt, Last
    <3> QED
      BY <1>2, <2>1, <3>1, EntryAgrees DEF Shape
  <2> QED
    BY <2>1, <2>2, <2>3
<1>6. \A j \in 1..hi : j > r.prev => j - r.prev \in 1..Len(es) /\ r.prev + (j - r.prev) = j
  BY <1>2
<1> HIDE DEF hi, es, L, n
<1>7. CASE Conflicts(r) = {} /\ hi <= Last(n)
  <2>1. Merged(r) = log[n]
    BY <1>7 DEF Merged, hi, n, es
  <2>2. ASSUME NEW j \in 1..hi PROVE log[n][j] = L[j]
    <3>1. CASE j <= r.prev
      BY <1>2, <1>5, <3>1 DEF Agree
    <3>2. CASE j > r.prev
      <4>1. j - r.prev \in 1..Len(es) /\ r.prev + (j - r.prev) = j
        BY <1>6, <3>2
      <4>2. r.prev + (j - r.prev) <= Last(n)
        BY <1>2, <1>3, <1>7, <4>1 DEF Last
      <4>3. log[n][r.prev + (j - r.prev)] = es[j - r.prev]
        BY <1>2, <1>7, <4>1, <4>2 DEF Conflicts, n, es
      <4> QED
        BY <1>4, <4>1, <4>3
    <3> QED
      BY <1>2, <3>1, <3>2
  <2>3. Agree(log[n], L, hi)
    BY <1>4, <1>7, <2>2 DEF Agree, Last
  <2> QED
    BY <2>1, <2>3 DEF hi, L, n, es
<1>8. CASE ~(Conflicts(r) = {} /\ hi <= Last(n))
  <2> DEFINE pre == SubSeq(log[n], 1, r.prev)
  <2>1. Merged(r) = pre \o es
    BY <1>8 DEF Merged, Prefix, hi, n, es
  <2>2. pre \in Seq(1..MaxTerm) /\ Len(pre) = r.prev /\ \A k \in 1..r.prev : pre[k] = log[n][k]
    BY <1>2, <1>3, <1>5, PrefixFacts
  <2> HIDE DEF pre
  <2>3. /\ Len(Merged(r)) = hi
        /\ \A j \in 1..hi : Merged(r)[j] = IF j <= r.prev THEN pre[j] ELSE es[j - r.prev]
    BY <1>2, <2>1, <2>2, ConcatProperties DEF hi
  <2>4. ASSUME NEW j \in 1..hi PROVE Merged(r)[j] = L[j]
    <3>1. CASE j <= r.prev
      BY <1>2, <1>5, <2>2, <2>3, <3>1 DEF Agree
    <3>2. CASE j > r.prev
      BY <1>2, <1>4, <1>6, <2>3, <3>2
    <3> QED
      BY <1>2, <3>1, <3>2
  <2>5. Agree(Merged(r), L, hi)
    BY <1>2, <1>4, <2>3, <2>4 DEF Agree
  <2>6. ASSUME NEW j \in Nat, Agree(log[n], L, j) PROVE j <= hi
    <3>1. SUFFICES ASSUME j > hi PROVE FALSE
      BY <1>2
    <3>2. hi <= Len(log[n])
      BY <1>2, <1>3, <2>6, <3>1 DEF Agree
    <3>3. ASSUME NEW k \in 1..Len(es) PROVE log[n][r.prev + k] = es[k]
      <4>1. r.prev + k \in 1..j
        BY <1>2, <3>1 DEF hi
      <4> QED
        BY <1>4, <2>6, <4>1 DEF Agree
    <3>4. Conflicts(r) = {}
      BY <1>2, <3>3 DEF Conflicts, n, es
    <3> QED
      BY <1>8, <3>2, <3>4 DEF Last
  <2>7. ASSUME NEW j \in Nat, Agree(log[n], L, j) PROVE Agree(Merged(r), L, j)
    <3>1. j <= hi
      BY <2>6, <2>7
    <3> QED
      BY <1>2, <2>3, <2>5, <3>1 DEF Agree
  <2> QED
    BY <2>3, <2>5, <2>7 DEF hi, L, n, es
<1> QED
  BY <1>7, <1>8

(* A log that is the leader's up to its end is led.                         *)
LEMMA LedCopy ==
    ASSUME NEW D, NEW H, Ledger(D, H), NEW t \in D, NEW s, Agree(s, H[t], Len(s)),
           NEW i \in 1..Len(s), Len(s) \in Nat
    PROVE  s[i] \in D /\ s[i] <= t /\ Agree(s, H[s[i]], i)
<1>1. Len(H[t]) \in Nat
  BY LenProperties DEF Ledger
<1>2. s[i] = H[t][i] /\ i \in 1..Len(H[t])
  BY <1>1 DEF Agree
<1>3. H[t][i] \in D /\ H[t][i] <= t /\ Agree(H[t], H[H[t][i]], i)
  BY <1>2 DEF Ledger
<1> QED
  BY <1>1, <1>2, <1>3 DEF Agree

(* The terms won, their winners and their logs, before and after a step.    *)
LedgerStep(D, W, H, D2, W2, H2) ==
    /\ ElectExtends(D, W, D2, W2)
    /\ LedgerExtends(D, H, D2, H2)
    /\ \A t \in D2 \ D : \E n \in Node : \E P \in SUBSET Node :
         /\ Campaign(n, P) /\ state'[n] = "Leader"
         /\ t = currentTerm[n] + 1 /\ H2[t] = log[n]
    /\ \A t \in D : \/ H2[t] = H[t]
                    \/ /\ H2[t] = Append(H[t], t)
                       /\ \E n \in Node : Replicate(n) /\ currentTerm[n] = t

(* One election: the new term is fresh, and its ledger is the winner's log. *)
NewLedger(D, W, H, n, t, D2, W2, H2) ==
    /\ t = currentTerm[n] + 1 /\ D2 = D \cup {t}
    /\ W2[t] = n /\ \A u \in D : W2[u] = W[u]
    /\ H2 = [H EXCEPT ![t] = log[n]]

LEMMA ElectedLedger ==
    ASSUME OddCluster, Shape, Shape', NEW D, NEW W, NEW H,
           Elect(D, W), Ledger(D, H), LogsLed(D, H),
           NEW n \in Node, NEW P \in SUBSET Node, Campaign(n, P), state'[n] = "Leader",
           NEW t, NEW D2, NEW W2, NEW H2, NewLedger(D, W, H, n, t, D2, W2, H2)
    PROVE  /\ LedgerStep(D, W, H, D2, W2, H2)
           /\ Ledger(D2, H2) /\ LogsLed(D2, H2)'
<1>0. /\ t = currentTerm[n] + 1 /\ D2 = D \cup {t} /\ W2[t] = n
      /\ \A u \in D : W2[u] = W[u]
      /\ H2 = [H EXCEPT ![t] = log[n]]
  BY DEF NewLedger
<1> USE <1>0
<1>1. /\ currentTerm'[n] = t /\ t \in Term /\ ~Won(t) /\ Won(t)'
      /\ log' = log /\ log \in [Node -> Seq(1..MaxTerm)]
      /\ TermsGrow
      /\ \A m \in Node \ {n} : state'[m] = "Leader" =>
            state[m] = "Leader" /\ currentTerm'[m] = currentTerm[m]
  <2>1. currentTerm'[n] = t /\ t \in Term /\ ~Won(t) /\ Won(t)'
    BY FreshWin DEF Shape
  <2>2. /\ TermsGrow
        /\ \A m \in Node \ {n} : state'[m] = "Leader" =>
              state[m] = "Leader" /\ currentTerm'[m] = currentTerm[m]
    BY TermsCampaign DEF Shape
  <2>3. log' = log /\ log \in [Node -> Seq(1..MaxTerm)]
    BY DEF Shape, LogsOK, Campaign, logVars
  <2> QED
    BY <2>1, <2>2, <2>3
<1>t. /\ \A m \in Node : /\ currentTerm[m] \in Int /\ currentTerm'[m] \in Int
                         /\ currentTerm'[m] >= currentTerm[m]
      /\ D \subseteq Int
  BY <1>1 DEF Shape, NodesOK, Term, TermsGrow, Elect
<1>2. t \notin D
  BY <1>1 DEF Elect
<1>3. /\ H2[t] = log[n] /\ \A u \in D : H2[u] = H[u]
      /\ H2 \in [Term -> Seq(1..MaxTerm)] /\ D \subseteq D2 /\ D2 \subseteq Term
  BY <1>1, <1>2 DEF Ledger
<1>4. ElectExtends(D, W, D2, W2)
  <2>1. \A u \in D2 : u \in D \/ Won(u)'
    BY <1>1
  <2>2. \A m \in Node :
         state'[m] = "Leader" =>
            \/ state[m] = "Leader" /\ currentTerm'[m] = currentTerm[m]
            \/ currentTerm'[m] \in D2 /\ W2[currentTerm'[m]] = m
    BY <1>1
  <2> QED
    BY <1>3, <2>1, <2>2 DEF ElectExtends
<1>5. LedgerExtends(D, H, D2, H2)
  <2>1. \A u \in D : Len(H[u]) \in Nat
    BY LenProperties DEF Ledger
  <2> QED
    BY <1>3, <2>1 DEF LedgerExtends, Agree
<1>6. LedgerStep(D, W, H, D2, W2, H2)
  BY <1>3, <1>4, <1>5 DEF LedgerStep
<1>7. \A i \in 1..Len(log[n]) :
        log[n][i] \in D /\ log[n][i] <= currentTerm[n] /\ Agree(log[n], H[log[n][i]], i)
  BY DEF LogsLed
<1>8. \A u \in D2 : \A i \in 1..Len(H2[u]) :
         H2[u][i] \in D2 /\ H2[u][i] <= u /\ Agree(H2[u], H2[H2[u][i]], i)
  <2>1. ASSUME NEW i \in 1..Len(log[n])
        PROVE  log[n][i] \in D2 /\ log[n][i] <= t /\ Agree(log[n], H2[log[n][i]], i)
    <3>1. log[n][i] \in D /\ log[n][i] <= currentTerm[n] /\ Agree(log[n], H[log[n][i]], i)
      BY <1>7
    <3>2. log[n][i] \in D2 /\ H2[log[n][i]] = H[log[n][i]]
      BY <1>3, <3>1
    <3>3. log[n][i] \in Int /\ currentTerm[n] \in Int
      BY <1>t, <3>1
    <3>4. log[n][i] <= t
      BY <3>1, <3>3
    <3> QED
      BY <3>1, <3>2, <3>4
  <2>2. ASSUME NEW u \in D, NEW i \in 1..Len(H[u])
        PROVE  H[u][i] \in D2 /\ H[u][i] <= u /\ Agree(H[u], H2[H[u][i]], i)
    BY <1>3 DEF Ledger
  <2> QED
    BY <1>3, <2>1, <2>2
<1>9. \A u \in D2 : \A i, j \in 1..Len(H2[u]) : i <= j => H2[u][i] <= H2[u][j]
  <2>1. ASSUME NEW i \in 1..Len(log[n]), NEW j \in 1..Len(log[n]), i <= j
        PROVE  log[n][i] <= log[n][j]
    <3>1. log[n][j] \in D /\ Agree(log[n], H[log[n][j]], j)
      BY <1>7
    <3>2. Len(H[log[n][j]]) \in Nat /\ Len(log[n]) \in Nat
      BY <1>1, <3>1, LenProperties DEF Ledger
    <3>3. /\ i \in 1..Len(H[log[n][j]]) /\ j \in 1..Len(H[log[n][j]])
          /\ log[n][i] = H[log[n][j]][i] /\ log[n][j] = H[log[n][j]][j]
      BY <2>1, <3>1, <3>2 DEF Agree
    <3> QED
      BY <2>1, <3>1, <3>3 DEF Ledger
  <2> QED
    BY <1>3, <2>1 DEF Ledger
<1>10. Ledger(D2, H2)
  BY <1>3, <1>8, <1>9 DEF Ledger
<1>11. ASSUME NEW m \in Node, NEW i \in 1..Len(log[m])
       PROVE  log[m][i] \in D2 /\ log[m][i] <= currentTerm'[m] /\ Agree(log[m], H2[log[m][i]], i)
  <2>1. log[m][i] \in D /\ log[m][i] <= currentTerm[m] /\ Agree(log[m], H[log[m][i]], i)
    BY DEF LogsLed
  <2>2. log[m][i] \in D2 /\ H2[log[m][i]] = H[log[m][i]]
    BY <1>3, <2>1
  <2>3. log[m][i] \in Int
    BY <1>t, <2>1
  <2>4. log[m][i] <= currentTerm'[m]
    BY <1>t, <2>1, <2>3
  <2> QED
    BY <2>1, <2>2, <2>4
<1>12. ASSUME NEW m \in Node, state'[m] = "Leader" PROVE log[m] = H2[currentTerm'[m]]
  <2>1. CASE m = n
    BY <1>1, <1>3, <2>1
  <2>2. CASE m # n
    <3>1. state[m] = "Leader" /\ currentTerm'[m] = currentTerm[m]
      BY <1>1, <1>12, <2>2
    <3> QED
      BY <1>3, <3>1 DEF Elect, LogsLed
  <2> QED
    BY <2>1, <2>2
<1>13. LogsLed(D2, H2)'
  BY <1>1, <1>11, <1>12 DEF LogsLed
<1> QED
  BY <1>6, <1>10, <1>13

(* An entry of a client: the ledger of the leader's term grows with its log. *)
LEMMA ReplicatedLedger ==
    ASSUME Shape, Shape', NEW D, NEW W, NEW H,
           Elect(D, W), Ledger(D, H), LogsLed(D, H),
           NEW n \in Node, Replicate(n), NEW t, t = currentTerm[n],
           NEW H2, H2 = [H EXCEPT ![t] = Append(H[t], t)]
    PROVE  /\ LedgerStep(D, W, H, D, W, H2)
           /\ Ledger(D, H2) /\ LogsLed(D, H2)'
<1>1. /\ state[n] = "Leader" /\ UNCHANGED nodeVars
      /\ log' = [log EXCEPT ![n] = Append(log[n], t)]
  BY DEF Replicate
<1>2. /\ t \in D /\ W[t] = n /\ log[n] = H[t] /\ t \in 1..MaxTerm /\ t \in Term
      /\ \A m \in Node : state[m] = "Leader" /\ currentTerm[m] = t => m = n
  BY <1>1, LimitAssumption DEF Elect, LogsLed, Shape, NodesOK, Term
<1> DEFINE new == Append(H[t], t)
           z == Len(H[t]) + 1
<1>3. /\ H[t] \in Seq(1..MaxTerm) /\ Len(H[t]) \in Nat
      /\ new \in Seq(1..MaxTerm) /\ Len(new) = z
      /\ \A k \in 1..Len(H[t]) : new[k] = H[t][k]
      /\ new[z] = t
  BY <1>2, LenProperties, AppendProperties DEF Ledger
<1> HIDE DEF new
<1>4. /\ H2[t] = new /\ \A u \in D : u # t => H2[u] = H[u]
      /\ H2 \in [Term -> Seq(1..MaxTerm)]
  BY <1>2, <1>3 DEF Ledger, new
<1>5. \A u \in D : Agree(H[u], H2[u], Len(H[u]))
  BY <1>3, <1>4, LenProperties DEF Agree, Ledger
<1>6. ASSUME NEW s, NEW u \in D, NEW i \in Nat, Agree(s, H[u], i) PROVE Agree(s, H2[u], i)
  <2>1. CASE u # t
    BY <1>4, <1>6, <2>1
  <2>2. CASE u = t
    BY <1>3, <1>4, <1>6, <2>2 DEF Agree
  <2> QED
    BY <2>1, <2>2
<1>7. LedgerStep(D, W, H, D, W, H2)
  <2>1. ElectExtends(D, W, D, W)
    BY <1>1 DEF ElectExtends, Elect, nodeVars
  <2>2. LedgerExtends(D, H, D, H2)
    BY <1>5 DEF LedgerExtends
  <2>3. \A u \in D : \/ H2[u] = H[u]
                     \/ /\ H2[u] = Append(H[u], u)
                        /\ \E m \in Node : Replicate(m) /\ currentTerm[m] = u
    BY <1>4 DEF new
  <2> QED
    BY <2>1, <2>2, <2>3 DEF LedgerStep
(* A sequence that is led, and the new log, which is.                       *)
<1>8. \A i \in 1..z : new[i] \in D /\ new[i] <= t /\ Agree(new, H2[new[i]], i)
  <2>1. ASSUME NEW i \in 1..Len(H[t])
        PROVE  new[i] \in D /\ new[i] <= t /\ Agree(new, H2[new[i]], i)
    <3>1. H[t][i] \in D /\ H[t][i] <= t /\ Agree(H[t], H[H[t][i]], i)
      BY <1>2 DEF Ledger
    <3>2. new[i] = H[t][i]
      BY <1>3
    <3>3. Agree(new, H[new[i]], i)
      BY <1>3, <3>1, <3>2 DEF Agree
    <3>4. i \in Nat /\ new[i] \in D
      BY <3>1, <3>2
    <3>5. Agree(new, H2[new[i]], i)
      BY <1>6, <3>3, <3>4
    <3> QED
      BY <3>1, <3>2, <3>5
  <2>2. new[z] \in D /\ new[z] <= t /\ Agree(new, H2[new[z]], z)
    BY <1>2, <1>3, <1>4 DEF Agree
  <2> QED
    BY <1>3, <2>1, <2>2
<1>9. \A i, j \in 1..z : i <= j => new[i] <= new[j]
  <2>1. ASSUME NEW i \in 1..z, NEW j \in 1..z, i <= j PROVE new[i] <= new[j]
    <3>1. CASE j = z
      BY <1>3, <1>8, <3>1
    <3>2. CASE j # z
      <4>1. i \in 1..Len(H[t]) /\ j \in 1..Len(H[t])
        BY <1>3, <2>1, <3>2
      <4> QED
        BY <1>2, <1>3, <2>1, <4>1 DEF Ledger
    <3> QED
      BY <3>1, <3>2
  <2> QED
    BY <2>1
<1>10. Ledger(D, H2)
  <2>1. ASSUME NEW u \in D, NEW i \in 1..Len(H2[u])
        PROVE  H2[u][i] \in D /\ H2[u][i] <= u /\ Agree(H2[u], H2[H2[u][i]], i)
    <3>1. CASE u = t
      BY <1>3, <1>4, <1>8, <3>1
    <3>2. CASE u # t
      <4>1. H2[u] = H[u] /\ H[u][i] \in D /\ H[u][i] <= u /\ Agree(H[u], H[H[u][i]], i)
        BY <1>4, <2>1, <3>2 DEF Ledger
      <4>2. i \in Nat
        BY <2>1
      <4>3. Agree(H[u], H2[H[u][i]], i)
        BY <1>6, <4>1, <4>2
      <4> QED
        BY <4>1, <4>3
    <3> QED
      BY <3>1, <3>2
  <2>2. ASSUME NEW u \in D, NEW i \in 1..Len(H2[u]), NEW j \in 1..Len(H2[u]), i <= j
        PROVE  H2[u][i] <= H2[u][j]
    <3>1. CASE u = t
      BY <1>3, <1>4, <1>9, <2>2, <3>1
    <3>2. CASE u # t
      BY <1>4, <2>2, <3>2 DEF Ledger
    <3> QED
      BY <3>1, <3>2
  <2> QED
    BY <1>4, <2>1, <2>2 DEF Ledger
<1>11. ASSUME NEW m \in Node, NEW i \in 1..Len(log'[m])
       PROVE  log'[m][i] \in D /\ log'[m][i] <= currentTerm'[m] /\ Agree(log'[m], H2[log'[m][i]], i)
  <2>1. CASE m = n
    <3>1. log'[n] = new /\ currentTerm'[n] = t
      BY <1>1, <1>2 DEF Shape, LogsOK, nodeVars, new
    <3> QED
      BY <1>3, <1>8, <2>1, <3>1
  <2>2. CASE m # n
    <3>1. log'[m] = log[m] /\ currentTerm'[m] = currentTerm[m]
      BY <1>1, <2>2 DEF Shape, LogsOK, nodeVars
    <3>2. log[m][i] \in D /\ log[m][i] <= currentTerm[m] /\ Agree(log[m], H[log[m][i]], i) /\ i \in Nat
      BY <1>11, <3>1 DEF LogsLed
    <3>3. Agree(log[m], H2[log[m][i]], i)
      BY <1>6, <3>2
    <3> QED
      BY <3>1, <3>2, <3>3
  <2> QED
    BY <2>1, <2>2
<1>12. ASSUME NEW m \in Node, state'[m] = "Leader" PROVE log'[m] = H2[currentTerm'[m]]
  <2>1. CASE m = n
    BY <1>1, <1>2, <1>4, <2>1 DEF Shape, LogsOK, nodeVars, new
  <2>2. CASE m # n
    <3>1. log'[m] = log[m] /\ currentTerm'[m] = currentTerm[m] /\ state[m] = "Leader"
      BY <1>1, <1>12, <2>2 DEF Shape, LogsOK, nodeVars
    <3>2. currentTerm[m] \in D /\ currentTerm[m] # t
      BY <1>2, <2>2, <3>1 DEF Elect
    <3> QED
      BY <1>4, <3>1, <3>2 DEF LogsLed
  <2> QED
    BY <2>1, <2>2
<1>13. LogsLed(D, H2)'
  BY <1>11, <1>12 DEF LogsLed
<1> QED
  BY <1>7, <1>10, <1>13

(* The end of an AppendEntries of the term the node is still in.            *)
LEMMA AppendedLed ==
    ASSUME Shape, Shape', NEW D, NEW W, NEW H,
           Elect(D, W), Ledger(D, H), LogsLed(D, H), NetLed(H),
           NEW r \in accepted, AppendDone(r), "late" \notin windows'
    PROVE  LogsLed(D, H)' /\ currentTerm[r.dst] = r.term
<1> DEFINE n == r.dst
<1>1. /\ RequestOK(r) /\ n \in Node /\ r.src \in Node /\ r.src # n
      /\ r.term \in D /\ W[r.term] = r.src
  BY DEF Shape, NetOK, RequestOK, Elect
<1>2. /\ log' = [log EXCEPT ![n] = Merged(r)] /\ UNCHANGED nodeVars
      /\ Consistent(r) /\ ~Refused(r) /\ currentTerm[n] = r.term
  BY DEF AppendDone
<1>3. state[n] # "Leader"
  BY <1>1, <1>2 DEF Elect
<1>4. /\ Agree(Merged(r), H[r.term], r.prev + Len(r.entries))
      /\ Merged(r) = log[n] \/ Len(Merged(r)) = r.prev + Len(r.entries)
  BY <1>1, <1>2, MergedFollows
<1>5. /\ log'[n] = Merged(r) /\ \A m \in Node : m # n => log'[m] = log[m]
      /\ \A m \in Node : log'[m] \in Seq(1..MaxTerm) /\ Len(log'[m]) \in Nat
  BY <1>1, <1>2, LenProperties DEF Shape, LogsOK
<1>6. ASSUME NEW m \in Node, NEW i \in 1..Len(log'[m])
      PROVE  log'[m][i] \in D /\ log'[m][i] <= currentTerm'[m] /\ Agree(log'[m], H[log'[m][i]], i)
  <2>1. currentTerm'[m] = currentTerm[m]
    BY <1>2 DEF nodeVars
  <2>2. CASE log'[m] = log[m]
    BY <2>1, <2>2 DEF LogsLed
  <2>3. CASE log'[m] # log[m]
    <3>1. m = n /\ Agree(log'[m], H[r.term], Len(log'[m]))
      BY <1>4, <1>5, <2>3
    <3> QED
      BY <1>1, <1>2, <1>5, <2>1, <3>1, LedCopy
  <2> QED
    BY <2>2, <2>3
<1>7. ASSUME NEW m \in Node, state'[m] = "Leader" PROVE log'[m] = H[currentTerm'[m]]
  BY <1>2, <1>3, <1>5, <1>7 DEF nodeVars, LogsLed
<1> QED
  BY <1>2, <1>6, <1>7 DEF LogsLed

(* Every other step.                                                        *)
LEMMA QuietLed ==
    ASSUME Shape, Shape', NEW D, NEW H, LogsLed(D, H), D \subseteq Term, Quiet
    PROVE  LogsLed(D, H)'
<1>1. \A m \in Node : /\ currentTerm[m] \in Int /\ currentTerm'[m] \in Int
                      /\ currentTerm'[m] >= currentTerm[m]
  BY DEF Shape, NodesOK, Term, Quiet, TermsGrow
<1>2. D \subseteq Int
  BY DEF Term
<1>3. log' = log /\ NoneElected
  BY DEF Quiet
<1>4. ASSUME NEW n \in Node, NEW i \in 1..Len(log[n])
      PROVE  log[n][i] \in D /\ log[n][i] <= currentTerm'[n]
  <2>1. log[n][i] \in D /\ log[n][i] <= currentTerm[n]
    BY DEF LogsLed
  <2>2. log[n][i] \in Int
    BY <1>2, <2>1
  <2> QED
    BY <1>1, <2>1, <2>2
<1> QED
  BY <1>3, <1>4 DEF LogsLed, NoneElected

LEMMA SameLedger ==
    ASSUME NEW D, NEW W, NEW H, Elect(D, W), Ledger(D, H), NoneElected
    PROVE  LedgerStep(D, W, H, D, W, H)
<1>1. ElectExtends(D, W, D, W)
  BY DEF ElectExtends, Elect, NoneElected
<1>2. LedgerExtends(D, H, D, H)
  BY LenProperties DEF LedgerExtends, Agree, Ledger
<1> QED
  BY <1>1, <1>2 DEF LedgerStep

(* An election that is lost elects nobody.                                  *)
LEMMA LostCampaign ==
    ASSUME Shape, NEW n \in Node, NEW P \in SUBSET Node, Campaign(n, P),
           state'[n] # "Leader"
    PROVE  Quiet
<1>1. TermsGrow /\ \A m \in Node \ {n} : state'[m] = "Leader" =>
          state[m] = "Leader" /\ currentTerm'[m] = currentTerm[m]
  BY TermsCampaign DEF Shape
<1> QED
  BY <1>1 DEF Quiet, NoneElected, Campaign, logVars

(* After any step that is not late there are ledgers again.                 *)
LEMMA LedgerExists ==
    ASSUME OddCluster, Shape, Shape', [Next]_vars, NEW D, NEW W, NEW H,
           Elect(D, W), Ledger(D, H), LogsLed(D, H), NetLed(H), "late" \notin windows'
    PROVE  \E D2, W2, H2 : /\ LedgerStep(D, W, H, D2, W2, H2)
                           /\ Ledger(D2, H2) /\ LogsLed(D2, H2)'
<1>1. ASSUME NEW n \in Node, NEW P \in SUBSET Node, Campaign(n, P), state'[n] = "Leader"
      PROVE  \E D2, W2, H2 : /\ LedgerStep(D, W, H, D2, W2, H2)
                             /\ Ledger(D2, H2) /\ LogsLed(D2, H2)'
  <2>1. PICK t : t = currentTerm[n] + 1
    OBVIOUS
  <2>2. t \in Term /\ ~Won(t)
    BY <1>1, <2>1, FreshWin DEF Shape
  <2>3. D \subseteq Term /\ t \notin D
    BY <2>2 DEF Elect
  <2>4. PICK W2 : W2 = [u \in Term |-> IF u = t THEN n ELSE W[u]]
    OBVIOUS
  <2>5. W2[t] = n /\ \A u \in D : W2[u] = W[u]
    BY <2>2, <2>3, <2>4
  <2>6. PICK D2, H2 : D2 = D \cup {t} /\ H2 = [H EXCEPT ![t] = log[n]]
    OBVIOUS
  <2>7. LedgerStep(D, W, H, D2, W2, H2) /\ Ledger(D2, H2) /\ LogsLed(D2, H2)'
    <3>1. NewLedger(D, W, H, n, t, D2, W2, H2)
      BY <2>1, <2>5, <2>6 DEF NewLedger
    <3> QED
      BY <1>1, <3>1, ElectedLedger
  <2> QED
    BY <2>7
<1>2. ASSUME NEW n \in Node, Replicate(n)
      PROVE  \E D2, W2, H2 : /\ LedgerStep(D, W, H, D2, W2, H2)
                             /\ Ledger(D2, H2) /\ LogsLed(D2, H2)'
  <2>1. PICK t, H2 : t = currentTerm[n] /\ H2 = [H EXCEPT ![t] = Append(H[t], t)]
    OBVIOUS
  <2>2. LedgerStep(D, W, H, D, W, H2) /\ Ledger(D, H2) /\ LogsLed(D, H2)'
    BY <1>2, <2>1, ReplicatedLedger
  <2> QED
    BY <2>2
<1>3. ASSUME NEW r \in accepted, AppendDone(r)
      PROVE  LedgerStep(D, W, H, D, W, H) /\ Ledger(D, H) /\ LogsLed(D, H)'
  <2>1. NoneElected
    BY <1>3 DEF AppendDone, NoneElected, nodeVars
  <2> QED
    BY <1>3, <2>1, SameLedger, AppendedLed
<1>4. ASSUME Quiet
      PROVE  LedgerStep(D, W, H, D, W, H) /\ Ledger(D, H) /\ LogsLed(D, H)'
  BY <1>4, SameLedger, QuietLed DEF Quiet, Ledger
<1>5. CASE \E n \in Node : \E P \in SUBSET Node : Campaign(n, P)
  BY <1>1, <1>4, <1>5, LostCampaign
<1>6. CASE \E n \in Node : Replicate(n)
  BY <1>2, <1>6
<1>7. CASE \E r \in accepted : AppendDone(r)
  BY <1>3, <1>7
<1> QED
  BY <1>4, <1>5, <1>6, <1>7, StepKinds

(* Even after a late append, elections stay in order.                       *)
LEMMA ElectExists ==
    ASSUME OddCluster, Shape, Shape', [Next]_vars, NEW D, NEW W, Elect(D, W)
    PROVE  \E D2, W2 : ElectExtends(D, W, D2, W2)
<1>1. ASSUME NEW n \in Node, NEW P \in SUBSET Node, Campaign(n, P), state'[n] = "Leader"
      PROVE  \E D2, W2 : ElectExtends(D, W, D2, W2)
  <2>1. PICK t : t = currentTerm[n] + 1
    OBVIOUS
  <2>2. t \in Term /\ ~Won(t) /\ Won(t)' /\ currentTerm'[n] = t
    BY <1>1, <2>1, FreshWin DEF Shape
  <2>3. D \subseteq Term /\ t \notin D
    BY <2>2 DEF Elect
  <2>4. PICK W2 : W2 = [u \in Term |-> IF u = t THEN n ELSE W[u]]
    OBVIOUS
  <2>5. W2[t] = n /\ \A u \in D : W2[u] = W[u]
    BY <2>2, <2>3, <2>4
  <2>6. \A m \in Node \ {n} : state'[m] = "Leader" =>
              state[m] = "Leader" /\ currentTerm'[m] = currentTerm[m]
    BY <1>1, TermsCampaign DEF Shape
  <2>7. ElectExtends(D, W, D \cup {t}, W2)
    <3>1. \A u \in D \cup {t} : u \in D \/ Won(u)'
      BY <2>2
    <3> QED
      BY <2>2, <2>3, <2>5, <2>6, <3>1 DEF ElectExtends
  <2> QED
    BY <2>7
<1>2. ASSUME NoneElected PROVE ElectExtends(D, W, D, W)
  BY <1>2 DEF ElectExtends, Elect, NoneElected
<1>3. CASE \E n \in Node : \E P \in SUBSET Node : Campaign(n, P)
  BY <1>1, <1>2, <1>3, LostCampaign DEF Quiet
<1>4. CASE (\E n \in Node : Replicate(n)) \/ (\E r \in accepted : AppendDone(r))
  <2>1. NoneElected
    BY <1>4 DEF Replicate, AppendDone, NoneElected, nodeVars
  <2> QED
    BY <1>2, <2>1
<1> QED
  BY <1>2, <1>3, <1>4, StepKinds DEF Quiet

(* The inductive invariant of the logs.                                     *)
LogInv ==
    /\ Shape
    /\ \E D, W :
         /\ Elect(D, W)
         /\ "late" \notin windows =>
              \E H : Ledger(D, H) /\ LogsLed(D, H) /\ NetLed(H)

LEMMA InitElect == ASSUME Init, NEW W PROVE Elect({}, W)
  BY DEF Init, Elect

LEMMA InitLedger ==
    ASSUME Init, NEW H, H = [t \in Term |-> <<>>]
    PROVE  Ledger({}, H) /\ LogsLed({}, H) /\ NetLed(H)
<1>1. Ledger({}, H)
  BY DEF Ledger
<1>2. LogsLed({}, H)
  <2>1. \A n \in Node : log[n] = <<>> /\ state[n] = "Follower"
    BY DEF Init
  <2>2. \A n \in Node : 1..Len(log[n]) = {}
    BY <2>1
  <2> QED
    BY <2>1, <2>2 DEF LogsLed
<1>3. NetLed(H)
  BY DEF Init, NetLed
<1> QED
  BY <1>1, <1>2, <1>3

LEMMA NextLogInv ==
    ASSUME OddCluster, LogInv, [Next]_vars PROVE LogInv'
<1>1. Shape /\ Shape'
  BY NextShape DEF LogInv
<1>2. PICK D, W :
         /\ Elect(D, W)
         /\ "late" \notin windows =>
              \E H : Ledger(D, H) /\ LogsLed(D, H) /\ NetLed(H)
  BY DEF LogInv
<1>3. CASE "late" \in windows'
  <2>1. PICK D2, W2 : ElectExtends(D, W, D2, W2)
    BY <1>1, <1>2, ElectExists
  <2>2. Elect(D2, W2)'
    BY <1>1, <1>2, <2>1, ElectStep
  <2> QED
    BY <1>1, <1>3, <2>2 DEF LogInv
<1>4. CASE "late" \notin windows'
  <2>1. "late" \notin windows
    BY <1>1, <1>4, StepGrows
  <2>2. PICK H : Ledger(D, H) /\ LogsLed(D, H) /\ NetLed(H)
    BY <1>2, <2>1
  <2>3. PICK D2, W2, H2 : /\ LedgerStep(D, W, H, D2, W2, H2)
                          /\ Ledger(D2, H2) /\ LogsLed(D2, H2)'
    BY <1>1, <1>2, <1>4, <2>2, LedgerExists
  <2>4. ElectExtends(D, W, D2, W2) /\ LedgerExtends(D, H, D2, H2)
    BY <2>3 DEF LedgerStep
  <2>5. Elect(D2, W2)'
    BY <1>1, <1>2, <2>4, ElectStep
  <2>6. NetLed(H2)'
    BY <1>1, <1>2, <2>2, <2>3, <2>4, NetLedStep
  <2>7. Ledger(D2, H2)'
    BY <2>3 DEF Ledger
  <2> QED
    BY <1>1, <2>3, <2>5, <2>6, <2>7 DEF LogInv
<1> QED
  BY <1>3, <1>4

LEMMA AlwaysLogInv == ASSUME OddCluster PROVE Spec => []LogInv
<1>1. ASSUME Init PROVE LogInv
  <2>1. Shape
    BY <1>1, InitShape
  <2>2. PICK W, H : W = 0 /\ H = [t \in Term |-> <<>>]
    OBVIOUS
  <2>3. Elect({}, W) /\ Ledger({}, H) /\ LogsLed({}, H) /\ NetLed(H)
    BY <1>1, <2>2, InitElect, InitLedger
  <2> QED
    BY <2>1, <2>3 DEF LogInv
<1>2. LogInv /\ [Next]_vars => LogInv'
  BY NextLogInv
<1> QED
  BY <1>1, <1>2, PTL DEF Spec

(* Two logs with an entry of the same term at an index have the log of that *)
(* term's leader below it.                                                  *)
LEMMA LedLogsMatch == ASSUME LogInv PROVE LogMatching
<1>1. SUFFICES ASSUME "late" \notin windows, NEW n \in Node, NEW m \in Node,
                      NEW i \in 1..Min(Last(n), Last(m)), log[n][i] = log[m][i]
               PROVE  Prefix(n, i) = Prefix(m, i)
  BY DEF LogMatching
<1>2. PICK D, H : Ledger(D, H) /\ LogsLed(D, H)
  BY <1>1 DEF LogInv
<1>3. /\ Len(log[n]) \in Nat /\ Len(log[m]) \in Nat
      /\ log[n] \in Seq(1..MaxTerm) /\ log[m] \in Seq(1..MaxTerm)
  BY LenProperties DEF LogInv, Shape, LogsOK
<1>4. i \in 1..Len(log[n]) /\ i \in 1..Len(log[m])
  BY <1>3 DEF Min, Last
<1>5. Agree(log[n], H[log[n][i]], i) /\ Agree(log[m], H[log[m][i]], i)
  BY <1>2, <1>4 DEF LogsLed
<1>6. \A k \in 1..i : log[n][k] = log[m][k]
  BY <1>1, <1>5 DEF Agree
<1> QED
  BY <1>3, <1>4, <1>6, PrefixesEqual DEF Prefix

(* The log matching property of Raft: until an AppendEntries writes to a    *)
(* log after its node has left the term of the request, two logs that have  *)
(* the same term at an index are the same up to it, whatever heartbeats,    *)
(* replies, losses and elections do (rpc_server.go, AppendEntries).         *)
THEOREM LogsMatch == ASSUME OddCluster PROVE Spec => []LogMatching
<1>1. LogInv => LogMatching
  BY LedLogsMatch
<1> QED
  BY <1>1, AlwaysLogInv, PTL


(***************************************************************************)
(* Agreement of logs.                                                      *)
(***************************************************************************)

LEMMA AgreeTrans ==
    ASSUME NEW s, NEW u, NEW v, Len(s) \in Nat, Len(u) \in Nat, Len(v) \in Nat,
           NEW i \in Int, NEW j \in Int, NEW k \in Int, k <= i, k <= j,
           Agree(s, u, i), Agree(u, v, j)
    PROVE  Agree(s, v, k)
BY DEF Agree

LEMMA AgreeSym == ASSUME NEW s, NEW u, NEW i, Agree(s, u, i) PROVE Agree(u, s, i)
BY DEF Agree

(* The types that the proofs need over and over.                            *)
LEMMA Types ==
    ASSUME Shape, NEW D, NEW H, Ledger(D, H)
    PROVE  /\ D \subseteq Term /\ D \subseteq Int
           /\ \A t \in D : H[t] \in Seq(1..MaxTerm) /\ Len(H[t]) \in Nat
           /\ \A n \in Node : /\ log[n] \in Seq(1..MaxTerm) /\ Len(log[n]) \in Nat
                              /\ currentTerm[n] \in Int /\ currentTerm[n] \in Term
                              /\ commitIndex[n] \in 0..Len(log[n])
<1>1. D \subseteq Term /\ H \in [Term -> Seq(1..MaxTerm)] /\ Term \subseteq Int
  BY DEF Ledger, Term
<1>2. \A t \in D : H[t] \in Seq(1..MaxTerm) /\ Len(H[t]) \in Nat
  BY <1>1, LenProperties
<1>3. \A n \in Node : log[n] \in Seq(1..MaxTerm) /\ currentTerm[n] \in Term
                     /\ commitIndex[n] \in 0..Len(log[n])
  BY DEF Shape, NodesOK, LogsOK, Last
<1> QED
  BY <1>1, <1>2, <1>3, LenProperties

(* The terms of a log never fall.                                           *)
LEMMA LogSorted ==
    ASSUME Shape, NEW D, NEW H, Ledger(D, H), LogsLed(D, H), NEW n \in Node,
           NEW i \in 1..Len(log[n]), NEW j \in 1..Len(log[n]), i <= j
    PROVE  log[n][i] <= log[n][j]
<1>1. log[n][j] \in D /\ Agree(log[n], H[log[n][j]], j)
  BY DEF LogsLed
<1>2. Len(H[log[n][j]]) \in Nat /\ Len(log[n]) \in Nat
  BY <1>1, Types
<1>3. /\ i \in 1..Len(H[log[n][j]]) /\ j \in 1..Len(H[log[n][j]])
      /\ log[n][i] = H[log[n][j]][i] /\ log[n][j] = H[log[n][j]][j]
  BY <1>1, <1>2 DEF Agree
<1> QED
  BY <1>1, <1>3 DEF Ledger

(* What agrees with a ledger agrees with what the ledger grows to.          *)
LEMMA AgreeGrows ==
    ASSUME NEW D, NEW H, NEW D2, NEW H2, Ledger(D, H), Ledger(D2, H2),
           LedgerExtends(D, H, D2, H2),
           NEW s, Len(s) \in Nat, NEW t \in D, NEW i \in Int, Agree(s, H[t], i)
    PROVE  Agree(s, H2[t], i)
<1>1. Len(H[t]) \in Nat /\ Len(H2[t]) \in Nat /\ i <= Len(H[t])
  BY LenProperties DEF Ledger, LedgerExtends, Agree
<1>2. Agree(H[t], H2[t], Len(H[t]))
  BY DEF LedgerExtends
<1> QED
  BY <1>1, <1>2 DEF Agree

(***************************************************************************)
(* Entries that a quorum may have.                                         *)
(***************************************************************************)

Holds(p, i, t) == i \in 1..Len(log[p]) /\ log[p][i] = t

(* The leader of t wrote an entry of its own term at i.                     *)
Entry(D, H, i, t) == t \in D /\ i \in 1..Len(H[t]) /\ H[t][i] = t

(* K[p][t] are the indexes at which p held an entry of term t when it went  *)
(* on to a later term; K2 is K after a step.                                *)
LeftStep(K, K2) ==
    \A p \in Node : \A t \in Term : \A i :
        i \in K2[p][t] <=>
            \/ i \in K[p][t]
            \/ currentTerm[p] = t /\ currentTerm'[p] > t /\ Holds(p, i, t)

(* Enough replicas have entry i of term t for it to be committed, or may    *)
(* still get it in that term.                                               *)
Choosable(K, i, t) ==
    \E Q \in Quorum : \A p \in Q : i \in K[p][t] \/ currentTerm[p] <= t

Acked(K, p, i, t) == i \in K[p][t] \/ (currentTerm[p] = t /\ Holds(p, i, t))

(* Entry i of term t is on a quorum, in term t.                             *)
Chosen(D, H, K, i, t) ==
    Entry(D, H, i, t) /\ \E Q \in Quorum : \A p \in Q : Acked(K, p, i, t)

(* p has, or had on leaving term t, the log of the leader of t up to j.     *)
AckedTo(D, H, K, p, j, t) ==
    /\ t \in D /\ currentTerm[p] >= t /\ j <= Len(H[t])
    /\ currentTerm[p] = t => Agree(log[p], H[t], j)
    /\ currentTerm[p] > t => \A i \in 1..j : H[t][i] = t => i \in K[p][t]

LeftLed(D, H, K) ==
    \A p \in Node : \A t \in Term : \A i \in K[p][t] :
        currentTerm[p] > t /\ Entry(D, H, i, t)

(* Later leaders have what an earlier one may yet commit.                   *)
Carried(D, H, K) ==
    \A t, u \in D : \A i \in 1..Len(H[t]) :
        t < u /\ H[t][i] = t /\ Choosable(K, i, t) => Agree(H[t], H[u], i)

(* What counts for a quorum is not lost later.                              *)
LeftHeld(K) ==
    \A p \in Node : \A t \in Term : \A i \in K[p][t] :
        Choosable(K, i, t) => Holds(p, i, t)

RepliesTrue(D, H, K) ==
    \A q \in replies : q.kind = "Success" => AckedTo(D, H, K, q.dst, q.last, q.term)

Kept(D, H, K) ==
    LeftLed(D, H, K) /\ Carried(D, H, K) /\ LeftHeld(K) /\ RepliesTrue(D, H, K)

(* Terms only grow, so what may be chosen after a step might be before it.  *)
LEMMA ChoosableBefore ==
    ASSUME Shape, Shape', TermsGrow, NEW K, NEW K2, LeftStep(K, K2), NEW t \in Term,
           NEW i, Choosable(K2, i, t)'
    PROVE  Choosable(K, i, t)
<1>1. PICK Q \in Quorum : \A p \in Q : i \in K2[p][t] \/ currentTerm'[p] <= t
  BY DEF Choosable, Quorum, Needed
<1>2. ASSUME NEW p \in Q PROVE i \in K[p][t] \/ currentTerm[p] <= t
  <2>1. /\ p \in Node /\ currentTerm[p] \in Int /\ currentTerm'[p] \in Int /\ t \in Int
        /\ currentTerm'[p] >= currentTerm[p]
    BY DEF Quorum, Shape, NodesOK, Term, TermsGrow
  <2> QED
    BY <1>1, <2>1 DEF LeftStep
<1> QED
  BY <1>2 DEF Choosable

LEMMA EntryGrows ==
    ASSUME NEW D, NEW H, NEW D2, NEW H2, Ledger(D, H), Ledger(D2, H2),
           LedgerExtends(D, H, D2, H2), NEW i, NEW t, Entry(D, H, i, t)
    PROVE  Entry(D2, H2, i, t)
<1>1. t \in D /\ t \in D2 /\ Len(H[t]) \in Nat /\ Len(H2[t]) \in Nat
  BY LenProperties DEF Entry, Ledger, LedgerExtends
<1> QED
  BY <1>1 DEF Entry, LedgerExtends, Agree

(* An entry of the term of its node is one its leader wrote.                *)
LEMMA HeldIsEntry ==
    ASSUME Shape, NEW D, NEW H, Ledger(D, H), LogsLed(D, H),
           NEW p \in Node, NEW i, NEW t, Holds(p, i, t)
    PROVE  Entry(D, H, i, t) /\ Agree(log[p], H[t], i)
<1>1. i \in 1..Len(log[p]) /\ log[p][i] = t /\ Len(log[p]) \in Nat
  BY Types DEF Holds
<1>2. t \in D /\ Agree(log[p], H[t], i)
  BY <1>1 DEF LogsLed
<1>3. Len(H[t]) \in Nat
  BY <1>2, Types
<1> QED
  BY <1>1, <1>2, <1>3 DEF Entry, Agree

LEMMA LeftLedStep ==
    ASSUME Shape, Shape', TermsGrow, NEW D, NEW H, NEW D2, NEW H2, Ledger(D, H), LogsLed(D, H),
           Ledger(D2, H2), LedgerExtends(D, H, D2, H2),
           NEW K, NEW K2, LeftStep(K, K2), LeftLed(D, H, K)
    PROVE  LeftLed(D2, H2, K2)'
<1>1. SUFFICES ASSUME NEW p \in Node, NEW t \in Term, NEW i \in K2[p][t]
               PROVE  currentTerm'[p] > t /\ Entry(D2, H2, i, t)
  BY DEF LeftLed, Entry
<1>2. /\ currentTerm[p] \in Int /\ currentTerm'[p] \in Int /\ t \in Int
      /\ currentTerm'[p] >= currentTerm[p]
  BY DEF Shape, NodesOK, Term, TermsGrow
<1>3. CASE i \in K[p][t]
  BY <1>2, <1>3, EntryGrows DEF LeftLed
<1>4. CASE currentTerm[p] = t /\ currentTerm'[p] > t /\ Holds(p, i, t)
  BY <1>4, HeldIsEntry, EntryGrows
<1> QED
  BY <1>3, <1>4 DEF LeftStep

(* What p holds of an entry that may be chosen, p agrees with, and its last *)
(* term is the entry's or a later one.                                      *)
LEMMA HolderLast ==
    ASSUME Shape, NEW D, NEW H, Ledger(D, H), LogsLed(D, H),
           NEW p \in Node, NEW i, NEW t, Holds(p, i, t)
    PROVE  /\ i \in 1..Last(p) /\ LastTerm(p) \in D /\ LastTerm(p) >= t /\ t >= 1
           /\ LastTerm(p) = log[p][Last(p)] /\ Last(p) \in Nat
<1>1. i \in 1..Len(log[p]) /\ log[p][i] = t /\ Len(log[p]) \in Nat /\ log[p] \in Seq(1..MaxTerm)
  BY Types DEF Holds
<1>2. /\ Len(log[p]) \in 1..Len(log[p]) /\ i <= Len(log[p])
      /\ log[p][i] \in 1..MaxTerm /\ log[p][Len(log[p])] \in 1..MaxTerm
  <2>1. Len(log[p]) \in 1..Len(log[p]) /\ i <= Len(log[p])
    BY <1>1
  <2>2. \A k \in 1..Len(log[p]) : log[p][k] \in 1..MaxTerm
    BY <1>1, ElementOfSeq
  <2> QED
    BY <1>1, <2>1, <2>2
<1>3. log[p][Len(log[p])] \in D /\ log[p][i] <= log[p][Len(log[p])]
  BY <1>1, <1>2, LogSorted DEF LogsLed
<1> QED
  BY <1>1, <1>2, <1>3 DEF LastTerm, TermAt, Last

(* A candidate whose log is at least as up to date as that of a replica     *)
(* that has a choosable entry has the entry too.                            *)
LEMMA UpToDateHas ==
    ASSUME Shape, NEW D, NEW H, NEW K, Ledger(D, H), LogsLed(D, H), Carried(D, H, K),
           NEW n \in Node, NEW p \in Node, UpToDate(n, p),
           NEW i, NEW t, Holds(p, i, t), Choosable(K, i, t)
    PROVE  Agree(log[n], H[t], i)
<1> DEFINE u == LastTerm(n)
           z == Last(n)
<1>1. /\ Entry(D, H, i, t) /\ t \in D /\ t \in Int
      /\ i \in Nat /\ i >= 1 /\ i <= Last(p) /\ Last(p) \in Nat
      /\ LastTerm(p) \in Int /\ LastTerm(p) >= t /\ t >= 1
  BY HolderLast, HeldIsEntry, Types DEF Entry
<1>2. z \in Nat /\ z = Len(log[n])
  BY Types DEF Last
<1>3. z >= 1 /\ u = log[n][z] /\ u \in Int /\ u >= t
  <2>1. u \in Int
    <3>1. \A k \in 1..Len(log[n]) : log[n][k] \in 1..MaxTerm
      BY Types, ElementOfSeq
    <3> QED
      BY <3>1 DEF LastTerm, TermAt, Last
  <2>2. u >= LastTerm(p)
    BY <1>1, <2>1 DEF UpToDate
  <2>3. u >= 1
    BY <1>1, <2>1, <2>2
  <2> QED
    BY <1>1, <1>2, <2>1, <2>2, <2>3 DEF LastTerm, TermAt
<1> HIDE DEF u, z
<1>4. u \in D /\ Agree(log[n], H[u], z) /\ z \in 1..Len(log[n])
  BY <1>2, <1>3 DEF LogsLed
<1>5. Len(H[u]) \in Nat /\ Len(H[t]) \in Nat /\ Len(log[n]) \in Nat
  BY <1>1, <1>4, Types
<1>6. CASE u = t
  <2>1. LastTerm(p) = t
    BY <1>1, <1>3, <1>6 DEF UpToDate, u
  <2>2. z >= Last(p)
    BY <1>1, <1>6, <2>1 DEF UpToDate, u, z
  <2>3. i <= z
    BY <1>1, <1>2, <2>2
  <2> QED
    BY <1>1, <1>2, <1>4, <1>5, <1>6, <2>3 DEF Agree
<1>7. CASE u # t
  <2>1. t < u
    BY <1>1, <1>3, <1>7
  <2>2. Agree(H[t], H[u], i)
    BY <1>1, <1>4, <2>1 DEF Carried, Entry
  <2>3. ASSUME z < i PROVE FALSE
    <3>1. z \in 1..Len(H[t]) /\ H[t][z] = H[u][z]
      BY <1>1, <1>2, <1>3, <1>5, <2>2, <2>3 DEF Agree
    <3>2. log[n][z] = H[u][z]
      BY <1>4, <1>3 DEF Agree
    <3>3. H[t][z] <= t
      BY <1>1, <3>1 DEF Ledger
    <3> QED
      BY <1>1, <1>3, <2>1, <3>1, <3>2, <3>3
  <2>4. i <= z
    BY <1>1, <1>2, <2>3
  <2>5. Agree(H[u], H[t], i)
    BY <2>2, AgreeSym
  <2> QED
    BY <1>1, <1>2, <1>4, <1>5, <2>4, <2>5, AgreeTrans
<1> QED
  BY <1>6, <1>7

(* So has the winner of an election.                                        *)
LEMMA WinnerHas ==
    ASSUME OddCluster, Shape, Shape', NEW D, NEW H, NEW K, NEW K2,
           Ledger(D, H), LogsLed(D, H), Carried(D, H, K), LeftHeld(K), LeftStep(K, K2), TermsGrow,
           NEW n \in Node, NEW P \in SUBSET Node, Campaign(n, P), state'[n] = "Leader",
           NEW t \in Term, t < currentTerm[n] + 1, NEW i, Choosable(K2, i, t)'
    PROVE  Agree(log[n], H[t], i)
<1>1. PICK T : T = currentTerm[n] + 1
  OBVIOUS
<1>2. PICK Q \in Quorum : \A p \in Q : /\ currentTerm[p] <= T /\ currentTerm'[p] = T
                                       /\ p = n \/ UpToDate(n, p)
  BY <1>1, FreshWin DEF Shape
<1>3. PICK R \in Quorum : \A p \in R : i \in K2[p][t] \/ currentTerm'[p] <= t
  BY DEF Choosable, Quorum, Needed
<1>4. PICK p : p \in Q /\ p \in R
  BY <1>2, <1>3, QuorumsMeet
<1>5. p \in Node /\ T \in Int /\ t \in Int /\ t < T
  BY <1>1, <1>4 DEF Quorum, Shape, NodesOK, Term
<1>6. i \in K2[p][t]
  BY <1>2, <1>3, <1>4, <1>5
<1>7. Choosable(K, i, t)
  BY ChoosableBefore
<1>8. Holds(p, i, t)
  BY <1>5, <1>6, <1>7 DEF LeftStep, LeftHeld
<1>9. CASE p = n
  BY <1>8, <1>9, HeldIsEntry
<1>10. CASE UpToDate(n, p)
  BY <1>5, <1>7, <1>8, <1>10, UpToDateHas
<1> QED
  BY <1>2, <1>4, <1>9, <1>10

LEMMA CarriedStep ==
    ASSUME OddCluster, Shape, Shape', TermsGrow,
           NEW D, NEW W, NEW H, NEW D2, NEW W2, NEW H2, NEW K, NEW K2,
           Elect(D, W), Ledger(D, H), LogsLed(D, H), Kept(D, H, K),
           LedgerStep(D, W, H, D2, W2, H2), Ledger(D2, H2), LeftStep(K, K2)
    PROVE  Carried(D2, H2, K2)'
<1>1. SUFFICES ASSUME NEW t \in D2, NEW u \in D2, NEW i \in 1..Len(H2[t]),
                      t < u, H2[t][i] = t, Choosable(K2, i, t)'
               PROVE  Agree(H2[t], H2[u], i)
  BY DEF Carried
<1> USE DEF Kept
<1>2. /\ D \subseteq D2 /\ D2 \subseteq Term /\ D2 \subseteq Int /\ LedgerExtends(D, H, D2, H2)
      /\ \A v \in D2 : Len(H2[v]) \in Nat
      /\ \A v \in D : Len(H[v]) \in Nat
  BY Types DEF LedgerStep, LedgerExtends
<1>3. Choosable(K, i, t)
  BY <1>1, <1>2, ChoosableBefore
<1>4. ASSUME NEW v \in D2, v \notin D
      PROVE  \E n \in Node : \E P \in SUBSET Node :
                 /\ Campaign(n, P) /\ state'[n] = "Leader" /\ currentTerm[n] \in Int
                 /\ v = currentTerm[n] + 1 /\ H2[v] = log[n]
  BY <1>4, Types DEF LedgerStep
<1>5. t \in D
  <2>1. SUFFICES ASSUME t \notin D PROVE FALSE
    OBVIOUS
  <2>2. PICK n \in Node : currentTerm[n] \in Int /\ t = currentTerm[n] + 1 /\ H2[t] = log[n]
    BY <1>4, <2>1
  <2>3. t <= currentTerm[n]
    BY <1>1, <2>2 DEF LogsLed
  <2> QED
    BY <2>2, <2>3
<1>6. Entry(D, H, i, t)
  <2>1. SUFFICES ASSUME H2[t] # H[t], ~Entry(D, H, i, t) PROVE FALSE
    BY <1>1, <1>5 DEF Entry
  <2>2. PICK n \in Node : Replicate(n) /\ currentTerm[n] = t
    BY <1>5, <2>1 DEF LedgerStep
  <2>3. UNCHANGED nodeVars
    BY <2>2 DEF Replicate
  <2>4. u \in D
    <3>1. SUFFICES ASSUME u \notin D PROVE FALSE
      OBVIOUS
    <3>2. PICK m \in Node, P \in SUBSET Node : Campaign(m, P) /\ currentTerm[m] \in Int
      BY <1>4, <3>1
    <3>3. currentTerm'[m] = currentTerm[m] + 1
      BY <3>2 DEF Campaign
    <3> QED
      BY <2>3, <3>2, <3>3 DEF nodeVars
  <2>5. PICK Q \in Quorum : \A p \in Q : Spent(p, u)
    BY <2>4 DEF Elect, Won
  <2>6. PICK R \in Quorum : \A p \in R : i \in K2[p][t] \/ currentTerm'[p] <= t
    BY <1>1 DEF Choosable, Quorum, Needed
  <2>7. PICK p : p \in Q /\ p \in R
    BY <2>5, <2>6, QuorumsMeet
  <2>8. p \in Node /\ currentTerm'[p] = currentTerm[p] /\ currentTerm[p] >= u /\ currentTerm[p] \in Int
    BY <2>3, <2>5, <2>7, <1>2, Types DEF Quorum, nodeVars, Spent
  <2>9. i \in K[p][t]
    BY <1>1, <1>2, <2>6, <2>7, <2>8 DEF LeftStep
  <2> QED
    BY <1>2, <2>1, <2>8, <2>9 DEF LeftLed
<1>7. CASE u \in D
  <2>1. Agree(H[t], H[u], i)
    BY <1>1, <1>3, <1>6, <1>7 DEF Carried, Entry
  <2>2. i \in Int /\ Len(H[t]) \in Nat /\ Len(H2[t]) \in Nat /\ Len(H2[u]) \in Nat
    BY <1>2, <1>5
  <2>3. Agree(H[t], H2[u], i)
    BY <1>2, <1>5, <1>7, <2>1, <2>2, AgreeGrows
  <2>4. Agree(H[t], H2[t], Len(H[t])) /\ i <= Len(H[t])
    BY <1>2, <1>5, <2>1 DEF LedgerExtends, Agree
  <2> QED
    BY <2>2, <2>3, <2>4 DEF Agree
<1>8. CASE u \notin D
  <2>1. PICK n \in Node, P \in SUBSET Node :
                 /\ Campaign(n, P) /\ state'[n] = "Leader"
                 /\ u = currentTerm[n] + 1 /\ H2[u] = log[n]
    BY <1>4, <1>8
  <2>2. Agree(log[n], H[t], i)
    BY <1>1, <1>2, <2>1, WinnerHas
  <2>3. Len(log[n]) \in Nat /\ i \in Int
    BY Types
  <2>4. Agree(log[n], H2[t], i)
    BY <1>2, <1>5, <2>2, <2>3, AgreeGrows
  <2> QED
    BY <2>1, <2>4, AgreeSym
<1> QED
  BY <1>7, <1>8

(* A step adds to the log of p, or makes it that of the leader p follows.   *)
LogKept(D, H, p) ==
    \/ Agree(log[p], log'[p], Len(log[p]))
    \/ /\ currentTerm[p] \in D /\ currentTerm'[p] = currentTerm[p]
       /\ \A j \in Nat : Agree(log[p], H[currentTerm[p]], j) =>
                            Agree(log'[p], H[currentTerm[p]], j)

LEMMA LogsKept ==
    ASSUME Shape, Shape', [Next]_vars, NEW D, NEW W, NEW H,
           Elect(D, W), Ledger(D, H), LogsLed(D, H), NetLed(H), "late" \notin windows',
           NEW p \in Node
    PROVE  LogKept(D, H, p)
<1>1. Len(log[p]) \in Nat /\ log[p] \in Seq(1..MaxTerm) /\ currentTerm[p] \in Int
  BY Types
<1>2. CASE log'[p] = log[p]
  BY <1>1, <1>2 DEF LogKept, Agree
<1>3. ASSUME NEW n \in Node, Replicate(n) PROVE LogKept(D, H, p)
  <2>1. log' = [log EXCEPT ![n] = Append(log[n], currentTerm[n])] /\ currentTerm[n] >= 1
    BY <1>3 DEF Replicate, Shape, NodesOK
  <2>2. CASE p = n
    <3>1. log'[p] = Append(log[p], currentTerm[p]) /\ currentTerm[p] \in 1..MaxTerm
      BY <2>1, <2>2 DEF Shape, LogsOK, NodesOK, Term
    <3>2. /\ Len(log'[p]) = Len(log[p]) + 1
          /\ \A k \in 1..Len(log[p]) : log'[p][k] = log[p][k]
      BY <1>1, <3>1, AppendProperties
    <3> QED
      BY <1>1, <3>2 DEF LogKept, Agree
  <2>3. CASE p # n
    BY <1>2, <2>1, <2>3 DEF Shape, LogsOK
  <2> QED
    BY <2>2, <2>3
<1>4. ASSUME NEW r \in accepted, AppendDone(r) PROVE LogKept(D, H, p)
  <2>1. /\ log' = [log EXCEPT ![r.dst] = Merged(r)] /\ UNCHANGED nodeVars
        /\ Consistent(r) /\ ~Refused(r) /\ currentTerm[r.dst] = r.term /\ r.term \in D
        /\ r.dst \in Node
    BY <1>4 DEF AppendDone, Elect, Shape, NetOK, RequestOK
  <2>2. CASE p = r.dst
    <3>1. log'[p] = Merged(r)
      BY <2>1, <2>2 DEF Shape, LogsOK
    <3>2. \A j \in Nat : Agree(log[p], H[r.term], j) => Agree(Merged(r), H[r.term], j)
      BY <2>1, <2>2, MergedFollows
    <3> QED
      BY <2>1, <2>2, <3>1, <3>2 DEF LogKept, nodeVars
  <2>3. CASE p # r.dst
    BY <1>2, <2>1, <2>3 DEF Shape, LogsOK
  <2> QED
    BY <2>2, <2>3
<1>5. ASSUME NEW n \in Node, NEW P \in SUBSET Node, Campaign(n, P) PROVE LogKept(D, H, p)
  BY <1>2, <1>5 DEF Campaign, logVars
<1> QED
  BY <1>2, <1>3, <1>4, <1>5, StepKinds DEF Quiet

(* A replica that has its leader's log up to j still has it after a step of *)
(* its term.                                                                *)
LEMMA AgreeStays ==
    ASSUME Shape, Shape', NEW D, NEW H, NEW D2, NEW H2, Ledger(D, H), Ledger(D2, H2),
           LedgerExtends(D, H, D2, H2), NEW p \in Node, LogKept(D, H, p),
           currentTerm[p] \in D, NEW j \in Nat, Agree(log[p], H[currentTerm[p]], j)
    PROVE  Agree(log'[p], H2[currentTerm[p]], j)
<1> DEFINE t == currentTerm[p]
<1>1. Len(log[p]) \in Nat /\ Len(log'[p]) \in Nat /\ Len(H[t]) \in Nat
  <2>1. log'[p] \in Seq(1..MaxTerm)
    BY DEF Shape, LogsOK
  <2> QED
    BY <2>1, Types, LenProperties
<1>2. Agree(log'[p], H[t], j)
  <2>1. CASE Agree(log[p], log'[p], Len(log[p]))
    BY <1>1, <2>1 DEF Agree
  <2> QED
    BY <2>1 DEF LogKept
<1>3. Agree(H[t], H2[t], Len(H[t]))
  BY DEF LedgerExtends
<1> QED
  BY <1>1, <1>2, <1>3 DEF Agree

LEMMA LeftHeldStep ==
    ASSUME Shape, Shape', TermsGrow, NEW D, NEW H, NEW K, NEW K2,
           Ledger(D, H), LogsLed(D, H), Kept(D, H, K), LeftStep(K, K2),
           NEW D2, NEW H2, LeftLed(D2, H2, K2)', \A p \in Node : LogKept(D, H, p)
    PROVE  LeftHeld(K2)'
<1>1. SUFFICES ASSUME NEW p \in Node, NEW t \in Term, NEW i \in K2[p][t], Choosable(K2, i, t)'
               PROVE  Holds(p, i, t)'
  BY DEF LeftHeld
<1> USE DEF Kept
<1>2. Choosable(K, i, t)
  BY <1>1, ChoosableBefore
<1>3. Holds(p, i, t)
  BY <1>1, <1>2 DEF LeftStep, LeftHeld
<1>4. Entry(D, H, i, t) /\ Agree(log[p], H[t], i)
  BY <1>3, HeldIsEntry
<1>5. /\ Len(log[p]) \in Nat /\ Len(log'[p]) \in Nat /\ i \in Nat /\ i >= 1
      /\ t \in D /\ t \in Int /\ Len(H[t]) \in Nat
      /\ i \in 1..Len(log[p]) /\ log[p][i] = t
  <2>1. log'[p] \in Seq(1..MaxTerm)
    BY DEF Shape, LogsOK
  <2> QED
    BY <1>3, <1>4, <2>1, Types, LenProperties DEF Entry, Holds
<1>6. CASE Agree(log[p], log'[p], Len(log[p]))
  <2>1. i \in 1..Len(log'[p]) /\ log'[p][i] = t
    BY <1>5, <1>6 DEF Agree
  <2> QED
    BY <2>1 DEF Holds
<1>7. CASE /\ currentTerm[p] \in D /\ currentTerm'[p] = currentTerm[p]
           /\ \A j \in Nat : Agree(log[p], H[currentTerm[p]], j) =>
                                Agree(log'[p], H[currentTerm[p]], j)
  <2> DEFINE u == currentTerm[p]
  <2>1. currentTerm'[p] > t
    BY <1>1 DEF LeftLed
  <2>2. t < u /\ u \in D /\ Len(H[u]) \in Nat
    BY <1>5, <1>7, <2>1, Types
  <2>3. Agree(H[t], H[u], i)
    BY <1>2, <1>4, <1>5, <2>2 DEF Carried, Entry
  <2>4. Agree(log[p], H[u], i)
    BY <1>4, <1>5, <2>2, <2>3 DEF Agree
  <2>5. Agree(log'[p], H[u], i)
    BY <1>5, <1>7, <2>4
  <2>6. i \in 1..Len(log'[p]) /\ log'[p][i] = t
    BY <1>4, <1>5, <2>3, <2>5 DEF Agree, Entry
  <2> QED
    BY <2>6 DEF Holds
<1> QED
  BY <1>6, <1>7 DEF LogKept

LEMMA AckedToStays ==
    ASSUME Shape, Shape', TermsGrow, NEW D, NEW H, NEW D2, NEW H2, NEW K, NEW K2,
           Ledger(D, H), Ledger(D2, H2), LedgerExtends(D, H, D2, H2), LeftStep(K, K2),
           NEW p \in Node, LogKept(D, H, p), NEW j \in Nat, NEW t, AckedTo(D, H, K, p, j, t)
    PROVE  AckedTo(D2, H2, K2, p, j, t)'
<1>1. /\ t \in D /\ currentTerm[p] >= t /\ j <= Len(H[t])
      /\ currentTerm[p] = t => Agree(log[p], H[t], j)
      /\ currentTerm[p] > t => \A i \in 1..j : H[t][i] = t => i \in K[p][t]
  BY DEF AckedTo
<1>2. /\ t \in Int /\ t \in Term /\ Len(H[t]) \in Nat /\ Len(H2[t]) \in Nat /\ t \in D2
      /\ currentTerm[p] \in Int /\ currentTerm'[p] \in Int /\ currentTerm'[p] >= currentTerm[p]
      /\ Len(log[p]) \in Nat
  <2>1. t \in D2
    BY <1>1 DEF LedgerExtends
  <2> QED
    BY <1>1, <2>1, Types DEF Shape, NodesOK, Term, TermsGrow
<1>3. j <= Len(H2[t]) /\ \A k \in 1..j : H2[t][k] = H[t][k]
  BY <1>1, <1>2 DEF LedgerExtends, Agree
<1>4. ASSUME currentTerm'[p] = t PROVE Agree(log'[p], H2[t], j)
  <2>1. currentTerm[p] = t
    BY <1>1, <1>2, <1>4
  <2> QED
    BY <1>1, <2>1, AgreeStays
<1>5. ASSUME currentTerm'[p] > t, NEW i \in 1..j, H2[t][i] = t PROVE i \in K2[p][t]
  <2>1. H[t][i] = t
    BY <1>3, <1>5
  <2>2. CASE currentTerm[p] > t
    BY <1>1, <1>2, <2>1, <2>2 DEF LeftStep
  <2>3. CASE currentTerm[p] = t
    <3>1. i \in 1..Len(log[p]) /\ log[p][i] = t
      BY <1>1, <1>2, <2>1, <2>3 DEF Agree
    <3> QED
      BY <1>2, <1>5, <2>3, <3>1 DEF LeftStep, Holds
  <2> QED
    BY <1>1, <1>2, <2>2, <2>3
<1> QED
  BY <1>1, <1>2, <1>3, <1>4, <1>5 DEF AckedTo

LEMMA RepliesStep ==
    ASSUME Shape, Shape', [Next]_vars, "late" \notin windows',
           NEW D, NEW W, NEW H, NEW D2, NEW H2, NEW K, NEW K2,
           Elect(D, W), Ledger(D, H), LogsLed(D, H), NetLed(H), Kept(D, H, K),
           Ledger(D2, H2), LedgerExtends(D, H, D2, H2), LeftStep(K, K2),
           \A p \in Node : LogKept(D, H, p)
    PROVE  RepliesTrue(D2, H2, K2)'
<1>0. Traffic /\ TermsGrow
  BY StepTraffic, StepGrows
<1>1. SUFFICES ASSUME NEW q \in replies', q.kind = "Success"
               PROVE  AckedTo(D2, H2, K2, q.dst, q.last, q.term)'
  BY DEF RepliesTrue
<1>2. q.dst \in Node /\ q.last \in Nat /\ q.term \in Term
  BY <1>1, LimitAssumption DEF Shape, NetOK, ReplyOK
<1>3. CASE q \in replies
  <2>1. AckedTo(D, H, K, q.dst, q.last, q.term)
    BY <1>1, <1>3 DEF Kept, RepliesTrue
  <2> QED
    BY <1>0, <1>2, <2>1, AckedToStays
<1>4. ASSUME NEW r \in accepted, AppendDone(r),
             q.dst = r.dst, q.term = r.term, q.last = r.prev + Len(r.entries)
      PROVE  AckedTo(D2, H2, K2, q.dst, q.last, q.term)'
  <2>1. /\ log' = [log EXCEPT ![r.dst] = Merged(r)] /\ UNCHANGED nodeVars
        /\ Consistent(r) /\ ~Refused(r) /\ currentTerm[r.dst] = r.term /\ r.term \in D
        /\ r.dst \in Node /\ r.term \in Int
    BY <1>4 DEF AppendDone, Elect, Shape, NetOK, RequestOK, Term
  <2>2. Agree(Merged(r), H[r.term], q.last)
    BY <1>4, <2>1, MergedFollows
  <2>3. log'[r.dst] = Merged(r) /\ Len(log'[r.dst]) \in Nat /\ Len(H[r.term]) \in Nat
    <3>1. log'[r.dst] \in Seq(1..MaxTerm)
      BY <2>1 DEF Shape, LogsOK
    <3> QED
      BY <2>1, <3>1, Types, LenProperties DEF Shape, LogsOK
  <2>4. Agree(log'[r.dst], H2[r.term], q.last)
    BY <1>2, <2>1, <2>2, <2>3, AgreeGrows
  <2>5. currentTerm'[r.dst] = r.term /\ r.term \in D2
    BY <2>1 DEF nodeVars, LedgerExtends
  <2> QED
    BY <1>4, <2>1, <2>4, <2>5 DEF AckedTo, Agree
<1> QED
  BY <1>0, <1>1, <1>3, <1>4 DEF Traffic

LEMMA KeptStep ==
    ASSUME OddCluster, Shape, Shape', [Next]_vars, "late" \notin windows',
           NEW D, NEW W, NEW H, NEW D2, NEW W2, NEW H2, NEW K, NEW K2,
           Elect(D, W), Ledger(D, H), LogsLed(D, H), NetLed(H), Kept(D, H, K),
           LedgerStep(D, W, H, D2, W2, H2), Ledger(D2, H2), LeftStep(K, K2)
    PROVE  Kept(D2, H2, K2)' /\ \A p \in Node : LogKept(D, H, p)
<1>1. TermsGrow /\ LedgerExtends(D, H, D2, H2)
  BY StepGrows DEF LedgerStep
<1>2. \A p \in Node : LogKept(D, H, p)
  BY LogsKept
<1>3. LeftLed(D2, H2, K2)'
  BY <1>1, LeftLedStep DEF Kept
<1>4. Carried(D2, H2, K2)'
  BY <1>1, CarriedStep
<1>5. LeftHeld(K2)'
  BY <1>1, <1>2, <1>3, LeftHeldStep
<1>6. RepliesTrue(D2, H2, K2)'
  BY <1>1, <1>2, RepliesStep
<1> QED
  BY <1>2, <1>3, <1>4, <1>5, <1>6 DEF Kept

(***************************************************************************)
(* The match indexes.                                                      *)
(***************************************************************************)

Counted(D, H, K) ==
    \A n, p \in Node :
        state[n] = "Leader" /\ p # n /\ matchIndex[n][p] > 0 =>
            AckedTo(D, H, K, p, matchIndex[n][p], currentTerm[n])

(* Where a leader's match indexes come from.                                *)
MatchFrom(n, p) ==
    \/ matchIndex'[n][p] = 0
    \/ /\ state[n] = "Leader" /\ currentTerm'[n] = currentTerm[n]
       /\ \/ matchIndex'[n][p] = matchIndex[n][p]
          \/ \E q \in replies :
               /\ q.kind = "Success" /\ q.dst = p /\ q.last = matchIndex'[n][p]
               /\ q.term = currentTerm[n] \/ "stale" \in windows'

LEMMA MatchStep ==
    ASSUME Shape, Shape', [Next]_vars, NEW n \in Node, NEW p \in Node, state'[n] = "Leader"
    PROVE  MatchFrom(n, p)
<1> USE DEF MatchFrom
<1>1. CASE matchIndex' = matchIndex
  <2>1. CASE state[n] = "Leader" /\ currentTerm'[n] = currentTerm[n]
    BY <1>1, <2>1
  <2>2. CASE \E P \in SUBSET Node : Campaign(n, P)
    <3>1. matchIndex' = [matchIndex EXCEPT ![n] = [m \in Node |-> 0]]
      BY <2>2 DEF Campaign, Shape, NodesOK
    <3> QED
      BY <3>1 DEF Shape, LeadersOK
  <2> QED
    BY <2>1, <2>2, LeadersStep
<1>2. ASSUME NEW m \in Node, NEW P \in SUBSET Node, Campaign(m, P) PROVE MatchFrom(n, p)
  <2>1. CASE m = n
    <3>1. matchIndex' = [matchIndex EXCEPT ![n] = [k \in Node |-> 0]]
      BY <1>2, <2>1 DEF Campaign, Shape, NodesOK
    <3> QED
      BY <3>1 DEF Shape, LeadersOK
  <2>2. CASE m # n
    <3>1. matchIndex'[n] = matchIndex[n]
      BY <1>2, <2>2 DEF Campaign, leadVars, Shape, LeadersOK
    <3>2. state[n] = "Leader" /\ currentTerm'[n] = currentTerm[n]
      BY <1>2, <2>2, TermsCampaign DEF Shape
    <3> QED
      BY <3>1, <3>2
  <2> QED
    BY <2>1, <2>2
<1>3. ASSUME NEW q \in replies, ReplySuccess(q) PROVE MatchFrom(n, p)
  <2>1. /\ q.kind = "Success" /\ UNCHANGED nodeVars
        /\ windows' = IF state[q.src] = "Leader" /\ currentTerm[q.src] # q.term
                      THEN windows \cup {"stale"} ELSE windows
    BY <1>3 DEF ReplySuccess
  <2>2. PICK last : /\ last = q.last \/ last = matchIndex[q.src][q.dst]
                    /\ matchIndex' = [matchIndex EXCEPT ![q.src] =
                                        [matchIndex[q.src] EXCEPT ![q.dst] = last]]
    BY <1>3 DEF ReplySuccess, LastNew
  <2>3. CASE n = q.src /\ p = q.dst
    <3>1. matchIndex'[n][p] = last
      BY <2>2, <2>3 DEF Shape, LeadersOK
    <3> QED
      BY <2>1, <2>2, <2>3, <3>1 DEF nodeVars
  <2>4. CASE ~(n = q.src /\ p = q.dst)
    <3>1. matchIndex'[n][p] = matchIndex[n][p]
      BY <2>2, <2>4 DEF Shape, LeadersOK
    <3> QED
      BY <2>1, <3>1 DEF nodeVars
  <2> QED
    BY <2>3, <2>4
<1>4. ASSUME UNCHANGED leadVars \/ UNCHANGED matchIndex PROVE MatchFrom(n, p)
  <2>1. matchIndex' = matchIndex
    BY <1>4 DEF leadVars
  <2> HIDE DEF MatchFrom
  <2> QED
    BY <1>1, <2>1
<1> HIDE DEF MatchFrom
<1>5. ASSUME NEW m \in Node, Replicate(m) \/ \E k \in Node : Tick(m, k) PROVE MatchFrom(n, p)
  BY <1>4, <1>5 DEF Replicate, Tick
<1>6. ASSUME NEW r \in requests, Reject(r) \/ Heartbeat(r) \/ AcceptAppend(r) PROVE MatchFrom(n, p)
  BY <1>4, <1>6 DEF Reject, Heartbeat, AcceptAppend
<1>7. ASSUME NEW r \in accepted, AppendInconsistent(r) \/ AppendRefused(r) \/ AppendDone(r)
      PROVE  MatchFrom(n, p)
  BY <1>4, <1>7 DEF AppendInconsistent, AppendRefused, AppendDone
<1>8. ASSUME NEW q \in replies, ReplyConflict(q) \/ ReplyHigher(q) PROVE MatchFrom(n, p)
  BY <1>4, <1>8 DEF ReplyConflict, ReplyHigher
<1>9. ASSUME NEW c \in catchups, CatchUpRead(c) \/ CatchUpSend(c) PROVE MatchFrom(n, p)
  BY <1>4, <1>9 DEF CatchUpRead, CatchUpSend
<1>10. ASSUME Lose \/ UNCHANGED vars PROVE MatchFrom(n, p)
  BY <1>4, <1>10 DEF Lose, vars, leadVars
<1> QED
  BY <1>2, <1>3, <1>5, <1>6, <1>7, <1>8, <1>9, <1>10 DEF Next

(* What a match index counts, before the step.                              *)
LEMMA MatchActed ==
    ASSUME Shape, Shape', [Next]_vars, windows' \subseteq {"blind"},
           NEW D, NEW H, NEW K, RepliesTrue(D, H, K), Counted(D, H, K),
           NEW n \in Node, NEW p \in Node, state'[n] = "Leader", p # n, matchIndex'[n][p] > 0
    PROVE  /\ state[n] = "Leader" /\ currentTerm'[n] = currentTerm[n]
           /\ AckedTo(D, H, K, p, matchIndex'[n][p], currentTerm[n])
<1>1. matchIndex'[n][p] # 0
  OBVIOUS
<1>2. /\ state[n] = "Leader" /\ currentTerm'[n] = currentTerm[n]
      /\ \/ matchIndex'[n][p] = matchIndex[n][p]
         \/ \E q \in replies :
              /\ q.kind = "Success" /\ q.dst = p /\ q.last = matchIndex'[n][p]
              /\ q.term = currentTerm[n]
  BY <1>1, MatchStep DEF MatchFrom
<1>3. CASE matchIndex'[n][p] = matchIndex[n][p]
  BY <1>2, <1>3 DEF Counted
<1>4. CASE \E q \in replies :
              /\ q.kind = "Success" /\ q.dst = p /\ q.last = matchIndex'[n][p]
              /\ q.term = currentTerm[n]
  BY <1>2, <1>4 DEF RepliesTrue
<1> QED
  BY <1>2, <1>3, <1>4

LEMMA CountedStep ==
    ASSUME Shape, Shape', [Next]_vars, windows' \subseteq {"blind"},
           NEW D, NEW H, NEW D2, NEW H2, NEW K, NEW K2,
           Ledger(D, H), Ledger(D2, H2), LedgerExtends(D, H, D2, H2), LeftStep(K, K2),
           RepliesTrue(D, H, K), Counted(D, H, K), \A p \in Node : LogKept(D, H, p)
    PROVE  Counted(D2, H2, K2)'
<1>1. SUFFICES ASSUME NEW n \in Node, NEW p \in Node,
                      state'[n] = "Leader", p # n, matchIndex'[n][p] > 0
               PROVE  AckedTo(D2, H2, K2, p, matchIndex[n][p], currentTerm[n])'
  BY DEF Counted
<1>2. PICK j, t : j = matchIndex'[n][p] /\ t = currentTerm[n]
  OBVIOUS
<1>3. currentTerm'[n] = t /\ AckedTo(D, H, K, p, j, t) /\ j \in Nat
  BY <1>1, <1>2, MatchActed, LimitAssumption DEF Shape, LeadersOK
<1>4. TermsGrow
  BY StepGrows
<1>5. AckedTo(D2, H2, K2, p, j, t)'
  BY <1>3, <1>4, AckedToStays
<1> QED
  BY <1>2, <1>3, <1>5 DEF AckedTo

(***************************************************************************)
(* The commit indexes.                                                     *)
(***************************************************************************)

(* s has, up to c, what a leader of term T or an earlier one had chosen.    *)
Anchored(D, H, K, s, c, T) ==
    \/ c = 0
    \/ \E t \in D : /\ t <= T /\ Agree(s, H[t], c)
                    /\ \E i \in c..Len(H[t]) : Chosen(D, H, K, i, t)

(* The same after a step, for a rigid s, c and T.                           *)
AnchoredAfter(D, H, K, s, c, T) ==
    \/ c = 0
    \/ \E t \in D : /\ t <= T /\ Agree(s, H[t], c)
                    /\ \E i \in c..Len(H[t]) : Chosen(D, H, K, i, t)'

Safe(D, H, K) ==
    /\ \A n \in Node : Anchored(D, H, K, log[n], commitIndex[n], currentTerm[n])
    /\ \A r \in requests \cup accepted : Anchored(D, H, K, H[r.term], r.commit, r.term)

(* Later leaders have what was chosen.                                      *)
LEMMA ChosenCarried ==
    ASSUME Shape, NEW D, NEW H, NEW K, Ledger(D, H), Carried(D, H, K),
           NEW t \in D, NEW u \in D, t <= u, NEW i, Chosen(D, H, K, i, t)
    PROVE  Agree(H[t], H[u], i)
<1>1. i \in 1..Len(H[t]) /\ H[t][i] = t /\ Len(H[t]) \in Nat /\ t \in Int /\ u \in Int
  BY Types DEF Chosen, Entry
<1>2. Choosable(K, i, t)
  <2>1. PICK Q \in Quorum : \A p \in Q : Acked(K, p, i, t)
    BY DEF Chosen
  <2>2. \A p \in Q : i \in K[p][t] \/ currentTerm[p] <= t
    BY <1>1, <2>1 DEF Acked
  <2> QED
    BY <2>2 DEF Choosable
<1>3. CASE t = u
  BY <1>1, <1>3 DEF Agree
<1>4. CASE t < u
  BY <1>1, <1>2, <1>4 DEF Carried
<1> QED
  BY <1>1, <1>3, <1>4

(* So an anchored log agrees with the log of any leader of a later term.    *)
LEMMA AnchorFollows ==
    ASSUME Shape, NEW D, NEW H, NEW K, Ledger(D, H), Carried(D, H, K),
           NEW s, Len(s) \in Nat, NEW c \in Nat, NEW T \in Int, Anchored(D, H, K, s, c, T),
           NEW u \in D, T <= u
    PROVE  Agree(s, H[u], c)
<1>1. Len(H[u]) \in Nat /\ u \in Int
  BY Types
<1>2. CASE c = 0
  BY <1>1, <1>2 DEF Agree
<1>3. CASE c # 0
  <2>1. PICK t \in D : /\ t <= T /\ Agree(s, H[t], c)
                       /\ \E i \in c..Len(H[t]) : Chosen(D, H, K, i, t)
    BY <1>3 DEF Anchored
  <2>2. PICK i \in c..Len(H[t]) : Chosen(D, H, K, i, t)
    BY <2>1
  <2>3. t \in Int /\ Len(H[t]) \in Nat /\ t <= u
    BY <1>1, <2>1, Types
  <2>4. Agree(H[t], H[u], i) /\ i \in Nat /\ c <= i
    BY <2>2, <2>3, ChosenCarried
  <2> QED
    BY <1>1, <2>1, <2>3, <2>4, AgreeTrans
<1> QED
  BY <1>2, <1>3

(* Two anchored logs agree where both are anchored.                         *)
LEMMA TwoAnchors ==
    ASSUME Shape, NEW D, NEW H, NEW K, Ledger(D, H), Carried(D, H, K),
           NEW s, Len(s) \in Nat, NEW c \in Nat, NEW T \in Int, Anchored(D, H, K, s, c, T),
           NEW v, Len(v) \in Nat, NEW d \in Nat, NEW U \in Int, Anchored(D, H, K, v, d, U),
           NEW e \in Nat, e <= c, e <= d
    PROVE  Agree(s, v, e)
<1>1. CASE e = 0
  BY <1>1 DEF Agree
<1>2. CASE e # 0
  <2>1. c # 0 /\ d # 0
    BY <1>2
  <2>2. PICK t \in D : /\ t <= T /\ Agree(s, H[t], c)
                       /\ \E i \in c..Len(H[t]) : Chosen(D, H, K, i, t)
    BY <2>1 DEF Anchored
  <2>3. PICK u \in D : /\ u <= U /\ Agree(v, H[u], d)
                       /\ \E i \in d..Len(H[u]) : Chosen(D, H, K, i, u)
    BY <2>1 DEF Anchored
  <2>4. PICK i \in c..Len(H[t]) : Chosen(D, H, K, i, t)
    BY <2>2
  <2>5. PICK j \in d..Len(H[u]) : Chosen(D, H, K, j, u)
    BY <2>3
  <2>6. /\ t \in Int /\ u \in Int /\ Len(H[t]) \in Nat /\ Len(H[u]) \in Nat
        /\ i \in Nat /\ j \in Nat /\ e <= i /\ e <= j
    BY <2>4, <2>5, Types
  <2>7. Agree(H[t], H[u], e)
    <3>1. CASE t <= u
      <4>1. Agree(H[t], H[u], i)
        BY <2>4, <3>1, ChosenCarried
      <4> QED
        BY <2>6, <4>1 DEF Agree
    <3>2. CASE u <= t
      <4>1. Agree(H[u], H[t], j)
        BY <2>5, <3>2, ChosenCarried
      <4> QED
        BY <2>6, <4>1 DEF Agree
    <3> QED
      BY <2>6, <3>1, <3>2
  <2>8. Agree(s, H[u], e)
    BY <2>2, <2>6, <2>7 DEF Agree
  <2>9. Agree(H[u], v, d)
    BY <2>3, AgreeSym
  <2> QED
    BY <2>6, <2>8, <2>9, AgreeTrans
<1> QED
  BY <1>1, <1>2

LEMMA ChosenStays ==
    ASSUME Shape, Shape', TermsGrow, NEW D, NEW H, NEW D2, NEW H2, NEW K, NEW K2,
           Ledger(D, H), LogsLed(D, H), Ledger(D2, H2), LedgerExtends(D, H, D2, H2),
           LeftStep(K, K2), \A p \in Node : LogKept(D, H, p),
           NEW i, NEW t, Chosen(D, H, K, i, t)
    PROVE  Chosen(D2, H2, K2, i, t)'
<1>1. Entry(D, H, i, t) /\ Entry(D2, H2, i, t)
  BY EntryGrows DEF Chosen
<1>2. t \in D /\ t \in Term /\ t \in Int /\ i \in Nat /\ i \in 1..Len(H[t]) /\ H[t][i] = t /\ Len(H[t]) \in Nat
  BY <1>1, Types DEF Entry
<1>3. PICK Q \in Quorum : \A p \in Q : Acked(K, p, i, t)
  BY DEF Chosen
<1>4. ASSUME NEW p \in Q PROVE Acked(K2, p, i, t)'
  <2>1. /\ p \in Node /\ currentTerm[p] \in Int /\ currentTerm'[p] \in Int
        /\ currentTerm'[p] >= currentTerm[p]
    BY DEF Quorum, Shape, NodesOK, Term, TermsGrow
  <2>2. CASE i \in K[p][t]
    BY <1>2, <2>1, <2>2 DEF LeftStep, Acked
  <2>3. CASE currentTerm[p] = t /\ Holds(p, i, t) /\ currentTerm'[p] > t
    BY <1>2, <2>1, <2>3 DEF LeftStep, Acked
  <2>4. CASE currentTerm[p] = t /\ Holds(p, i, t) /\ currentTerm'[p] = t
    <3>1. Agree(log[p], H[t], i)
      BY <2>1, <2>4, HeldIsEntry
    <3>2. Agree(log'[p], H2[t], i)
      BY <1>2, <2>1, <2>4, <3>1, AgreeStays
    <3>3. Len(log'[p]) \in Nat /\ H2[t][i] = t
      <4>1. log'[p] \in Seq(1..MaxTerm)
        BY <2>1 DEF Shape, LogsOK
      <4> QED
        BY <1>1, <4>1, LenProperties DEF Entry
    <3>4. i \in 1..Len(log'[p]) /\ log'[p][i] = t
      BY <1>2, <3>2, <3>3 DEF Agree
    <3> QED
      BY <2>4, <3>4 DEF Acked, Holds
  <2> QED
    BY <1>2, <1>3, <2>1, <2>2, <2>3, <2>4 DEF Acked
<1>5. Q \in Quorum'
  BY DEF Quorum, Needed
<1> QED
  BY <1>1, <1>4, <1>5 DEF Chosen, Entry

(* A log stays anchored as long as it agrees with the same leaders.         *)
LEMMA AnchorStays ==
    ASSUME Shape, Shape', TermsGrow, NEW D, NEW H, NEW D2, NEW H2, NEW K, NEW K2,
           Ledger(D, H), LogsLed(D, H), Ledger(D2, H2), LedgerExtends(D, H, D2, H2),
           LeftStep(K, K2), \A p \in Node : LogKept(D, H, p),
           NEW s, NEW v, Len(v) \in Nat, NEW c \in Nat, NEW T \in Int, NEW U \in Int, T <= U,
           Anchored(D, H, K, s, c, T),
           \A t \in D : \A i \in c..Len(H[t]) :
               t <= T /\ Chosen(D, H, K, i, t) /\ Agree(s, H[t], c) => Agree(v, H[t], c)
    PROVE  AnchoredAfter(D2, H2, K2, v, c, U)
<1>1. CASE c = 0
  BY <1>1 DEF AnchoredAfter
<1>2. CASE c # 0
  <2>1. PICK t \in D : /\ t <= T /\ Agree(s, H[t], c)
                       /\ \E i \in c..Len(H[t]) : Chosen(D, H, K, i, t)
    BY <1>2 DEF Anchored
  <2>2. PICK i \in c..Len(H[t]) : Chosen(D, H, K, i, t)
    BY <2>1
  <2>3. /\ t \in D2 /\ t \in Int /\ Len(H[t]) \in Nat /\ Len(H2[t]) \in Nat
        /\ Len(H[t]) <= Len(H2[t])
    <3>1. t \in D2 /\ Agree(H[t], H2[t], Len(H[t]))
      BY <2>1 DEF LedgerExtends
    <3>2. t \in Int /\ Len(H[t]) \in Nat /\ Len(H2[t]) \in Nat
      BY <2>1, <3>1, Types
    <3> QED
      BY <3>1, <3>2 DEF Agree
  <2>4. Agree(v, H2[t], c)
    BY <2>1, <2>2, AgreeGrows
  <2>5. Chosen(D2, H2, K2, i, t)'
    BY <2>2, ChosenStays
  <2>6. i \in c..Len(H2[t]) /\ t <= U
    BY <2>1, <2>2, <2>3
  <2> QED
    BY <2>3, <2>4, <2>5, <2>6 DEF AnchoredAfter
<1> QED
  BY <1>1, <1>2

(* A log that is the sender's up to what the follower commits is anchored.  *)
LEMMA FollowerAnchored ==
    ASSUME Shape, NEW D, NEW W, NEW H, NEW K, Elect(D, W), Ledger(D, H), Carried(D, H, K),
           Safe(D, H, K), NEW r \in requests \cup accepted,
           NEW s \in Seq(1..MaxTerm), NEW i \in Nat, i <= r.commit, i <= Len(s),
           SubSeq(s, 1, i) = Prefix(r.src, i)
    PROVE  Anchored(D, H, K, s, i, r.term)
<1>1. RequestOK(r) /\ r.term \in D /\ r.commit <= commitIndex[r.src]
  BY DEF Shape, NetOK, Elect
<1> DEFINE u == log[r.src]
<1>2. /\ r.src \in Node /\ r.term \in Int /\ r.commit \in Nat
      /\ commitIndex[r.src] \in Nat /\ commitIndex[r.src] <= Len(u) /\ currentTerm[r.src] \in Int
      /\ u \in Seq(1..MaxTerm) /\ Len(u) \in Nat /\ Len(s) \in Nat
      /\ Len(H[r.term]) \in Nat
  <2>1. r.src \in Node /\ r.term \in Int /\ r.commit \in Nat
    BY <1>1 DEF RequestOK, Term
  <2>2. /\ commitIndex[r.src] \in 0..Len(u) /\ currentTerm[r.src] \in Int
        /\ u \in Seq(1..MaxTerm) /\ Len(u) \in Nat /\ Len(H[r.term]) \in Nat
    BY <1>1, <2>1, Types
  <2> QED
    BY <2>1, <2>2, LenProperties
<1>3. /\ Anchored(D, H, K, u, commitIndex[r.src], currentTerm[r.src])
      /\ Anchored(D, H, K, H[r.term], r.commit, r.term)
  BY <1>2 DEF Safe
<1>4. Agree(u, H[r.term], i)
  BY <1>1, <1>2, <1>3, TwoAnchors
<1>5. Agree(s, u, i)
  <2>1. i <= Len(u)
    BY <1>1, <1>2
  <2>2. \A k \in 1..i : s[k] = u[k]
    BY <1>2, <2>1, PrefixesEqual DEF Prefix
  <2> QED
    BY <2>1, <2>2 DEF Agree
<1> HIDE DEF u
<1>6. Agree(s, H[r.term], i)
  BY <1>2, <1>4, <1>5, AgreeTrans
<1>7. CASE i = 0
  BY <1>7 DEF Anchored
<1>8. CASE i # 0
  <2>1. r.commit # 0
    BY <1>2, <1>8
  <2>2. PICK t \in D : /\ t <= r.term /\ Agree(H[r.term], H[t], r.commit)
                       /\ \E j \in r.commit..Len(H[t]) : Chosen(D, H, K, j, t)
    BY <1>3, <2>1 DEF Anchored
  <2>3. PICK j \in r.commit..Len(H[t]) : Chosen(D, H, K, j, t)
    BY <2>2
  <2>4. Len(H[t]) \in Nat
    BY Types
  <2>5. j \in i..Len(H[t])
    BY <1>2, <2>4
  <2>6. Agree(s, H[t], i)
    BY <1>2, <1>6, <2>2, <2>4 DEF Agree
  <2> QED
    BY <2>2, <2>3, <2>5, <2>6 DEF Anchored
<1> QED
  BY <1>7, <1>8

(* A leader that counts enough copies of an entry of its term has it chosen. *)
LEMMA LeaderAnchored ==
    ASSUME Shape, NEW D, NEW W, NEW H, NEW K, Elect(D, W), Ledger(D, H), LogsLed(D, H),
           NEW n \in Node, state[n] = "Leader", NEW match, NEW i \in 1..Last(n),
           Committable(n, match, i),
           \A p \in Node \ {n} : match[p] \in Nat,
           \A p \in Node \ {n} : match[p] > 0 => AckedTo(D, H, K, p, match[p], currentTerm[n])
    PROVE  Anchored(D, H, K, log[n], i, currentTerm[n])
<1> DEFINE t == currentTerm[n]
           S == {p \in Node \ {n} : match[p] >= i}
<1>1. /\ t \in D /\ log[n] = H[t] /\ Len(log[n]) \in Nat /\ t \in Int
      /\ i \in 1..Len(log[n]) /\ log[n][i] = t
  BY Types DEF Elect, LogsLed, Committable, Last
<1>2. 1 + Cardinality(S) >= Needed
  BY DEF Committable
<1>3. S \cup {n} \in Quorum
  BY <1>2, WithItself
<1>4. ASSUME NEW p \in S PROVE Acked(K, p, i, t)
  <2>1. p \in Node \ {n} /\ match[p] \in Nat /\ match[p] >= i /\ i >= 1 /\ i \in Nat
    BY <1>1
  <2>2. AckedTo(D, H, K, p, match[p], t)
    BY <2>1
  <2>3. /\ Len(log[p]) \in Nat /\ currentTerm[p] \in Int /\ i \in 1..match[p]
        /\ i \in 1..Len(H[t]) /\ H[t][i] = t
    BY <1>1, <2>1, Types
  <2>4. CASE currentTerm[p] = t
    <3>1. i \in 1..Len(log[p]) /\ log[p][i] = t
      BY <2>1, <2>2, <2>3, <2>4 DEF AckedTo, Agree
    <3> QED
      BY <2>4, <3>1 DEF Acked, Holds
  <2>5. CASE currentTerm[p] > t
    BY <2>2, <2>3, <2>5 DEF AckedTo, Acked
  <2> QED
    BY <1>1, <2>2, <2>3, <2>4, <2>5 DEF AckedTo
<1>5. Acked(K, n, i, t)
  BY <1>1 DEF Acked, Holds
<1>6. Chosen(D, H, K, i, t)
  <2>1. Entry(D, H, i, t)
    BY <1>1 DEF Entry
  <2>2. \A p \in S \cup {n} : Acked(K, p, i, t)
    BY <1>4, <1>5
  <2> HIDE DEF S, t
  <2> QED
    BY <1>3, <2>1, <2>2 DEF Chosen
<1>7. Agree(log[n], H[t], i) /\ i \in i..Len(H[t]) /\ t <= t
  BY <1>1 DEF Agree
<1> HIDE DEF t
<1> QED
  BY <1>1, <1>6, <1>7 DEF Anchored, t

(* How the commit index of n changes.                                       *)
CommitFrom(n) ==
    \/ commitIndex'[n] = commitIndex[n]
    \/ /\ UNCHANGED <<nodeVars, log>> /\ state[n] = "Leader"
       /\ commitIndex'[n] \in 1..Last(n) /\ Committable(n, matchIndex'[n], commitIndex'[n])
    \/ \E r \in requests \cup accepted :
         /\ r.dst = n /\ r.term = currentTerm'[n]
         /\ commitIndex'[n] \in Nat
         /\ commitIndex'[n] <= r.commit /\ commitIndex'[n] <= Len(log'[n])
         /\ SubSeq(log'[n], 1, commitIndex'[n]) = Prefix(r.src, commitIndex'[n])

LEMMA CommitStep ==
    ASSUME Shape, Shape', [Next]_vars, windows' = {}, NEW n \in Node
    PROVE  CommitFrom(n)
<1> USE DEF CommitFrom
<1>0. commitIndex \in [Node -> Nat] /\ log \in [Node -> Seq(1..MaxTerm)]
  BY DEF Shape, LogsOK
<1>1. CASE commitIndex'[n] = commitIndex[n]
  BY <1>1
<1>2. ASSUME NEW q \in replies, ReplySuccess(q) PROVE CommitFrom(n)
  <2> DEFINE m == q.src
             p == q.dst
             newer == LastNew(q) > matchIndex[m][p]
             match == [matchIndex[m] EXCEPT ![p] = IF newer THEN LastNew(q) ELSE @]
  <2>1. /\ Advance(m, match) /\ log' = log /\ UNCHANGED nodeVars
        /\ matchIndex' = [matchIndex EXCEPT ![m] = match] /\ m \in Node
    BY <1>2 DEF ReplySuccess, Shape, NetOK, ReplyOK
  <2> HIDE DEF match, newer
  <2>2. matchIndex'[m] = match
    BY <2>1 DEF Shape, LeadersOK
  <2>3. /\ commitIndex'[m] = commitIndex[m]
           \/ (/\ state[m] = "Leader" /\ commitIndex'[m] \in 1..Last(m)
               /\ Committable(m, match, commitIndex'[m]))
        /\ \A k \in Node \ {m} : commitIndex'[k] = commitIndex[k]
    BY <2>1, AdvanceOK DEF Shape
  <2> HIDE DEF m, p
  <2> QED
    BY <2>1, <2>2, <2>3
<1>3. ASSUME NEW r \in requests, Heartbeat(r) PROVE CommitFrom(n)
  <2>1. /\ r.dst \in Node /\ r.commit \in Nat /\ r.term \in Term /\ Last(r.dst) \in Nat
        /\ currentTerm'[r.dst] = r.term /\ log' = log
        /\ Last(r.dst) = Len(log'[r.dst])
    BY <1>0, <1>3, TermsFollow, LenProperties DEF Heartbeat, Shape, NetOK, RequestOK, Last
  <2> DEFINE i == Min(r.commit, Last(r.dst))
             commits == i > commitIndex[r.dst]
  <2>2. i \in Nat /\ i <= r.commit /\ i <= Last(r.dst)
    BY <2>1 DEF Min
  <2>3. /\ commitIndex' = [commitIndex EXCEPT ![r.dst] = IF commits THEN i ELSE @]
        /\ windows' = IF commits /\ Blind(r, log[r.dst], i)
                      THEN windows \cup {"blind"} ELSE windows
    BY <1>3 DEF Heartbeat
  <2> HIDE DEF i
  <2>4. CASE n = r.dst /\ commits
    <3>1. commitIndex'[n] = i /\ ~Blind(r, log[n], i)
      BY <1>0, <2>1, <2>3, <2>4
    <3> QED
      BY <2>1, <2>2, <2>4, <3>1 DEF Blind
  <2>5. CASE ~(n = r.dst /\ commits)
    BY <1>0, <1>1, <2>3, <2>5
  <2> QED
    BY <2>4, <2>5
<1>4. ASSUME NEW r \in accepted, AppendDone(r) PROVE CommitFrom(n)
  <2>1. /\ r.dst \in Node /\ r.commit \in Nat
        /\ Len(Merged(r)) \in Nat
        /\ log' = [log EXCEPT ![r.dst] = Merged(r)] /\ UNCHANGED nodeVars
    BY <1>4, MergedOK, LenProperties DEF AppendDone, Shape, NetOK, RequestOK
  <2> DEFINE i == Min(r.commit, Len(Merged(r)))
             commits == i > commitIndex[r.dst]
  <2>2. i \in Nat /\ i <= r.commit /\ i <= Len(Merged(r))
    BY <2>1 DEF Min
  <2>3. /\ commitIndex' = [commitIndex EXCEPT ![r.dst] = IF commits THEN i ELSE @]
        /\ windows' = windows
             \cup (IF commits /\ Blind(r, Merged(r), i) THEN {"blind"} ELSE {})
             \cup (IF currentTerm[r.dst] # r.term THEN {"late"} ELSE {})
    BY <1>4 DEF AppendDone
  <2> HIDE DEF i
  <2>4. CASE n = r.dst /\ commits
    <3>1. /\ commitIndex'[n] = i /\ ~Blind(r, Merged(r), i) /\ currentTerm'[n] = r.term
          /\ log'[n] = Merged(r)
      BY <1>0, <2>1, <2>3, <2>4 DEF nodeVars
    <3> QED
      BY <2>1, <2>2, <2>4, <3>1 DEF Blind
  <2>5. CASE ~(n = r.dst /\ commits)
    BY <1>0, <1>1, <2>3, <2>5
  <2> QED
    BY <2>4, <2>5
<1>5. ASSUME commitIndex' = commitIndex \/ UNCHANGED logVars PROVE CommitFrom(n)
  <2>1. commitIndex' = commitIndex
    BY <1>5 DEF logVars
  <2> QED
    BY <1>1, <2>1
<1> HIDE DEF CommitFrom
<1>6. ASSUME NEW m \in Node, \/ Replicate(m) \/ \E k \in Node : Tick(m, k)
                             \/ \E P \in SUBSET Node : Campaign(m, P)
      PROVE  CommitFrom(n)
  BY <1>5, <1>6 DEF Replicate, Tick, Campaign
<1>7. ASSUME NEW r \in requests, Reject(r) \/ AcceptAppend(r) PROVE CommitFrom(n)
  BY <1>5, <1>7 DEF Reject, AcceptAppend
<1>8. ASSUME NEW r \in accepted, AppendInconsistent(r) \/ AppendRefused(r) PROVE CommitFrom(n)
  BY <1>5, <1>8 DEF AppendInconsistent, AppendRefused
<1>9. ASSUME NEW q \in replies, ReplyConflict(q) \/ ReplyHigher(q) PROVE CommitFrom(n)
  BY <1>5, <1>9 DEF ReplyConflict, ReplyHigher
<1>10. ASSUME NEW c \in catchups, CatchUpRead(c) \/ CatchUpSend(c) PROVE CommitFrom(n)
  BY <1>5, <1>10 DEF CatchUpRead, CatchUpSend
<1>11. ASSUME Lose \/ UNCHANGED vars PROVE CommitFrom(n)
  BY <1>5, <1>11 DEF Lose, vars
<1> QED
  BY <1>2, <1>3, <1>4, <1>6, <1>7, <1>8, <1>9, <1>10, <1>11 DEF Next

LEMMA SafeStep ==
    ASSUME Shape, Shape', [Next]_vars, windows' = {},
           NEW D, NEW W, NEW H, NEW D2, NEW H2, NEW K, NEW K2,
           Elect(D, W), Ledger(D, H), LogsLed(D, H), Kept(D, H, K), Counted(D, H, K), Safe(D, H, K),
           Ledger(D2, H2), LedgerExtends(D, H, D2, H2), LeftStep(K, K2),
           \A p \in Node : LogKept(D, H, p)
    PROVE  Safe(D2, H2, K2)'
<1>1. Traffic /\ TermsGrow /\ Carried(D, H, K) /\ RepliesTrue(D, H, K)
  BY StepTraffic, StepGrows DEF Kept
<1>2. \A n \in Node : /\ Len(log[n]) \in Nat /\ Len(log'[n]) \in Nat
                      /\ commitIndex[n] \in Nat /\ commitIndex[n] <= Len(log[n])
                      /\ currentTerm[n] \in Int /\ currentTerm'[n] \in Int
                      /\ currentTerm[n] <= currentTerm'[n]
  <2>1. \A n \in Node : log'[n] \in Seq(1..MaxTerm) /\ currentTerm'[n] \in Int
    BY DEF Shape, LogsOK, NodesOK, Term
  <2>2. \A n \in Node : currentTerm[n] \in Int /\ currentTerm[n] <= currentTerm'[n]
    BY <1>1, <2>1 DEF TermsGrow, Shape, NodesOK, Term
  <2> QED
    BY <2>1, <2>2, Types, LenProperties
(* The commit indexes of the replicas.                                      *)
<1>3. ASSUME NEW n \in Node, commitIndex'[n] = commitIndex[n]
      PROVE  AnchoredAfter(D2, H2, K2, log'[n], commitIndex'[n], currentTerm'[n])
  <2> DEFINE c == commitIndex[n]
  <2>1. Anchored(D, H, K, log[n], c, currentTerm[n])
    BY DEF Safe
  <2>2. ASSUME NEW t \in D, NEW i \in c..Len(H[t]), t <= currentTerm[n],
               Chosen(D, H, K, i, t), Agree(log[n], H[t], c)
        PROVE  Agree(log'[n], H[t], c)
    <3>1. Len(H[t]) \in Nat /\ c \in Nat /\ c <= i /\ i \in Nat
      BY <1>2, Types
    <3>2. CASE Agree(log[n], log'[n], Len(log[n]))
      BY <1>2, <2>2, <3>1, <3>2 DEF Agree
    <3>3. CASE /\ currentTerm[n] \in D
               /\ \A j \in Nat : Agree(log[n], H[currentTerm[n]], j) =>
                                    Agree(log'[n], H[currentTerm[n]], j)
      <4> DEFINE u == currentTerm[n]
      <4>1. Len(H[u]) \in Nat
        BY <3>3, Types
      <4>2. Agree(log[n], H[u], c)
        BY <1>1, <1>2, <2>1, <3>3, AnchorFollows
      <4>3. Agree(log'[n], H[u], c)
        BY <3>1, <3>3, <4>2
      <4>4. Agree(H[t], H[u], i)
        BY <1>1, <2>2, <3>3, ChosenCarried
      <4> QED
        BY <1>2, <3>1, <4>1, <4>3, <4>4 DEF Agree
    <3> QED
      BY <3>2, <3>3 DEF LogKept
  <2> HIDE DEF c
  <2>3. AnchoredAfter(D2, H2, K2, log'[n], c, currentTerm'[n])
    <3>1. c \in Nat
      BY <1>2 DEF c
    <3> QED
      BY <1>1, <1>2, <2>1, <2>2, <3>1, AnchorStays
  <2> QED
    BY <1>3, <2>3 DEF c
<1>4. ASSUME NEW n \in Node, UNCHANGED <<nodeVars, log>>, state[n] = "Leader",
             commitIndex'[n] \in 1..Last(n), Committable(n, matchIndex'[n], commitIndex'[n])
      PROVE  AnchoredAfter(D2, H2, K2, log'[n], commitIndex'[n], currentTerm'[n])
  <2>1. PICK match, i : match = matchIndex'[n] /\ i = commitIndex'[n]
    OBVIOUS
  <2>2. /\ i \in 1..Last(n) /\ i \in Nat /\ Committable(n, match, i)
        /\ state'[n] = "Leader" /\ log'[n] = log[n] /\ currentTerm'[n] = currentTerm[n]
    BY <1>2, <1>4, <2>1 DEF nodeVars, Last
  <2>3. \A p \in Node \ {n} : match[p] \in Nat
    BY <2>1, LimitAssumption DEF Shape, LeadersOK
  <2>4. \A p \in Node \ {n} : match[p] > 0 => AckedTo(D, H, K, p, match[p], currentTerm[n])
    BY <1>1, <2>1, <2>2, MatchActed
  <2>5. Anchored(D, H, K, log[n], i, currentTerm[n])
    BY <1>4, <2>2, <2>3, <2>4, LeaderAnchored
  <2>6. AnchoredAfter(D2, H2, K2, log[n], i, currentTerm[n])
    BY <1>1, <1>2, <2>2, <2>5, AnchorStays
  <2> QED
    BY <2>1, <2>2, <2>6
<1>5. ASSUME NEW n \in Node, NEW r \in requests \cup accepted, r.term = currentTerm'[n],
             commitIndex'[n] \in Nat,
             commitIndex'[n] <= r.commit, commitIndex'[n] <= Len(log'[n]),
             SubSeq(log'[n], 1, commitIndex'[n]) = Prefix(r.src, commitIndex'[n])
      PROVE  AnchoredAfter(D2, H2, K2, log'[n], commitIndex'[n], currentTerm'[n])
  <2>1. PICK s, i : s = log'[n] /\ i = commitIndex'[n]
    OBVIOUS
  <2>2. s \in Seq(1..MaxTerm) /\ Len(s) \in Nat /\ i \in Nat /\ r.term \in Int
    BY <1>2, <1>5, <2>1 DEF Shape, LogsOK
  <2>3. Anchored(D, H, K, s, i, r.term)
    BY <1>1, <1>5, <2>1, <2>2, FollowerAnchored
  <2>4. AnchoredAfter(D2, H2, K2, s, i, r.term)
    BY <1>1, <2>2, <2>3, AnchorStays
  <2> QED
    BY <1>5, <2>1, <2>4
<1>6. ASSUME NEW n \in Node
      PROVE  AnchoredAfter(D2, H2, K2, log'[n], commitIndex'[n], currentTerm'[n])
  <2>1. CommitFrom(n)
    BY CommitStep
  <2> QED
    BY <1>3, <1>4, <1>5, <2>1 DEF CommitFrom
(* Those that requests carry.                                               *)
<1>7. ASSUME NEW r \in requests' \cup accepted', r.term \in D, r.commit \in Nat, r.term \in Int,
             Anchored(D, H, K, H[r.term], r.commit, r.term)
      PROVE  AnchoredAfter(D2, H2, K2, H2[r.term], r.commit, r.term)
  <2>1. /\ Len(H[r.term]) \in Nat /\ Len(H2[r.term]) \in Nat
        /\ Agree(H[r.term], H2[r.term], Len(H[r.term]))
    <3>1. r.term \in D2
      BY <1>7 DEF LedgerExtends
    <3> QED
      BY <1>7, <3>1, Types DEF LedgerExtends
  <2>2. \A t \in D : Agree(H[r.term], H[t], r.commit) => Agree(H2[r.term], H[t], r.commit)
    BY <1>7, <2>1 DEF Agree
  <2> QED
    BY <1>1, <1>7, <2>1, <2>2, AnchorStays
<1>8. ASSUME NEW r \in requests' \cup accepted'
      PROVE  AnchoredAfter(D2, H2, K2, H2[r.term], r.commit, r.term)
  <2>1. r.commit \in Nat /\ r.term \in Int /\ r.src \in Node
    BY DEF Shape, NetOK, RequestOK, Term
  <2>2. CASE r \in requests \cup accepted
    BY <1>7, <2>1, <2>2 DEF Safe, Elect
  <2>3. CASE Sent(r)
    <3>1. /\ state[r.src] = "Leader" /\ currentTerm[r.src] = r.term
          /\ r.commit = commitIndex[r.src]
      BY <2>3 DEF Sent, Leads
    <3>2. r.term \in D /\ H[r.term] = log[r.src]
      BY <2>1, <3>1 DEF Elect, LogsLed
    <3>3. Anchored(D, H, K, H[r.term], r.commit, r.term)
      BY <2>1, <3>1, <3>2 DEF Safe
    <3> QED
      BY <1>7, <2>1, <3>2, <3>3
  <2> QED
    BY <1>1, <2>2, <2>3 DEF Traffic
<1> QED
  BY <1>6, <1>8 DEF Safe, Anchored, AnchoredAfter

(***************************************************************************)
(* The theorems.                                                           *)
(***************************************************************************)

(* The inductive invariant: the ledgers, and what each window leaves of     *)
(* what is built on them.                                                   *)
CommitInv ==
    /\ Shape
    /\ \E D, W :
         /\ Elect(D, W)
         /\ "late" \notin windows =>
              \E H, K :
                 /\ Ledger(D, H) /\ LogsLed(D, H) /\ NetLed(H) /\ Kept(D, H, K)
                 /\ windows \subseteq {"blind"} => Counted(D, H, K)
                 /\ windows = {} => Safe(D, H, K)

LEMMA InitCommitInv == Init => CommitInv
<1> SUFFICES ASSUME Init PROVE CommitInv
  OBVIOUS
<1>1. Shape
  BY InitShape
<1>2. PICK W, H, K : /\ W = 0 /\ H = [t \in Term |-> <<>>]
                     /\ K = [p \in Node |-> [t \in Term |-> {}]]
  OBVIOUS
<1>3. Elect({}, W) /\ Ledger({}, H) /\ LogsLed({}, H) /\ NetLed(H)
  BY <1>2, InitElect, InitLedger
<1>4. Kept({}, H, K)
  BY <1>2 DEF Init, Kept, LeftLed, Carried, LeftHeld, RepliesTrue
<1>5. Counted({}, H, K)
  BY DEF Init, Counted
<1>6. Safe({}, H, K)
  BY DEF Init, Safe, Anchored
<1> QED
  BY <1>1, <1>3, <1>4, <1>5, <1>6 DEF CommitInv

LEMMA NextCommitInv ==
    ASSUME OddCluster, CommitInv, [Next]_vars PROVE CommitInv'
<1>1. Shape /\ Shape' /\ windows \subseteq windows'
  BY NextShape, StepGrows DEF CommitInv
<1>2. PICK D, W :
         /\ Elect(D, W)
         /\ "late" \notin windows =>
              \E H, K :
                 /\ Ledger(D, H) /\ LogsLed(D, H) /\ NetLed(H) /\ Kept(D, H, K)
                 /\ windows \subseteq {"blind"} => Counted(D, H, K)
                 /\ windows = {} => Safe(D, H, K)
  BY DEF CommitInv
<1>3. CASE "late" \in windows'
  <2>1. PICK D2, W2 : ElectExtends(D, W, D2, W2)
    BY <1>1, <1>2, ElectExists
  <2>2. Elect(D2, W2)'
    BY <1>1, <1>2, <2>1, ElectStep
  <2> QED
    BY <1>1, <1>3, <2>2 DEF CommitInv
<1>4. CASE "late" \notin windows'
  <2>1. PICK H, K :
          /\ Ledger(D, H) /\ LogsLed(D, H) /\ NetLed(H) /\ Kept(D, H, K)
          /\ windows \subseteq {"blind"} => Counted(D, H, K)
          /\ windows = {} => Safe(D, H, K)
    BY <1>1, <1>2, <1>4
  <2>2. PICK D2, W2, H2 : /\ LedgerStep(D, W, H, D2, W2, H2)
                          /\ Ledger(D2, H2) /\ LogsLed(D2, H2)'
    BY <1>1, <1>2, <1>4, <2>1, LedgerExists
  <2>3. ElectExtends(D, W, D2, W2) /\ LedgerExtends(D, H, D2, H2)
    BY <2>2 DEF LedgerStep
  <2>4. Elect(D2, W2)'
    BY <1>1, <1>2, <2>3, ElectStep
  <2>5. NetLed(H2)'
    BY <1>1, <1>2, <2>1, <2>2, <2>3, NetLedStep
  <2>6. PICK K2 : K2 = [p \in Node |-> [t \in Term |->
            K[p][t] \cup {i \in 1..Len(log[p]) : /\ currentTerm[p] = t /\ currentTerm'[p] > t
                                                 /\ log[p][i] = t}]]
    OBVIOUS
  <2>7. LeftStep(K, K2)
    BY <2>6 DEF LeftStep, Holds
  <2>8. Kept(D2, H2, K2)' /\ \A p \in Node : LogKept(D, H, p)
    BY <1>1, <1>2, <1>4, <2>1, <2>2, <2>7, KeptStep
  <2>9. ASSUME windows' \subseteq {"blind"} PROVE Counted(D2, H2, K2)'
    <3>1. Counted(D, H, K) /\ RepliesTrue(D, H, K)
      BY <1>1, <2>1, <2>9 DEF Kept
    <3> QED
      BY <1>1, <2>1, <2>2, <2>3, <2>7, <2>8, <2>9, <3>1, CountedStep
  <2>10. ASSUME windows' = {} PROVE Safe(D2, H2, K2)'
    <3>1. Counted(D, H, K) /\ Safe(D, H, K)
      BY <1>1, <2>1, <2>10
    <3> QED
      BY <1>1, <1>2, <2>1, <2>2, <2>3, <2>7, <2>8, <2>10, <3>1, SafeStep
  <2>11. Ledger(D2, H2)'
    BY <2>2 DEF Ledger
  <2> QED
    BY <1>1, <2>2, <2>4, <2>5, <2>8, <2>9, <2>10, <2>11 DEF CommitInv
<1> QED
  BY <1>3, <1>4

LEMMA AlwaysCommitInv == ASSUME OddCluster PROVE Spec => []CommitInv
<1>1. CommitInv /\ [Next]_vars => CommitInv'
  BY NextCommitInv
<1> QED
  BY <1>1, InitCommitInv, PTL DEF Spec

LEMMA CountedIsCopy == ASSUME CommitInv PROVE MatchIsCopy
<1>1. SUFFICES ASSUME windows \subseteq {"blind"}, NEW n \in Node, NEW m \in Node,
                      state[n] = "Leader", m # n, currentTerm[m] <= currentTerm[n]
               PROVE  /\ matchIndex[n][m] <= Min(Last(n), Last(m))
                      /\ Prefix(m, matchIndex[n][m]) = Prefix(n, matchIndex[n][m])
  BY DEF MatchIsCopy
<1>2. PICK D, W, H, K : /\ Elect(D, W) /\ Ledger(D, H) /\ LogsLed(D, H)
                        /\ Counted(D, H, K) /\ Shape
  BY <1>1 DEF CommitInv
<1> DEFINE j == matchIndex[n][m]
<1>3. /\ log[n] \in Seq(1..MaxTerm) /\ log[m] \in Seq(1..MaxTerm)
      /\ Len(log[n]) \in Nat /\ Len(log[m]) \in Nat /\ j \in Nat
      /\ currentTerm[n] \in Int /\ currentTerm[m] \in Int
  BY <1>2, Types, LimitAssumption DEF Shape, LeadersOK
<1>4. Agree(log[m], log[n], j)
  <2>1. CASE j = 0
    BY <1>3, <2>1 DEF Agree
  <2>2. CASE j > 0
    <3>1. AckedTo(D, H, K, m, j, currentTerm[n])
      BY <1>1, <1>2, <2>2 DEF Counted
    <3>2. currentTerm[m] = currentTerm[n]
      BY <1>1, <1>3, <3>1 DEF AckedTo
    <3> QED
      BY <1>1, <1>2, <3>1, <3>2 DEF AckedTo, LogsLed
  <2> QED
    BY <1>3, <2>1, <2>2
<1> HIDE DEF j
<1>5. j <= Len(log[n]) /\ j <= Len(log[m]) /\ \A k \in 1..j : log[m][k] = log[n][k]
  BY <1>4 DEF Agree
<1>6. j <= Min(Last(n), Last(m))
  BY <1>5 DEF Min, Last
<1>7. SubSeq(log[m], 1, j) = SubSeq(log[n], 1, j)
  BY <1>3, <1>5, PrefixesEqual
<1> QED
  BY <1>6, <1>7 DEF j, Prefix

LEMMA SafeAgree == ASSUME CommitInv PROVE CommittedAgree
<1>1. SUFFICES ASSUME windows = {}, NEW n \in Node, NEW m \in Node,
                      NEW i \in 1..Min(commitIndex[n], commitIndex[m])
               PROVE  log[n][i] = log[m][i]
  BY DEF CommittedAgree
<1>2. PICK D, H, K : Ledger(D, H) /\ Carried(D, H, K) /\ Safe(D, H, K) /\ Shape
  BY <1>1 DEF CommitInv, Kept
<1>3. /\ Len(log[n]) \in Nat /\ Len(log[m]) \in Nat
      /\ commitIndex[n] \in Nat /\ commitIndex[m] \in Nat
      /\ currentTerm[n] \in Int /\ currentTerm[m] \in Int
  BY <1>2, Types
<1>4. i \in Nat /\ i >= 1 /\ i <= commitIndex[n] /\ i <= commitIndex[m]
  BY <1>3 DEF Min
<1>5. Agree(log[n], log[m], i)
  BY <1>2, <1>3, <1>4, TwoAnchors DEF Safe
<1> QED
  BY <1>4, <1>5 DEF Agree

LEMMA SafeComplete == ASSUME CommitInv PROVE LeaderComplete
<1>1. SUFFICES ASSUME windows = {}, NEW n \in Node, NEW m \in Node, state[n] = "Leader",
                      \A k \in Node : currentTerm[k] <= currentTerm[n]
               PROVE  /\ commitIndex[m] <= Last(n)
                      /\ Prefix(n, commitIndex[m]) = Prefix(m, commitIndex[m])
  BY DEF LeaderComplete
<1>2. PICK D, W, H, K : /\ Elect(D, W) /\ Ledger(D, H) /\ LogsLed(D, H) /\ Carried(D, H, K)
                        /\ Safe(D, H, K) /\ Shape
  BY <1>1 DEF CommitInv, Kept
<1>3. /\ log[n] \in Seq(1..MaxTerm) /\ log[m] \in Seq(1..MaxTerm)
      /\ Len(log[n]) \in Nat /\ Len(log[m]) \in Nat
      /\ commitIndex[m] \in Nat /\ commitIndex[m] <= Len(log[m])
      /\ currentTerm[n] \in Int /\ currentTerm[m] \in Int
  BY <1>2, Types
<1>4. currentTerm[n] \in D /\ log[n] = H[currentTerm[n]] /\ currentTerm[m] <= currentTerm[n]
  BY <1>1, <1>2 DEF Elect, LogsLed
<1>5. Agree(log[m], log[n], commitIndex[m])
  BY <1>2, <1>3, <1>4, AnchorFollows DEF Safe
<1>6. commitIndex[m] <= Len(log[n]) /\ \A k \in 1..commitIndex[m] : log[n][k] = log[m][k]
  BY <1>5 DEF Agree
<1> QED
  BY <1>3, <1>6, PrefixesEqual DEF Prefix, Last

LEMMA SafeNotRefused == ASSUME CommitInv PROVE RefusedOnlyThroughWindow
<1>1. SUFFICES ASSUME windows = {}, NEW r \in accepted, r.term = currentTerm[r.dst], Refused(r)
               PROVE  FALSE
  BY DEF RefusedOnlyThroughWindow
<1>2. PICK D, W, H, K : /\ Elect(D, W) /\ Ledger(D, H) /\ NetLed(H) /\ Carried(D, H, K)
                        /\ Safe(D, H, K) /\ Shape
  BY <1>1 DEF CommitInv, Kept
<1> DEFINE n == r.dst
           u == r.term
<1>3. /\ r.kind = "AppendEntries" /\ n \in Node /\ u \in D /\ u \in Int /\ r.prev \in Nat
      /\ r.entries \in Seq(1..MaxTerm)
  BY <1>2 DEF Elect, Shape, NetOK, RequestOK, Term
<1>4. PICK k \in DOMAIN r.entries : /\ log[n][r.prev + k] # r.entries[k]
                                    /\ r.prev + k <= commitIndex[n]
  BY <1>1 DEF Refused, Conflicts
<1>5. k \in 1..Len(r.entries) /\ k \in Nat /\ k >= 1
  BY <1>3, LenProperties
<1>6. r.entries[k] = H[u][r.prev + k]
  BY <1>2, <1>3, <1>5 DEF NetLed, Carries
<1>7. Len(log[n]) \in Nat /\ commitIndex[n] \in Nat /\ currentTerm[n] = u
  BY <1>1, <1>2, <1>3, Types
<1>8. Anchored(D, H, K, log[n], commitIndex[n], u)
  BY <1>2, <1>3, <1>7 DEF Safe
<1>9. Agree(log[n], H[u], commitIndex[n])
  BY <1>2, <1>3, <1>7, <1>8, AnchorFollows
<1>10. r.prev + k \in 1..commitIndex[n]
  BY <1>3, <1>4, <1>5, <1>7
<1> QED
  BY <1>4, <1>6, <1>9, <1>10 DEF Agree

(* matchIndex counts copies that are there, in heartbeat.go and             *)
(* tryAdvanceCommitIndex: while a peer follows the term of its leader, its  *)
(* log is the leader's up to matchIndex, unless an append came late or a    *)
(* success was counted in a later leadership.                               *)
THEOREM MatchCopies == ASSUME OddCluster PROVE Spec => []MatchIsCopy
<1>1. CommitInv => MatchIsCopy
  BY CountedIsCopy
<1> QED
  BY <1>1, AlwaysCommitInv, PTL

(* State machine safety: replicas never commit different entries at an      *)
(* index, until one of the windows of the code is hit.                      *)
THEOREM CommitsAgree == ASSUME OddCluster PROVE Spec => []CommittedAgree
<1>1. CommitInv => CommittedAgree
  BY SafeAgree
<1> QED
  BY <1>1, AlwaysCommitInv, PTL

(* Leader completeness, with the commit rule of tryAdvanceCommitIndex and   *)
(* the log comparison of RequestVote: a leader of the highest term has      *)
(* everything any replica has committed.                                    *)
THEOREM LeadersComplete == ASSUME OddCluster PROVE Spec => []LeaderComplete
<1>1. CommitInv => LeaderComplete
  BY SafeComplete
<1> QED
  BY <1>1, AlwaysCommitInv, PTL

(* TruncateFrom is not asked to cut a committed entry (log.go:121-123) by a *)
(* request of the term its node is in, until one of the windows is hit.     *)
THEOREM NothingRefused == ASSUME OddCluster PROVE Spec => []RefusedOnlyThroughWindow
<1>1. CommitInv => RefusedOnlyThroughWindow
  BY SafeNotRefused
<1> QED
  BY <1>1, AlwaysCommitInv, PTL

(***************************************************************************)
(* Refinement.                                                             *)
(***************************************************************************)

(* The loop of AppendEntries leaves the committed entries what they are.    *)
LEMMA MergedKeeps ==
    ASSUME LogsOK, NEW r, RequestOK(r), r.kind = "AppendEntries", Consistent(r), ~Refused(r)
    PROVE  Agree(log[r.dst], Merged(r), commitIndex[r.dst])
<1> DEFINE n == r.dst
           es == r.entries
           hi == r.prev + Len(es)
<1>1. /\ n \in Node /\ log[n] \in Seq(1..MaxTerm) /\ Len(log[n]) \in Nat
      /\ commitIndex[n] \in Nat /\ commitIndex[n] <= Len(log[n])
      /\ Len(Merged(r)) \in Nat /\ commitIndex[n] <= Len(Merged(r))
  BY MergedOK, LenProperties DEF LogsOK, RequestOK
<1>2. /\ es \in Seq(1..MaxTerm) /\ Len(es) \in Nat /\ DOMAIN es = 1..Len(es)
      /\ r.prev \in Nat /\ r.prev <= Len(log[n])
  BY LenProperties DEF RequestOK, Consistent, Last
<1>3. CASE Merged(r) = log[n]
  BY <1>1, <1>3 DEF Agree
<1>4. CASE Merged(r) = SubSeq(log[n], 1, r.prev) \o es
  <2>1. /\ SubSeq(log[n], 1, r.prev) \in Seq(1..MaxTerm)
        /\ Len(SubSeq(log[n], 1, r.prev)) = r.prev
        /\ \A k \in 1..r.prev : SubSeq(log[n], 1, r.prev)[k] = log[n][k]
    BY <1>1, <1>2, PrefixFacts
  <2>2. /\ Len(Merged(r)) = hi
        /\ \A k \in 1..hi : Merged(r)[k] = IF k <= r.prev THEN SubSeq(log[n], 1, r.prev)[k]
                                                          ELSE es[k - r.prev]
    BY <1>2, <1>4, <2>1, ConcatProperties
  <2>3. ASSUME NEW k \in 1..commitIndex[n] PROVE log[n][k] = Merged(r)[k]
    <3>1. k \in Nat /\ k >= 1 /\ k <= commitIndex[n] /\ k <= hi
      BY <1>1, <2>2
    <3>2. CASE k <= r.prev
      BY <2>1, <2>2, <3>1, <3>2
    <3>3. CASE k > r.prev
      <4>1. PICK x \in 1..Len(es) : /\ k = r.prev + x /\ Merged(r)[k] = es[x]
                                     /\ k <= Last(n) /\ x \in DOMAIN es
        <5>1. k - r.prev \in 1..Len(es) /\ k = r.prev + (k - r.prev) /\ k <= Last(n)
          BY <1>1, <1>2, <2>2, <3>1, <3>3 DEF Last
        <5>2. k \in 1..hi /\ ~(k <= r.prev)
          BY <1>2, <3>1, <3>3
        <5>3. Merged(r)[k] = es[k - r.prev]
          BY <2>2, <5>2
        <5> QED
          BY <1>2, <5>1, <5>3
      <4>2. SUFFICES ASSUME x \in Conflicts(r) PROVE FALSE
        BY <4>1 DEF Conflicts
      <4>3. PICK j \in Conflicts(r) : \A i \in Conflicts(r) : j <= i
        <5>1. Conflicts(r) \subseteq Nat
          BY <1>2 DEF Conflicts
        <5> QED
          BY <4>2, <5>1, LeastOfNat
      <4>4. j \in Nat /\ j <= x
        <5>1. j \in 1..Len(es)
          BY <1>2, <4>3 DEF Conflicts
        <5> QED
          BY <1>2, <4>2, <4>3, <5>1
      <4>5. r.prev + j <= commitIndex[n]
        BY <1>1, <1>2, <3>1, <4>1, <4>4
      <4> QED
        BY <4>3, <4>5 DEF Refused
    <3> QED
      BY <1>2, <3>1, <3>2, <3>3
  <2> QED
    BY <1>1, <2>3 DEF Agree
<1> QED
  BY <1>3, <1>4 DEF Merged, Prefix

(* What m has committed is still there.                                     *)
Durable(m) == commitIndex'[m] \in Nat /\ Agree(log[m], log'[m], commitIndex[m])

LEMMA LogGrows ==
    ASSUME Shape, Shape', [Next]_vars, NEW m \in Node
    PROVE  Durable(m)
<1>1. /\ Len(log[m]) \in Nat /\ log[m] \in Seq(1..MaxTerm) /\ log \in [Node -> Seq(1..MaxTerm)]
      /\ commitIndex[m] \in Nat /\ commitIndex[m] <= Len(log[m]) /\ commitIndex'[m] \in Nat
  BY LenProperties DEF Shape, LogsOK
<1>2. CASE log'[m] = log[m]
  BY <1>1, <1>2 DEF Durable, Agree
<1>3. ASSUME NEW n \in Node, Replicate(n) PROVE Durable(m)
  <2>1. log' = [log EXCEPT ![n] = Append(log[n], currentTerm[n])] /\ currentTerm[n] \in 1..MaxTerm
    BY <1>3, LimitAssumption DEF Replicate, Shape, NodesOK, Term
  <2>2. CASE m = n
    <3>1. /\ Len(log'[m]) = Len(log[m]) + 1
          /\ \A k \in 1..Len(log[m]) : log'[m][k] = log[m][k]
      BY <1>1, <2>1, <2>2, AppendProperties
    <3> QED
      BY <1>1, <3>1 DEF Durable, Agree
  <2> QED
    BY <1>1, <1>2, <2>1, <2>2
<1>4. ASSUME NEW r \in accepted, AppendDone(r) PROVE Durable(m)
  <2>1. /\ log' = [log EXCEPT ![r.dst] = Merged(r)] /\ r.dst \in Node
        /\ Agree(log[r.dst], Merged(r), commitIndex[r.dst])
    BY <1>4, MergedKeeps DEF AppendDone, Shape, NetOK, RequestOK
  <2>2. CASE m = r.dst
    BY <1>1, <2>1, <2>2 DEF Durable
  <2> QED
    BY <1>1, <1>2, <2>1, <2>2
<1>5. ASSUME NEW n \in Node, NEW P \in SUBSET Node, Campaign(n, P) PROVE Durable(m)
  BY <1>2, <1>5 DEF Campaign, logVars
<1> QED
  BY <1>2, <1>3, <1>4, <1>5, StepKinds DEF Quiet

(* One replica at most commits in a step.                                   *)
LEMMA OneCommits ==
    ASSUME Shape, [Next]_vars
    PROVE  \E n \in Node : \A m \in Node \ {n} : commitIndex'[m] = commitIndex[m]
<1> DEFINE Goal == \E n \in Node : \A m \in Node \ {n} : commitIndex'[m] = commitIndex[m]
<1>0. commitIndex \in [Node -> Nat]
  BY DEF Shape, LogsOK
<1>1. ASSUME NEW n \in Node, NEW c, commitIndex' = [commitIndex EXCEPT ![n] = c] PROVE Goal
  BY <1>0, <1>1
<1>2. ASSUME commitIndex' = commitIndex PROVE Goal
  BY <1>2, ReplicaAssumption
<1>3. ASSUME NEW q \in replies, ReplySuccess(q) PROVE Goal
  <2>1. q.src \in Node /\ \E match : Advance(q.src, match)
    BY <1>3 DEF ReplySuccess, Shape, NetOK, ReplyOK
  <2>2. \E c : commitIndex' = [commitIndex EXCEPT ![q.src] = c]
    BY <2>1 DEF Advance
  <2> QED
    BY <1>1, <2>1, <2>2
<1>4. ASSUME NEW r \in requests, Heartbeat(r) PROVE Goal
  <2>1. r.dst \in Node /\ \E c : commitIndex' = [commitIndex EXCEPT ![r.dst] = c]
    BY <1>4 DEF Heartbeat, Shape, NetOK, RequestOK
  <2> QED
    BY <1>1, <2>1
<1>5. ASSUME NEW r \in accepted, AppendDone(r) PROVE Goal
  <2>1. r.dst \in Node /\ \E c : commitIndex' = [commitIndex EXCEPT ![r.dst] = c]
    BY <1>5 DEF AppendDone, Shape, NetOK, RequestOK
  <2> QED
    BY <1>1, <2>1
<1>6. ASSUME UNCHANGED logVars PROVE Goal
  <2>1. commitIndex' = commitIndex
    BY <1>6 DEF logVars
  <2> QED
    BY <1>2, <2>1
<1> HIDE DEF Goal
<1>7. ASSUME NEW m \in Node, \/ Replicate(m) \/ \E k \in Node : Tick(m, k)
                             \/ \E P \in SUBSET Node : Campaign(m, P)
      PROVE  Goal
  BY <1>2, <1>6, <1>7 DEF Replicate, Tick, Campaign
<1>8. ASSUME NEW r \in requests, Reject(r) \/ AcceptAppend(r) PROVE Goal
  BY <1>6, <1>8 DEF Reject, AcceptAppend
<1>9. ASSUME NEW r \in accepted, AppendInconsistent(r) \/ AppendRefused(r) PROVE Goal
  BY <1>6, <1>9 DEF AppendInconsistent, AppendRefused
<1>10. ASSUME NEW q \in replies, ReplyConflict(q) \/ ReplyHigher(q) PROVE Goal
  BY <1>6, <1>10 DEF ReplyConflict, ReplyHigher
<1>11. ASSUME NEW c \in catchups, CatchUpRead(c) \/ CatchUpSend(c) PROVE Goal
  BY <1>6, <1>11 DEF CatchUpRead, CatchUpSend
<1>12. ASSUME Lose \/ UNCHANGED vars PROVE Goal
  BY <1>6, <1>12 DEF Lose, vars
<1> QED
  BY <1>3, <1>4, <1>5, <1>7, <1>8, <1>9, <1>10, <1>11, <1>12 DEF Next, Goal

(* What a replica has committed goes on from what it had committed.         *)
LEMMA CommittedGrows ==
    ASSUME Shape, Shape', [Next]_vars, NEW n \in Node
    PROVE  /\ Committed'[n] \in Seq(1..MaxTerm)
           /\ Replicated!IsPrefixOf(Committed[n], Committed'[n])
           /\ commitIndex'[n] = commitIndex[n] => Committed'[n] = Committed[n]
<1>1. /\ Committed[n] \in Seq(1..MaxTerm) /\ Len(Committed[n]) = commitIndex[n]
      /\ commitIndex[n] \in Nat
      /\ \A k \in 1..commitIndex[n] : Committed[n][k] = log[n][k]
  <2>1. log[n] \in Seq(1..MaxTerm) /\ commitIndex[n] \in Nat /\ commitIndex[n] <= Len(log[n])
    BY DEF Shape, LogsOK
  <2>2. Committed[n] = SubSeq(log[n], 1, commitIndex[n])
    BY DEF Committed, Prefix
  <2>3. /\ SubSeq(log[n], 1, commitIndex[n]) \in Seq(1..MaxTerm)
        /\ Len(SubSeq(log[n], 1, commitIndex[n])) = commitIndex[n]
        /\ \A k \in 1..commitIndex[n] :
             SubSeq(log[n], 1, commitIndex[n])[k] = log[n][k]
    BY <2>1, PrefixFacts
  <2> QED
    BY <2>1, <2>2, <2>3
<1>2. /\ Committed'[n] \in Seq(1..MaxTerm) /\ Len(Committed'[n]) = commitIndex'[n]
      /\ commitIndex'[n] \in Nat
      /\ \A k \in 1..commitIndex'[n] : Committed'[n][k] = log'[n][k]
  <2>1. log'[n] \in Seq(1..MaxTerm) /\ commitIndex'[n] \in Nat /\ commitIndex'[n] <= Len(log'[n])
    BY DEF Shape, LogsOK
  <2>2. Committed'[n] = SubSeq(log'[n], 1, commitIndex'[n])
    BY DEF Committed, Prefix
  <2>3. /\ SubSeq(log'[n], 1, commitIndex'[n]) \in Seq(1..MaxTerm)
        /\ Len(SubSeq(log'[n], 1, commitIndex'[n])) = commitIndex'[n]
        /\ \A k \in 1..commitIndex'[n] :
             SubSeq(log'[n], 1, commitIndex'[n])[k] = log'[n][k]
    BY <2>1, PrefixFacts
  <2> QED
    BY <2>1, <2>2, <2>3
<1>3. Agree(log[n], log'[n], commitIndex[n]) /\ commitIndex[n] <= commitIndex'[n]
  BY LogGrows, StepGrows DEF Durable
<1>4. \A k \in 1..commitIndex[n] : Committed'[n][k] = Committed[n][k]
  BY <1>1, <1>2, <1>3 DEF Agree
<1>5. ASSUME commitIndex'[n] = commitIndex[n] PROVE Committed'[n] = Committed[n]
  BY <1>1, <1>2, <1>4, <1>5, SeqEqual
<1> QED
  BY <1>1, <1>2, <1>3, <1>4, <1>5 DEF Replicated!IsPrefixOf

(* Until a window is hit, the committed sequences of two replicas are the   *)
(* same as far as both go.                                                  *)
OneSequence ==
    windows = {} =>
        \A n, m \in Node : \/ Replicated!IsPrefixOf(Committed[m], Committed[n])
                           \/ Replicated!IsPrefixOf(Committed[n], Committed[m])

LEMMA CommittedComparable == CommitInv => OneSequence
<1> SUFFICES ASSUME CommitInv, windows = {}, NEW n \in Node, NEW m \in Node
             PROVE  \/ Replicated!IsPrefixOf(Committed[m], Committed[n])
                    \/ Replicated!IsPrefixOf(Committed[n], Committed[m])
  BY DEF OneSequence
<1>0. \A p \in Node : /\ Len(Committed[p]) = commitIndex[p] /\ commitIndex[p] \in Nat
                      /\ \A k \in 1..commitIndex[p] : Committed[p][k] = log[p][k]
  <2> SUFFICES ASSUME NEW p \in Node
               PROVE  /\ Len(Committed[p]) = commitIndex[p] /\ commitIndex[p] \in Nat
                      /\ \A k \in 1..commitIndex[p] : Committed[p][k] = log[p][k]
    OBVIOUS
  <2>1. log[p] \in Seq(1..MaxTerm) /\ commitIndex[p] \in Nat /\ commitIndex[p] <= Len(log[p])
    BY DEF CommitInv, Shape, LogsOK
  <2>2. Committed[p] = SubSeq(log[p], 1, commitIndex[p])
    BY DEF Committed, Prefix
  <2> QED
    BY <2>1, <2>2, PrefixFacts
<1>1. /\ Len(Committed[n]) = commitIndex[n] /\ commitIndex[n] \in Nat
      /\ \A k \in 1..commitIndex[n] : Committed[n][k] = log[n][k]
  BY <1>0
<1>2. /\ Len(Committed[m]) = commitIndex[m] /\ commitIndex[m] \in Nat
      /\ \A k \in 1..commitIndex[m] : Committed[m][k] = log[m][k]
  BY <1>0
<1>3. \A k \in 1..Min(commitIndex[n], commitIndex[m]) : log[n][k] = log[m][k]
  BY SafeAgree DEF CommittedAgree
<1>4. CASE commitIndex[n] <= commitIndex[m]
  <2>1. Min(commitIndex[n], commitIndex[m]) = commitIndex[n]
    BY <1>4 DEF Min
  <2>2. \A k \in 1..commitIndex[n] : Committed[n][k] = Committed[m][k]
    BY <1>1, <1>2, <1>3, <1>4, <2>1
  <2> QED
    BY <1>1, <1>2, <1>4, <2>2 DEF Replicated!IsPrefixOf
<1>5. CASE commitIndex[m] < commitIndex[n]
  <2>1. Min(commitIndex[n], commitIndex[m]) = commitIndex[m]
    BY <1>1, <1>2, <1>5 DEF Min
  <2>2. \A k \in 1..commitIndex[m] : Committed[n][k] = Committed[m][k]
    BY <1>1, <1>2, <1>3, <1>5, <2>1
  <2> QED
    BY <1>1, <1>2, <1>5, <2>2 DEF Replicated!IsPrefixOf
<1> QED
  BY <1>1, <1>2, <1>4, <1>5

(* Every step is one of ReplicatedLog or changes nothing of it.             *)
LEMMA StepReplicates ==
    ASSUME CommitInv, CommitInv', OneSequence', [Next]_vars
    PROVE  Replicated!Next
<1>1. Shape /\ Shape' /\ windows \subseteq windows'
  BY StepGrows DEF CommitInv
<1>2. PICK n \in Node : \A m \in Node \ {n} : commitIndex'[m] = commitIndex[m]
  BY <1>1, OneCommits
<1>3. Committed'[n] \in Seq(1..MaxTerm) /\ Replicated!IsPrefixOf(Committed[n], Committed'[n])
  BY <1>1, CommittedGrows
<1>4. \A m \in Node \ {n} : Committed'[m] = Committed[m]
  BY <1>1, <1>2, CommittedGrows
<1>5. Committed' = [Committed EXCEPT ![n] = Committed'[n]]
  <2>1. Committed = [m \in Node |-> Committed[m]] /\ Committed' = [m \in Node |-> Committed'[m]]
    BY DEF Committed
  <2> QED
    BY <1>4, <2>1
<1>6. ASSUME windows' = {}
      PROVE  /\ windows = {}
             /\ \A m \in Node : \/ Replicated!IsPrefixOf(Committed[m], Committed'[n])
                                \/ Replicated!IsPrefixOf(Committed'[n], Committed[m])
  <2>1. windows = {}
    BY <1>1, <1>6
  <2>2. ASSUME NEW m \in Node, m # n
        PROVE  \/ Replicated!IsPrefixOf(Committed[m], Committed'[n])
               \/ Replicated!IsPrefixOf(Committed'[n], Committed[m])
    <3>1. \/ Replicated!IsPrefixOf(Committed'[m], Committed'[n])
          \/ Replicated!IsPrefixOf(Committed'[n], Committed'[m])
      BY <1>6 DEF OneSequence
    <3> QED
      BY <1>4, <2>2, <3>1
  <2> QED
    BY <1>3, <2>1, <2>2
<1>7. Replicated!Apply(n, Committed'[n])
  BY <1>3, <1>5, <1>6 DEF Replicated!Apply
<1> QED
  BY <1>7 DEF Replicated!Next

(* In an odd cluster log replication implements ReplicatedLog: what a       *)
(* replica has committed is never cut or replaced, and until a window of    *)
(* the code is hit the replicas commit one sequence.                        *)
THEOREM ReplicatesLog == ASSUME OddCluster PROVE Spec => ImplementsReplicatedLog
<1>1. Init => Replicated!Init
  BY EmptySeq DEF Init, Replicated!Init, Committed, Prefix
<1>2. CommitInv /\ CommitInv' /\ OneSequence' /\ [Next]_vars => [Replicated!Next]_Replicated!vars
  BY StepReplicates
<1> QED
  BY <1>1, <1>2, AlwaysCommitInv, CommittedComparable, PTL DEF Spec, ImplementsReplicatedLog, Replicated!Spec
==============================================================================
