------------------------ MODULE FollowerAppendProofs ------------------------
(***************************************************************************)
(* Theorems about FollowerAppend, for any number of handlers and any logs  *)
(* of leaders that match one another and have what earlier ones committed. *)
(***************************************************************************)
EXTENDS FollowerAppend, SequenceTheorems, FiniteSetTheorems, TLAPS

(* A set of naturals has a least element, a bounded one a greatest.         *)
LEMMA LeastOfNat ==
    ASSUME NEW S \in SUBSET Nat, S # {}
    PROVE  \E m \in S : \A k \in S : m <= k
<1> DEFINE R == {ss \in Nat \X Nat : ss[1] < ss[2]}
<1>1. IsWellFoundedOn(R, Nat)
  BY NatLessThanWellFounded DEF OpToRel
<1>2. S \subseteq Nat
  OBVIOUS
<1> HIDE DEF R
<1>3. PICK m \in S : \A k \in S : ~(<<k, m>> \in R)
  BY <1>1, <1>2, WFMin
<1>4. \A k \in S : <<k, m>> \in R <=> k < m
  BY <1>2 DEF R
<1>5. ASSUME NEW k \in S PROVE m <= k
  <2>1. k \in Nat /\ m \in Nat
    BY <1>2
  <2>2. ~(k < m)
    BY <1>3, <1>4
  <2> QED
    BY <2>1, <2>2
<1> QED
  BY <1>5

(***************************************************************************)
(* The logs of the leaders.                                                *)
(***************************************************************************)

LEMMA LeaderFacts ==
    /\ \A t \in Term :
         /\ t \in Nat /\ t >= 1
         /\ Len(LeaderLog[t]) \in Nat /\ DOMAIN LeaderLog[t] = 1..Len(LeaderLog[t])
         /\ \A i \in 1..Len(LeaderLog[t]) : LeaderLog[t][i] \in Term
         /\ LeaderCommit[t] \in Nat /\ LeaderCommit[t] <= Len(LeaderLog[t])
    /\ 0 \notin Term /\ Term \subseteq Nat
<1>1. ASSUME NEW t \in Term
      PROVE  /\ t \in Nat /\ t >= 1
             /\ Len(LeaderLog[t]) \in Nat /\ DOMAIN LeaderLog[t] = 1..Len(LeaderLog[t])
             /\ \A i \in 1..Len(LeaderLog[t]) : LeaderLog[t][i] \in Term
             /\ LeaderCommit[t] \in Nat /\ LeaderCommit[t] <= Len(LeaderLog[t])
  <2>1. LeaderLog[t] \in Seq(Term) /\ LeaderCommit[t] \in 0..Len(LeaderLog[t]) /\ t \in Nat \ {0}
    BY LeaderAssumption
  <2>2. Len(LeaderLog[t]) \in Nat /\ DOMAIN LeaderLog[t] = 1..Len(LeaderLog[t])
    BY <2>1, LenProperties
  <2>3. \A i \in 1..Len(LeaderLog[t]) : LeaderLog[t][i] \in Term
    BY <2>1, ElementOfSeq
  <2> QED
    BY <2>1, <2>2, <2>3
<1> QED
  BY <1>1, LeaderAssumption

(* Up to what one of them committed, the logs of two leaders agree.         *)
LEMMA CommittedShared ==
    ASSUME NEW t \in Term, NEW u \in Term, t <= u, NEW i \in 1..LeaderCommit[t]
    PROVE  i \in 1..Len(LeaderLog[u]) /\ LeaderLog[u][i] = LeaderLog[t][i]
<1>1. t \in Nat /\ u \in Nat
  BY LeaderFacts
<1>2. CASE t = u
  BY <1>2, LeaderFacts
<1>3. CASE t # u
  <2>1. t < u
    BY <1>1, <1>3
  <2>2. LeaderCommit[t] <= Len(LeaderLog[u]) /\ LeaderLog[u][i] = LeaderLog[t][i]
    BY <2>1, CompletenessAssumption
  <2> QED
    BY <2>2, LeaderFacts
<1> QED
  BY <1>2, <1>3

(* Every index that is not beyond a leader's log is in Index.               *)
LEMMA IndexFacts ==
    /\ Index \subseteq Nat \ {0}
    /\ \A t \in Term, i \in Nat : i <= Len(LeaderLog[t]) => i \in Index \cup {0}
BY LeaderFacts DEF Index

(***************************************************************************)
(* The log of the follower.                                                *)
(***************************************************************************)

LogEntry == [index : Index, term : Term]

DenseLog(s) == \A k \in DOMAIN s : s[k].index = k

(* The first n entries of s are those of the leader of t.                   *)
Matches(s, t, n) ==
    /\ n <= Len(s) /\ n <= Len(LeaderLog[t])
    /\ \A i \in 1..n : s[i].term = LeaderLog[t][i]

LEMMA LogFacts ==
    ASSUME log \in Seq(LogEntry)
    PROVE  /\ Len(log) \in Nat /\ DOMAIN log = 1..Len(log)
           /\ \A k \in 1..Len(log) : log[k].index \in Index /\ log[k].term \in Term
           /\ LastIndex \in Index \cup {0} /\ LastIndex \in Nat
<1>1. Len(log) \in Nat /\ DOMAIN log = 1..Len(log)
  BY LenProperties
<1>2. \A k \in 1..Len(log) : log[k].index \in Index /\ log[k].term \in Term
  <2>1. \A k \in 1..Len(log) : log[k] \in LogEntry
    BY ElementOfSeq
  <2> QED
    BY <2>1 DEF LogEntry
<1>3. LastIndex \in Index \cup {0}
  <2>1. CASE log = <<>>
    BY <2>1 DEF LastIndex
  <2>2. CASE log # <<>>
    <3>1. Len(log) # 0
      BY <2>2, EmptySeq
    <3>2. Len(log) \in 1..Len(log)
      BY <3>1, <1>1
    <3> QED
      BY <3>2, <1>2, <2>2 DEF LastIndex
  <2> QED
    BY <2>1, <2>2
<1> QED
  BY <1>1, <1>2, <1>3, IndexFacts

(* In a dense log GetEntry finds the entry at its position.                 *)
LEMMA DenseFacts ==
    ASSUME log \in Seq(LogEntry), DenseLog(log)
    PROVE  /\ LastIndex = Len(log)
           /\ \A i \in Nat :
                /\ i \in 1..Len(log) => GetEntry(i) = log[i].term /\ GetEntry(i) # 0
                /\ i \notin 1..Len(log) => GetEntry(i) = 0
<1>1. /\ Len(log) \in Nat /\ DOMAIN log = 1..Len(log)
      /\ \A k \in 1..Len(log) : log[k].index = k /\ log[k].term \in Term
  BY LogFacts DEF DenseLog
<1>2. LastIndex = Len(log)
  <2>1. CASE log = <<>>
    BY <2>1, EmptySeq DEF LastIndex
  <2>2. CASE log # <<>>
    <3>1. Len(log) # 0
      BY <2>2, EmptySeq
    <3>2. Len(log) \in 1..Len(log)
      BY <3>1, <1>1
    <3> QED
      BY <3>2, <1>1, <2>2 DEF LastIndex
  <2> QED
    BY <2>1, <2>2
<1>3. ASSUME NEW i \in Nat, i \in 1..Len(log) PROVE GetEntry(i) = log[i].term /\ GetEntry(i) # 0
  <2>1. Positions(i) = {i}
    BY <1>1, <1>3 DEF Positions
  <2> DEFINE at == CHOOSE k \in Positions(i) : \A j \in Positions(i) : k <= j
  <2>2. at = i
    BY <2>1
  <2>3. GetEntry(i) = log[at].term
    BY <2>1 DEF GetEntry
  <2> QED
    BY <2>2, <2>3, <1>1, <1>3, LeaderFacts
<1>4. ASSUME NEW i \in Nat, i \notin 1..Len(log) PROVE GetEntry(i) = 0
  <2>1. Positions(i) = {}
    BY <1>1, <1>4 DEF Positions
  <2> QED
    BY <2>1 DEF GetEntry
<1> QED
  BY <1>2, <1>3, <1>4

(* What TruncateFrom keeps is a prefix; of a dense log the entries below i. *)
LEMMA KeptFacts ==
    ASSUME log \in Seq(LogEntry), NEW i \in Nat
    PROVE  LET s == SubSeq(log, 1, Cardinality(Kept(i)))
           IN  /\ s \in Seq(LogEntry) /\ Len(s) <= Len(log)
               /\ \A k \in 1..Len(s) : s[k] = log[k]
               /\ DenseLog(log) /\ i \in 1..Len(log) => Len(s) = i - 1
<1>1. Len(log) \in Nat /\ DOMAIN log = 1..Len(log) /\ \A k \in 1..Len(log) : log[k].index \in Nat
  BY LogFacts, IndexFacts
<1> DEFINE S == {k \in 1..(Len(log) + 1) : k = Len(log) + 1 \/ log[k].index >= i}
<1>3. S \in SUBSET Nat /\ Len(log) + 1 \in S
  BY <1>1
<1>4. PICK m \in S : \A k \in S : m <= k
  BY <1>3, LeastOfNat
<1>5. m \in 1..(Len(log) + 1) /\ (m = Len(log) + 1 \/ log[m].index >= i)
  BY <1>4
<1>6. \A k \in 1..(m - 1) : k \in 1..Len(log) /\ log[k].index < i
  <2> SUFFICES ASSUME NEW k \in 1..(m - 1) PROVE k \in 1..Len(log) /\ log[k].index < i
    OBVIOUS
  <2>1. k \in 1..Len(log) /\ ~(m <= k)
    BY <1>5, <1>1
  <2>2. k \notin S
    BY <2>1, <1>4
  <2>3. ~(log[k].index >= i)
    BY <2>1, <2>2, <1>1
  <2> QED
    BY <2>1, <2>3, <1>1
<1>7. Kept(i) = 1..(m - 1)
  <2>1. ASSUME NEW k \in 1..(m - 1) PROVE k \in Kept(i)
    <3>1. k \in DOMAIN log
      BY <1>6, <1>1
    <3>2. \A j \in 1..k : j \in 1..(m - 1)
      BY <1>5, <1>1
    <3> QED
      BY <3>1, <3>2, <1>6 DEF Kept
  <2>2. ASSUME NEW k \in Kept(i) PROVE k \in 1..(m - 1)
    <3>1. k \in 1..Len(log) /\ \A j \in 1..k : log[j].index < i
      BY <1>1 DEF Kept
    <3> SUFFICES ASSUME ~(k <= m - 1) PROVE FALSE
      BY <3>1, <1>5, <1>1
    <3>2. m \in 1..k /\ m # Len(log) + 1
      BY <3>1, <1>5, <1>1
    <3>3. log[m].index < i /\ log[m].index >= i
      BY <3>1, <3>2, <1>5
    <3>4. log[m].index \in Nat
      BY <3>2, <1>5, <1>1
    <3> QED
      BY <3>3, <3>4
  <2> QED
    BY <2>1, <2>2
<1>8. Cardinality(Kept(i)) = m - 1
  <2>1. 1 \in Int /\ m - 1 \in Int /\ (1 > m - 1 => m = 1)
    BY <1>5, <1>1
  <2>2. Cardinality(1..(m - 1)) = IF 1 > m - 1 THEN 0 ELSE m - 1 - 1 + 1
    BY <2>1, FS_Interval
  <2> QED
    BY <2>1, <2>2, <1>7, <1>5, <1>1
<1>9. m - 1 \in Nat /\ m - 1 <= Len(log)
  BY <1>5, <1>1
<1> DEFINE s == SubSeq(log, 1, m - 1)
<1>10. s \in Seq(LogEntry) /\ Len(s) = m - 1 /\ \A k \in 1..(m - 1) : s[k] = log[k]
  <2>1. \A k \in 1..(m - 1) : log[k] \in LogEntry
    BY <1>6, ElementOfSeq
  <2>2. /\ s \in Seq(LogEntry)
        /\ Len(s) = IF 1 <= m - 1 THEN (m - 1) - 1 + 1 ELSE 0
        /\ \A k \in 1..((m - 1) - 1 + 1) : s[k] = log[1 + k - 1]
    BY <2>1, <1>9, SubSeqProperties
  <2> QED
    BY <2>2, <1>9
<1>11. ASSUME DenseLog(log), i \in 1..Len(log) PROVE m = i
  <2>1. \A k \in 1..Len(log) : log[k].index = k
    BY <1>1, <1>11 DEF DenseLog
  <2>2. i \in S
    BY <2>1, <1>11, <1>1
  <2>3. m <= i
    BY <2>2, <1>4
  <2>4. m \in 1..Len(log)
    BY <2>3, <1>5, <1>11, <1>1
  <2> QED
    BY <2>1, <2>3, <2>4, <1>5, <1>1, <1>11
<1> QED
  BY <1>8, <1>9, <1>10, <1>11

(***************************************************************************)
(* The inductive invariant.                                                *)
(***************************************************************************)

(* A handler that runs, by its place in the loop.                           *)
Busy ==
    [pc : {"check", "look", "truncate", "append", "commit", "publish"},
     term : Term, next : Nat \ {0}, last : Nat \ {0}, commit : Nat]

BusyOK(r, now) ==
    /\ r \in Busy
    /\ r.term <= now /\ r.last <= Len(LeaderLog[r.term])
    /\ r.commit <= LeaderCommit[r.term]
    /\ r.next <= r.last + 1
    /\ r.pc \in {"truncate", "append"} => r.next <= r.last
    /\ r.pc \in {"commit", "publish"} => r.next = r.last + 1

Shape ==
    /\ currentTerm \in Term \cup {0}
    /\ log \in Seq(LogEntry)
    /\ commitIndex \in Index \cup {0} /\ nodeCommit \in Index \cup {0}
    /\ acked \in Index \cup {0}
    /\ DOMAIN handler = Handler
    /\ \A h \in Handler : handler[h] = Idle \/ BusyOK(handler[h], currentTerm)
    /\ windows \subseteq {"stale", "late", "blind", "crossed"}

Clean == "stale" \notin windows /\ "late" \notin windows

(* Two logs that agree on an entry agree on all before it.                  *)
LogMatching(s) ==
    \A t \in Term : \A k \in 1..Len(s) :
        k <= Len(LeaderLog[t]) /\ s[k].term = LeaderLog[t][k] => Matches(s, t, k)

(* What a handler has seen of its request is in the log: all of it for the  *)
(* leader of the current term, what is committed for an earlier one.        *)
Seeing(r, now, s) ==
    /\ r.term = now => Matches(s, r.term, r.next - 1)
    /\ \A n \in Nat : n <= r.next - 1 /\ n <= LeaderCommit[r.term] => Matches(s, r.term, n)

(* And what it is about to do fits, as nobody else has changed the log.     *)
Acting(r, now, s) ==
    /\ r.pc = "append" /\ r.term = now => r.next = Len(s) + 1
    /\ r.pc = "truncate" /\ r.term = now =>
         r.next <= Len(s) /\ s[r.next].term # LeaderLog[r.term][r.next]

Sound(r, now, s) ==
    r.pc \notin {"idle", "check"} => Seeing(r, now, s) /\ Acting(r, now, s)

AckHeld(i, now, s) == i # 0 => now \in Term /\ Matches(s, now, i)

Tidy ==
    Clean =>
        /\ DenseLog(log) /\ LogMatching(log)
        /\ AckHeld(acked, currentTerm, log)
        /\ \A h \in Handler : Sound(handler[h], currentTerm, log)

(* Entry i is in the log, and a leader has committed it.                    *)
Settled(s, i) ==
    \E t \in Term : i <= LeaderCommit[t] /\ i <= Len(s) /\ s[i].term = LeaderLog[t][i]

CommitsSettled ==
    Clean /\ "blind" \notin windows =>
        /\ \A i \in 1..commitIndex : Settled(log, i)
        /\ \A h \in Handler : handler[h].pc = "commit" => handler[h].commit <= handler[h].last

(* Of the two commit indexes the log's is ahead only while a handler is     *)
(* about to publish it.                                                     *)
CommitsOrdered ==
    "crossed" \notin windows =>
        /\ nodeCommit <= commitIndex
        /\ nodeCommit # commitIndex => \E h \in Handler : handler[h].pc = "publish"
        /\ \A h \in Handler : handler[h].pc = "commit" => handler[h].commit > commitIndex

IndInv == Shape /\ Tidy /\ CommitsSettled /\ CommitsOrdered

(***************************************************************************)
(* What steps have in common.                                              *)
(***************************************************************************)

LEMMA IdleFacts == Idle.pc = "idle"
BY DEF Idle

(* A handler that is somewhere in its loop, and one that goes on.           *)
LEMMA BusyFacts ==
    ASSUME Shape, NEW h \in Handler, handler[h].pc # "idle"
    PROVE  BusyOK(handler[h], currentTerm)
BY IdleFacts DEF Shape

LEMMA FieldFacts ==
    ASSUME NEW r, NEW now, BusyOK(r, now)
    PROVE  /\ r \in Busy /\ r.term \in Term /\ r.term \in Nat
           /\ r.next \in Nat /\ r.next >= 1 /\ r.last \in Nat /\ r.last >= 1 /\ r.commit \in Nat
           /\ r.pc \in {"check", "look", "truncate", "append", "commit", "publish"}
           /\ r.last <= Len(LeaderLog[r.term]) /\ r.next <= r.last + 1
<1>1. r \in Busy /\ r.last <= Len(LeaderLog[r.term]) /\ r.next <= r.last + 1
  BY DEF BusyOK
<1>2. r.term \in Term /\ r.next \in Nat \ {0} /\ r.last \in Nat \ {0} /\ r.commit \in Nat
      /\ r.pc \in {"check", "look", "truncate", "append", "commit", "publish"}
  BY <1>1 DEF Busy
<1>3. r.term \in Nat
  BY <1>2, LeaderFacts
<1>4. r.next >= 1 /\ r.last >= 1
  BY <1>2
<1> QED
  BY <1>1, <1>2, <1>3, <1>4

LEMMA GotoFacts ==
    ASSUME Shape, NEW h \in Handler, NEW r, handler' = [handler EXCEPT ![h] = r]
    PROVE  /\ DOMAIN handler' = Handler /\ handler'[h] = r
           /\ \A g \in Handler \ {h} : handler'[g] = handler[g]
BY DEF Shape

LEMMA NowFacts ==
    ASSUME Shape
    PROVE  /\ currentTerm \in Nat /\ commitIndex \in Nat /\ nodeCommit \in Nat /\ acked \in Nat
           /\ log \in Seq(LogEntry) /\ Len(log) \in Nat
BY LeaderFacts, IndexFacts, LogFacts DEF Shape

LEMMA AdoptFacts ==
    ASSUME Shape, NEW t \in Term, Adopt(t)
    PROVE  /\ currentTerm' \in Term /\ currentTerm' = t
           /\ currentTerm <= currentTerm' /\ currentTerm' \in Nat
           /\ acked' \in Index \cup {0}
           /\ acked' = 0 \/ (currentTerm' = currentTerm /\ acked' = acked)
<1>1. currentTerm \in Nat /\ t \in Nat
  BY NowFacts, LeaderFacts
<1> QED
  BY <1>1 DEF Adopt, Shape

LEMMA BusyLater ==
    ASSUME NEW r, NEW now \in Nat, NEW later \in Nat, now <= later, BusyOK(r, now)
    PROVE  BusyOK(r, later)
<1>1. r.term \in Nat
  BY FieldFacts
<1> QED
  BY <1>1 DEF BusyOK

(* The shape after a step.                                                  *)
LEMMA ShapeStep ==
    ASSUME Shape, currentTerm' \in Term \cup {0}, currentTerm <= currentTerm',
           log' \in Seq(LogEntry), commitIndex' \in Index \cup {0},
           nodeCommit' \in Index \cup {0}, acked' \in Index \cup {0},
           windows' \subseteq {"stale", "late", "blind", "crossed"},
           DOMAIN handler' = Handler,
           \A g \in Handler : \/ handler'[g] = handler[g] \/ handler'[g] = Idle
                              \/ BusyOK(handler'[g], currentTerm')
    PROVE  Shape'
<1>1. currentTerm \in Nat /\ currentTerm' \in Nat
  BY LeaderFacts DEF Shape
<1>2. ASSUME NEW g \in Handler PROVE handler'[g] = Idle \/ BusyOK(handler'[g], currentTerm')
  <2>1. CASE handler'[g] = handler[g]
    <3>1. handler[g] = Idle \/ BusyOK(handler[g], currentTerm)
      BY DEF Shape
    <3>2. BusyOK(handler[g], currentTerm) => BusyOK(handler[g], currentTerm')
      BY <1>1, BusyLater
    <3> QED
      BY <2>1, <3>1, <3>2
  <2> QED
    BY <2>1
<1> QED
  BY <1>2 DEF Shape

LEMMA MatchesLess ==
    ASSUME NEW s, Len(s) \in Nat, NEW t \in Term, NEW n \in Nat, NEW k \in Nat, k <= n,
           Matches(s, t, n)
    PROVE  Matches(s, t, k)
<1>1. n <= Len(s) /\ n <= Len(LeaderLog[t]) /\ \A i \in 1..n : s[i].term = LeaderLog[t][i]
  BY DEF Matches
<1>2. k <= Len(s) /\ k <= Len(LeaderLog[t]) /\ \A i \in 1..k : i \in 1..n
  BY <1>1, LeaderFacts
<1> QED
  BY <1>1, <1>2 DEF Matches

(* A handler that matches all it has seen.                                  *)
LEMMA SeeingAll ==
    ASSUME NEW s, Len(s) \in Nat, NEW r, NEW now, r.term \in Term, r.next \in Nat, r.next >= 1,
           Matches(s, r.term, r.next - 1)
    PROVE  Seeing(r, now, s)
<1>1. r.next - 1 \in Nat
  OBVIOUS
<1>2. \A n \in Nat : n <= r.next - 1 => Matches(s, r.term, n)
  BY <1>1, MatchesLess
<1> QED
  BY <1>2 DEF Seeing

(* In a later term less is claimed.                                         *)
LEMMA SoundLater ==
    ASSUME NEW r, NEW now \in Nat, NEW later \in Nat, now <= later, NEW s,
           r.pc # "idle" => r.term \in Nat /\ r.term <= now,
           Sound(r, now, s)
    PROVE  Sound(r, later, s)
<1> SUFFICES ASSUME r.pc \notin {"idle", "check"}
             PROVE  Seeing(r, later, s) /\ Acting(r, later, s)
  BY DEF Sound
<1>1. r.term = later => r.term = now
  OBVIOUS
<1>2. Seeing(r, now, s) /\ Acting(r, now, s)
  BY DEF Sound
<1> QED
  BY <1>1, <1>2 DEF Seeing, Acting

(* A step that leaves the log alone.                                        *)
LEMMA TidyStep ==
    ASSUME IndInv, log' = log, windows \subseteq windows',
           currentTerm' \in Nat, currentTerm <= currentTerm',
           \/ acked' = 0
           \/ currentTerm' = currentTerm /\ acked' = acked
           \/ Clean => AckHeld(acked', currentTerm', log),
           \A g \in Handler :
              \/ handler'[g] = handler[g] \/ handler'[g].pc \in {"idle", "check"}
              \/ Clean => Sound(handler'[g], currentTerm', log)
    PROVE  Tidy'
<1> SUFFICES ASSUME Clean' PROVE
        /\ DenseLog(log) /\ LogMatching(log)
        /\ AckHeld(acked', currentTerm', log)
        /\ \A h \in Handler : Sound(handler'[h], currentTerm', log)
  BY DEF Tidy
<1>1. Clean /\ Shape /\ Tidy
  BY DEF Clean, IndInv
<1>2. /\ DenseLog(log) /\ LogMatching(log) /\ AckHeld(acked, currentTerm, log)
      /\ \A h \in Handler : Sound(handler[h], currentTerm, log)
  BY <1>1 DEF Tidy
<1>3. AckHeld(acked', currentTerm', log)
  <2>1. CASE acked' = 0
    BY <2>1 DEF AckHeld
  <2>2. CASE currentTerm' = currentTerm /\ acked' = acked
    BY <2>2, <1>2
  <2> QED
    BY <2>1, <2>2, <1>1
<1>4. ASSUME NEW h \in Handler PROVE Sound(handler'[h], currentTerm', log)
  <2>1. CASE handler'[h] = handler[h]
    <3>1. handler[h].pc # "idle" => handler[h].term \in Nat /\ handler[h].term <= currentTerm
      <4> SUFFICES ASSUME handler[h].pc # "idle"
                   PROVE  handler[h].term \in Nat /\ handler[h].term <= currentTerm
        OBVIOUS
      <4>1. BusyOK(handler[h], currentTerm)
        BY <1>1, BusyFacts
      <4> QED
        BY <4>1, FieldFacts DEF BusyOK
    <3>2. currentTerm \in Nat
      BY <1>1, NowFacts
    <3>3. Sound(handler[h], currentTerm', log)
      BY <3>1, <3>2, <1>2, SoundLater
    <3> QED
      BY <3>3, <2>1
  <2>2. CASE handler'[h].pc \in {"idle", "check"}
    BY <2>2 DEF Sound
  <2> QED
    BY <2>1, <2>2, <1>1
<1> QED
  BY <1>2, <1>3, <1>4

(* A step that leaves the log and its commit index alone.                   *)
LEMMA SettledStep ==
    ASSUME IndInv, log' = log, commitIndex' = commitIndex, windows \subseteq windows',
           \A g \in Handler :
              \/ handler'[g] = handler[g] \/ handler'[g].pc # "commit"
              \/ "blind" \notin windows' => handler'[g].commit <= handler'[g].last
    PROVE  CommitsSettled'
<1> SUFFICES ASSUME Clean', "blind" \notin windows'
             PROVE  /\ \A i \in 1..commitIndex : Settled(log, i)
                    /\ \A h \in Handler :
                         handler'[h].pc = "commit" => handler'[h].commit <= handler'[h].last
  BY DEF CommitsSettled
<1>1. /\ \A i \in 1..commitIndex : Settled(log, i)
      /\ \A h \in Handler : handler[h].pc = "commit" => handler[h].commit <= handler[h].last
  BY DEF IndInv, CommitsSettled, Clean
<1> QED
  BY <1>1

(* A step that leaves both commit indexes alone.                            *)
LEMMA OrderedStep ==
    ASSUME IndInv, commitIndex' = commitIndex, nodeCommit' = nodeCommit,
           windows \subseteq windows',
           \A g \in Handler :
              \/ handler'[g] = handler[g]
              \/ /\ handler[g].pc # "publish"
                 /\ handler'[g].pc = "commit" => handler'[g].commit > commitIndex
    PROVE  CommitsOrdered'
<1> SUFFICES ASSUME "crossed" \notin windows'
             PROVE  /\ nodeCommit <= commitIndex
                    /\ nodeCommit # commitIndex => \E h \in Handler : handler'[h].pc = "publish"
                    /\ \A h \in Handler : handler'[h].pc = "commit" => handler'[h].commit > commitIndex
  BY DEF CommitsOrdered
<1>1. /\ nodeCommit <= commitIndex
      /\ nodeCommit # commitIndex => \E h \in Handler : handler[h].pc = "publish"
      /\ \A h \in Handler : handler[h].pc = "commit" => handler[h].commit > commitIndex
  BY DEF IndInv, CommitsOrdered
<1>2. nodeCommit # commitIndex => \E h \in Handler : handler'[h].pc = "publish"
  BY <1>1
<1> QED
  BY <1>1, <1>2

(***************************************************************************)
(* The steps.                                                              *)
(***************************************************************************)

LEMMA InitInv == Init => IndInv
<1> SUFFICES ASSUME Init PROVE IndInv
  OBVIOUS
<1>1. log = <<>> /\ log \in Seq(LogEntry) /\ Len(log) = 0 /\ DOMAIN log = {}
  BY EmptySeq DEF Init
<1>2. Shape
  BY <1>1 DEF Init, Shape
<1>3. \A h \in Handler : handler[h].pc = "idle"
  BY IdleFacts DEF Init
<1>4. Tidy
  BY <1>1, <1>3 DEF Init, Tidy, DenseLog, LogMatching, AckHeld, Sound
<1>5. CommitsSettled /\ CommitsOrdered
  BY <1>3 DEF Init, CommitsSettled, CommitsOrdered
<1> QED
  BY <1>2, <1>4, <1>5 DEF IndInv

LEMMA AcceptStep ==
    ASSUME IndInv, NEW h \in Handler, NEW t \in Term, NEW last \in DOMAIN LeaderLog[t],
           NEW prev \in 0..(last - 1), NEW commit \in 0..LeaderCommit[t],
           Accept(h, t, prev, last, commit)
    PROVE  IndInv'
<1> DEFINE r == [pc |-> "check", term |-> t, next |-> prev + 1, last |-> last, commit |-> commit]
<1>1. /\ Shape /\ handler[h] = Idle /\ Adopt(t) /\ handler' = [handler EXCEPT ![h] = r]
      /\ log' = log /\ commitIndex' = commitIndex /\ nodeCommit' = nodeCommit /\ windows' = windows
  BY DEF IndInv, Accept, Goto
<1>2. /\ currentTerm' \in Term /\ currentTerm' = t
      /\ currentTerm <= currentTerm' /\ currentTerm' \in Nat
      /\ acked' \in Index \cup {0}
      /\ acked' = 0 \/ (currentTerm' = currentTerm /\ acked' = acked)
  BY <1>1, AdoptFacts
<1>3. BusyOK(r, currentTerm') /\ r.pc = "check"
  <2>1. last \in Nat \ {0} /\ last <= Len(LeaderLog[t]) /\ prev + 1 \in Nat \ {0} /\ prev + 1 <= last
    BY LeaderFacts
  <2>2. commit \in Nat /\ commit <= LeaderCommit[t]
    BY LeaderFacts
  <2> QED
    BY <2>1, <2>2, <1>2 DEF BusyOK, Busy
<1> HIDE DEF r
<1>4. /\ DOMAIN handler' = Handler /\ handler'[h] = r
      /\ \A g \in Handler \ {h} : handler'[g] = handler[g]
  BY <1>1, GotoFacts
<1>5. Shape'
  <2>1. \A g \in Handler : \/ handler'[g] = handler[g] \/ handler'[g] = Idle
                           \/ BusyOK(handler'[g], currentTerm')
    BY <1>3, <1>4
  <2> QED
    BY <2>1, <1>1, <1>2, <1>4, ShapeStep DEF Shape
<1>6. Tidy'
  <2>1. \A g \in Handler : handler'[g] = handler[g] \/ handler'[g].pc \in {"idle", "check"}
    BY <1>3, <1>4
  <2> QED
    BY <2>1, <1>1, <1>2, TidyStep
<1>7. CommitsSettled'
  <2>1. \A g \in Handler : handler'[g] = handler[g] \/ handler'[g].pc # "commit"
    BY <1>3, <1>4
  <2> QED
    BY <2>1, <1>1, SettledStep
<1>8. CommitsOrdered'
  <2>1. \A g \in Handler :
              \/ handler'[g] = handler[g]
              \/ handler[g].pc # "publish" /\ handler'[g].pc # "commit"
    BY <1>1, <1>3, <1>4, IdleFacts
  <2> QED
    BY <2>1, <1>1, OrderedStep
<1> QED
  BY <1>5, <1>6, <1>7, <1>8 DEF IndInv

(* A handler goes on with another record, the log and the commit indexes    *)
(* stay.                                                                    *)
LEMMA GoStep ==
    ASSUME IndInv, NEW h \in Handler, NEW q, handler' = [handler EXCEPT ![h] = q],
           handler[h].pc # "publish",
           currentTerm' = currentTerm, log' = log,
           commitIndex' = commitIndex, nodeCommit' = nodeCommit,
           windows \subseteq windows', windows' \subseteq {"stale", "late", "blind", "crossed"},
           acked' \in Index \cup {0},
           acked' = acked \/ (Clean => AckHeld(acked', currentTerm, log)),
           \/ q = Idle
           \/ /\ BusyOK(q, currentTerm)
              /\ Clean => Sound(q, currentTerm, log)
              /\ q.pc = "commit" => /\ q.commit > commitIndex
                                    /\ "blind" \notin windows' => q.commit <= q.last
    PROVE  IndInv'
<1>1. Shape /\ currentTerm \in Nat
  BY NowFacts DEF IndInv
<1>2. /\ DOMAIN handler' = Handler /\ handler'[h] = q
      /\ \A g \in Handler \ {h} : handler'[g] = handler[g]
  BY <1>1, GotoFacts
<1>3. q.pc = "idle" \/ q # Idle
  BY IdleFacts
<1>4. Shape'
  <2>1. \A g \in Handler : \/ handler'[g] = handler[g] \/ handler'[g] = Idle
                           \/ BusyOK(handler'[g], currentTerm')
    BY <1>2
  <2>2. currentTerm' \in Term \cup {0} /\ currentTerm <= currentTerm'
    BY <1>1 DEF Shape
  <2>3. log' \in Seq(LogEntry) /\ commitIndex' \in Index \cup {0} /\ nodeCommit' \in Index \cup {0}
    BY <1>1 DEF Shape
  <2> QED
    BY <2>1, <2>2, <2>3, <1>1, <1>2, ShapeStep
<1>5. Tidy'
  <2>1. \A g \in Handler :
              \/ handler'[g] = handler[g] \/ handler'[g].pc \in {"idle", "check"}
              \/ Clean => Sound(handler'[g], currentTerm', log)
    BY <1>2, <1>3
  <2>2. currentTerm' \in Nat /\ currentTerm <= currentTerm'
    BY <1>1
  <2>3. \/ acked' = 0
        \/ currentTerm' = currentTerm /\ acked' = acked
        \/ Clean => AckHeld(acked', currentTerm', log)
    OBVIOUS
  <2> QED
    BY <2>1, <2>2, <2>3, TidyStep
<1>6. CommitsSettled'
  <2>1. \A g \in Handler :
              \/ handler'[g] = handler[g] \/ handler'[g].pc # "commit"
              \/ "blind" \notin windows' => handler'[g].commit <= handler'[g].last
    BY <1>2, <1>3
  <2> QED
    BY <2>1, SettledStep
<1>7. CommitsOrdered'
  <2>1. \A g \in Handler :
              \/ handler'[g] = handler[g]
              \/ /\ handler[g].pc # "publish"
                 /\ handler'[g].pc = "commit" => handler'[g].commit > commitIndex
    BY <1>2, <1>3
  <2> QED
    BY <2>1, OrderedStep
<1> QED
  BY <1>4, <1>5, <1>6, <1>7 DEF IndInv

(* The fields of a record with another place in the loop.                   *)
LEMMA PlaceFacts ==
    ASSUME NEW r, NEW now, BusyOK(r, now),
           NEW p \in {"look", "truncate", "append", "publish"},
           p \in {"truncate", "append"} => r.next <= r.last,
           p = "publish" => r.next = r.last + 1
    PROVE  LET q == [r EXCEPT !.pc = p]
           IN  /\ BusyOK(q, now) /\ q.pc = p /\ q.term = r.term /\ q.next = r.next
               /\ q.last = r.last /\ q.commit = r.commit
<1> DEFINE q == [r EXCEPT !.pc = p]
<1>1. r \in Busy /\ r.term <= now /\ r.last <= Len(LeaderLog[r.term])
      /\ r.commit <= LeaderCommit[r.term] /\ r.next <= r.last + 1
  BY DEF BusyOK
<1>2. /\ q \in Busy /\ q.pc = p /\ q.term = r.term /\ q.next = r.next
      /\ q.last = r.last /\ q.commit = r.commit
  BY <1>1 DEF Busy
<1> HIDE DEF q
<1>3. BusyOK(q, now)
  BY <1>1, <1>2 DEF BusyOK
<1> QED
  BY <1>2, <1>3 DEF q

(* A dense log that matches LeaderLog[t] at n matches up to n.              *)
LEMMA FoundMatches ==
    ASSUME log \in Seq(LogEntry), DenseLog(log), LogMatching(log), NEW t \in Term,
           NEW n \in 1..Len(LeaderLog[t]), GetEntry(n) = LeaderLog[t][n]
    PROVE  Matches(log, t, n)
<1>1. n \in Nat /\ LeaderLog[t][n] # 0 /\ n <= Len(LeaderLog[t])
  BY LeaderFacts
<1>2. n \in 1..Len(log) /\ log[n].term = LeaderLog[t][n]
  BY <1>1, DenseFacts
<1> QED
  BY <1>1, <1>2 DEF LogMatching

LEMMA CheckStep ==
    ASSUME IndInv, NEW h \in Handler, Check(h)
    PROVE  IndInv'
<1>1. PICK r : r = handler[h]
  OBVIOUS
<1>2. /\ Shape /\ Tidy /\ r.pc = "check"
      /\ handler' = [handler EXCEPT ![h] = IF PrevMatches(r) THEN [r EXCEPT !.pc = "look"] ELSE Idle]
      /\ currentTerm' = currentTerm /\ log' = log /\ commitIndex' = commitIndex
      /\ nodeCommit' = nodeCommit /\ acked' = acked /\ windows' = windows
  BY <1>1 DEF IndInv, Check, Goto
<1>3. windows' \subseteq {"stale", "late", "blind", "crossed"} /\ acked' \in Index \cup {0}
  BY <1>2 DEF Shape
<1>4. CASE ~PrevMatches(r)
  <2>1. handler' = [handler EXCEPT ![h] = Idle]
    BY <1>2, <1>4
  <2> QED
    BY <2>1, <1>1, <1>2, <1>3, GoStep
<1>5. CASE PrevMatches(r)
  <2>1. PICK q : q = [r EXCEPT !.pc = "look"]
    OBVIOUS
  <2>2. handler' = [handler EXCEPT ![h] = q]
    BY <1>2, <1>5, <2>1
  <2>3. BusyOK(r, currentTerm)
    BY <1>1, <1>2, BusyFacts
  <2>4. BusyOK(q, currentTerm) /\ q.pc = "look" /\ q.term = r.term /\ q.next = r.next
    BY <2>1, <2>3, PlaceFacts
  <2>5. /\ r.term \in Term /\ r.next \in Nat /\ r.next >= 1 /\ r.last \in Nat
        /\ r.last <= Len(LeaderLog[r.term]) /\ r.next <= r.last + 1
    BY <2>3, FieldFacts
  <2>6. ASSUME Clean PROVE Sound(q, currentTerm, log)
    <3>1. log \in Seq(LogEntry) /\ Len(log) \in Nat /\ DenseLog(log) /\ LogMatching(log)
      BY <2>6, <1>2, NowFacts DEF Tidy
    <3>2. Matches(log, r.term, r.next - 1)
      <4>1. CASE r.next = 1
        BY <4>1, <3>1, <2>5, LeaderFacts DEF Matches
      <4>2. CASE r.next # 1
        <5>1. GetEntry(r.next - 1) = LeaderLog[r.term][r.next - 1]
          BY <1>5, <4>2 DEF PrevMatches
        <5>2. r.next - 1 \in 1..Len(LeaderLog[r.term])
          BY <4>2, <2>5, LeaderFacts
        <5> QED
          BY <5>1, <5>2, <3>1, <2>5, FoundMatches
      <4> QED
        BY <4>1, <4>2
    <3>3. Matches(log, q.term, q.next - 1) /\ q.term \in Term /\ q.next \in Nat /\ q.next >= 1
      BY <3>2, <2>4, <2>5
    <3>4. Seeing(q, currentTerm, log)
      BY <3>1, <3>3, SeeingAll
    <3> QED
      BY <3>4, <2>4 DEF Sound, Acting
  <2> QED
    BY <2>2, <2>4, <2>6, <1>1, <1>2, <1>3, GoStep
<1> QED
  BY <1>4, <1>5

LEMMA LookStep ==
    ASSUME IndInv, NEW h \in Handler, Look(h)
    PROVE  IndInv'
<1>1. PICK r : r = handler[h]
  OBVIOUS
<1>2. /\ Shape /\ Tidy /\ r.pc = "look" /\ r.next <= r.last
      /\ currentTerm' = currentTerm /\ log' = log /\ commitIndex' = commitIndex
      /\ nodeCommit' = nodeCommit /\ acked' = acked /\ windows' = windows
  BY <1>1 DEF IndInv, Look
<1>3. windows' \subseteq {"stale", "late", "blind", "crossed"} /\ acked' \in Index \cup {0}
  BY <1>2 DEF Shape
<1>4. BusyOK(r, currentTerm)
  BY <1>1, <1>2, BusyFacts
<1>5. /\ r \in Busy /\ r.term \in Term /\ r.next \in Nat /\ r.next >= 1 /\ r.last \in Nat
      /\ r.last <= Len(LeaderLog[r.term]) /\ r.next <= r.last + 1
  BY <1>4, FieldFacts
<1>6. r.next \in 1..Len(LeaderLog[r.term]) /\ LeaderLog[r.term][r.next] \in Term
  <2>1. Len(LeaderLog[r.term]) \in Nat
    BY <1>5, LeaderFacts
  <2>2. r.next \in 1..Len(LeaderLog[r.term])
    BY <2>1, <1>2, <1>5
  <2> QED
    BY <2>2, <1>5, LeaderFacts
<1>7. ASSUME Clean
      PROVE  /\ log \in Seq(LogEntry) /\ Len(log) \in Nat /\ DenseLog(log) /\ LogMatching(log)
             /\ Seeing(r, currentTerm, log)
  <2>1. Sound(r, currentTerm, log) /\ DenseLog(log) /\ LogMatching(log)
    BY <1>1, <1>2, <1>7 DEF Tidy
  <2> QED
    BY <2>1, <1>2, NowFacts DEF Sound
<1>8. PICK found : found = Seen(r.term, r.next)
  OBVIOUS
<1>9. handler' = [handler EXCEPT ![h] =
                    CASE found = "same"     -> [r EXCEPT !.next = @ + 1]
                      [] found = "conflict" -> [r EXCEPT !.pc = "truncate"]
                      [] found = "missing"  -> [r EXCEPT !.pc = "append"]]
  BY <1>1, <1>8 DEF Look, Goto
<1>10. CASE found = "same"
  <2>1. PICK q : q = [r EXCEPT !.next = r.next + 1]
    OBVIOUS
  <2>2. handler' = [handler EXCEPT ![h] = q]
    BY <1>9, <1>10, <2>1
  <2>3. q \in Busy /\ q.pc = "look" /\ q.term = r.term /\ q.next = r.next + 1
        /\ q.last = r.last /\ q.commit = r.commit
    BY <2>1, <1>2, <1>5 DEF Busy
  <2>4. BusyOK(q, currentTerm)
    <3>1. r.term <= currentTerm /\ r.commit <= LeaderCommit[r.term]
      BY <1>4 DEF BusyOK
    <3> QED
      BY <3>1, <2>3, <1>2, <1>5 DEF BusyOK
  <2>5. ASSUME Clean PROVE Sound(q, currentTerm, log)
    <3>1. GetEntry(r.next) = LeaderLog[r.term][r.next]
      BY <1>8, <1>10 DEF Seen
    <3>2. Matches(log, r.term, r.next)
      BY <3>1, <1>5, <1>6, <1>7, <2>5, FoundMatches
    <3>3. Matches(log, q.term, q.next - 1) /\ q.term \in Term /\ q.next \in Nat /\ q.next >= 1
      <4>1. q.next - 1 = r.next
        BY <2>3, <1>5
      <4> QED
        BY <4>1, <3>2, <2>3, <1>5
    <3>4. Seeing(q, currentTerm, log)
      BY <3>3, <1>7, <2>5, SeeingAll
    <3> QED
      BY <3>4, <2>3 DEF Sound, Acting
  <2> QED
    BY <2>2, <2>3, <2>4, <2>5, <1>1, <1>2, <1>3, GoStep
<1>11. CASE found = "conflict"
  <2>1. PICK q : q = [r EXCEPT !.pc = "truncate"]
    OBVIOUS
  <2>2. handler' = [handler EXCEPT ![h] = q]
    BY <1>9, <1>11, <2>1
  <2>3. BusyOK(q, currentTerm) /\ q.pc = "truncate" /\ q.term = r.term /\ q.next = r.next
    BY <2>1, <1>2, <1>4, PlaceFacts
  <2>4. ASSUME Clean PROVE Sound(q, currentTerm, log)
    <3>1. GetEntry(r.next) # 0 /\ GetEntry(r.next) # LeaderLog[r.term][r.next]
      BY <1>8, <1>11 DEF Seen
    <3>2. r.next \in 1..Len(log) /\ log[r.next].term # LeaderLog[r.term][r.next]
      BY <3>1, <1>5, <1>7, <2>4, DenseFacts
    <3>3. Seeing(q, currentTerm, log)
      BY <1>7, <2>3, <2>4 DEF Seeing
    <3>4. Acting(q, currentTerm, log)
      BY <3>2, <2>3, <1>7, <2>4 DEF Acting
    <3> QED
      BY <3>3, <3>4 DEF Sound
  <2> QED
    BY <2>2, <2>3, <2>4, <1>1, <1>2, <1>3, GoStep
<1>12. CASE found = "missing"
  <2>1. PICK q : q = [r EXCEPT !.pc = "append"]
    OBVIOUS
  <2>2. handler' = [handler EXCEPT ![h] = q]
    BY <1>9, <1>12, <2>1
  <2>3. BusyOK(q, currentTerm) /\ q.pc = "append" /\ q.term = r.term /\ q.next = r.next
    BY <2>1, <1>2, <1>4, PlaceFacts
  <2>4. ASSUME Clean PROVE Sound(q, currentTerm, log)
    <3>1. GetEntry(r.next) = 0
      BY <1>8, <1>12 DEF Seen
    <3>2. r.next \notin 1..Len(log)
      BY <3>1, <1>5, <1>7, <2>4, DenseFacts
    <3>3. Seeing(q, currentTerm, log)
      BY <1>7, <2>3, <2>4 DEF Seeing
    <3>4. Acting(q, currentTerm, log)
      <4>1. ASSUME q.term = currentTerm PROVE q.next = Len(log) + 1
        <5>1. r.next - 1 <= Len(log)
          BY <4>1, <2>3, <2>4, <1>7 DEF Seeing, Matches
        <5> QED
          BY <5>1, <3>2, <2>3, <1>5, <1>7, <2>4
      <4> QED
        BY <4>1, <2>3 DEF Acting
    <3> QED
      BY <3>3, <3>4 DEF Sound
  <2> QED
    BY <2>2, <2>3, <2>4, <1>1, <1>2, <1>3, GoStep
<1> QED
  BY <1>8, <1>10, <1>11, <1>12 DEF Seen

(* Of a prefix, and of a longer log, what matches still matches.            *)
LEMMA MatchesPrefix ==
    ASSUME NEW s, NEW q, Len(q) \in Nat, NEW t \in Term, NEW n \in Nat, n <= Len(q),
           \A k \in 1..n : q[k].term = s[k].term, Matches(s, t, n)
    PROVE  Matches(q, t, n)
BY DEF Matches

LEMMA SoundMoved ==
    ASSUME NEW r, NEW now, NEW s, NEW q, Len(q) \in Nat, Len(s) \in Nat, Seeing(r, now, s),
           r.pc \notin {"truncate", "append"}, r.term \in Term, r.next \in Nat, r.next >= 1,
           \A n \in Nat : Matches(s, r.term, n) /\ n <= r.next - 1
                              /\ (r.term = now \/ n <= LeaderCommit[r.term])
                           => n <= Len(q) /\ \A k \in 1..n : q[k].term = s[k].term
    PROVE  Sound(r, now, q)
<1>1. ASSUME r.term = now PROVE Matches(q, r.term, r.next - 1)
  <2>1. Matches(s, r.term, r.next - 1) /\ r.next - 1 \in Nat
    BY <1>1 DEF Seeing
  <2>2. r.next - 1 <= Len(q) /\ \A k \in 1..(r.next - 1) : q[k].term = s[k].term
    BY <2>1, <1>1
  <2> QED
    BY <2>1, <2>2, MatchesPrefix
<1>2. ASSUME NEW n \in Nat, n <= r.next - 1, n <= LeaderCommit[r.term] PROVE Matches(q, r.term, n)
  <2>1. Matches(s, r.term, n)
    BY <1>2 DEF Seeing
  <2>2. n <= Len(q) /\ \A k \in 1..n : q[k].term = s[k].term
    BY <2>1, <1>2
  <2> QED
    BY <2>1, <2>2, MatchesPrefix
<1> QED
  BY <1>1, <1>2 DEF Sound, Seeing, Acting

LEMMA TruncateStep ==
    ASSUME IndInv, NEW h \in Handler, TruncateFrom(h)
    PROVE  IndInv'
<1>1. PICK r : r = handler[h]
  OBVIOUS
<1>2. /\ Shape /\ Tidy /\ r.pc = "truncate"
      /\ currentTerm' = currentTerm /\ commitIndex' = commitIndex
      /\ nodeCommit' = nodeCommit /\ acked' = acked
  BY <1>1 DEF IndInv, TruncateFrom
<1>3. BusyOK(r, currentTerm)
  BY <1>1, <1>2, BusyFacts
<1>4. /\ r \in Busy /\ r.term \in Term /\ r.term \in Nat /\ r.next \in Nat /\ r.next >= 1
      /\ r.last \in Nat /\ r.last <= Len(LeaderLog[r.term]) /\ r.next <= r.last
  BY <1>2, <1>3, FieldFacts DEF BusyOK
<1>5. currentTerm \in Nat /\ commitIndex \in Nat /\ acked \in Nat /\ log \in Seq(LogEntry) /\ Len(log) \in Nat
  BY <1>2, NowFacts
<1>6. CASE r.next <= commitIndex
  <2>1. handler' = [handler EXCEPT ![h] = Idle] /\ log' = log /\ windows' = windows
    BY <1>1, <1>6 DEF TruncateFrom, Goto
  <2>2. windows' \subseteq {"stale", "late", "blind", "crossed"} /\ acked' \in Index \cup {0}
    BY <2>1, <1>2 DEF Shape
  <2> QED
    BY <2>1, <2>2, <1>1, <1>2, GoStep
<1>7. CASE ~(r.next <= commitIndex)
  <2>1. PICK q : q = [r EXCEPT !.pc = "append"]
    OBVIOUS
  <2>2. PICK s : s = SubSeq(log, 1, Cardinality(Kept(r.next)))
    OBVIOUS
  <2>3. /\ log' = s /\ handler' = [handler EXCEPT ![h] = q]
        /\ windows' = windows \cup Stale(h) \cup Late(r)
    BY <1>1, <1>7, <2>1, <2>2 DEF TruncateFrom, Goto
  <2>4. /\ s \in Seq(LogEntry) /\ Len(s) <= Len(log) /\ \A k \in 1..Len(s) : s[k] = log[k]
        /\ DenseLog(log) /\ r.next \in 1..Len(log) => Len(s) = r.next - 1
    BY <2>2, <1>4, <1>5, KeptFacts
  <2>5. Len(s) \in Nat /\ DOMAIN s = 1..Len(s) /\ DOMAIN log = 1..Len(log)
    BY <2>4, <1>5, LenProperties
  <2>6. BusyOK(q, currentTerm) /\ q.pc = "append" /\ q.term = r.term /\ q.next = r.next
    BY <2>1, <1>3, <1>4, PlaceFacts
  <2>7. /\ DOMAIN handler' = Handler /\ handler'[h] = q
        /\ \A g \in Handler \ {h} : handler'[g] = handler[g]
    BY <1>2, <2>3, GotoFacts
  <2>8. Shape'
    <3>1. \A g \in Handler : \/ handler'[g] = handler[g] \/ handler'[g] = Idle
                             \/ BusyOK(handler'[g], currentTerm')
      BY <2>6, <2>7, <1>2
    <3>2. windows' \subseteq {"stale", "late", "blind", "crossed"}
      BY <2>3, <1>2 DEF Shape, Stale, Late
    <3>3. /\ currentTerm' \in Term \cup {0} /\ currentTerm <= currentTerm'
          /\ commitIndex' \in Index \cup {0} /\ nodeCommit' \in Index \cup {0}
          /\ acked' \in Index \cup {0} /\ log' \in Seq(LogEntry)
      BY <1>2, <1>5, <2>3, <2>4 DEF Shape
    <3> QED
      BY <3>1, <3>2, <3>3, <2>7, <1>2, ShapeStep
  <2>9. ASSUME Clean'
        PROVE  /\ Clean /\ r.term = currentTerm
               /\ \A g \in Handler \ {h} : handler[g].pc \notin {"truncate", "append"}
               /\ DenseLog(log) /\ LogMatching(log) /\ AckHeld(acked, currentTerm, log)
               /\ \A g \in Handler : Sound(handler[g], currentTerm, log)
    <3>1. Clean
      BY <2>3, <2>9 DEF Clean
    <3>2. r.term = currentTerm
      BY <2>3, <2>9 DEF Clean, Late
    <3>3. \A g \in Handler \ {h} : handler[g].pc \notin {"truncate", "append"}
      BY <2>3, <2>9 DEF Clean, Stale
    <3> QED
      BY <3>1, <3>2, <3>3, <1>2 DEF Tidy
  <2>10. ASSUME Clean'
         PROVE  /\ Matches(log, r.term, r.next - 1) /\ r.next \in 1..Len(log)
                /\ log[r.next].term # LeaderLog[r.term][r.next] /\ Len(s) = r.next - 1
    <3>1. Sound(r, currentTerm, log) /\ DenseLog(log) /\ r.term = currentTerm
      BY <2>9, <2>10, <1>1
    <3>2. Seeing(r, currentTerm, log) /\ Acting(r, currentTerm, log)
      BY <3>1, <1>2 DEF Sound
    <3>3. Matches(log, r.term, r.next - 1)
      BY <3>1, <3>2 DEF Seeing
    <3>4. r.next <= Len(log) /\ log[r.next].term # LeaderLog[r.term][r.next]
      BY <3>1, <3>2, <1>2 DEF Acting
    <3> QED
      BY <3>1, <3>3, <3>4, <2>4, <1>4, <1>5
  <2>11. Tidy'
    <3> SUFFICES ASSUME Clean' PROVE
          /\ DenseLog(s) /\ LogMatching(s) /\ AckHeld(acked', currentTerm', s)
          /\ \A g \in Handler : Sound(handler'[g], currentTerm', s)
      BY <2>3 DEF Tidy
    <3>1. DenseLog(s)
      BY <2>4, <2>5, <2>9, <1>5 DEF DenseLog
    <3>2. LogMatching(s)
      <4> SUFFICES ASSUME NEW t \in Term, NEW k \in 1..Len(s), k <= Len(LeaderLog[t]),
                          s[k].term = LeaderLog[t][k]
                   PROVE  Matches(s, t, k)
        BY DEF LogMatching
      <4>1. k \in 1..Len(log) /\ log[k] = s[k] /\ k \in Nat
        BY <2>4, <2>5, <1>5
      <4>2. Matches(log, t, k)
        BY <4>1, <2>9 DEF LogMatching
      <4>3. \A j \in 1..k : s[j].term = log[j].term
        BY <2>4, <2>5
      <4> QED
        BY <4>1, <4>2, <4>3, <2>5, MatchesPrefix
    (* Nothing the leaders agree on is above the cut. *)
    <3> DEFINE Below(n) == n <= Len(s) /\ \A k \in 1..n : s[k].term = log[k].term
    <3> HIDE DEF Below
    <3>3. ASSUME NEW t \in Term, NEW n \in Nat, Matches(log, t, n),
                 t = currentTerm \/ (t <= currentTerm /\ n <= LeaderCommit[t])
          PROVE  Below(n)
      <4>1. ASSUME n >= r.next PROVE FALSE
        <5>1. r.next \in 1..n
          BY <4>1, <1>4
        <5>2. log[r.next].term = LeaderLog[t][r.next]
          BY <5>1, <3>3 DEF Matches
        <5>3. LeaderLog[t][r.next] = LeaderLog[r.term][r.next]
          <6>1. CASE t = currentTerm
            BY <6>1, <2>9
          <6>2. CASE t <= currentTerm /\ n <= LeaderCommit[t]
            <7>1. r.next \in 1..LeaderCommit[t] /\ t <= r.term
              BY <6>2, <5>1, <2>9, LeaderFacts
            <7> QED
              BY <7>1, <1>4, CommittedShared
          <6> QED
            BY <6>1, <6>2, <3>3
        <5> QED
          BY <5>2, <5>3, <2>10
      <4>2. n <= Len(s)
        BY <4>1, <2>10, <1>4
      <4> QED
        BY <4>2, <2>4, <2>5 DEF Below
    <3>4. AckHeld(acked', currentTerm', s)
      <4> SUFFICES ASSUME acked # 0 PROVE currentTerm \in Term /\ Matches(s, currentTerm, acked)
        BY <1>2 DEF AckHeld
      <4>1. currentTerm \in Term /\ Matches(log, currentTerm, acked)
        BY <2>9 DEF AckHeld
      <4>2. Below(acked)
        BY <4>1, <3>3, <1>5
      <4> QED
        BY <4>1, <4>2, <1>5, <2>5, MatchesPrefix DEF Below
    <3>5. ASSUME NEW g \in Handler \ {h} PROVE Sound(handler[g], currentTerm, s)
      <4> SUFFICES ASSUME handler[g].pc \notin {"idle", "check"} PROVE Sound(handler[g], currentTerm, s)
        BY DEF Sound
      <4>1. PICK o : o = handler[g]
        OBVIOUS
      <4>2. BusyOK(o, currentTerm)
        BY <4>1, <1>2, BusyFacts
      <4>3. o.term \in Term /\ o.next \in Nat /\ o.next >= 1 /\ o.term <= currentTerm
        BY <4>2, FieldFacts DEF BusyOK
      <4>4. Seeing(o, currentTerm, log) /\ o.pc \notin {"truncate", "append"}
        BY <4>1, <2>9 DEF Sound
      <4>5. \A n \in Nat : Matches(log, o.term, n) /\ n <= o.next - 1
                              /\ (o.term = currentTerm \/ n <= LeaderCommit[o.term])
                           => Below(n)
        BY <4>3, <3>3
      <4>6. Sound(o, currentTerm, s)
        BY <4>3, <4>4, <4>5, <1>5, <2>5, SoundMoved DEF Below
      <4> QED
        BY <4>1, <4>6
    <3>6. Sound(q, currentTerm, s)
      <4>1. q.next - 1 \in Nat /\ q.next - 1 <= Len(s) /\ \A k \in 1..(q.next - 1) : s[k].term = log[k].term
        BY <2>4, <2>5, <2>6, <2>10, <1>4
      <4>2. Matches(s, q.term, q.next - 1)
        BY <4>1, <2>5, <2>6, <2>10, <1>4, MatchesPrefix
      <4>3. Seeing(q, currentTerm, s)
        BY <4>2, <2>5, <2>6, <1>4, SeeingAll
      <4>4. Acting(q, currentTerm, s)
        BY <2>6, <2>10, <1>4, <2>5 DEF Acting
      <4> QED
        BY <4>3, <4>4 DEF Sound
    <3> QED
      BY <3>1, <3>2, <3>4, <3>5, <3>6, <2>7, <1>2
  <2>12. CommitsSettled'
    <3> SUFFICES ASSUME Clean', "blind" \notin windows'
                 PROVE  /\ \A i \in 1..commitIndex : Settled(s, i)
                        /\ \A g \in Handler :
                             handler'[g].pc = "commit" => handler'[g].commit <= handler'[g].last
      BY <1>2, <2>3 DEF CommitsSettled
    <3>1. "blind" \notin windows
      BY <2>3
    <3>2. /\ \A i \in 1..commitIndex : Settled(log, i)
          /\ \A g \in Handler : handler[g].pc = "commit" => handler[g].commit <= handler[g].last
      BY <3>1, <2>9 DEF IndInv, CommitsSettled
    <3>3. ASSUME NEW i \in 1..commitIndex PROVE Settled(s, i)
      <4>1. PICK t \in Term : i <= LeaderCommit[t] /\ i <= Len(log) /\ log[i].term = LeaderLog[t][i]
        BY <3>2 DEF Settled
      <4>2. i \in 1..Len(s)
        BY <2>10, <1>4, <1>5, <1>7
      <4>3. i <= Len(s) /\ s[i] = log[i]
        BY <4>2, <2>4, <2>5
      <4> QED
        BY <4>1, <4>3 DEF Settled
    <3>4. \A g \in Handler : handler'[g].pc = "commit" => handler'[g].commit <= handler'[g].last
      BY <3>2, <2>6, <2>7
    <3> QED
      BY <3>3, <3>4
  <2>13. CommitsOrdered'
    <3>1. \A g \in Handler :
              \/ handler'[g] = handler[g]
              \/ /\ handler[g].pc # "publish"
                 /\ handler'[g].pc = "commit" => handler'[g].commit > commitIndex
      BY <2>6, <2>7, <1>1, <1>2
    <3>2. windows \subseteq windows'
      BY <2>3
    <3> QED
      BY <3>1, <3>2, <1>2, OrderedStep
  <2> QED
    BY <2>8, <2>11, <2>12, <2>13 DEF IndInv
<1> QED
  BY <1>6, <1>7

LEMMA AppendStep ==
    ASSUME IndInv, NEW h \in Handler, AppendEntry(h)
    PROVE  IndInv'
<1>1. PICK r : r = handler[h]
  OBVIOUS
<1>2. PICK e : e = [index |-> r.next, term |-> LeaderLog[r.term][r.next]]
  OBVIOUS
<1>3. PICK q : q = [r EXCEPT !.pc = "look", !.next = r.next + 1]
  OBVIOUS
<1>4. PICK s : s = Append(log, e)
  OBVIOUS
<1>5. /\ Shape /\ Tidy /\ r.pc = "append"
      /\ log' = s /\ handler' = [handler EXCEPT ![h] = q]
      /\ windows' = windows \cup Stale(h) \cup Late(r)
      /\ currentTerm' = currentTerm /\ commitIndex' = commitIndex
      /\ nodeCommit' = nodeCommit /\ acked' = acked
  BY <1>1, <1>2, <1>3, <1>4 DEF IndInv, AppendEntry, Goto
<1>6. BusyOK(r, currentTerm)
  BY <1>1, <1>5, BusyFacts
<1>7. /\ r \in Busy /\ r.term \in Term /\ r.term \in Nat /\ r.next \in Nat /\ r.next >= 1
      /\ r.last \in Nat /\ r.last <= Len(LeaderLog[r.term]) /\ r.next <= r.last
  BY <1>5, <1>6, FieldFacts DEF BusyOK
<1>8. currentTerm \in Nat /\ commitIndex \in Nat /\ acked \in Nat /\ log \in Seq(LogEntry) /\ Len(log) \in Nat
  BY <1>5, NowFacts
<1>9. e \in LogEntry /\ e.index = r.next /\ e.term = LeaderLog[r.term][r.next]
  <2>1. Len(LeaderLog[r.term]) \in Nat /\ DOMAIN LeaderLog[r.term] = 1..Len(LeaderLog[r.term])
    BY <1>7, LeaderFacts
  <2>2. r.next \in 1..Len(LeaderLog[r.term])
    BY <2>1, <1>7
  <2>3. LeaderLog[r.term][r.next] \in Term
    BY <2>2, <1>7, LeaderFacts
  <2>4. r.next \in Index
    BY <2>1, <2>2, <1>7 DEF Index
  <2> QED
    BY <2>3, <2>4, <1>2 DEF LogEntry
<1>10. /\ s \in Seq(LogEntry) /\ Len(s) = Len(log) + 1 /\ s[Len(log) + 1] = e
       /\ \A k \in 1..Len(log) : s[k] = log[k]
  BY <1>4, <1>8, <1>9, AppendProperties
<1>11. Len(s) \in Nat /\ DOMAIN s = 1..Len(s) /\ DOMAIN log = 1..Len(log)
  BY <1>10, <1>8, LenProperties
<1>12. q \in Busy /\ q.pc = "look" /\ q.term = r.term /\ q.next = r.next + 1
       /\ q.last = r.last /\ q.commit = r.commit
  <2>1. r.next + 1 \in Nat \ {0}
    BY <1>7
  <2>2. q = [pc |-> "look", term |-> r.term, next |-> r.next + 1, last |-> r.last, commit |-> r.commit]
    BY <1>3, <1>7 DEF Busy
  <2>3. r.term \in Term /\ r.last \in Nat \ {0} /\ r.commit \in Nat
    BY <1>7 DEF Busy
  <2> QED
    BY <2>1, <2>2, <2>3 DEF Busy
<1>13. BusyOK(q, currentTerm)
  <2>1. r.term <= currentTerm /\ r.commit <= LeaderCommit[r.term]
    BY <1>6 DEF BusyOK
  <2> QED
    BY <2>1, <1>12, <1>7 DEF BusyOK
<1>14. /\ DOMAIN handler' = Handler /\ handler'[h] = q
       /\ \A g \in Handler \ {h} : handler'[g] = handler[g]
  BY <1>5, GotoFacts
<1>15. Shape'
  <2>1. \A g \in Handler : \/ handler'[g] = handler[g] \/ handler'[g] = Idle
                           \/ BusyOK(handler'[g], currentTerm')
    BY <1>5, <1>13, <1>14
  <2>2. windows' \subseteq {"stale", "late", "blind", "crossed"}
    BY <1>5 DEF Shape, Stale, Late
  <2>3. /\ currentTerm' \in Term \cup {0} /\ currentTerm <= currentTerm'
        /\ commitIndex' \in Index \cup {0} /\ nodeCommit' \in Index \cup {0}
        /\ acked' \in Index \cup {0} /\ log' \in Seq(LogEntry)
    BY <1>5, <1>8, <1>10 DEF Shape
  <2> QED
    BY <2>1, <2>2, <2>3, <1>5, <1>14, ShapeStep
<1>16. ASSUME Clean'
       PROVE  /\ Clean /\ r.term = currentTerm
              /\ \A g \in Handler \ {h} : handler[g].pc \notin {"truncate", "append"}
              /\ DenseLog(log) /\ LogMatching(log) /\ AckHeld(acked, currentTerm, log)
              /\ \A g \in Handler : Sound(handler[g], currentTerm, log)
  <2>1. Clean
    BY <1>5, <1>16 DEF Clean
  <2>2. r.term = currentTerm
    BY <1>5, <1>16 DEF Clean, Late
  <2>3. \A g \in Handler \ {h} : handler[g].pc \notin {"truncate", "append"}
    BY <1>5, <1>16 DEF Clean, Stale
  <2> QED
    BY <2>1, <2>2, <2>3, <1>5 DEF Tidy
(* All that matched still matches. *)
<1>17. ASSUME NEW t \in Term, NEW n \in Nat, Matches(log, t, n) PROVE Matches(s, t, n)
  <2>1. n <= Len(log)
    BY <1>17 DEF Matches
  <2>2. n <= Len(s) /\ \A k \in 1..n : s[k].term = log[k].term
    BY <2>1, <1>10, <1>8
  <2> QED
    BY <2>2, <1>17, <1>11, MatchesPrefix
<1>18. ASSUME Clean' PROVE r.next = Len(log) + 1 /\ Matches(s, r.term, r.next)
  <2>1. Sound(r, currentTerm, log) /\ r.term = currentTerm
    BY <1>16, <1>18, <1>1
  <2>2. Seeing(r, currentTerm, log) /\ Acting(r, currentTerm, log)
    BY <2>1, <1>5 DEF Sound
  <2>3. Matches(log, r.term, r.next - 1) /\ r.next = Len(log) + 1
    BY <2>1, <2>2, <1>5 DEF Seeing, Acting
  <2>4. Matches(s, r.term, r.next - 1)
    BY <2>3, <1>7, <1>17
  <2>5. \A i \in 1..r.next : i \in 1..(r.next - 1) \/ i = r.next
    BY <1>7
  <2>6. s[r.next].term = LeaderLog[r.term][r.next]
    BY <2>3, <1>9, <1>10
  <2>7. Len(LeaderLog[r.term]) \in Nat
    BY <1>7, LeaderFacts
  <2>8. r.next <= Len(s) /\ r.next <= Len(LeaderLog[r.term])
    BY <2>3, <2>7, <1>7, <1>10
  <2>9. \A i \in 1..(r.next - 1) : s[i].term = LeaderLog[r.term][i]
    BY <2>4 DEF Matches
  <2> QED
    BY <2>3, <2>5, <2>6, <2>8, <2>9 DEF Matches
<1>19. Tidy'
  <2> SUFFICES ASSUME Clean' PROVE
          /\ DenseLog(s) /\ LogMatching(s) /\ AckHeld(acked', currentTerm', s)
          /\ \A g \in Handler : Sound(handler'[g], currentTerm', s)
    BY <1>5 DEF Tidy
  <2>1. DenseLog(s)
    <3>1. \A k \in 1..Len(log) : s[k].index = k
      BY <1>10, <1>11, <1>16 DEF DenseLog
    <3>2. s[Len(log) + 1].index = Len(log) + 1
      BY <1>9, <1>10, <1>18
    <3>3. \A k \in DOMAIN s : k \in 1..Len(log) \/ k = Len(log) + 1
      BY <1>8, <1>10, <1>11
    <3> QED
      BY <3>1, <3>2, <3>3 DEF DenseLog
  <2>2. LogMatching(s)
    <3> SUFFICES ASSUME NEW t \in Term, NEW k \in 1..Len(s), k <= Len(LeaderLog[t]),
                        s[k].term = LeaderLog[t][k]
                 PROVE  Matches(s, t, k)
      BY DEF LogMatching
    <3>1. k \in Nat /\ k >= 1
      OBVIOUS
    <3>2. CASE k <= Len(log)
      <4>1. k \in 1..Len(log) /\ log[k].term = LeaderLog[t][k]
        BY <3>1, <3>2, <1>8, <1>10
      <4>2. Matches(log, t, k)
        BY <4>1, <1>16 DEF LogMatching
      <4> QED
        BY <4>2, <3>1, <1>17
    <3>3. CASE ~(k <= Len(log))
      <4>1. k = r.next
        BY <3>1, <3>3, <1>8, <1>10, <1>18
      <4>2. LeaderLog[t][k] = LeaderLog[r.term][k]
        BY <4>1, <1>9, <1>10, <1>18
      <4>3. k \in DOMAIN LeaderLog[t] \cap DOMAIN LeaderLog[r.term]
        <5>1. k <= Len(LeaderLog[r.term])
          BY <4>1, <1>18 DEF Matches
        <5> QED
          BY <5>1, <3>1, <1>7, LeaderFacts
      <4>4. \A j \in 1..k : LeaderLog[t][j] = LeaderLog[r.term][j]
        BY <4>2, <4>3, <1>7, MatchingAssumption
      <4>5. Matches(s, r.term, k)
        BY <4>1, <1>18
      <4> QED
        BY <4>4, <4>5 DEF Matches
    <3> QED
      BY <3>2, <3>3
  <2>3. AckHeld(acked', currentTerm', s)
    <3> SUFFICES ASSUME acked # 0 PROVE currentTerm \in Term /\ Matches(s, currentTerm, acked)
      BY <1>5 DEF AckHeld
    <3>1. currentTerm \in Term /\ Matches(log, currentTerm, acked)
      BY <1>16 DEF AckHeld
    <3> QED
      BY <3>1, <1>8, <1>17
  <2>4. ASSUME NEW g \in Handler \ {h} PROVE Sound(handler[g], currentTerm, s)
    <3> SUFFICES ASSUME handler[g].pc \notin {"idle", "check"} PROVE Sound(handler[g], currentTerm, s)
      BY DEF Sound
    <3>1. PICK o : o = handler[g]
      OBVIOUS
    <3>2. BusyOK(o, currentTerm)
      BY <3>1, <1>5, BusyFacts
    <3>3. o.term \in Term /\ o.next \in Nat /\ o.next >= 1
      BY <3>2, FieldFacts
    <3>4. Seeing(o, currentTerm, log) /\ o.pc \notin {"truncate", "append"}
      BY <3>1, <1>16 DEF Sound
    <3>5. o.next - 1 \in Nat
      BY <3>3
    <3>6. Seeing(o, currentTerm, s)
      BY <3>3, <3>4, <3>5, <1>17 DEF Seeing
    <3>7. Sound(o, currentTerm, s)
      BY <3>4, <3>6 DEF Sound, Acting
    <3> QED
      BY <3>1, <3>7
  <2>5. Sound(q, currentTerm, s)
    <3>1. q.next - 1 = r.next /\ q.next \in Nat /\ q.next >= 1 /\ q.term \in Term
      BY <1>7, <1>12
    <3>2. Matches(s, q.term, q.next - 1)
      BY <3>1, <1>12, <1>18
    <3>3. Seeing(q, currentTerm, s)
      BY <3>1, <3>2, <1>11, SeeingAll
    <3> QED
      BY <3>3, <1>12 DEF Sound, Acting
  <2> QED
    BY <2>1, <2>2, <2>3, <2>4, <2>5, <1>5, <1>14
<1>20. CommitsSettled'
  <2> SUFFICES ASSUME Clean', "blind" \notin windows'
               PROVE  /\ \A i \in 1..commitIndex : Settled(s, i)
                      /\ \A g \in Handler :
                           handler'[g].pc = "commit" => handler'[g].commit <= handler'[g].last
    BY <1>5 DEF CommitsSettled
  <2>1. "blind" \notin windows
    BY <1>5
  <2>2. /\ \A i \in 1..commitIndex : Settled(log, i)
        /\ \A g \in Handler : handler[g].pc = "commit" => handler[g].commit <= handler[g].last
    BY <2>1, <1>16 DEF IndInv, CommitsSettled
  <2>3. ASSUME NEW i \in 1..commitIndex PROVE Settled(s, i)
    <3>1. PICK t \in Term : i <= LeaderCommit[t] /\ i <= Len(log) /\ log[i].term = LeaderLog[t][i]
      BY <2>2 DEF Settled
    <3>2. i \in 1..Len(log)
      BY <3>1, <1>8
    <3>3. i <= Len(s) /\ s[i] = log[i]
      BY <3>2, <1>10, <1>8
    <3> QED
      BY <3>1, <3>3 DEF Settled
  <2>4. \A g \in Handler : handler'[g].pc = "commit" => handler'[g].commit <= handler'[g].last
    BY <2>2, <1>12, <1>14
  <2> QED
    BY <2>3, <2>4
<1>21. CommitsOrdered'
  <2>1. \A g \in Handler :
              \/ handler'[g] = handler[g]
              \/ /\ handler[g].pc # "publish"
                 /\ handler'[g].pc = "commit" => handler'[g].commit > commitIndex
    BY <1>1, <1>5, <1>12, <1>14
  <2>2. windows \subseteq windows'
    BY <1>5
  <2> QED
    BY <2>1, <2>2, <1>5, OrderedStep
<1> QED
  BY <1>15, <1>19, <1>20, <1>21 DEF IndInv

LEMMA LesserFacts ==
    ASSUME NEW i \in Nat, NEW j \in Nat
    PROVE  Lesser(i, j) \in Nat /\ Lesser(i, j) <= i /\ Lesser(i, j) <= j
BY DEF Lesser

(* A handler that answers has seen all of its request.                      *)
LEMMA AnswerFacts ==
    ASSUME Shape, Tidy, NEW h \in Handler, NEW r, r = handler[h],
           r.pc \in {"look", "publish"}, r.next = r.last + 1, Acknowledge(r)
    PROVE  acked' \in Index \cup {0} /\ (acked' = acked \/ (Clean => AckHeld(acked', currentTerm, log)))
<1>1. BusyOK(r, currentTerm)
  BY BusyFacts
<1>2. r.term \in Term /\ r.last \in Nat /\ r.last <= Len(LeaderLog[r.term])
  BY <1>1, FieldFacts
<1>3. r.last \in Index \cup {0} /\ acked \in Index \cup {0}
  BY <1>2, IndexFacts DEF Shape
<1>4. CASE r.term = currentTerm /\ r.last > acked
  <2>1. acked' = r.last
    BY <1>4 DEF Acknowledge
  <2>2. ASSUME Clean PROVE AckHeld(acked', currentTerm, log)
    <3>1. Seeing(r, currentTerm, log)
      BY <2>2 DEF Tidy, Sound
    <3>2. Matches(log, r.term, r.next - 1) /\ r.next - 1 = r.last
      BY <3>1, <1>2, <1>4 DEF Seeing
    <3> QED
      BY <3>2, <2>1, <1>2, <1>4 DEF AckHeld
  <2> QED
    BY <2>1, <2>2, <1>3
<1>5. CASE ~(r.term = currentTerm /\ r.last > acked)
  BY <1>3, <1>5 DEF Acknowledge
<1> QED
  BY <1>4, <1>5

LEMMA ReadCommitStep ==
    ASSUME IndInv, NEW h \in Handler, ReadCommit(h)
    PROVE  IndInv'
<1>1. PICK r : r = handler[h]
  OBVIOUS
<1>2. /\ Shape /\ Tidy /\ r.pc = "look" /\ r.next > r.last
      /\ currentTerm' = currentTerm /\ log' = log /\ commitIndex' = commitIndex
      /\ nodeCommit' = nodeCommit
      /\ windows' = IF Raises(r) /\ Goal(r) > r.last THEN windows \cup {"blind"} ELSE windows
  BY <1>1 DEF IndInv, ReadCommit
<1>3. BusyOK(r, currentTerm)
  BY <1>1, <1>2, BusyFacts
<1>4. /\ r \in Busy /\ r.term \in Term /\ r.next \in Nat /\ r.last \in Nat /\ r.commit \in Nat
      /\ r.next = r.last + 1 /\ r.commit <= LeaderCommit[r.term]
      /\ r.last <= Len(LeaderLog[r.term]) /\ r.term <= currentTerm
  BY <1>2, <1>3, FieldFacts DEF BusyOK
<1>5. windows \subseteq windows' /\ windows' \subseteq {"stale", "late", "blind", "crossed"}
  BY <1>2 DEF Shape
<1>6. CASE Raises(r)
  <2>1. PICK q : q = [r EXCEPT !.pc = "commit", !.commit = Goal(r)]
    OBVIOUS
  <2>2. handler' = [handler EXCEPT ![h] = q] /\ acked' = acked
    BY <1>1, <1>6, <2>1 DEF ReadCommit, Goto
  <2>3. LastIndex \in Nat /\ commitIndex \in Nat
    BY <1>2, NowFacts, LogFacts
  <2>4. Goal(r) \in Nat /\ Goal(r) <= r.commit
    BY <2>3, <1>4, LesserFacts DEF Goal
  <2>5. q = [pc |-> "commit", term |-> r.term, next |-> r.next, last |-> r.last, commit |-> Goal(r)]
    BY <2>1, <1>4 DEF Busy
  <2>6. r.next \in Nat \ {0} /\ r.last \in Nat \ {0}
    BY <1>4 DEF Busy
  <2>7. /\ q \in Busy /\ q.pc = "commit" /\ q.term = r.term /\ q.next = r.next
        /\ q.last = r.last /\ q.commit = Goal(r)
    BY <2>4, <2>5, <2>6, <1>4 DEF Busy
  <2>8. BusyOK(q, currentTerm)
    <3>1. LeaderCommit[r.term] \in Nat
      BY <1>4, LeaderFacts
    <3>2. Goal(r) <= LeaderCommit[r.term]
      BY <3>1, <2>4, <1>4
    <3> QED
      BY <3>2, <2>7, <1>4 DEF BusyOK
  <2>9. ASSUME Clean PROVE Sound(q, currentTerm, log)
    <3>1. Seeing(r, currentTerm, log)
      BY <2>9, <1>1, <1>2 DEF Tidy, Sound
    <3>2. Seeing(q, currentTerm, log)
      BY <3>1, <2>7 DEF Seeing
    <3> QED
      BY <3>2, <2>7 DEF Sound, Acting
  <2>10. q.commit > commitIndex /\ ("blind" \notin windows' => q.commit <= q.last)
    BY <2>4, <2>7, <1>2, <1>4, <1>6 DEF Raises
  <2>11. acked' \in Index \cup {0}
    BY <2>2, <1>2 DEF Shape
  <2> QED
    BY <2>2, <2>8, <2>9, <2>10, <2>11, <1>1, <1>2, <1>5, GoStep
<1>7. CASE ~Raises(r)
  <2>1. handler' = [handler EXCEPT ![h] = Idle] /\ Acknowledge(r)
    BY <1>1, <1>7 DEF ReadCommit, Goto
  <2>2. acked' \in Index \cup {0} /\ (acked' = acked \/ (Clean => AckHeld(acked', currentTerm, log)))
    BY <2>1, <1>1, <1>2, <1>4, AnswerFacts
  <2> QED
    BY <2>1, <2>2, <1>1, <1>2, <1>5, GoStep
<1> QED
  BY <1>6, <1>7

LEMMA CommitStep ==
    ASSUME IndInv, NEW h \in Handler, Commit(h)
    PROVE  IndInv' /\ ("crossed" \notin windows' => commitIndex' >= commitIndex)
<1>1. PICK r : r = handler[h]
  OBVIOUS
<1>2. PICK q : q = [r EXCEPT !.pc = "publish"]
  OBVIOUS
<1>3. /\ Shape /\ Tidy /\ CommitsSettled /\ CommitsOrdered /\ r.pc = "commit"
      /\ currentTerm' = currentTerm /\ log' = log /\ commitIndex' = r.commit
      /\ nodeCommit' = nodeCommit /\ acked' = acked
      /\ handler' = [handler EXCEPT ![h] = q]
      /\ windows' = IF Crossing(Handler \ {h}) THEN windows \cup {"crossed"} ELSE windows
  BY <1>1, <1>2 DEF IndInv, Commit, Goto
<1>4. BusyOK(r, currentTerm)
  BY <1>1, <1>3, BusyFacts
<1>5. /\ r.term \in Term /\ r.next \in Nat /\ r.last \in Nat /\ r.commit \in Nat
      /\ r.next = r.last + 1 /\ r.commit <= LeaderCommit[r.term] /\ r.next - 1 = r.last
  BY <1>3, <1>4, FieldFacts DEF BusyOK
<1>6. BusyOK(q, currentTerm) /\ q.pc = "publish" /\ q.term = r.term /\ q.next = r.next
  BY <1>2, <1>4, <1>5, PlaceFacts
<1>7. /\ DOMAIN handler' = Handler /\ handler'[h] = q
      /\ \A g \in Handler \ {h} : handler'[g] = handler[g]
  BY <1>3, GotoFacts
<1>8. windows \subseteq windows' /\ windows' \subseteq {"stale", "late", "blind", "crossed"}
  BY <1>3 DEF Shape
<1>9. currentTerm \in Nat /\ commitIndex \in Nat /\ nodeCommit \in Nat /\ Len(log) \in Nat
  BY <1>3, NowFacts
<1>10. Shape'
  <2>1. \A g \in Handler : \/ handler'[g] = handler[g] \/ handler'[g] = Idle
                           \/ BusyOK(handler'[g], currentTerm')
    BY <1>3, <1>6, <1>7
  <2>2. commitIndex' \in Index \cup {0}
    <3>1. LeaderCommit[r.term] \in Nat /\ Len(LeaderLog[r.term]) \in Nat
          /\ LeaderCommit[r.term] <= Len(LeaderLog[r.term])
      BY <1>5, LeaderFacts
    <3>2. r.commit <= Len(LeaderLog[r.term])
      BY <3>1, <1>5
    <3> QED
      BY <3>2, <1>3, <1>5, IndexFacts
  <2>3. /\ currentTerm' \in Term \cup {0} /\ currentTerm <= currentTerm'
        /\ nodeCommit' \in Index \cup {0} /\ acked' \in Index \cup {0} /\ log' \in Seq(LogEntry)
    BY <1>3, <1>9 DEF Shape
  <2> QED
    BY <2>1, <2>2, <2>3, <1>3, <1>7, <1>8, ShapeStep
<1>11. Tidy'
  <2>1. ASSUME Clean PROVE Sound(q, currentTerm', log)
    <3>1. Seeing(r, currentTerm, log)
      BY <2>1, <1>1, <1>3 DEF Tidy, Sound
    <3>2. Seeing(q, currentTerm, log)
      BY <3>1, <1>6 DEF Seeing
    <3> QED
      BY <3>2, <1>3, <1>6 DEF Sound, Acting
  <2>2. \A g \in Handler :
              \/ handler'[g] = handler[g] \/ handler'[g].pc \in {"idle", "check"}
              \/ Clean => Sound(handler'[g], currentTerm', log)
    BY <2>1, <1>7
  <2>3. currentTerm' \in Nat /\ currentTerm <= currentTerm'
    BY <1>3, <1>9
  <2> QED
    BY <2>2, <2>3, <1>3, <1>8, TidyStep
(* What it commits was seen, and the leader of its term has committed it. *)
<1>12. CommitsSettled'
  <2> SUFFICES ASSUME Clean', "blind" \notin windows'
               PROVE  /\ \A i \in 1..r.commit : Settled(log, i)
                      /\ \A g \in Handler :
                           handler'[g].pc = "commit" => handler'[g].commit <= handler'[g].last
    BY <1>3 DEF CommitsSettled
  <2>1. Clean /\ "blind" \notin windows
    BY <1>8 DEF Clean
  <2>2. \A g \in Handler : handler[g].pc = "commit" => handler[g].commit <= handler[g].last
    BY <2>1, <1>3 DEF CommitsSettled
  <2>3. \A g \in Handler : handler'[g].pc = "commit" => handler'[g].commit <= handler'[g].last
    BY <2>2, <1>6, <1>7
  <2>4. Matches(log, r.term, r.commit)
    <3>1. Seeing(r, currentTerm, log)
      BY <2>1, <1>1, <1>3 DEF Tidy, Sound
    <3>2. r.commit <= r.next - 1
      BY <2>2, <1>1, <1>3, <1>5
    <3> QED
      BY <3>1, <3>2, <1>5 DEF Seeing
  <2>5. ASSUME NEW i \in 1..r.commit PROVE Settled(log, i)
    <3>1. i <= Len(log) /\ log[i].term = LeaderLog[r.term][i]
      BY <2>4, <1>5, <1>9 DEF Matches
    <3>2. LeaderCommit[r.term] \in Nat
      BY <1>5, LeaderFacts
    <3>3. i <= LeaderCommit[r.term]
      BY <3>2, <1>5
    <3> QED
      BY <3>1, <3>3, <1>5 DEF Settled
  <2> QED
    BY <2>3, <2>5
<1>13. ASSUME "crossed" \notin windows'
       PROVE  /\ nodeCommit <= commitIndex /\ r.commit > commitIndex
              /\ \A g \in Handler \ {h} : handler[g].pc # "commit"
  <2>1. "crossed" \notin windows
    BY <1>8, <1>13
  <2>2. ~Crossing(Handler \ {h})
    BY <1>3, <1>13
  <2> QED
    BY <2>1, <2>2, <1>1, <1>3 DEF CommitsOrdered, Crossing
<1>14. CommitsOrdered'
  <2> SUFFICES ASSUME "crossed" \notin windows'
               PROVE  /\ nodeCommit <= r.commit
                      /\ \E g \in Handler : handler'[g].pc = "publish"
                      /\ \A g \in Handler : handler'[g].pc = "commit" => handler'[g].commit > r.commit
    BY <1>3 DEF CommitsOrdered
  <2> QED
    BY <1>5, <1>6, <1>7, <1>9, <1>13
<1>15. "crossed" \notin windows' => commitIndex' >= commitIndex
  BY <1>3, <1>5, <1>9, <1>13
<1> QED
  BY <1>10, <1>11, <1>12, <1>14, <1>15 DEF IndInv

LEMMA PublishStep ==
    ASSUME IndInv, NEW h \in Handler, Publish(h)
    PROVE  IndInv' /\ ("crossed" \notin windows' => nodeCommit' >= nodeCommit)
<1>1. PICK r : r = handler[h]
  OBVIOUS
<1>2. /\ Shape /\ Tidy /\ CommitsOrdered /\ r.pc = "publish" /\ Acknowledge(r)
      /\ currentTerm' = currentTerm /\ log' = log /\ commitIndex' = commitIndex
      /\ nodeCommit' = commitIndex /\ windows' = windows
      /\ handler' = [handler EXCEPT ![h] = Idle]
  BY <1>1 DEF IndInv, Publish, Goto
<1>3. BusyOK(r, currentTerm)
  BY <1>1, <1>2, BusyFacts
<1>4. r.next = r.last + 1
  BY <1>2, <1>3 DEF BusyOK
<1>5. acked' \in Index \cup {0} /\ (acked' = acked \/ (Clean => AckHeld(acked', currentTerm, log)))
  BY <1>1, <1>2, <1>4, AnswerFacts
<1>6. /\ DOMAIN handler' = Handler /\ handler'[h] = Idle
      /\ \A g \in Handler \ {h} : handler'[g] = handler[g]
  BY <1>2, GotoFacts
<1>7. currentTerm \in Nat /\ commitIndex \in Nat /\ nodeCommit \in Nat
  BY <1>2, NowFacts
<1>8. Shape'
  <2>1. \A g \in Handler : \/ handler'[g] = handler[g] \/ handler'[g] = Idle
                           \/ BusyOK(handler'[g], currentTerm')
    BY <1>6
  <2>2. /\ currentTerm' \in Term \cup {0} /\ currentTerm <= currentTerm'
        /\ commitIndex' \in Index \cup {0} /\ nodeCommit' \in Index \cup {0} /\ log' \in Seq(LogEntry)
        /\ windows' \subseteq {"stale", "late", "blind", "crossed"}
    BY <1>2, <1>7 DEF Shape
  <2> QED
    BY <2>1, <2>2, <1>2, <1>5, <1>6, ShapeStep
<1>9. Tidy'
  <2>1. \A g \in Handler : handler'[g] = handler[g] \/ handler'[g].pc \in {"idle", "check"}
    BY <1>6, IdleFacts
  <2>2. currentTerm' \in Nat /\ currentTerm <= currentTerm'
    BY <1>2, <1>7
  <2>3. \/ acked' = 0
        \/ currentTerm' = currentTerm /\ acked' = acked
        \/ Clean => AckHeld(acked', currentTerm', log)
    BY <1>2, <1>5
  <2> QED
    BY <2>1, <2>2, <2>3, <1>2, TidyStep
<1>10. CommitsSettled'
  <2>1. \A g \in Handler : handler'[g] = handler[g] \/ handler'[g].pc # "commit"
    BY <1>6, IdleFacts
  <2> QED
    BY <2>1, <1>2, SettledStep
<1>11. CommitsOrdered'
  <2> SUFFICES ASSUME "crossed" \notin windows
               PROVE  \A g \in Handler : handler'[g].pc = "commit" => handler'[g].commit > commitIndex
    BY <1>2, <1>7 DEF CommitsOrdered
  <2> QED
    BY <1>2, <1>6, IdleFacts DEF CommitsOrdered
<1>12. "crossed" \notin windows' => nodeCommit' >= nodeCommit
  BY <1>2, <1>7 DEF CommitsOrdered
<1> QED
  BY <1>8, <1>9, <1>10, <1>11, <1>12 DEF IndInv

LEMMA HeartbeatStep ==
    ASSUME IndInv, NEW t \in Term, NEW commit \in 0..LeaderCommit[t], Heartbeat(t, commit)
    PROVE  IndInv' /\ ("crossed" \notin windows' =>
                         commitIndex' >= commitIndex /\ nodeCommit' >= nodeCommit)
<1>1. PICK new : new = Lesser(commit, LastIndex)
  OBVIOUS
<1>2. /\ Shape /\ Tidy /\ CommitsSettled /\ CommitsOrdered /\ Adopt(t) /\ new > nodeCommit
      /\ commitIndex' = new /\ nodeCommit' = new /\ log' = log /\ handler' = handler
      /\ windows' = windows
             \cup (IF new > acked' THEN {"blind"} ELSE {})
             \cup (IF Crossing(Handler) THEN {"crossed"} ELSE {})
  BY <1>1 DEF IndInv, Heartbeat
<1>3. /\ currentTerm' \in Term /\ currentTerm' = t
      /\ currentTerm <= currentTerm' /\ currentTerm' \in Nat
      /\ acked' \in Index \cup {0}
      /\ acked' = 0 \/ (currentTerm' = currentTerm /\ acked' = acked)
  BY <1>2, AdoptFacts
<1>4. /\ currentTerm \in Nat /\ commitIndex \in Nat /\ nodeCommit \in Nat /\ acked \in Nat
      /\ Len(log) \in Nat /\ acked' \in Nat
  BY <1>2, <1>3, NowFacts
<1>5. commit \in Nat /\ commit <= LeaderCommit[t] /\ commit <= Len(LeaderLog[t])
  BY LeaderFacts
<1>6. new \in Nat /\ new <= commit
  <2>1. LastIndex \in Nat
    BY <1>2, NowFacts, LogFacts
  <2> QED
    BY <2>1, <1>1, <1>5, LesserFacts
<1>7. windows \subseteq windows'
  BY <1>2
<1>8. Shape'
  <2>1. new \in Index \cup {0}
    <3>1. new <= Len(LeaderLog[t])
      BY <1>5, <1>6, LeaderFacts
    <3> QED
      BY <3>1, <1>6, IndexFacts
  <2>2. windows' \subseteq {"stale", "late", "blind", "crossed"}
    BY <1>2 DEF Shape
  <2>3. DOMAIN handler' = Handler /\ \A g \in Handler : handler'[g] = handler[g]
    BY <1>2 DEF Shape
  <2>4. currentTerm' \in Term \cup {0} /\ log' \in Seq(LogEntry)
    BY <1>2, <1>3 DEF Shape
  <2> QED
    BY <2>1, <2>2, <2>3, <2>4, <1>2, <1>3, ShapeStep
<1>9. Tidy'
  BY <1>2, <1>3, <1>7, TidyStep
(* Without a blind heartbeat it commits what the leader was told is here.   *)
<1>10. CommitsSettled'
  <2> SUFFICES ASSUME Clean', "blind" \notin windows'
               PROVE  /\ \A i \in 1..new : Settled(log, i)
                      /\ \A g \in Handler :
                           handler[g].pc = "commit" => handler[g].commit <= handler[g].last
    BY <1>2 DEF CommitsSettled
  <2>1. Clean /\ "blind" \notin windows
    BY <1>7 DEF Clean
  <2>2. new <= acked'
    BY <1>2, <1>4, <1>6
  <2>3. ASSUME NEW i \in 1..new PROVE Settled(log, i)
    <3>1. acked' # 0
      BY <2>2, <1>4, <1>6
    <3>2. currentTerm = t /\ acked' = acked /\ acked # 0
      BY <3>1, <1>3
    <3>3. Matches(log, t, acked)
      BY <3>2, <2>1, <1>2 DEF Tidy, AckHeld
    <3>4. i \in 1..acked
      BY <3>2, <2>2, <1>4, <1>6
    <3>5. i <= Len(log) /\ log[i].term = LeaderLog[t][i]
      BY <3>3, <3>4, <1>4 DEF Matches
    <3>6. i <= LeaderCommit[t]
      BY <1>5, <1>6, LeaderFacts
    <3> QED
      BY <3>5, <3>6 DEF Settled
  <2> QED
    BY <2>1, <2>3, <1>2 DEF CommitsSettled
<1>11. ASSUME "crossed" \notin windows'
       PROVE  commitIndex = nodeCommit /\ \A g \in Handler : handler[g].pc # "commit"
  <2>1. ~Crossing(Handler) /\ "crossed" \notin windows
    BY <1>2, <1>11
  <2>2. \A g \in Handler : handler[g].pc \notin {"commit", "publish"}
    BY <2>1 DEF Crossing
  <2> QED
    BY <2>1, <2>2, <1>2 DEF CommitsOrdered
<1>12. CommitsOrdered'
  BY <1>2, <1>6, <1>11 DEF CommitsOrdered
<1> QED
  BY <1>2, <1>4, <1>6, <1>8, <1>9, <1>10, <1>11, <1>12 DEF IndInv

(***************************************************************************)
(* The theorems.                                                           *)
(***************************************************************************)

(* The commit indexes a step leaves behind.                                 *)
Falls == "crossed" \notin windows' => commitIndex' >= commitIndex /\ nodeCommit' >= nodeCommit

LEMMA NextInv ==
    ASSUME IndInv, Next
    PROVE  IndInv' /\ Falls
<1>1. commitIndex \in Nat /\ nodeCommit \in Nat
  BY NowFacts DEF IndInv
<1>2. ASSUME NEW t \in Term, NEW commit \in 0..LeaderCommit[t], NEW h \in Handler,
             NEW last \in DOMAIN LeaderLog[t], NEW prev \in 0..(last - 1),
             Accept(h, t, prev, last, commit)
      PROVE  IndInv' /\ Falls
  <2>1. commitIndex' = commitIndex /\ nodeCommit' = nodeCommit
    BY <1>2 DEF Accept
  <2> QED
    BY <2>1, <1>1, <1>2, AcceptStep DEF Falls
<1>3. ASSUME NEW t \in Term, NEW commit \in 0..LeaderCommit[t], Heartbeat(t, commit)
      PROVE  IndInv' /\ Falls
  BY <1>3, HeartbeatStep DEF Falls
<1>4. ASSUME NEW h \in Handler, Check(h) PROVE IndInv' /\ Falls
  <2>1. commitIndex' = commitIndex /\ nodeCommit' = nodeCommit
    BY <1>4 DEF Check
  <2> QED
    BY <2>1, <1>1, <1>4, CheckStep DEF Falls
<1>5. ASSUME NEW h \in Handler, Look(h) PROVE IndInv' /\ Falls
  <2>1. commitIndex' = commitIndex /\ nodeCommit' = nodeCommit
    BY <1>5 DEF Look
  <2> QED
    BY <2>1, <1>1, <1>5, LookStep DEF Falls
<1>6. ASSUME NEW h \in Handler, TruncateFrom(h) PROVE IndInv' /\ Falls
  <2>1. commitIndex' = commitIndex /\ nodeCommit' = nodeCommit
    BY <1>6 DEF TruncateFrom
  <2> QED
    BY <2>1, <1>1, <1>6, TruncateStep DEF Falls
<1>7. ASSUME NEW h \in Handler, AppendEntry(h) PROVE IndInv' /\ Falls
  <2>1. commitIndex' = commitIndex /\ nodeCommit' = nodeCommit
    BY <1>7 DEF AppendEntry
  <2> QED
    BY <2>1, <1>1, <1>7, AppendStep DEF Falls
<1>8. ASSUME NEW h \in Handler, ReadCommit(h) PROVE IndInv' /\ Falls
  <2>1. commitIndex' = commitIndex /\ nodeCommit' = nodeCommit
    BY <1>8 DEF ReadCommit
  <2> QED
    BY <2>1, <1>1, <1>8, ReadCommitStep DEF Falls
<1>9. ASSUME NEW h \in Handler, Commit(h) PROVE IndInv' /\ Falls
  <2>1. nodeCommit' = nodeCommit
    BY <1>9 DEF Commit
  <2> QED
    BY <2>1, <1>1, <1>9, CommitStep DEF Falls
<1>10. ASSUME NEW h \in Handler, Publish(h) PROVE IndInv' /\ Falls
  <2>1. commitIndex' = commitIndex
    BY <1>10 DEF Publish
  <2> QED
    BY <2>1, <1>1, <1>10, PublishStep DEF Falls
<1> QED
  BY <1>2, <1>3, <1>4, <1>5, <1>6, <1>7, <1>8, <1>9, <1>10 DEF Next

LEMMA Inductive ==
    ASSUME IndInv, [Next]_vars
    PROVE  IndInv' /\ ([Falls]_vars)
<1>1. CASE Next
  BY <1>1, NextInv
<1>2. CASE UNCHANGED vars
  <2>1. /\ currentTerm' = currentTerm /\ log' = log /\ commitIndex' = commitIndex
        /\ nodeCommit' = nodeCommit /\ handler' = handler /\ acked' = acked /\ windows' = windows
    BY <1>2 DEF vars
  <2>2. Shape'
    BY <2>1 DEF IndInv, Shape
  <2>3. Tidy'
    BY <2>1 DEF IndInv, Tidy, Clean
  <2>4. CommitsSettled'
    BY <2>1 DEF IndInv, CommitsSettled, Clean
  <2>5. CommitsOrdered'
    BY <2>1 DEF IndInv, CommitsOrdered
  <2> QED
    BY <1>2, <2>2, <2>3, <2>4, <2>5 DEF IndInv
<1> QED
  BY <1>1, <1>2

(* The invariant holds of every behaviour.                                  *)
THEOREM IndInvAlways == Spec => []IndInv
<1>1. IndInv /\ [Next]_vars => IndInv'
  BY Inductive
<1> QED
  BY <1>1, InitInv, PTL DEF Spec

(* The log, the commit indexes and the handlers keep their types.           *)
THEOREM TypeCorrect == Spec => []TypeOK
<1>1. IndInv => TypeOK
  <2> SUFFICES ASSUME IndInv PROVE TypeOK
    OBVIOUS
  <2>1. Shape
    BY DEF IndInv
  <2>2. \A k \in DOMAIN log : log[k].index \in Index /\ log[k].term \in Term
    BY <2>1, LogFacts DEF Shape
  <2>3. ASSUME NEW h \in Handler
        PROVE  handler[h].pc \in {"idle", "check", "look", "truncate", "append", "commit", "publish"}
    <3>1. CASE handler[h].pc = "idle"
      BY <3>1
    <3>2. CASE handler[h].pc # "idle"
      BY <3>2, <2>1, BusyFacts, FieldFacts
    <3> QED
      BY <3>1, <3>2
  <2> QED
    BY <2>1, <2>2, <2>3 DEF Shape, TypeOK
<1> QED
  BY <1>1, IndInvAlways, PTL

(* However the handlers interleave, an index is doubled or skipped only     *)
(* after a stale or late change of the log.                                 *)
THEOREM DenseAlways == Spec => []Dense
<1>1. IndInv => Dense
  <2> SUFFICES ASSUME IndInv, windows \subseteq {"blind", "crossed"}
               PROVE  \A k \in DOMAIN log : log[k].index = k
    BY DEF Dense
  <2>1. Clean
    BY DEF Clean
  <2> QED
    BY <2>1 DEF IndInv, Tidy, DenseLog
<1> QED
  BY <1>1, IndInvAlways, PTL

(* What the follower acknowledged to the current leader it has, as that     *)
(* leader has it.                                                           *)
THEOREM AckedIsHeld == Spec => []AckedHeld
<1>1. IndInv => AckedHeld
  <2> SUFFICES ASSUME IndInv, windows \subseteq {"blind", "crossed"}
               PROVE  /\ acked <= LastIndex
                      /\ \A i \in 1..acked : GetEntry(i) = LeaderLog[currentTerm][i]
    BY DEF AckedHeld
  <2>1. Clean /\ Shape /\ Tidy
    BY DEF Clean, IndInv
  <2>2. DenseLog(log) /\ AckHeld(acked, currentTerm, log)
    BY <2>1 DEF Tidy
  <2>3. acked \in Nat /\ log \in Seq(LogEntry) /\ Len(log) \in Nat
    BY <2>1, NowFacts
  <2>4. LastIndex = Len(log) /\ \A i \in 1..Len(log) : GetEntry(i) = log[i].term
    BY <2>2, <2>3, DenseFacts
  <2>5. CASE acked = 0
    BY <2>3, <2>4, <2>5
  <2>6. CASE acked # 0
    <3>1. acked <= Len(log) /\ \A i \in 1..acked : log[i].term = LeaderLog[currentTerm][i]
      BY <2>2, <2>6 DEF AckHeld, Matches
    <3>2. \A i \in 1..acked : i \in 1..Len(log)
      BY <3>1, <2>3
    <3> QED
      BY <3>1, <3>2, <2>4
  <2> QED
    BY <2>5, <2>6
<1> QED
  BY <1>1, IndInvAlways, PTL

(* Below the commit index the follower reads what a leader has committed,   *)
(* unless it committed blindly or changed its log on a stale answer.        *)
THEOREM CommittedReads == Spec => []CommittedReadable
<1>1. IndInv => CommittedReadable
  <2> SUFFICES ASSUME IndInv, windows \subseteq {"crossed"}, NEW i \in 1..commitIndex
               PROVE  \E t \in Term : i <= LeaderCommit[t] /\ GetEntry(i) = LeaderLog[t][i]
    BY DEF CommittedReadable
  <2>1. Clean /\ "blind" \notin windows /\ Shape /\ Tidy
    BY DEF Clean, IndInv
  <2>2. PICK t \in Term : i <= LeaderCommit[t] /\ i <= Len(log) /\ log[i].term = LeaderLog[t][i]
    BY <2>1 DEF IndInv, CommitsSettled, Settled
  <2>3. commitIndex \in Nat /\ log \in Seq(LogEntry) /\ Len(log) \in Nat /\ DenseLog(log)
    BY <2>1, NowFacts DEF Tidy
  <2>4. i \in 1..Len(log)
    BY <2>2, <2>3
  <2>5. GetEntry(i) = log[i].term
    BY <2>3, <2>4, DenseFacts
  <2> QED
    BY <2>2, <2>5
<1> QED
  BY <1>1, IndInvAlways, PTL

(* The commit indexes fall back only after a commit that crossed another.   *)
THEOREM CommitFalls == Spec => CommitFallsOnlyCrossing
<1>1. IndInv /\ [Next]_vars => [Falls]_vars
  BY Inductive
<1>2. Spec => [][Falls]_vars
  BY <1>1, IndInvAlways, PTL DEF Spec
<1> QED
  BY <1>2, PTL DEF CommitFallsOnlyCrossing, Falls

============================================================================
