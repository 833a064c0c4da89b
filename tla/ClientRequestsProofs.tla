------------------------ MODULE ClientRequestsProofs ------------------------
(***************************************************************************)
(* Theorems about ClientRequests, for any requests and any bounds.         *)
(***************************************************************************)
EXTENDS ClientRequests, SequenceTheorems, TLAPS

(***************************************************************************)
(* Sequences.                                                              *)
(***************************************************************************)

LEMMA AppendFacts ==
    ASSUME NEW S, NEW s \in Seq(S), NEW x \in S
    PROVE  /\ Append(s, x) \in Seq(S) /\ Len(s) \in Nat
           /\ Len(Append(s, x)) = Len(s) + 1
           /\ \A k \in 1..Len(s) : Append(s, x)[k] = s[k]
           /\ Append(s, x)[Len(s) + 1] = x
BY AppendProperties, LenProperties

LEMMA PrefixFacts ==
    ASSUME NEW S, NEW s \in Seq(S), NEW i \in Nat, i <= Len(s)
    PROVE  /\ Prefix(s, i) \in Seq(S)
           /\ Len(Prefix(s, i)) = i
           /\ \A k \in 1..i : Prefix(s, i)[k] = s[k]
<1>1. Len(s) \in Nat
  BY LenProperties
<1>2. \A k \in 1..i : s[k] \in S
  BY <1>1, ElementOfSeq
<1>3. /\ SubSeq(s, 1, i) \in Seq(S)
      /\ Len(SubSeq(s, 1, i)) = IF 1 <= i THEN i - 1 + 1 ELSE 0
      /\ \A k \in 1..(i - 1 + 1) : SubSeq(s, 1, i)[k] = s[1 + k - 1]
  BY <1>2, SubSeqProperties
<1> QED
  BY <1>3 DEF Prefix

(* Two logs that agree up to i have the same prefix of that length.         *)
LEMMA PrefixesEqual ==
    ASSUME NEW S, NEW s \in Seq(S), NEW u \in Seq(S), NEW i \in Nat,
           i <= Len(s), i <= Len(u), \A k \in 1..i : s[k] = u[k]
    PROVE  Prefix(s, i) = Prefix(u, i)
<1>1. /\ Prefix(s, i) \in Seq(S) /\ Len(Prefix(s, i)) = i
      /\ \A k \in 1..i : Prefix(s, i)[k] = s[k]
  BY PrefixFacts
<1>2. /\ Prefix(u, i) \in Seq(S) /\ Len(Prefix(u, i)) = i
      /\ \A k \in 1..i : Prefix(u, i)[k] = u[k]
  BY PrefixFacts
<1> QED
  BY <1>1, <1>2, SeqEqual

(***************************************************************************)
(* The inductive invariant.                                                *)
(***************************************************************************)

LogOK ==
    /\ state \in {"Follower", "Leader"} /\ currentTerm \in 0..MaxTerm
    /\ state = "Leader" => currentTerm >= 1
    /\ log \in Seq(Entry) /\ Len(log) <= MaxIndex
    /\ commitIndex \in 0..Len(log)

(* A request has an index once Replicate has appended its entry.            *)
RequestsOK ==
    /\ pc \in [Request -> {"new", "checked", "refused", "waiting", "committed",
                           "expired", "timeout"}]
    /\ index \in [Request -> 0..MaxIndex]
    /\ \A r \in Request : pc[r] \in {"new", "checked", "refused"} <=> index[r] = 0

(* A notifier waits at the index of its request.                            *)
NotifiersOK ==
    /\ DOMAIN notifiers \subseteq 1..MaxIndex
    /\ \A i \in DOMAIN notifiers : notifiers[i] \in Request /\ index[notifiers[i]] = i

(* The entry of a request stays at its index until it is truncated.         *)
EntriesStay ==
    \A r \in Request \ cut :
        index[r] # 0 => index[r] <= Len(log) /\ log[index[r]].by = r

(* A signal is sent for an index that is committed, and an answer 200 takes *)
(* a signal.                                                                *)
SignalsCommitted ==
    /\ \A r \in signalled : r \in Request /\ index[r] \in 1..commitIndex
    /\ \A r \in Request : pc[r] = "committed" => r \in signalled
    /\ posted \subseteq 1..commitIndex

(* Between its two reads GET /entries holds an index that is committed.     *)
ReaderBelow ==
    /\ reader = <<>> \/ \E c \in 0..commitIndex : reader = <<c>>
    /\ response \in Seq(Entry)

IndInv ==
    /\ LogOK /\ RequestsOK /\ NotifiersOK /\ EntriesStay /\ SignalsCommitted /\ ReaderBelow
    /\ NotifierOwned /\ SnapshotCommitted

USE RequestAssumption, LimitAssumption

LEMMA InitInv == Init => IndInv
<1> SUFFICES ASSUME Init PROVE IndInv
  OBVIOUS
<1>1. log = <<>> /\ log \in Seq(Entry) /\ Len(log) = 0
  BY EmptySeq DEF Init
<1>2. LogOK
  BY <1>1 DEF Init, LogOK
<1>3. RequestsOK
  BY DEF Init, RequestsOK
<1>4. NotifiersOK /\ EntriesStay /\ SignalsCommitted /\ NotifierOwned
  BY DEF Init, NotifiersOK, EntriesStay, SignalsCommitted, NotifierOwned
<1>5. response = <<>> /\ Len(response) = 0 /\ response \in Seq(Entry) /\ commitIndex = 0
  BY EmptySeq DEF Init
<1>6. ReaderBelow
  BY <1>5 DEF Init, ReaderBelow
<1>7. SnapshotCommitted
  <2>1. Prefix(log, 0) \in Seq(Entry) /\ Len(Prefix(log, 0)) = 0
    <3>1. 0 \in Nat /\ 0 <= Len(log)
      BY <1>1
    <3> QED
      BY <1>1, <3>1, PrefixFacts
  <2>2. Prefix(log, 0) = <<>>
    BY <2>1, EmptySeq
  <2> QED
    BY <2>2, <1>5 DEF SnapshotCommitted
<1> QED
  BY <1>2, <1>3, <1>4, <1>6, <1>7 DEF IndInv

(* What was answered stays right as long as the committed prefix does.      *)
LEMMA SnapshotStays ==
    ASSUME IndInv, log' \in Seq(Entry), commitIndex' \in Nat, commitIndex <= commitIndex',
           commitIndex' <= Len(log'), \A k \in 1..commitIndex : log'[k] = log[k],
           response' = response
    PROVE  SnapshotCommitted'
<1>1. /\ log \in Seq(Entry) /\ Len(log) \in Nat /\ Len(log') \in Nat /\ commitIndex \in 0..Len(log)
      /\ response \in Seq(Entry) /\ Len(response) \in Nat
      /\ Len(response) <= commitIndex /\ response = Prefix(log, Len(response))
  BY LenProperties DEF IndInv, LogOK, ReaderBelow, SnapshotCommitted
<1>2. \A k \in 1..Len(response) : log'[k] = log[k]
  BY <1>1
<1>3. Len(response) <= Len(log) /\ Len(response) <= Len(log')
  BY <1>1
<1>4. Prefix(log', Len(response)) = Prefix(log, Len(response))
  BY <1>1, <1>2, <1>3, PrefixesEqual
<1> QED
  BY <1>1, <1>4 DEF SnapshotCommitted

(* Steps of a handler that leave the log and the notifiers alone.           *)
LEMMA CheckLeaderStep ==
    ASSUME IndInv, NEW r \in Request, CheckLeader(r)
    PROVE  IndInv'
<1> USE DEF IndInv
<1>1. /\ pc[r] = "new" /\ index[r] = 0
      /\ pc' = [pc EXCEPT ![r] = IF state = "Leader" THEN "checked" ELSE "refused"]
      /\ UNCHANGED <<nodeVars, log, commitIndex, notifiers, signalled, index, made,
                     readVars, cut, posted>>
  BY DEF CheckLeader, RequestsOK
<1>2. RequestsOK'
  BY <1>1 DEF RequestsOK
<1>3. \A q \in Request : /\ pc'[q] = "waiting" => pc[q] = "waiting"
                         /\ pc'[q] = "committed" => pc[q] = "committed"
  BY <1>1 DEF RequestsOK
<1>4. LogOK' /\ NotifiersOK' /\ EntriesStay'
  BY <1>1 DEF LogOK, NotifiersOK, EntriesStay, nodeVars
<1>5. SignalsCommitted' /\ ReaderBelow' /\ SnapshotCommitted'
  BY <1>1, <1>3 DEF SignalsCommitted, ReaderBelow, SnapshotCommitted, readVars
<1>6. NotifierOwned'
  BY <1>1, <1>3 DEF NotifierOwned, OwnIndex
<1> QED
  BY <1>2, <1>4, <1>5, <1>6

LEMMA AnswerStep ==
    ASSUME IndInv, NEW r \in Request, Answer(r)
    PROVE  IndInv'
<1> USE DEF IndInv
<1>1. /\ pc[r] = "waiting" /\ index[r] # 0 /\ r \in signalled
      /\ pc' = [pc EXCEPT ![r] = "committed"]
      /\ UNCHANGED <<nodeVars, log, commitIndex, notifiers, signalled, index, made,
                     readVars, cut, posted>>
  BY DEF Answer, RequestsOK
<1>2. RequestsOK'
  BY <1>1 DEF RequestsOK
<1>3. \A q \in Request : /\ pc'[q] = "waiting" => pc[q] = "waiting"
                         /\ pc'[q] = "committed" => pc[q] = "committed" \/ q \in signalled
  BY <1>1 DEF RequestsOK
<1>4. LogOK' /\ NotifiersOK' /\ EntriesStay'
  BY <1>1 DEF LogOK, NotifiersOK, EntriesStay, nodeVars
<1>5. SignalsCommitted' /\ ReaderBelow' /\ SnapshotCommitted'
  BY <1>1, <1>3 DEF SignalsCommitted, ReaderBelow, SnapshotCommitted, readVars
<1>6. NotifierOwned'
  BY <1>1, <1>3 DEF NotifierOwned, OwnIndex
<1> QED
  BY <1>2, <1>4, <1>5, <1>6

LEMMA ExpireStep ==
    ASSUME IndInv, NEW r \in Request, Expire(r)
    PROVE  IndInv'
<1> USE DEF IndInv
<1>1. /\ pc[r] = "waiting" /\ index[r] # 0
      /\ pc' = [pc EXCEPT ![r] = "expired"]
      /\ UNCHANGED <<nodeVars, log, commitIndex, notifiers, signalled, index, made,
                     readVars, cut, posted>>
  BY DEF Expire, RequestsOK
<1>2. RequestsOK'
  BY <1>1 DEF RequestsOK
<1>3. \A q \in Request : /\ pc'[q] = "waiting" => pc[q] = "waiting"
                         /\ pc'[q] = "committed" => pc[q] = "committed"
  BY <1>1 DEF RequestsOK
<1>4. LogOK' /\ NotifiersOK' /\ EntriesStay'
  BY <1>1 DEF LogOK, NotifiersOK, EntriesStay, nodeVars
<1>5. SignalsCommitted' /\ ReaderBelow' /\ SnapshotCommitted'
  BY <1>1, <1>3 DEF SignalsCommitted, ReaderBelow, SnapshotCommitted, readVars
<1>6. NotifierOwned'
  BY <1>1, <1>3 DEF NotifierOwned, OwnIndex
<1> QED
  BY <1>2, <1>4, <1>5, <1>6

(* A request that gave up deletes the notifier of its index, its own or, if *)
(* the index has been written again, another's.                             *)
LEMMA TimeOutStep ==
    ASSUME IndInv, NEW r \in Request, TimeOut(r)
    PROVE  IndInv'
<1> USE DEF IndInv
<1>1. /\ pc[r] = "expired" /\ index[r] # 0
      /\ pc' = [pc EXCEPT ![r] = "timeout"]
      /\ notifiers' = Without({index[r]})
      /\ UNCHANGED <<nodeVars, log, commitIndex, signalled, index, made,
                     readVars, cut, posted>>
  BY DEF TimeOut, Forgotten, RequestsOK
<1>2. RequestsOK'
  BY <1>1 DEF RequestsOK
<1>3. \A q \in Request : /\ pc'[q] = "waiting" => pc[q] = "waiting" /\ q # r
                         /\ pc'[q] = "committed" => pc[q] = "committed"
  BY <1>1 DEF RequestsOK
<1>4. /\ DOMAIN notifiers' = DOMAIN notifiers \ {index[r]}
      /\ \A i \in DOMAIN notifiers' : notifiers'[i] = notifiers[i]
  BY <1>1 DEF Without
<1>5. LogOK' /\ EntriesStay'
  BY <1>1 DEF LogOK, EntriesStay, nodeVars
<1>6. NotifiersOK'
  BY <1>1, <1>4 DEF NotifiersOK
<1>7. SignalsCommitted' /\ ReaderBelow' /\ SnapshotCommitted'
  BY <1>1, <1>3 DEF SignalsCommitted, ReaderBelow, SnapshotCommitted, readVars
<1>8. NotifierOwned'
  BY <1>1, <1>3, <1>4 DEF NotifierOwned, OwnIndex
<1> QED
  BY <1>2, <1>5, <1>6, <1>7, <1>8

(* The append of the leader: a new index, above everything committed, with  *)
(* the notifier of this request.                                            *)
LEMMA ReplicateStep ==
    ASSUME IndInv, NEW r \in Request, Replicate(r)
    PROVE  IndInv'
<1> USE DEF IndInv
<1>1. /\ pc[r] = "checked" /\ index[r] = 0
      /\ UNCHANGED <<nodeVars, commitIndex, signalled, readVars, cut, posted>>
  BY DEF Replicate, RequestsOK
<1>2. CASE state # "Leader"
  <2>1. pc' = [pc EXCEPT ![r] = "refused"] /\ UNCHANGED <<log, notifiers, index, made>>
    BY <1>2 DEF Replicate
  <2>2. RequestsOK'
    BY <1>1, <2>1 DEF RequestsOK
  <2>3. \A q \in Request : /\ pc'[q] = "waiting" => pc[q] = "waiting"
                           /\ pc'[q] = "committed" => pc[q] = "committed"
    BY <1>1, <2>1 DEF RequestsOK
  <2>4. LogOK' /\ NotifiersOK' /\ EntriesStay'
    BY <1>1, <2>1 DEF LogOK, NotifiersOK, EntriesStay, nodeVars
  <2>5. SignalsCommitted' /\ ReaderBelow' /\ SnapshotCommitted'
    BY <1>1, <2>1, <2>3 DEF SignalsCommitted, ReaderBelow, SnapshotCommitted, readVars
  <2>6. NotifierOwned'
    BY <1>1, <2>1, <2>3 DEF NotifierOwned, OwnIndex
  <2> QED
    BY <2>2, <2>4, <2>5, <2>6
<1>3. CASE state = "Leader"
  <2> DEFINE e == [term |-> currentTerm, by |-> r]
             n == Len(log) + 1
  <2>1. /\ Len(log) < MaxIndex /\ log' = Append(log, e)
        /\ index' = [index EXCEPT ![r] = Len(log')]
        /\ notifiers' = WithNotifier(Len(log'), r)
        /\ pc' = [pc EXCEPT ![r] = "waiting"]
    BY <1>3 DEF Replicate
  <2>2. e \in Entry /\ e.by = r
    BY <1>3 DEF Entry, LogOK
  <2> HIDE DEF e
  <2>3. /\ log' \in Seq(Entry) /\ Len(log) \in Nat /\ Len(log') = n
        /\ \A k \in 1..Len(log) : log'[k] = log[k]
        /\ log'[n] = e
    BY <2>1, <2>2, AppendFacts DEF LogOK
  <2>4. LogOK'
    BY <1>1, <2>1, <2>3 DEF LogOK, nodeVars
  <2>5. n \in 1..MaxIndex /\ n # 0 /\ n > commitIndex /\ commitIndex \in Nat
    BY <2>1, <2>3 DEF LogOK
  <2>6. /\ index' \in [Request -> 0..MaxIndex] /\ index'[r] = n
        /\ \A q \in Request \ {r} : index'[q] = index[q] /\ pc'[q] = pc[q]
        /\ pc'[r] = "waiting"
    BY <2>1, <2>3, <2>5 DEF RequestsOK
  <2>7. RequestsOK'
    BY <2>1, <2>5, <2>6 DEF RequestsOK
  <2>8. /\ DOMAIN notifiers' = DOMAIN notifiers \cup {n}
        /\ notifiers'[n] = r
        /\ \A i \in DOMAIN notifiers \ {n} : notifiers'[i] = notifiers[i]
    BY <2>1, <2>3 DEF WithNotifier
  <2>9. \A i \in DOMAIN notifiers : notifiers[i] \in Request \ {r}
    BY <1>1 DEF NotifiersOK
  <2>10. NotifiersOK'
    BY <2>5, <2>6, <2>8, <2>9 DEF NotifiersOK
  <2>11. EntriesStay'
    <3> SUFFICES ASSUME NEW q \in Request \ cut, index'[q] # 0
                 PROVE  index'[q] <= Len(log') /\ log'[index'[q]].by = q
      BY <1>1 DEF EntriesStay
    <3>1. CASE q = r
      BY <3>1, <2>2, <2>3, <2>6
    <3>2. CASE q # r
      <4>1. index'[q] = index[q] /\ index[q] \in 0..MaxIndex
        BY <3>2, <2>6 DEF RequestsOK
      <4>2. index[q] \in 1..Len(log) /\ log[index[q]].by = q
        BY <4>1, <2>3 DEF EntriesStay
      <4> QED
        BY <4>1, <4>2, <2>3
    <3> QED
      BY <3>1, <3>2
  <2>12. SignalsCommitted'
    <3>1. \A q \in signalled : q \in Request \ {r}
      BY <1>1 DEF SignalsCommitted
    <3> QED
      BY <3>1, <1>1, <2>6 DEF SignalsCommitted
  <2>13. ReaderBelow'
    BY <1>1 DEF ReaderBelow, readVars
  <2>14. SnapshotCommitted'
    <3>1. /\ commitIndex' = commitIndex /\ response' = response
          /\ commitIndex <= commitIndex /\ commitIndex <= Len(log')
          /\ \A k \in 1..commitIndex : log'[k] = log[k]
      BY <1>1, <2>3, <2>5 DEF readVars, LogOK
    <3> QED
      BY <3>1, <2>3, <2>5, SnapshotStays
  <2>15. NotifierOwned'
    <3> SUFFICES ASSUME NEW q \in Request \ cut, pc'[q] = "waiting", OwnIndex(q)'
                 PROVE  /\ index'[q] > commitIndex =>
                             index'[q] \in DOMAIN notifiers' /\ notifiers'[index'[q]] = q
                        /\ index'[q] \in posted => q \in signalled
      BY <1>1 DEF NotifierOwned
    <3>1. CASE q = r
      <4>1. n \notin posted
        BY <2>5 DEF SignalsCommitted
      <4> QED
        BY <3>1, <4>1, <2>6, <2>8
    <3>2. CASE q # r
      <4>1. index'[q] = index[q] /\ pc[q] = "waiting" /\ index[q] # n
        BY <3>2, <2>6 DEF OwnIndex
      <4>2. index[q] # 0
        BY <4>1 DEF RequestsOK
      <4>3. OwnIndex(q)
        BY <4>2, <1>1, <2>6 DEF OwnIndex
      <4> QED
        BY <4>1, <4>3, <2>8 DEF NotifierOwned
    <3> QED
      BY <3>1, <3>2
  <2> QED
    BY <2>4, <2>7, <2>10, <2>11, <2>12, <2>13, <2>14, <2>15
<1> QED
  BY <1>2, <1>3

(* The commit index is read first, and what is below it stays.              *)
LEMMA ReadEntriesStep ==
    ASSUME IndInv, ReadEntries
    PROVE  IndInv'
<1> USE DEF IndInv
<1>1. /\ UNCHANGED <<nodeVars, log, commitIndex, waitVars, cut, posted>>
      /\ log \in Seq(Entry) /\ Len(log) \in Nat /\ commitIndex \in 0..Len(log)
  BY LenProperties DEF ReadEntries, LogOK
<1>2. LogOK' /\ RequestsOK' /\ NotifiersOK' /\ EntriesStay' /\ SignalsCommitted'
  BY <1>1 DEF LogOK, RequestsOK, NotifiersOK, EntriesStay, SignalsCommitted, nodeVars, waitVars
<1>3. NotifierOwned'
  BY <1>1 DEF NotifierOwned, OwnIndex, waitVars
<1>4. CASE reader = <<>> /\ reader' = <<commitIndex>> /\ response' = response
  <2>1. commitIndex \in 0..commitIndex
    BY <1>1
  <2> QED
    BY <1>1, <1>2, <1>3, <1>4, <2>1 DEF ReaderBelow, SnapshotCommitted
<1>5. CASE reader # <<>> /\ reader' = <<>> /\ response' = Prefix(log, reader[1])
  <2>1. PICK c \in 0..commitIndex : reader = <<c>>
    BY <1>5 DEF ReaderBelow
  <2>2. response' = Prefix(log, c)
    BY <1>5, <2>1
  <2>3. c \in Nat /\ c <= Len(log) /\ c <= commitIndex
    BY <1>1, <2>1
  <2>4. response' \in Seq(Entry) /\ Len(response') = c
    BY <1>1, <2>2, <2>3, PrefixFacts
  <2> QED
    BY <1>1, <1>2, <1>3, <1>5, <2>2, <2>3, <2>4 DEF ReaderBelow, SnapshotCommitted
<1> QED
  BY <1>4, <1>5 DEF ReadEntries

(* A new term leaves the log and the requests alone.                        *)
LEMMA BecomeStep ==
    ASSUME IndInv, BecomeLeader \/ BecomeFollower
    PROVE  IndInv'
<1> USE DEF IndInv
<1>1. /\ state' \in {"Follower", "Leader"} /\ currentTerm' = currentTerm + 1
      /\ currentTerm < MaxTerm
      /\ UNCHANGED <<log, commitIndex, waitVars, readVars, cut, posted>>
  BY DEF BecomeLeader, BecomeFollower
<1>2. LogOK'
  BY <1>1 DEF LogOK
<1>3. RequestsOK' /\ NotifiersOK' /\ EntriesStay' /\ SignalsCommitted'
  BY <1>1 DEF RequestsOK, NotifiersOK, EntriesStay, SignalsCommitted, waitVars
<1>4. ReaderBelow' /\ SnapshotCommitted'
  BY <1>1 DEF ReaderBelow, SnapshotCommitted, readVars
<1>5. NotifierOwned'
  BY <1>1 DEF NotifierOwned, OwnIndex, waitVars
<1> QED
  BY <1>2, <1>3, <1>4, <1>5

(* A commit of the leader signals the notifiers it deletes.                 *)
LEMMA AdvanceStep ==
    ASSUME IndInv, NEW i \in 1..MaxIndex, AdvanceCommitTo(i)
    PROVE  IndInv'
<1> USE DEF IndInv
<1>1. /\ i \in (commitIndex + 1)..Len(log) /\ commitIndex' = i
      /\ signalled' = signalled \cup Notified(i)
      /\ notifiers' = Without(1..i)
      /\ posted' = posted \cup ((commitIndex + 1)..i)
      /\ UNCHANGED <<nodeVars, log, pc, index, made, readVars, cut>>
      /\ log \in Seq(Entry) /\ Len(log) \in Nat /\ commitIndex \in Nat
  BY LenProperties DEF AdvanceCommitTo, Posted, LogOK
<1>2. i > commitIndex /\ i <= Len(log) /\ \A k \in 0..commitIndex : k \in 0..i
  BY <1>1
<1>3. LogOK'
  BY <1>1, <1>2 DEF LogOK, nodeVars
<1>4. /\ DOMAIN notifiers' = DOMAIN notifiers \ (1..i)
      /\ \A j \in DOMAIN notifiers' : notifiers'[j] = notifiers[j]
  BY <1>1 DEF Without
<1>5. RequestsOK' /\ NotifiersOK' /\ EntriesStay'
  BY <1>1, <1>4 DEF RequestsOK, NotifiersOK, EntriesStay
<1>6. \A q : q \in Notified(i) <=>
               \E j \in DOMAIN notifiers : j \in (commitIndex + 1)..i /\ q = notifiers[j]
  BY DEF Notified
<1>7. SignalsCommitted'
  <2>1. \A q \in Notified(i) : q \in Request /\ index[q] \in 1..i
    BY <1>1, <1>6 DEF NotifiersOK
  <2>2. \A q \in signalled : q \in Request /\ index[q] \in 1..i
    BY <1>1, <1>2 DEF SignalsCommitted
  <2>3. posted' \subseteq 1..i
    BY <1>1, <1>2 DEF SignalsCommitted
  <2> QED
    BY <1>1, <2>1, <2>2, <2>3 DEF SignalsCommitted
<1>8. ReaderBelow'
  BY <1>1, <1>2 DEF ReaderBelow, readVars
<1>9. SnapshotCommitted'
  <2>1. /\ log' \in Seq(Entry) /\ commitIndex' \in Nat /\ commitIndex <= commitIndex'
        /\ commitIndex' <= Len(log') /\ response' = response
        /\ \A k \in 1..commitIndex : log'[k] = log[k]
    BY <1>1, <1>2 DEF readVars
  <2> QED
    BY <2>1, SnapshotStays
<1>10. NotifierOwned'
  <2> SUFFICES ASSUME NEW q \in Request \ cut, pc[q] = "waiting", OwnIndex(q)
               PROVE  /\ index[q] > i =>
                           index[q] \in DOMAIN notifiers' /\ notifiers'[index[q]] = q
                      /\ index[q] \in posted' => q \in signalled'
    BY <1>1 DEF NotifierOwned, OwnIndex
  <2>1. index[q] \in Nat
    BY DEF RequestsOK
  <2>2. /\ index[q] > commitIndex =>
             index[q] \in DOMAIN notifiers /\ notifiers[index[q]] = q
        /\ index[q] \in posted => q \in signalled
    BY DEF NotifierOwned
  <2>3. ASSUME index[q] > i
        PROVE  index[q] \in DOMAIN notifiers' /\ notifiers'[index[q]] = q
    <3>1. index[q] > commitIndex /\ index[q] \notin 1..i
      BY <2>1, <2>3, <1>1
    <3> QED
      BY <3>1, <2>2, <1>4
  <2>4. ASSUME index[q] \in (commitIndex + 1)..i PROVE q \in signalled'
    <3>1. index[q] > commitIndex
      BY <2>1, <2>4, <1>1
    <3>2. q \in Notified(i)
      BY <3>1, <2>2, <2>4, <1>6
    <3> QED
      BY <3>2, <1>1
  <2> QED
    BY <2>2, <2>3, <2>4, <1>1
<1> QED
  BY <1>3, <1>5, <1>7, <1>8, <1>9, <1>10

(* A commit of a follower posts nothing and signals nobody.                 *)
LEMMA FollowerCommitStep ==
    ASSUME IndInv, NEW i \in 1..MaxIndex, FollowerCommit(i)
    PROVE  IndInv'
<1> USE DEF IndInv
<1>1. /\ i \in (commitIndex + 1)..Len(log) /\ commitIndex' = i
      /\ UNCHANGED <<nodeVars, log, waitVars, readVars, cut, posted>>
      /\ log \in Seq(Entry) /\ Len(log) \in Nat /\ commitIndex \in Nat
  BY LenProperties DEF FollowerCommit, LogOK
<1>2. i > commitIndex /\ i <= Len(log) /\ \A k \in 0..commitIndex : k \in 0..i
  BY <1>1
<1>3. LogOK'
  BY <1>1, <1>2 DEF LogOK, nodeVars
<1>4. RequestsOK' /\ NotifiersOK' /\ EntriesStay'
  BY <1>1 DEF RequestsOK, NotifiersOK, EntriesStay, waitVars
<1>5. SignalsCommitted'
  BY <1>1, <1>2 DEF SignalsCommitted, waitVars
<1>6. ReaderBelow'
  BY <1>1, <1>2 DEF ReaderBelow, readVars
<1>7. SnapshotCommitted'
  <2>1. /\ log' \in Seq(Entry) /\ commitIndex' \in Nat /\ commitIndex <= commitIndex'
        /\ commitIndex' <= Len(log') /\ response' = response
        /\ \A k \in 1..commitIndex : log'[k] = log[k]
    BY <1>1, <1>2 DEF readVars
  <2> QED
    BY <2>1, SnapshotStays
<1>8. NotifierOwned'
  <2>1. \A q \in Request : index[q] \in Nat
    BY DEF RequestsOK
  <2>2. \A q \in Request : index[q] > i => index[q] > commitIndex
    BY <2>1, <1>1, <1>2
  <2> QED
    BY <2>2, <1>1 DEF NotifierOwned, OwnIndex, waitVars
<1> QED
  BY <1>3, <1>4, <1>5, <1>6, <1>7, <1>8

(* Another leader's entry: what it replaces is cut, what is committed stays.*)
LEMMA FollowerAppendStep ==
    ASSUME IndInv, NEW k \in 0..MaxIndex, NEW e \in Entry, FollowerAppend(k, e)
    PROVE  IndInv'
<1> USE DEF IndInv
<1>1. /\ k \in commitIndex..Len(log) /\ k < MaxIndex
      /\ log' = Append(Prefix(log, k), e)
      /\ cut' = cut \cup ({log[j].by : j \in (k + 1)..Len(log)} \ {Other})
      /\ UNCHANGED <<nodeVars, commitIndex, waitVars, readVars, posted>>
      /\ log \in Seq(Entry) /\ Len(log) \in Nat /\ commitIndex \in 0..Len(log)
  BY LenProperties DEF FollowerAppend, LogOK
<1>2. k \in Nat /\ k <= Len(log) /\ commitIndex <= k
  BY <1>1
<1>3. /\ Prefix(log, k) \in Seq(Entry) /\ Len(Prefix(log, k)) = k
      /\ \A j \in 1..k : Prefix(log, k)[j] = log[j]
  BY <1>1, <1>2, PrefixFacts
<1>4. /\ log' \in Seq(Entry) /\ Len(log') = k + 1
      /\ \A j \in 1..k : log'[j] = log[j]
  BY <1>1, <1>3, AppendFacts
<1>5. LogOK'
  BY <1>1, <1>2, <1>4 DEF LogOK, nodeVars
<1>6. RequestsOK' /\ NotifiersOK' /\ SignalsCommitted' /\ ReaderBelow'
  BY <1>1 DEF RequestsOK, NotifiersOK, SignalsCommitted, ReaderBelow, waitVars, readVars
<1>7. EntriesStay'
  <2> SUFFICES ASSUME NEW q \in Request \ cut', index[q] # 0
               PROVE  index[q] <= Len(log') /\ log'[index[q]].by = q
    BY <1>1 DEF EntriesStay, waitVars
  <2>1. q \in Request \ cut /\ index[q] \in Nat
    BY <1>1 DEF RequestsOK
  <2>2. index[q] \in 1..Len(log) /\ log[index[q]].by = q
    BY <2>1, <1>1 DEF EntriesStay
  <2>3. index[q] \notin (k + 1)..Len(log)
    <3> SUFFICES ASSUME index[q] \in (k + 1)..Len(log) PROVE FALSE
      OBVIOUS
    <3>1. q # Other
      BY <2>1
    <3>2. q \in {log[j].by : j \in (k + 1)..Len(log)} \ {Other}
      BY <3>1, <2>2
    <3> QED
      BY <3>2, <1>1
  <2>4. index[q] \in 1..k
    BY <2>1, <2>2, <2>3, <1>1, <1>2
  <2> QED
    BY <2>2, <2>4, <1>2, <1>4
<1>8. SnapshotCommitted'
  <2>1. /\ commitIndex' \in Nat /\ commitIndex <= commitIndex'
        /\ commitIndex' <= Len(log') /\ response' = response
        /\ \A j \in 1..commitIndex : log'[j] = log[j]
    <3>1. commitIndex \in Nat /\ commitIndex' = commitIndex /\ response' = response
      BY <1>1 DEF readVars
    <3>2. commitIndex <= k + 1 /\ \A j \in 1..commitIndex : j \in 1..k
      BY <3>1, <1>2
    <3> QED
      BY <3>1, <3>2, <1>4
  <2> QED
    BY <2>1, <1>4, SnapshotStays
<1>9. NotifierOwned'
  <2>1. \A q \in Request \ cut' : q \in Request \ cut
    BY <1>1
  <2> QED
    BY <2>1, <1>1 DEF NotifierOwned, OwnIndex, waitVars
<1> QED
  BY <1>5, <1>6, <1>7, <1>8, <1>9

LEMMA NextInv == IndInv /\ [Next]_vars => IndInv'
<1> SUFFICES ASSUME IndInv, [Next]_vars PROVE IndInv'
  OBVIOUS
<1>1. CASE \E r \in Request : HandlerStep(r)
  BY <1>1, CheckLeaderStep, ReplicateStep, AnswerStep, ExpireStep, TimeOutStep DEF HandlerStep
<1>2. CASE ReadEntries
  BY <1>2, ReadEntriesStep
<1>3. CASE BecomeLeader \/ BecomeFollower
  BY <1>3, BecomeStep
<1>4. CASE \E i \in 1..MaxIndex : AdvanceCommitTo(i) \/ FollowerCommit(i)
  BY <1>4, AdvanceStep, FollowerCommitStep
<1>5. CASE \E k \in 0..MaxIndex, e \in Entry : FollowerAppend(k, e)
  BY <1>5, FollowerAppendStep
<1>6. CASE UNCHANGED vars
  BY <1>6 DEF IndInv, LogOK, RequestsOK, NotifiersOK, EntriesStay, SignalsCommitted,
              ReaderBelow, NotifierOwned, OwnIndex, SnapshotCommitted,
              vars, nodeVars, waitVars, readVars
<1> QED
  BY <1>1, <1>2, <1>3, <1>4, <1>5, <1>6 DEF Next

LEMMA Inductive == Spec => []IndInv
BY InitInv, NextInv, PTL DEF Spec

(***************************************************************************)
(* What follows.                                                           *)
(***************************************************************************)

(* The types of the state.                                                  *)
THEOREM TypeCorrect == Spec => []TypeOK
<1>1. IndInv => TypeOK
  BY DEF IndInv, LogOK, RequestsOK, NotifiersOK, TypeOK
<1> QED
  BY <1>1, Inductive, PTL

(* Whoever was answered 200 has its own entry committed, unless the entry   *)
(* was truncated while the request waited.                                  *)
THEOREM AckedIsCommitted == Spec => []AckedUnlessCut
<1>1. IndInv => AckedUnlessCut
  <2> SUFFICES ASSUME IndInv, NEW r \in Request \ cut, pc[r] = "committed"
               PROVE  Committed(r)
    BY DEF AckedUnlessCut
  <2>1. r \in signalled /\ index[r] \in 1..commitIndex /\ index[r] # 0
    BY DEF IndInv, SignalsCommitted, LogOK
  <2>2. log[index[r]].by = r
    BY <2>1 DEF IndInv, EntriesStay
  <2> QED
    BY <2>1, <2>2 DEF Committed
<1> QED
  BY <1>1, Inductive, PTL

(* The notifier of a waiting request is its own until its entry is          *)
(* committed by this replica as a leader, and then the request is signalled.*)
THEOREM NotifierStays == Spec => []NotifierOwned
<1>1. IndInv => NotifierOwned
  BY DEF IndInv
<1> QED
  BY <1>1, Inductive, PTL

(* GET /entries answers a prefix of the committed log.                      *)
THEOREM SnapshotIsCommitted == Spec => []SnapshotCommitted
<1>1. IndInv => SnapshotCommitted
  BY DEF IndInv
<1> QED
  BY <1>1, Inductive, PTL

============================================================================
