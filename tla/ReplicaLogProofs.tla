------------------------- MODULE ReplicaLogProofs -------------------------
(***************************************************************************)
(* Theorems about ReplicaLog, for any bounds on terms, indexes, lines and  *)
(* crashes.                                                                *)
(***************************************************************************)
EXTENDS ReplicaLog, SequenceTheorems, FiniteSetTheorems, TLAPS

(* A set of naturals has a least element, a bounded one a greatest.         *)
LEMMA LeastOfNat ==
    ASSUME NEW S \in SUBSET Nat, S # {}
    PROVE  \E m \in S : \A k \in S : m <= k
<1> DEFINE R == {ss \in Nat \X Nat : ss[1] < ss[2]}
<1>1. IsWellFoundedOn(R, Nat)
  BY NatLessThanWellFounded DEF OpToRel
<1>2. S \subseteq Nat
  OBVIOUS
<1> HIDE DEF R
<1>3. PICK m \in S : \A k \in S : ~(<<k, m>> \in R)
  BY <1>1, <1>2, WFMin
<1>4. \A k \in S : <<k, m>> \in R <=> k < m
  BY <1>2 DEF R
<1>5. ASSUME NEW k \in S PROVE m <= k
  <2>1. k \in Nat /\ m \in Nat
    BY <1>2
  <2>2. ~(k < m)
    BY <1>3, <1>4
  <2> QED
    BY <2>1, <2>2
<1> QED
  BY <1>5

LEMMA GreatestBelow ==
    ASSUME NEW b \in Nat, NEW S \in SUBSET (0..b), S # {}
    PROVE  \E m \in S : \A k \in S : k <= m
<1> DEFINE T == {b - k : k \in S}
<1>1. T \in SUBSET Nat /\ T # {}
  <2>1. \A k \in S : b - k \in Nat
    OBVIOUS
  <2> QED
    BY <2>1
<1>2. PICK x \in T : \A y \in T : x <= y
  BY <1>1, LeastOfNat
<1>3. PICK m \in S : x = b - m
  BY <1>2
<1>4. \A k \in S : b - m <= b - k /\ k \in Nat
  BY <1>2, <1>3
<1> QED
  BY <1>3, <1>4

(***************************************************************************)
(* What a replay reads.                                                    *)
(***************************************************************************)

WalLine ==
    {EntryLine(e) : e \in Entry} \cup {TermLine(t) : t \in 1..MaxTerm}
      \cup {CommitLine(c) : c \in 1..MaxIndex} \cup {Garbled}

(* What the fields of a line are, by its type.                              *)
LEMMA LineFacts ==
    /\ \A e \in Entry : EntryLine(e) \in WalLine
    /\ \A t \in 1..MaxTerm : TermLine(t) \in WalLine
    /\ \A c \in 1..MaxIndex : CommitLine(c) \in WalLine
    /\ Garbled \in WalLine
    /\ \A l \in WalLine :
         /\ l.type = "ENTRY" => l.entry \in Entry
         /\ l.type = "TERM" => l.term \in 1..MaxTerm
         /\ l.type = "COMMIT" => l.commit \in 1..MaxIndex
<1>1. /\ \A e \in Entry : EntryLine(e) \in WalLine
      /\ \A t \in 1..MaxTerm : TermLine(t) \in WalLine
      /\ \A c \in 1..MaxIndex : CommitLine(c) \in WalLine
      /\ Garbled \in WalLine
  BY DEF WalLine
<1>2. ASSUME NEW l \in WalLine
      PROVE  /\ l.type = "ENTRY" => l.entry \in Entry
             /\ l.type = "TERM" => l.term \in 1..MaxTerm
             /\ l.type = "COMMIT" => l.commit \in 1..MaxIndex
  <2>1. CASE \E e \in Entry : l = EntryLine(e)
    BY <2>1 DEF EntryLine
  <2>2. CASE \E t \in 1..MaxTerm : l = TermLine(t)
    BY <2>2 DEF TermLine
  <2>3. CASE \E c \in 1..MaxIndex : l = CommitLine(c)
    BY <2>3 DEF CommitLine
  <2>4. CASE l = Garbled
    BY <2>4 DEF Garbled
  <2> QED
    BY <1>2, <2>1, <2>2, <2>3, <2>4 DEF WalLine
<1> QED
  BY <1>1, <1>2

(* The lines up to k that hold entries are finitely many.                   *)
LEMMA UpToFacts ==
    ASSUME NEW w \in Seq(WalLine)
    PROVE  /\ EntryLines(w) \subseteq 1..Len(w)
           /\ IsFiniteSet(EntryLines(w))
           /\ Cardinality(EntryLines(w)) \in Nat
           /\ \A k : IsFiniteSet({j \in EntryLines(w) : j <= k}) /\ UpTo(w, k) \in Nat
<1>1. EntryLines(w) \subseteq 1..Len(w) /\ Len(w) \in Nat
  BY LenProperties DEF EntryLines
<1>2. IsFiniteSet(1..Len(w))
  BY <1>1, FS_Interval
<1>3. IsFiniteSet(EntryLines(w)) /\ Cardinality(EntryLines(w)) \in Nat
  BY <1>1, <1>2, FS_Subset, FS_CardinalityType
<1>4. ASSUME NEW k
      PROVE  IsFiniteSet({j \in EntryLines(w) : j <= k}) /\ UpTo(w, k) \in Nat
  <2>1. {j \in EntryLines(w) : j <= k} \in SUBSET EntryLines(w)
    OBVIOUS
  <2>2. IsFiniteSet({j \in EntryLines(w) : j <= k})
    BY <2>1, <1>3, FS_Subset
  <2> QED
    BY <2>2, FS_CardinalityType DEF UpTo
<1> QED
  BY <1>1, <1>3, <1>4

(* Two lines with entries are not the n-th both.                            *)
LEMMA NthUnique ==
    ASSUME NEW w \in Seq(WalLine), NEW a \in EntryLines(w), NEW b \in EntryLines(w),
           UpTo(w, a) = UpTo(w, b)
    PROVE  a = b
<1>1. a \in Nat /\ b \in Nat
  <2>1. \A k \in EntryLines(w) : k \in 1..Len(w)
    BY UpToFacts
  <2> QED
    BY <2>1, LenProperties
<1> DEFINE A == {j \in EntryLines(w) : j <= a}
           B == {j \in EntryLines(w) : j <= b}
<1>2. IsFiniteSet(A) /\ IsFiniteSet(B) /\ Cardinality(A) = Cardinality(B)
  BY UpToFacts DEF UpTo
<1>3. \A j \in EntryLines(w) : j \in Nat
  BY UpToFacts, LenProperties
<1>4. CASE a <= b
  <2>1. A \in SUBSET B
    <3> SUFFICES ASSUME NEW j \in EntryLines(w), j <= a PROVE j <= b
      OBVIOUS
    <3> QED
      BY <1>4, <1>3, <1>1
  <2>2. A = B
    BY <2>1, <1>2, FS_Subset
  <2>3. b \in A
    BY <2>2, <1>1
  <2> QED
    BY <2>3, <1>4, <1>1
<1>5. CASE b <= a
  <2>1. B \in SUBSET A
    <3> SUFFICES ASSUME NEW j \in EntryLines(w), j <= b PROVE j <= a
      OBVIOUS
    <3> QED
      BY <1>5, <1>3, <1>1
  <2>2. A = B
    BY <2>1, <1>2, FS_Subset
  <2>3. a \in B
    BY <2>2, <1>1
  <2> QED
    BY <2>3, <1>5, <1>1
<1> QED
  BY <1>1, <1>4, <1>5

(* There is an n-th line with an entry.                                     *)
LEMMA NthExists ==
    ASSUME NEW w \in Seq(WalLine), NEW n \in 1..Cardinality(EntryLines(w))
    PROVE  \E k \in EntryLines(w) : UpTo(w, k) = n
<1>1. /\ Len(w) \in Nat /\ Cardinality(EntryLines(w)) \in Nat
      /\ \A j \in EntryLines(w) : j \in 1..Len(w)
      /\ \A k : UpTo(w, k) \in Nat
  BY UpToFacts, LenProperties
<1> DEFINE S == {k \in Nat : UpTo(w, k) >= n}
<1>2. Len(w) \in S
  <2>1. {j \in EntryLines(w) : j <= Len(w)} = EntryLines(w)
    BY <1>1
  <2>2. UpTo(w, Len(w)) = Cardinality(EntryLines(w))
    BY <2>1 DEF UpTo
  <2>3. UpTo(w, Len(w)) >= n
    BY <2>2, <1>1
  <2> QED
    BY <2>3, <1>1
<1>3. PICK k \in S : \A j \in S : k <= j
  BY <1>2, LeastOfNat
<1>4. k # 0
  <2>1. {j \in EntryLines(w) : j <= 0} = {}
    BY <1>1
  <2>2. UpTo(w, 0) = 0
    BY <2>1, FS_EmptySet DEF UpTo
  <2> QED
    BY <2>2
<1>5. k - 1 \in Nat /\ UpTo(w, k - 1) < n
  <2>1. k - 1 \in Nat /\ ~(k - 1 \in S)
    BY <1>3, <1>4
  <2> QED
    BY <2>1, <1>1
<1> DEFINE B == {j \in EntryLines(w) : j <= k - 1}
<1>6. IsFiniteSet(B) /\ Cardinality(B) = UpTo(w, k - 1)
  BY UpToFacts DEF UpTo
<1>7. k \in EntryLines(w)
  <2> SUFFICES ASSUME k \notin EntryLines(w) PROVE FALSE
    OBVIOUS
  <2>1. {j \in EntryLines(w) : j <= k} = B
    BY <1>1, <1>5
  <2>2. UpTo(w, k) = UpTo(w, k - 1)
    BY <2>1 DEF UpTo
  <2> QED
    BY <2>2, <1>3, <1>5, <1>1
<1>8. {j \in EntryLines(w) : j <= k} = B \cup {k} /\ k \notin B
  <2>1. \A j \in EntryLines(w) : j <= k <=> (j <= k - 1 \/ j = k)
    BY <1>1, <1>5
  <2>2. ~(k <= k - 1)
    BY <1>5
  <2>3. k <= k
    BY <1>3
  <2> QED
    BY <2>1, <2>2, <2>3, <1>7
<1>9. UpTo(w, k) = UpTo(w, k - 1) + 1
  BY <1>8, <1>6, FS_AddElement DEF UpTo
<1>10. UpTo(w, k) = n
  BY <1>9, <1>3, <1>5, <1>1
<1> QED
  BY <1>7, <1>10

(* The n-th entry of a replay stands in the n-th line with an entry.        *)
LEMMA EntriesFacts ==
    ASSUME NEW w \in Seq(WalLine)
    PROVE  /\ Entries(w) \in Seq(Entry)
           /\ Len(Entries(w)) = Cardinality(EntryLines(w))
           /\ \A k \in EntryLines(w) :
                UpTo(w, k) \in DOMAIN Entries(w) => Entries(w)[UpTo(w, k)] = w[k].entry
<1> DEFINE N == Cardinality(EntryLines(w))
           at(n) == CHOOSE k \in EntryLines(w) : UpTo(w, k) = n
<1>1. N \in Nat
  BY UpToFacts
<1>2. \A n \in 1..N : at(n) \in EntryLines(w) /\ UpTo(w, at(n)) = n
  BY NthExists
<1>3. \A k \in EntryLines(w) : w[k].entry \in Entry
  <2>1. \A k \in EntryLines(w) : k \in 1..Len(w) /\ w[k].type = "ENTRY"
    BY UpToFacts DEF EntryLines
  <2>2. \A k \in 1..Len(w) : w[k] \in WalLine
    BY ElementOfSeq
  <2> QED
    BY <2>1, <2>2, LineFacts
<1> HIDE DEF N
<1>4. Entries(w) = [n \in 1..N |-> w[at(n)].entry]
  BY DEF Entries, N
<1>5. Entries(w) \in [1..N -> Entry]
  BY <1>2, <1>3, <1>4
<1>6. Entries(w) \in Seq(Entry) /\ Len(Entries(w)) = N /\ DOMAIN Entries(w) = 1..N
  BY <1>5, <1>1, SeqDef, LenProperties
<1>7. ASSUME NEW k \in EntryLines(w), UpTo(w, k) \in DOMAIN Entries(w)
      PROVE  Entries(w)[UpTo(w, k)] = w[k].entry
  <2>1. UpTo(w, k) \in 1..N
    BY <1>6, <1>7
  <2>2. at(UpTo(w, k)) \in EntryLines(w) /\ UpTo(w, at(UpTo(w, k))) = UpTo(w, k)
    BY <1>2, <2>1
  <2> HIDE DEF at
  <2>3. at(UpTo(w, k)) = k
    BY <2>2, NthUnique
  <2> QED
    BY <2>1, <2>3, <1>4
<1> QED
  BY <1>6, <1>7 DEF N

LEMMA AppendFacts ==
    ASSUME NEW S, NEW s \in Seq(S), NEW x \in S
    PROVE  /\ Append(s, x) \in Seq(S) /\ Len(s) \in Nat
           /\ Len(Append(s, x)) = Len(s) + 1
           /\ DOMAIN s = 1..Len(s) /\ DOMAIN Append(s, x) = 1..(Len(s) + 1)
           /\ \A k \in 1..Len(s) : Append(s, x)[k] = s[k]
           /\ Append(s, x)[Len(s) + 1] = x
BY AppendProperties, LenProperties

(* A record at the end of the file is what the replay returns last, or      *)
(* nothing when it is no entry.                                             *)
LEMMA EntriesAppend ==
    ASSUME NEW w \in Seq(WalLine), NEW l \in WalLine
    PROVE  Entries(Append(w, l)) =
             IF l.type = "ENTRY" THEN Append(Entries(w), l.entry) ELSE Entries(w)
<1> DEFINE v == Append(w, l)
           N == Cardinality(EntryLines(w))
<1>1. /\ v \in Seq(WalLine) /\ Len(w) \in Nat /\ Len(v) = Len(w) + 1
      /\ DOMAIN w = 1..Len(w) /\ DOMAIN v = 1..(Len(w) + 1)
      /\ \A k \in 1..Len(w) : v[k] = w[k]
      /\ v[Len(w) + 1] = l
  BY AppendFacts
<1> HIDE DEF v
<1>2. /\ EntryLines(w) \subseteq 1..Len(w) /\ IsFiniteSet(EntryLines(w)) /\ N \in Nat
      /\ \A k : UpTo(w, k) \in Nat
  BY UpToFacts
<1>3. EntryLines(v) = IF l.type = "ENTRY" THEN EntryLines(w) \cup {Len(w) + 1} ELSE EntryLines(w)
  <2>1. \A k \in 1..Len(w) : k \in EntryLines(v) <=> k \in EntryLines(w)
    BY <1>1 DEF EntryLines
  <2>2. Len(w) + 1 \in EntryLines(v) <=> l.type = "ENTRY"
    BY <1>1 DEF EntryLines
  <2>3. EntryLines(v) \subseteq 1..(Len(w) + 1)
    BY <1>1 DEF EntryLines
  <2>4. \A k \in 1..(Len(w) + 1) : k \in 1..Len(w) \/ k = Len(w) + 1
    BY <1>1
  <2>5. Len(w) + 1 \notin 1..Len(w)
    BY <1>1
  <2>6. CASE l.type = "ENTRY"
    <3>1. \A k : k \in EntryLines(v) <=> k \in EntryLines(w) \/ k = Len(w) + 1
      BY <2>1, <2>2, <2>3, <2>4, <2>6, <1>2
    <3> QED
      BY <3>1, <2>6
  <2>7. CASE l.type # "ENTRY"
    <3>1. \A k : k \in EntryLines(v) <=> k \in EntryLines(w)
      BY <2>1, <2>2, <2>3, <2>4, <2>7, <1>2
    <3> QED
      BY <3>1, <2>7
  <2> QED
    BY <2>6, <2>7
<1>4. ASSUME NEW k \in 1..Len(w) PROVE UpTo(v, k) = UpTo(w, k)
  <2>1. ~(Len(w) + 1 <= k)
    BY <1>1
  <2>2. {j \in EntryLines(v) : j <= k} = {j \in EntryLines(w) : j <= k}
    BY <2>1, <1>3
  <2> QED
    BY <2>2 DEF UpTo
<1>5. /\ Entries(w) \in Seq(Entry) /\ Len(Entries(w)) = N
      /\ DOMAIN Entries(w) = 1..N
      /\ \A k \in EntryLines(w) :
           UpTo(w, k) \in 1..N => Entries(w)[UpTo(w, k)] = w[k].entry
  BY EntriesFacts, LenProperties
<1> DEFINE M == Cardinality(EntryLines(v))
<1>6. /\ Entries(v) \in Seq(Entry) /\ Len(Entries(v)) = M
      /\ DOMAIN Entries(v) = 1..M
      /\ \A k \in EntryLines(v) :
           UpTo(v, k) \in 1..M => Entries(v)[UpTo(v, k)] = v[k].entry
  BY <1>1, EntriesFacts, LenProperties
<1>7. ASSUME N <= M, NEW n \in 1..N PROVE Entries(v)[n] = Entries(w)[n]
  <2>0. M \in Nat
    BY <1>6, LenProperties
  <2>1. PICK k \in EntryLines(w) : UpTo(w, k) = n
    BY NthExists
  <2>2. k \in 1..Len(w) /\ k \in EntryLines(v) /\ UpTo(v, k) = n
    BY <2>1, <1>2, <1>3, <1>4
  <2>3. n \in 1..M
    BY <1>7, <1>2, <2>0
  <2>4. Entries(w)[n] = w[k].entry
    BY <2>1, <1>5
  <2>5. Entries(v)[n] = v[k].entry
    BY <2>2, <2>3, <1>6
  <2> QED
    BY <2>2, <2>4, <2>5, <1>1
<1>8. CASE l.type = "ENTRY"
  <2>1. Len(w) + 1 \notin EntryLines(w)
    BY <1>2, <1>1
  <2>2. M = N + 1
    BY <1>8, <1>3, <1>2, <2>1, FS_AddElement
  <2>3. UpTo(v, Len(w) + 1) = M
    <3>1. \A j \in EntryLines(v) : j <= Len(w) + 1
      BY <1>1 DEF EntryLines
    <3>2. {j \in EntryLines(v) : j <= Len(w) + 1} = EntryLines(v)
      BY <3>1
    <3> QED
      BY <3>2 DEF UpTo
  <2>4. Entries(v)[N + 1] = l.entry
    <3>1. Len(w) + 1 \in EntryLines(v) /\ M \in 1..M
      BY <1>8, <1>3, <2>2, <1>2
    <3>2. Entries(v)[M] = v[Len(w) + 1].entry
      BY <3>1, <2>3, <1>6
    <3> QED
      BY <3>2, <2>2, <1>1
  <2>5. l.entry \in Entry
    BY <1>8, LineFacts
  <2>6. /\ Append(Entries(w), l.entry) \in Seq(Entry)
        /\ Len(Append(Entries(w), l.entry)) = N + 1
        /\ \A k \in 1..N : Append(Entries(w), l.entry)[k] = Entries(w)[k]
        /\ Append(Entries(w), l.entry)[N + 1] = l.entry
    BY <1>5, <2>5, AppendFacts
  <2>7. \A n \in 1..N : Entries(v)[n] = Entries(w)[n]
    BY <1>7, <2>2, <1>2
  <2>8. \A n \in 1..(N + 1) : Entries(v)[n] = Append(Entries(w), l.entry)[n]
    <3>1. \A n \in 1..(N + 1) : n \in 1..N \/ n = N + 1
      BY <1>2
    <3> QED
      BY <3>1, <2>4, <2>6, <2>7
  <2>9. Entries(v) = Append(Entries(w), l.entry)
    BY <2>8, <2>6, <2>2, <1>6, SeqEqual
  <2> QED
    BY <2>9, <1>8 DEF v
<1>9. CASE l.type # "ENTRY"
  <2>1. M = N
    BY <1>9, <1>3
  <2>2. \A n \in 1..N : Entries(v)[n] = Entries(w)[n]
    BY <1>7, <2>1, <1>2
  <2>3. Entries(v) = Entries(w)
    BY <2>1, <2>2, <1>5, <1>6, SeqEqual
  <2> QED
    BY <2>3, <1>9 DEF v
<1> QED
  BY <1>8, <1>9

(* The last record of a type is in the file, and the one just written is    *)
(* the last.                                                                *)
LEMMA LastOfFacts ==
    ASSUME NEW w \in Seq(WalLine), NEW type, NEW none
    PROVE  \/ LastOf(w, type, none) = none
           \/ LastOf(w, type, none) \in WalLine /\ LastOf(w, type, none).type = type
<1> DEFINE at == {k \in DOMAIN w : w[k].type = type}
<1>1. CASE at = {}
  BY <1>1 DEF LastOf
<1>2. CASE at # {}
  <2>1. Len(w) \in Nat /\ DOMAIN w = 1..Len(w)
    BY LenProperties
  <2>2. at \in SUBSET (0..Len(w))
    BY <2>1
  <2>3. \E k \in at : \A j \in at : j <= k
    BY <2>1, <2>2, <1>2, GreatestBelow
  <2> DEFINE m == CHOOSE k \in at : \A j \in at : j <= k
  <2>4. m \in at
    BY <2>3
  <2>5. LastOf(w, type, none) = w[m]
    BY <1>2 DEF LastOf
  <2> HIDE DEF m
  <2>6. w[m] \in WalLine
    BY <2>4, <2>1, ElementOfSeq
  <2> QED
    BY <2>4, <2>5, <2>6
<1> QED
  BY <1>1, <1>2

LEMMA LastOfAppend ==
    ASSUME NEW w \in Seq(WalLine), NEW l \in WalLine, NEW type, NEW none
    PROVE  LastOf(Append(w, l), type, none) =
             IF l.type = type THEN l ELSE LastOf(w, type, none)
<1> DEFINE v == Append(w, l)
           at(s) == {k \in DOMAIN s : s[k].type = type}
           last(s) == CHOOSE k \in at(s) : \A j \in at(s) : j <= k
<1>1. /\ v \in Seq(WalLine) /\ Len(w) \in Nat /\ Len(v) = Len(w) + 1
      /\ DOMAIN w = 1..Len(w) /\ DOMAIN v = 1..(Len(w) + 1)
      /\ \A k \in 1..Len(w) : v[k] = w[k]
      /\ v[Len(w) + 1] = l
  BY AppendFacts
<1> HIDE DEF v
<1>2. /\ LastOf(v, type, none) = IF at(v) = {} THEN none ELSE v[last(v)]
      /\ LastOf(w, type, none) = IF at(w) = {} THEN none ELSE w[last(w)]
  BY DEF LastOf
<1>3. CASE l.type = type
  <2>1. Len(w) + 1 \in at(v) /\ \A j \in at(v) : j \in 1..(Len(w) + 1)
    BY <1>1, <1>3
  <2>2. \A k \in at(v) : (\A j \in at(v) : j <= k) <=> k = Len(w) + 1
    BY <2>1, <1>1
  <2>3. last(v) = Len(w) + 1
    BY <2>1, <2>2
  <2>4. LastOf(v, type, none) = l
    BY <2>1, <2>3, <1>2, <1>1
  <2> QED
    BY <2>4, <1>3 DEF v
<1>4. CASE l.type # type
  <2>1. at(v) = at(w)
    BY <1>1, <1>4
  <2>2. last(v) = last(w)
    BY <2>1
  <2>3. CASE at(w) = {}
    <3>1. LastOf(v, type, none) = LastOf(w, type, none)
      BY <2>1, <2>3, <1>2
    <3> QED
      BY <3>1, <1>4 DEF v
  <2>4. CASE at(w) # {}
    <3>1. at(w) \in SUBSET (0..Len(w))
      BY <1>1
    <3>2. \E k \in at(w) : \A j \in at(w) : j <= k
      BY <3>1, <2>4, <1>1, GreatestBelow
    <3>3. last(w) \in at(w)
      BY <3>2
    <3>4. last(w) \in 1..Len(w)
      BY <3>3, <1>1
    <3> HIDE DEF last
    <3>5. v[last(v)] = w[last(w)]
      BY <3>4, <2>2, <1>1
    <3>6. LastOf(v, type, none) = LastOf(w, type, none)
      BY <3>5, <2>1, <2>4, <1>2
    <3> QED
      BY <3>6, <1>4 DEF v
  <2> QED
    BY <2>3, <2>4
<1> QED
  BY <1>3, <1>4

(* What RestoreState gets for the term and the commit index.                *)
LEMMA WalFacts ==
    ASSUME NEW w \in Seq(WalLine), NEW l \in WalLine, MaxTerm \in Nat, MaxIndex \in Nat
    PROVE  /\ WalTerm(w) \in 0..MaxTerm
           /\ WalCommit(w) \in 0..MaxIndex
           /\ WalCommit(Append(w, l)) =
                IF l.type = "COMMIT" THEN l.commit ELSE WalCommit(w)
<1>1. WalTerm(w) \in 0..MaxTerm
  <2>1. \/ LastOf(w, "TERM", TermLine(0)) = TermLine(0)
        \/ LastOf(w, "TERM", TermLine(0)) \in WalLine
             /\ LastOf(w, "TERM", TermLine(0)).type = "TERM"
    BY LastOfFacts
  <2>2. TermLine(0).term = 0
    BY DEF TermLine
  <2> QED
    BY <2>1, <2>2, LineFacts DEF WalTerm
<1>2. WalCommit(w) \in 0..MaxIndex
  <2>1. \/ LastOf(w, "COMMIT", CommitLine(0)) = CommitLine(0)
        \/ LastOf(w, "COMMIT", CommitLine(0)) \in WalLine
             /\ LastOf(w, "COMMIT", CommitLine(0)).type = "COMMIT"
    BY LastOfFacts
  <2>2. CommitLine(0).commit = 0
    BY DEF CommitLine
  <2> QED
    BY <2>1, <2>2, LineFacts DEF WalCommit
<1>3. WalCommit(Append(w, l)) = IF l.type = "COMMIT" THEN l.commit ELSE WalCommit(w)
  <2>1. LastOf(Append(w, l), "COMMIT", CommitLine(0)) =
          IF l.type = "COMMIT" THEN l ELSE LastOf(w, "COMMIT", CommitLine(0))
    BY LastOfAppend
  <2> QED
    BY <2>1 DEF WalCommit
<1> QED
  BY <1>1, <1>2, <1>3

(***************************************************************************)
(* Reading and cutting the log.                                            *)
(***************************************************************************)

(* The entry at position k has index k.                                     *)
DenseSeq(s) == \A k \in DOMAIN s : s[k].index = k

LEMMA EntryFacts ==
    \A e \in Entry : e.index \in 1..MaxIndex /\ e.term \in 1..MaxTerm
BY DEF Entry

(* GetEntry returns the first match.                                        *)
LEMMA GetEntryFacts ==
    ASSUME NEW s \in Seq(Entry), NEW i, Has(s, i)
    PROVE  /\ GetEntry(s, i) \in Entry /\ GetEntry(s, i).index = i
           /\ \E k \in DOMAIN s : GetEntry(s, i) = s[k]
<1> DEFINE S == {k \in DOMAIN s : s[k].index = i}
           first == CHOOSE k \in DOMAIN s :
                      s[k].index = i /\ \A j \in 1..(k - 1) : s[j].index # i
<1>1. Len(s) \in Nat /\ DOMAIN s = 1..Len(s)
  BY LenProperties
<1>2. S \in SUBSET Nat /\ S # {}
  BY <1>1 DEF Has
<1>3. PICK m \in S : \A k \in S : m <= k
  BY <1>2, LeastOfNat
<1>4. m \in DOMAIN s /\ s[m].index = i /\ \A j \in 1..(m - 1) : s[j].index # i
  <2>1. m \in DOMAIN s /\ s[m].index = i
    BY <1>3
  <2>2. ASSUME NEW j \in 1..(m - 1), s[j].index = i PROVE FALSE
    <3>1. j \in 1..Len(s) /\ m \in Nat
      BY <2>1, <1>1
    <3>2. m <= j
      BY <3>1, <2>2, <1>1, <1>3
    <3> QED
      BY <3>1, <3>2
  <2> QED
    BY <2>1, <2>2
<1>5. first \in DOMAIN s /\ s[first].index = i
  BY <1>4
<1>6. GetEntry(s, i) = s[first]
  BY DEF GetEntry
<1> HIDE DEF first
<1>7. s[first] \in Entry
  BY <1>5, <1>1, ElementOfSeq
<1> QED
  BY <1>5, <1>6, <1>7

(* LastEntry, characterised.                                                *)
LEMMA LastEntryIs ==
    ASSUME NEW s \in Seq(Entry), NEW i, NEW k \in DOMAIN s,
           s[k].index = i, \A j \in (k + 1)..Len(s) : s[j].index # i
    PROVE  LastEntry(s, i) = s[k]
<1> DEFINE last == CHOOSE m \in DOMAIN s :
                     s[m].index = i /\ \A j \in (m + 1)..Len(s) : s[j].index # i
<1>1. Len(s) \in Nat /\ DOMAIN s = 1..Len(s)
  BY LenProperties
<1>2. last \in DOMAIN s /\ s[last].index = i /\ \A j \in (last + 1)..Len(s) : s[j].index # i
  OBVIOUS
<1>3. LastEntry(s, i) = s[last]
  BY DEF LastEntry
<1> HIDE DEF last
<1>4. last = k
  <2>1. last \in Nat /\ k \in Nat /\ last <= Len(s) /\ k <= Len(s)
    BY <1>1, <1>2
  <2>2. ~(last \in (k + 1)..Len(s))
    BY <1>2
  <2>3. ~(k \in (last + 1)..Len(s))
    BY <1>2
  <2> QED
    BY <2>1, <2>2, <2>3, <1>1
<1> QED
  BY <1>3, <1>4

LEMMA LastEntryExists ==
    ASSUME NEW s \in Seq(Entry), NEW i, Has(s, i)
    PROVE  \E k \in DOMAIN s :
             s[k].index = i /\ \A j \in (k + 1)..Len(s) : s[j].index # i
<1> DEFINE S == {k \in DOMAIN s : s[k].index = i}
<1>1. Len(s) \in Nat /\ DOMAIN s = 1..Len(s)
  BY LenProperties
<1>2. S \in SUBSET (0..Len(s)) /\ S # {}
  BY <1>1 DEF Has
<1>3. PICK m \in S : \A k \in S : k <= m
  BY <1>1, <1>2, GreatestBelow
<1>4. ASSUME NEW j \in (m + 1)..Len(s), s[j].index = i PROVE FALSE
  <2>1. m \in Nat /\ j \in 1..Len(s) /\ j > m
    BY <1>1, <1>3
  <2>2. j <= m
    BY <2>1, <1>1, <1>3, <1>4
  <2> QED
    BY <2>1, <2>2
<1> QED
  BY <1>3, <1>4

(* An entry at the end is the last one of its index and leaves the others.  *)
LEMMA LastEntryAppend ==
    ASSUME NEW s \in Seq(Entry), NEW e \in Entry
    PROVE  /\ Has(Append(s, e), e.index) /\ LastEntry(Append(s, e), e.index) = e
           /\ \A i : i # e.index /\ Has(s, i) =>
                Has(Append(s, e), i) /\ LastEntry(Append(s, e), i) = LastEntry(s, i)
<1> DEFINE v == Append(s, e)
<1>1. /\ v \in Seq(Entry) /\ Len(s) \in Nat /\ Len(v) = Len(s) + 1
      /\ DOMAIN s = 1..Len(s) /\ DOMAIN v = 1..(Len(s) + 1)
      /\ \A k \in 1..Len(s) : v[k] = s[k]
      /\ v[Len(s) + 1] = e
  BY AppendFacts
<1> HIDE DEF v
<1>2. Has(v, e.index) /\ LastEntry(v, e.index) = e
  <2>1. Len(s) + 1 \in DOMAIN v /\ v[Len(s) + 1].index = e.index
    BY <1>1
  <2>2. \A j \in ((Len(s) + 1) + 1)..Len(v) : v[j].index # e.index
    BY <1>1
  <2> QED
    BY <2>1, <2>2, <1>1, LastEntryIs DEF Has
<1>3. ASSUME NEW i, i # e.index, Has(s, i)
      PROVE  Has(v, i) /\ LastEntry(v, i) = LastEntry(s, i)
  <2>1. PICK k \in DOMAIN s :
          s[k].index = i /\ \A j \in (k + 1)..Len(s) : s[j].index # i
    BY <1>3, LastEntryExists
  <2>2. LastEntry(s, i) = s[k]
    BY <2>1, LastEntryIs
  <2>3. k \in DOMAIN v /\ v[k] = s[k] /\ v[k].index = i
    BY <2>1, <1>1
  <2>4. ASSUME NEW j \in (k + 1)..Len(v) PROVE v[j].index # i
    <3>1. k \in Nat /\ (j \in (k + 1)..Len(s) \/ j = Len(s) + 1)
      BY <1>1, <2>1, <2>4
    <3>2. CASE j \in (k + 1)..Len(s)
      <4>1. j \in 1..Len(s)
        BY <3>1, <3>2, <1>1
      <4> QED
        BY <4>1, <3>2, <2>1, <1>1
    <3>3. CASE j = Len(s) + 1
      BY <3>3, <1>1, <1>3
    <3> QED
      BY <3>1, <3>2, <3>3
  <2>5. LastEntry(v, i) = v[k]
    BY <2>3, <2>4, <1>1, LastEntryIs
  <2> QED
    BY <2>2, <2>3, <2>5 DEF Has
<1> QED
  BY <1>2, <1>3 DEF v

(* In a dense log every way of reading finds the entry at its position.     *)
LEMMA DenseFacts ==
    ASSUME NEW s \in Seq(Entry), DenseSeq(s)
    PROVE  /\ LastIndex(s) = Len(s)
           /\ \A i \in Int : Has(s, i) <=> i \in 1..Len(s)
           /\ \A i \in 1..Len(s) : GetEntry(s, i) = s[i] /\ LastEntry(s, i) = s[i]
<1>1. Len(s) \in Nat /\ DOMAIN s = 1..Len(s)
  BY LenProperties
<1>2. \A k \in 1..Len(s) : s[k].index = k
  BY <1>1 DEF DenseSeq
<1>3. LastIndex(s) = Len(s)
  <2>1. CASE s = <<>>
    BY <2>1, EmptySeq DEF LastIndex
  <2>2. CASE s # <<>>
    <3>1. Len(s) # 0
      BY <2>2, EmptySeq
    <3>2. Len(s) \in 1..Len(s)
      BY <3>1, <1>1
    <3> QED
      BY <3>2, <2>2, <1>2 DEF LastIndex
  <2> QED
    BY <2>1, <2>2
<1>4. ASSUME NEW i \in Int PROVE Has(s, i) <=> i \in 1..Len(s)
  BY <1>1, <1>2 DEF Has
<1>5. ASSUME NEW i \in 1..Len(s) PROVE GetEntry(s, i) = s[i]
  <2>1. Has(s, i)
    BY <1>1, <1>2 DEF Has
  <2>2. PICK k \in DOMAIN s : GetEntry(s, i) = s[k]
    BY <2>1, GetEntryFacts
  <2>3. s[k].index = i
    BY <2>1, <2>2, GetEntryFacts
  <2>4. k = i
    BY <2>3, <1>1, <1>2
  <2> QED
    BY <2>2, <2>4
<1>6. ASSUME NEW i \in 1..Len(s) PROVE LastEntry(s, i) = s[i]
  <2>1. i \in DOMAIN s /\ s[i].index = i
    BY <1>1, <1>2
  <2>2. ASSUME NEW j \in (i + 1)..Len(s) PROVE s[j].index # i
    <3>1. j \in 1..Len(s) /\ j # i
      BY <1>1
    <3> QED
      BY <3>1, <1>2
  <2> QED
    BY <2>1, <2>2, LastEntryIs
<1> QED
  BY <1>3, <1>4, <1>5, <1>6

LEMMA DenseAppend ==
    ASSUME NEW s \in Seq(Entry), DenseSeq(s), NEW e \in Entry, e.index = Len(s) + 1
    PROVE  DenseSeq(Append(s, e))
<1>1. /\ Len(s) \in Nat /\ DOMAIN s = 1..Len(s) /\ DOMAIN Append(s, e) = 1..(Len(s) + 1)
      /\ \A k \in 1..Len(s) : Append(s, e)[k] = s[k]
      /\ Append(s, e)[Len(s) + 1] = e
  BY AppendFacts
<1>2. ASSUME NEW k \in 1..(Len(s) + 1) PROVE Append(s, e)[k].index = k
  <2>1. k \in 1..Len(s) \/ k = Len(s) + 1
    BY <1>1
  <2> QED
    BY <2>1, <1>1 DEF DenseSeq
<1> QED
  BY <1>1, <1>2 DEF DenseSeq

(* TruncateFrom keeps a prefix; of a dense log the entries below i.         *)
LEMMA CutFacts ==
    ASSUME NEW s \in Seq(Entry), NEW i \in Nat
    PROVE  /\ Cut(s, i) \in Seq(Entry) /\ Len(Cut(s, i)) <= Len(s)
           /\ \A k \in 1..Len(Cut(s, i)) : Cut(s, i)[k] = s[k]
           /\ DenseSeq(s) /\ i \in 1..Len(s) => Len(Cut(s, i)) = i - 1
<1>1. Len(s) \in Nat /\ DOMAIN s = 1..Len(s) /\ \A k \in 1..Len(s) : s[k] \in Entry
  BY LenProperties, ElementOfSeq
<1>2. \A k \in 1..Len(s) : s[k].index \in Nat
  BY <1>1, EntryFacts
<1> DEFINE S == {k \in 1..(Len(s) + 1) : k = Len(s) + 1 \/ s[k].index >= i}
           kept == {k \in DOMAIN s : \A j \in 1..k : s[j].index < i}
<1>3. S \in SUBSET Nat /\ Len(s) + 1 \in S
  BY <1>1
<1>4. PICK m \in S : \A k \in S : m <= k
  BY <1>3, LeastOfNat
<1>5. m \in 1..(Len(s) + 1) /\ (m = Len(s) + 1 \/ s[m].index >= i)
  BY <1>4
<1>6. \A k \in 1..(m - 1) : k \in 1..Len(s) /\ s[k].index < i
  <2> SUFFICES ASSUME NEW k \in 1..(m - 1) PROVE k \in 1..Len(s) /\ s[k].index < i
    OBVIOUS
  <2>1. k \in 1..Len(s) /\ ~(m <= k)
    BY <1>5, <1>1
  <2>2. k \notin S
    BY <2>1, <1>4
  <2>3. ~(s[k].index >= i)
    BY <2>1, <2>2, <1>1
  <2> QED
    BY <2>1, <2>3, <1>2
<1>7. kept = 1..(m - 1)
  <2>1. ASSUME NEW k \in 1..(m - 1) PROVE k \in kept
    <3>1. k \in DOMAIN s
      BY <1>6, <1>1
    <3>2. \A j \in 1..k : j \in 1..(m - 1)
      BY <1>5, <1>1
    <3> QED
      BY <3>1, <3>2, <1>6
  <2>2. ASSUME NEW k \in kept PROVE k \in 1..(m - 1)
    <3>1. k \in 1..Len(s) /\ \A j \in 1..k : s[j].index < i
      BY <1>1
    <3> SUFFICES ASSUME ~(k <= m - 1) PROVE FALSE
      BY <3>1, <1>5, <1>1
    <3>2. m \in 1..k /\ m # Len(s) + 1
      BY <3>1, <1>5, <1>1
    <3>3. s[m].index < i /\ s[m].index >= i
      BY <3>1, <3>2, <1>5
    <3>4. s[m].index \in Nat
      BY <3>2, <1>5, <1>1, <1>2
    <3> QED
      BY <3>3, <3>4
  <2> HIDE DEF kept
  <2> QED
    BY <2>1, <2>2
<1>8. Cut(s, i) = [k \in 1..(m - 1) |-> s[k]]
  BY <1>7 DEF Cut
<1>9. m - 1 \in Nat /\ m - 1 <= Len(s)
  BY <1>5, <1>1
<1>10. Cut(s, i) \in [1..(m - 1) -> Entry]
  BY <1>8, <1>6, <1>1
<1>11. Cut(s, i) \in Seq(Entry) /\ Len(Cut(s, i)) = m - 1
  BY <1>9, <1>10, SeqDef, LenProperties
<1>12. ASSUME DenseSeq(s), i \in 1..Len(s) PROVE m = i
  <2>1. \A k \in 1..Len(s) : s[k].index = k
    BY <1>1, <1>12 DEF DenseSeq
  <2>2. i \in S
    BY <2>1, <1>12, <1>1
  <2>3. m <= i
    BY <2>2, <1>4
  <2>4. m \in 1..Len(s)
    BY <2>3, <1>5, <1>12, <1>1
  <2> QED
    BY <2>1, <2>3, <2>4, <1>5, <1>1, <1>12
<1> QED
  BY <1>8, <1>9, <1>11, <1>12

(***************************************************************************)
(* The inductive invariant.                                                *)
(***************************************************************************)

(* Types, and when the last line may have no newline.                       *)
Shape ==
    /\ TypeOK
    /\ wal \in Seq(WalLine) /\ mixed \in BOOLEAN
    /\ unended => torn /\ wal # <<>>
    /\ mixed => truncated
    /\ ~up => entries = <<>> /\ commitIndex = 0 /\ nodeCommit = 0

(* The last record the file has of each index in s is the one s has.        *)
Recorded(s, w) ==
    \A i \in 1..MaxIndex :
        Has(s, i) => Has(Entries(w), i) /\ LastEntry(Entries(w), i) = GetEntry(s, i)

Memory ==
    ~torn /\ ~mixed => DenseSeq(entries) /\ (up => Recorded(entries, wal))

(* Without truncations the file is the log: what was committed is in it.    *)
Disk ==
    ~torn /\ ~truncated =>
        /\ DenseSeq(Entries(wal))
        /\ up => entries = Entries(wal)
        /\ \A e \in commits :
             e.index \in 1..Len(Entries(wal)) /\ Entries(wal)[e.index] = e

(* Until the first restart the last COMMIT record bounds what was committed.*)
FirstLife ==
    /\ crashes = 0 => up
    /\ ~torn /\ crashes = 0 =>
         nodeCommit = WalCommit(wal) /\ \A e \in commits : e.index <= nodeCommit
    /\ ~torn /\ crashes = 1 /\ ~up => \A e \in commits : e.index <= WalCommit(wal)

IndInv == Shape /\ Memory /\ Disk /\ FirstLife

(* The file after a write, cut short before or not.                         *)
LEMMA WrittenFacts ==
    ASSUME NEW w \in Seq(WalLine), NEW open \in BOOLEAN, open => w # <<>>,
           NEW l \in WalLine
    PROVE  /\ Written(w, open, l) \in Seq(WalLine) /\ Written(w, open, l) # <<>>
           /\ Len(Written(w, open, l)) <= Len(w) + 1
           /\ ~open => Written(w, open, l) = Append(w, l)
<1>1. Len(w) \in Nat /\ DOMAIN w = 1..Len(w)
  BY LenProperties
<1>2. CASE open
  <2>1. Written(w, open, l) = [w EXCEPT ![Len(w)] = Garbled]
    BY <1>2 DEF Written
  <2>2. w \in [1..Len(w) -> WalLine]
    BY LenProperties
  <2>3. [w EXCEPT ![Len(w)] = Garbled] \in [1..Len(w) -> WalLine]
    BY <2>2, LineFacts
  <2>4. /\ [w EXCEPT ![Len(w)] = Garbled] \in Seq(WalLine)
        /\ Len([w EXCEPT ![Len(w)] = Garbled]) = Len(w)
    BY <2>3, <1>1, SeqDef, LenProperties
  <2>5. Len(w) # 0
    BY <1>2, EmptySeq
  <2>6. Written(w, open, l) # <<>>
    BY <2>1, <2>4, <2>5, EmptySeq
  <2> QED
    BY <2>1, <2>4, <2>6, <1>1, <1>2
<1>3. CASE ~open
  <2>1. Written(w, open, l) = Append(w, l)
    BY <1>3 DEF Written
  <2>2. Append(w, l) \in Seq(WalLine) /\ Len(Append(w, l)) = Len(w) + 1
    BY AppendFacts
  <2>3. Append(w, l) # <<>>
    BY <2>2, <1>1, EmptySeq
  <2> QED
    BY <2>1, <2>2, <2>3, <1>1
<1> QED
  BY <1>2, <1>3

(* A record that is written completely.                                     *)
LEMMA WalWriteFacts ==
    ASSUME Shape, NEW l \in WalLine, WalWrite(l)
    PROVE  /\ wal' \in Seq(WalLine) /\ Len(wal') <= MaxLines /\ unended' = FALSE
           /\ ~torn => wal' = Append(wal, l)
<1>1. /\ wal \in Seq(WalLine) /\ unended \in BOOLEAN /\ (unended => torn /\ wal # <<>>)
      /\ Len(wal) \in Nat /\ Len(wal) + 1 <= MaxLines /\ MaxLines \in Nat
      /\ wal' = Written(wal, unended, l) /\ unended' = FALSE
  BY LogBounds, LenProperties DEF Shape, TypeOK, WalWrite
<1>2. /\ wal' \in Seq(WalLine) /\ Len(wal') <= Len(wal) + 1
      /\ ~unended => wal' = Append(wal, l)
  BY <1>1, WrittenFacts
<1>3. Len(wal') \in Nat
  BY <1>2, LenProperties
<1> QED
  BY <1>1, <1>2, <1>3

(* The kinds of lines.                                                      *)
LEMMA LineTypes ==
    /\ \A e : EntryLine(e).type = "ENTRY" /\ EntryLine(e).entry = e
    /\ \A t : TermLine(t).type = "TERM"
    /\ \A c : CommitLine(c).type = "COMMIT" /\ CommitLine(c).commit = c
BY DEF EntryLine, TermLine, CommitLine

LEMMA EmptyLog ==
    <<>> \in Seq(Entry) /\ DenseSeq(<<>>) /\ \A i : ~Has(<<>>, i)
BY EmptySeq DEF DenseSeq, Has

LEMMA InitInv == Init => IndInv
<1> SUFFICES ASSUME Init PROVE IndInv
  OBVIOUS
<1> USE DEF Init
<1>1. TypeOK
  <2>1. entries \in Seq(Entry) /\ Len(wal) = 0
    BY EmptySeq
  <2>2. Len(wal) <= MaxLines
    BY <2>1, LogBounds
  <2>3. 0 \in 0..MaxIndex /\ 0 \in 0..0 /\ 0 \in 0..MaxTerm /\ 0 \in 0..MaxCrash
    BY LogBounds
  <2> QED
    BY <2>1, <2>2, <2>3 DEF TypeOK
<1>2. wal \in Seq(WalLine)
  BY EmptySeq
<1>3. Shape
  BY <1>1, <1>2 DEF Shape
<1>4. EntryLines(wal) = {}
  BY DEF EntryLines
<1>5. Entries(wal) = <<>>
  <2>1. Entries(wal) \in Seq(Entry) /\ Len(Entries(wal)) = 0
    BY <1>2, <1>4, EntriesFacts, FS_EmptySet
  <2> QED
    BY <2>1, EmptySeq
<1>6. Memory /\ Disk
  BY <1>5, EmptyLog DEF Memory, Disk, Recorded
<1>7. WalCommit(wal) = 0
  <2>1. {k \in DOMAIN wal : wal[k].type = "COMMIT"} = {}
    OBVIOUS
  <2> QED
    BY <2>1, LineTypes DEF WalCommit, LastOf
<1>8. FirstLife
  BY <1>7 DEF FirstLife
<1> QED
  BY <1>3, <1>6, <1>8 DEF IndInv

(* An append to what is left of the log: all of it, or a prefix when a      *)
(* conflict was cut off.                                                    *)
LEMMA AppendEntryStep ==
    ASSUME IndInv, up, NEW base \in Seq(Entry), NEW e \in Entry, AppendEntry(base, e),
           UNCHANGED <<up, commitIndex, nodeCommit, term, torn, mixed, commits, crashes>>,
           truncated' \in BOOLEAN, truncated => truncated',
           ~truncated' => base = entries,
           ~torn /\ ~mixed =>
               /\ DenseSeq(base) /\ e.index = Len(base) + 1
               /\ Len(base) <= Len(entries)
               /\ \A k \in 1..Len(base) : base[k] = entries[k]
    PROVE  IndInv'
<1>1. /\ Shape /\ Memory /\ Disk /\ FirstLife
      /\ TypeOK /\ wal \in Seq(WalLine) /\ entries \in Seq(Entry)
  BY DEF IndInv, Shape, TypeOK
<1>2. EntryLine(e) \in WalLine
  BY LineFacts
<1>3. /\ wal' \in Seq(WalLine) /\ Len(wal') <= MaxLines /\ unended' = FALSE
      /\ ~torn => wal' = Append(wal, EntryLine(e))
  BY <1>1, <1>2, WalWriteFacts DEF AppendEntry
<1>4. entries' = Append(base, e)
  BY DEF AppendEntry
<1>5. /\ entries' \in Seq(Entry) /\ Len(base) \in Nat /\ Len(entries') = Len(base) + 1
      /\ \A k \in 1..Len(base) : entries'[k] = base[k]
      /\ entries'[Len(base) + 1] = e
  BY <1>4, AppendFacts
<1>6. Shape'
  BY <1>1, <1>3, <1>5 DEF Shape, TypeOK
<1>7. ~torn => Entries(wal') = Append(Entries(wal), e) /\ WalCommit(wal') = WalCommit(wal)
  <2>1. /\ Entries(Append(wal, EntryLine(e))) = Append(Entries(wal), e)
        /\ WalCommit(Append(wal, EntryLine(e))) = WalCommit(wal)
    BY <1>1, <1>2, EntriesAppend, WalFacts, LineTypes, LogBounds
  <2> QED
    BY <2>1, <1>3
<1>8. Entries(wal) \in Seq(Entry)
  BY <1>1, EntriesFacts
<1>9. Memory'
  <2> SUFFICES ASSUME ~torn, ~mixed
               PROVE  DenseSeq(entries') /\ Recorded(entries', wal')
    BY DEF Memory
  <2>1. DenseSeq(entries) /\ Recorded(entries, wal)
    BY <1>1 DEF Memory
  <2>2. DenseSeq(base) /\ e.index = Len(base) + 1
    OBVIOUS
  <2>3. DenseSeq(entries')
    BY <2>2, <1>4, DenseAppend
  <2>4. /\ \A i \in Int : Has(entries', i) <=> i \in 1..Len(entries')
        /\ \A i \in 1..Len(entries') : GetEntry(entries', i) = entries'[i]
    BY <2>3, <1>5, DenseFacts
  <2>5. /\ \A i \in Int : Has(entries, i) <=> i \in 1..Len(entries)
        /\ \A i \in 1..Len(entries) : GetEntry(entries, i) = entries[i]
    BY <2>1, <1>1, DenseFacts
  <2> SUFFICES ASSUME NEW i \in 1..MaxIndex, Has(entries', i)
               PROVE  /\ Has(Entries(wal'), i)
                      /\ LastEntry(Entries(wal'), i) = GetEntry(entries', i)
    BY <2>3 DEF Recorded
  <2>6. i \in 1..Len(entries') /\ GetEntry(entries', i) = entries'[i]
    BY <2>4
  <2>9. /\ Has(Entries(wal'), e.index) /\ LastEntry(Entries(wal'), e.index) = e
        /\ i # e.index /\ Has(Entries(wal), i) =>
             /\ Has(Entries(wal'), i)
             /\ LastEntry(Entries(wal'), i) = LastEntry(Entries(wal), i)
    <3>1. /\ Has(Append(Entries(wal), e), e.index)
          /\ LastEntry(Append(Entries(wal), e), e.index) = e
          /\ i # e.index /\ Has(Entries(wal), i) =>
               /\ Has(Append(Entries(wal), e), i)
               /\ LastEntry(Append(Entries(wal), e), i) = LastEntry(Entries(wal), i)
      BY <1>8, LastEntryAppend
    <3> QED
      BY <3>1, <1>7
  <2>7. CASE i = e.index
    <3>1. entries'[i] = e
      BY <2>7, <2>2, <1>5
    <3> QED
      BY <3>1, <2>6, <2>7, <2>9
  <2>8. CASE i # e.index
    <3>1. i \in 1..Len(base)
      BY <2>6, <2>8, <2>2, <1>5
    <3>2. Len(entries) \in Nat /\ Len(base) <= Len(entries)
      BY <1>1, LenProperties
    <3>3. i \in 1..Len(entries) /\ entries'[i] = entries[i]
      BY <3>1, <3>2, <1>5
    <3>4. Has(Entries(wal), i) /\ LastEntry(Entries(wal), i) = entries[i]
      BY <3>3, <2>1, <2>5 DEF Recorded
    <3> QED
      BY <3>3, <3>4, <2>6, <2>8, <2>9
  <2> QED
    BY <2>7, <2>8
<1>10. Disk'
  <2> SUFFICES ASSUME ~torn, ~truncated'
               PROVE  /\ DenseSeq(Entries(wal'))
                      /\ entries' = Entries(wal')
                      /\ \A c \in commits :
                           c.index \in 1..Len(Entries(wal')) /\ Entries(wal')[c.index] = c
    BY DEF Disk
  <2>1. ~truncated /\ ~mixed /\ base = entries
    BY <1>1 DEF Shape
  <2>2. /\ entries = Entries(wal)
        /\ \A c \in commits :
             c.index \in 1..Len(Entries(wal)) /\ Entries(wal)[c.index] = c
    BY <1>1, <2>1 DEF Disk
  <2>3. entries' = Entries(wal')
    BY <2>1, <2>2, <1>4, <1>7
  <2>4. DenseSeq(entries')
    BY <2>1, <1>4, DenseAppend
  <2>5. \A c \in commits : c.index \in 1..Len(entries') /\ entries'[c.index] = c
    <3>1. \A k \in 1..Len(base) : k \in 1..Len(entries')
      BY <1>5
    <3> QED
      BY <3>1, <2>1, <2>2, <1>5
  <2> QED
    BY <2>3, <2>4, <2>5
<1>11. FirstLife'
  BY <1>1, <1>7 DEF FirstLife
<1> QED
  BY <1>6, <1>9, <1>10, <1>11 DEF IndInv

(* Any other record, written while the process runs.                        *)
LEMMA QuietStep ==
    ASSUME IndInv, NEW l \in WalLine, l.type # "ENTRY", ~torn, wal' = Append(wal, l)
    PROVE  /\ Entries(wal') = Entries(wal)
           /\ WalCommit(wal') = IF l.type = "COMMIT" THEN l.commit ELSE WalCommit(wal)
<1>1. wal \in Seq(WalLine)
  BY DEF IndInv, Shape
<1>2. /\ Entries(Append(wal, l)) = Entries(wal)
      /\ WalCommit(Append(wal, l)) = IF l.type = "COMMIT" THEN l.commit ELSE WalCommit(wal)
  BY <1>1, EntriesAppend, WalFacts, LogBounds
<1> QED
  BY <1>2

LEMMA AdoptStep ==
    ASSUME IndInv, NEW t \in 1..MaxTerm, AdoptTerm(t)
    PROVE  IndInv'
<1>1. Shape /\ Memory /\ Disk /\ FirstLife /\ up
  BY DEF IndInv, AdoptTerm
<1>2. TermLine(t) \in WalLine
  BY LineFacts
<1>3. /\ wal' \in Seq(WalLine) /\ Len(wal') <= MaxLines /\ unended' = FALSE
      /\ ~torn => wal' = Append(wal, TermLine(t))
  BY <1>1, <1>2, WalWriteFacts DEF AdoptTerm
<1>4. /\ term' = t
      /\ UNCHANGED <<up, entries, commitIndex, nodeCommit, torn, truncated, mixed, commits, crashes>>
  BY DEF AdoptTerm
<1>5. Shape'
  <2>1. t \in 0..MaxTerm
    BY LogBounds
  <2>2. TypeOK'
    BY <2>1, <1>1, <1>3, <1>4 DEF Shape, TypeOK
  <2> QED
    BY <2>2, <1>1, <1>3, <1>4 DEF Shape
<1>6. ~torn => Entries(wal') = Entries(wal) /\ WalCommit(wal') = WalCommit(wal)
  BY <1>2, <1>3, QuietStep, LineTypes
<1>7. Memory'
  BY <1>1, <1>4, <1>6 DEF Memory, Recorded
<1>8. Disk'
  BY <1>1, <1>4, <1>6 DEF Disk
<1>9. FirstLife'
  BY <1>1, <1>4, <1>6 DEF FirstLife
<1> QED
  BY <1>5, <1>7, <1>8, <1>9 DEF IndInv

(* What a dense log gives an append of the leader or of a follower.         *)
LEMMA ReplicateStep ==
    ASSUME IndInv, Replicate
    PROVE  IndInv'
<1> DEFINE e == [index |-> LastIndex(entries) + 1, term |-> term]
<1>1. /\ Shape /\ Memory /\ entries \in Seq(Entry) /\ term \in 0..MaxTerm
      /\ truncated \in BOOLEAN
  BY DEF IndInv, Shape, TypeOK
<1>2. LastIndex(entries) \in Nat
  <2>1. CASE entries = <<>>
    BY <2>1 DEF LastIndex
  <2>2. CASE entries # <<>>
    <3>1. Len(entries) \in Nat /\ Len(entries) # 0
      BY <2>2, <1>1, EmptySeq, LenProperties
    <3>2. Len(entries) \in 1..Len(entries)
      BY <3>1
    <3>3. entries[Len(entries)] \in Entry
      BY <3>2, <1>1, ElementOfSeq
    <3> QED
      BY <3>3, <2>2, EntryFacts DEF LastIndex
  <2> QED
    BY <2>1, <2>2
<1>3. e \in Entry
  BY <1>1, <1>2, LogBounds DEF Entry, Replicate
<1>4. e.index = LastIndex(entries) + 1
  OBVIOUS
<1>5. AppendEntry(entries, e)
  BY DEF Replicate
<1> HIDE DEF e
<1>6. ~torn /\ ~mixed => DenseSeq(entries) /\ e.index = Len(entries) + 1
  BY <1>1, <1>4, DenseFacts DEF Memory
<1>7. up /\ UNCHANGED <<up, commitIndex, nodeCommit, term, torn, truncated, mixed, commits, crashes>>
  BY DEF Replicate
<1>8. Len(entries) \in Nat
  BY <1>1, LenProperties
<1> QED
  BY <1>1, <1>3, <1>5, <1>6, <1>7, <1>8, AppendEntryStep

LEMMA AppendMissingStep ==
    ASSUME IndInv, NEW e \in Entry, AppendMissing(e)
    PROVE  IndInv'
<1>1. Shape /\ Memory /\ entries \in Seq(Entry) /\ truncated \in BOOLEAN
  BY DEF IndInv, Shape, TypeOK
<1>2. /\ AppendEntry(entries, e) /\ up
      /\ UNCHANGED <<up, commitIndex, nodeCommit, term, torn, truncated, mixed, commits, crashes>>
      /\ e.index = 1 \/ Has(entries, e.index - 1)
      /\ ~Has(entries, e.index)
  BY DEF AppendMissing
<1>3. Len(entries) \in Nat /\ e.index \in Nat /\ e.index >= 1
  BY <1>1, LenProperties, EntryFacts
<1>4. ~torn /\ ~mixed => DenseSeq(entries) /\ e.index = Len(entries) + 1
  <2> SUFFICES ASSUME ~torn, ~mixed PROVE DenseSeq(entries) /\ e.index = Len(entries) + 1
    OBVIOUS
  <2>1. DenseSeq(entries)
    BY <1>1 DEF Memory
  <2>2. \A i \in Int : Has(entries, i) <=> i \in 1..Len(entries)
    BY <2>1, <1>1, DenseFacts
  <2>3. e.index \notin 1..Len(entries) /\ (e.index = 1 \/ e.index - 1 \in 1..Len(entries))
    BY <2>2, <1>2, <1>3
  <2> QED
    BY <2>1, <2>3, <1>3
<1> QED
  BY <1>1, <1>2, <1>3, <1>4, AppendEntryStep

LEMMA ReplaceConflictStep ==
    ASSUME IndInv, NEW e \in Entry, ReplaceConflict(e)
    PROVE  IndInv'
<1> DEFINE base == Cut(entries, e.index)
<1>1. Shape /\ Memory /\ entries \in Seq(Entry) /\ truncated \in BOOLEAN
  BY DEF IndInv, Shape, TypeOK
<1>2. /\ AppendEntry(base, e) /\ up /\ truncated' = TRUE
      /\ UNCHANGED <<up, commitIndex, nodeCommit, term, torn, mixed, commits, crashes>>
      /\ Has(entries, e.index)
  BY DEF ReplaceConflict
<1>3. Len(entries) \in Nat /\ e.index \in Nat /\ e.index >= 1
  BY <1>1, LenProperties, EntryFacts
<1>4. /\ base \in Seq(Entry) /\ Len(base) <= Len(entries)
      /\ \A k \in 1..Len(base) : base[k] = entries[k]
      /\ DenseSeq(entries) /\ e.index \in 1..Len(entries) => Len(base) = e.index - 1
  BY <1>1, <1>3, CutFacts
<1> HIDE DEF base
<1>5. Len(base) \in Nat /\ DOMAIN base = 1..Len(base) /\ DOMAIN entries = 1..Len(entries)
  BY <1>1, <1>4, LenProperties
<1>6. ~torn /\ ~mixed => DenseSeq(base) /\ e.index = Len(base) + 1
  <2> SUFFICES ASSUME ~torn, ~mixed PROVE DenseSeq(base) /\ e.index = Len(base) + 1
    OBVIOUS
  <2>1. DenseSeq(entries)
    BY <1>1 DEF Memory
  <2>2. e.index \in 1..Len(entries)
    BY <2>1, <1>1, <1>2, <1>3, DenseFacts
  <2>3. Len(base) = e.index - 1
    BY <2>1, <2>2, <1>4
  <2>4. \A k \in 1..Len(base) : k \in 1..Len(entries)
    BY <1>3, <1>4, <1>5
  <2>5. DenseSeq(base)
    BY <2>1, <2>4, <1>4, <1>5 DEF DenseSeq
  <2> QED
    BY <2>3, <2>5, <1>3
<1> QED
  BY <1>1, <1>2, <1>4, <1>6, AppendEntryStep

LEMMA CommitStep ==
    ASSUME IndInv, NEW i \in 1..MaxIndex, Commit(i)
    PROVE  IndInv'
<1>1. /\ Shape /\ Memory /\ Disk /\ FirstLife /\ up
      /\ entries \in Seq(Entry) /\ wal \in Seq(WalLine) /\ commits \subseteq Entry
      /\ nodeCommit \in Nat /\ MaxIndex \in Nat
  BY LogBounds DEF IndInv, Commit, Shape, TypeOK
<1>2. CommitLine(i) \in WalLine
  BY LineFacts
<1>3. /\ wal' \in Seq(WalLine) /\ Len(wal') <= MaxLines /\ unended' = FALSE
      /\ ~torn => wal' = Append(wal, CommitLine(i))
  BY <1>1, <1>2, WalWriteFacts DEF Commit
<1> DEFINE new == {GetEntry(entries, j) : j \in {k \in 1..i : Has(entries, k)}}
<1>4. /\ commitIndex' = i /\ nodeCommit' = i /\ commits' = commits \cup new
      /\ UNCHANGED <<up, entries, term, torn, truncated, mixed, crashes>>
      /\ i > nodeCommit /\ i <= LastIndex(entries)
  BY DEF Commit, MayCommit
<1>5. \A c \in new : c \in Entry /\ c.index \in 1..i /\ Has(entries, c.index)
                       /\ c = GetEntry(entries, c.index)
  <2> SUFFICES ASSUME NEW j \in 1..i, Has(entries, j)
               PROVE  LET c == GetEntry(entries, j)
                      IN  c \in Entry /\ c.index \in 1..i /\ Has(entries, c.index)
                            /\ c = GetEntry(entries, c.index)
    OBVIOUS
  <2>1. GetEntry(entries, j) \in Entry /\ GetEntry(entries, j).index = j
    BY <1>1, GetEntryFacts
  <2> QED
    BY <2>1
<1> HIDE DEF new
<1>6. Shape'
  <2>1. commits' \subseteq Entry /\ commitIndex' \in 0..MaxIndex /\ nodeCommit' \in 0..commitIndex'
    BY <1>1, <1>4, <1>5
  <2> QED
    BY <2>1, <1>1, <1>3, <1>4 DEF Shape, TypeOK
<1>7. ~torn => Entries(wal') = Entries(wal) /\ WalCommit(wal') = i
  BY <1>2, <1>3, QuietStep, LineTypes
<1>8. Memory'
  BY <1>1, <1>4, <1>7 DEF Memory, Recorded
<1>9. Disk'
  <2> SUFFICES ASSUME ~torn, ~truncated
               PROVE  /\ DenseSeq(Entries(wal)) /\ entries = Entries(wal)
                      /\ \A c \in commits' :
                           c.index \in 1..Len(Entries(wal)) /\ Entries(wal)[c.index] = c
    BY <1>4, <1>7 DEF Disk
  <2>1. /\ DenseSeq(Entries(wal)) /\ entries = Entries(wal)
        /\ \A c \in commits :
             c.index \in 1..Len(Entries(wal)) /\ Entries(wal)[c.index] = c
    BY <1>1 DEF Disk
  <2>2. \A c \in new : c.index \in 1..Len(entries) /\ entries[c.index] = c
    <3>1. /\ \A k \in Int : Has(entries, k) <=> k \in 1..Len(entries)
          /\ \A k \in 1..Len(entries) : GetEntry(entries, k) = entries[k]
      BY <2>1, <1>1, DenseFacts
    <3>2. \A c \in new : c.index \in Int
      BY <1>5
    <3> QED
      BY <3>1, <3>2, <1>5
  <2> QED
    BY <2>1, <2>2, <1>4
<1>10. FirstLife'
  <2>1. ~torn /\ crashes = 0 => \A c \in commits' : c.index <= i
    <3> SUFFICES ASSUME ~torn, crashes = 0, NEW c \in commits' PROVE c.index <= i
      OBVIOUS
    <3>1. CASE c \in commits
      <4>1. c.index <= nodeCommit /\ c.index \in Nat
        BY <3>1, <1>1, EntryFacts DEF FirstLife
      <4> QED
        BY <4>1, <1>1, <1>4
    <3>2. CASE c \in new
      BY <3>2, <1>5
    <3> QED
      BY <3>1, <3>2, <1>4
  <2> QED
    BY <2>1, <1>1, <1>4, <1>7 DEF FirstLife
<1> QED
  BY <1>6, <1>8, <1>9, <1>10 DEF IndInv

(* Whatever a crash may cut short is a line, and an entry follows the last  *)
(* one of a dense log.                                                      *)
LEMMA PendingFacts ==
    ASSUME IndInv, NEW l \in Pending
    PROVE  /\ l \in WalLine
           /\ l.type = "COMMIT" => l.commit > nodeCommit
           /\ l.type = "ENTRY" =>
                /\ l.entry \in Entry
                /\ DenseSeq(entries) => l.entry.index = Len(entries) + 1
<1>1. /\ entries \in Seq(Entry) /\ term \in 0..MaxTerm /\ MaxTerm \in Nat
      /\ Len(entries) \in Nat
  BY LogBounds, LenProperties DEF IndInv, Shape, TypeOK
<1>2. CASE \E t \in (term + 1)..MaxTerm : l = TermLine(t)
  <2>1. PICK t \in (term + 1)..MaxTerm : l = TermLine(t)
    BY <1>2
  <2>2. t \in 1..MaxTerm
    BY <1>1
  <2> QED
    BY <2>1, <2>2, LineFacts, LineTypes
<1>3. CASE \E i \in {j \in 1..MaxIndex : MayCommit(j)} : l = CommitLine(i)
  <2>1. PICK i \in 1..MaxIndex : MayCommit(i) /\ l = CommitLine(i)
    BY <1>3
  <2> QED
    BY <2>1, LineFacts, LineTypes DEF MayCommit
<1>4. CASE \E e \in {f \in Entry : f.term <= term /\ (f.index = 1 \/ Has(entries, f.index - 1))
                                     /\ ~Has(entries, f.index)} : l = EntryLine(e)
  <2>1. PICK e \in Entry : /\ e.index = 1 \/ Has(entries, e.index - 1)
                           /\ ~Has(entries, e.index)
                           /\ l = EntryLine(e)
    BY <1>4
  <2>2. l \in WalLine /\ l.type = "ENTRY" /\ l.entry = e
    BY <2>1, LineFacts, LineTypes
  <2>3. e.index \in Nat /\ e.index >= 1
    BY EntryFacts
  <2>4. ASSUME DenseSeq(entries) PROVE e.index = Len(entries) + 1
    <3>1. \A i \in Int : Has(entries, i) <=> i \in 1..Len(entries)
      BY <2>4, <1>1, DenseFacts
    <3>2. e.index \notin 1..Len(entries) /\ (e.index = 1 \/ e.index - 1 \in 1..Len(entries))
      BY <3>1, <2>1, <2>3
    <3> QED
      BY <3>2, <2>3, <1>1
  <2> QED
    BY <2>2, <2>4
<1> QED
  BY <1>2, <1>3, <1>4 DEF Pending

(* A crash keeps the file, or adds the record that was being written.       *)
LEMMA DieStep ==
    ASSUME IndInv, Die, UNCHANGED <<truncated, mixed, commits>>,
           wal' \in Seq(WalLine), Len(wal') <= MaxLines,
           unended' \in BOOLEAN, torn' \in BOOLEAN, unended' => torn' /\ wal' # <<>>,
           ~torn' => ~torn,
           ~torn' => wal' = wal \/ \E l \in Pending : wal' = Append(wal, l)
    PROVE  IndInv'
<1>1. /\ Shape /\ Memory /\ Disk /\ FirstLife /\ up /\ crashes \in 0..MaxCrash
      /\ wal \in Seq(WalLine) /\ crashes < MaxCrash /\ MaxCrash \in Nat
      /\ up' = FALSE /\ crashes' = crashes + 1 /\ nodeCommit \in Nat
      /\ entries' = <<>> /\ commitIndex' = 0 /\ nodeCommit' = 0 /\ term' = 0
  BY LogBounds DEF IndInv, Shape, TypeOK, Die
<1>2. Shape'
  <2>1. /\ 0 \in 0..MaxIndex /\ 0 \in 0..0 /\ 0 \in 0..MaxTerm /\ crashes' \in 0..MaxCrash
    BY <1>1, LogBounds
  <2>2. TypeOK'
    BY <2>1, <1>1, EmptyLog DEF Shape, TypeOK
  <2> QED
    BY <2>2, <1>1 DEF Shape
<1>3. Memory'
  BY <1>1, EmptyLog DEF Memory
<1>4. ASSUME ~torn', ~truncated
      PROVE  /\ DenseSeq(Entries(wal'))
             /\ \A c \in commits :
                  c.index \in 1..Len(Entries(wal')) /\ Entries(wal')[c.index] = c
  <2>1. /\ DenseSeq(Entries(wal)) /\ entries = Entries(wal)
        /\ \A c \in commits :
             c.index \in 1..Len(Entries(wal)) /\ Entries(wal)[c.index] = c
    BY <1>1, <1>4 DEF Disk
  <2>2. CASE wal' = wal
    BY <2>1, <2>2
  <2>3. CASE \E l \in Pending : wal' = Append(wal, l)
    <3>1. PICK l \in Pending : wal' = Append(wal, l)
      BY <2>3
    <3>2. l \in WalLine /\ (l.type = "ENTRY" => l.entry \in Entry
                                 /\ (DenseSeq(entries) => l.entry.index = Len(entries) + 1))
      BY PendingFacts
    <3>3. Entries(wal') =
            IF l.type = "ENTRY" THEN Append(Entries(wal), l.entry) ELSE Entries(wal)
      BY <3>1, <3>2, <1>1, EntriesAppend
    <3>4. CASE l.type # "ENTRY"
      BY <3>3, <3>4, <2>1
    <3>5. CASE l.type = "ENTRY"
      <4>1. Entries(wal) \in Seq(Entry)
        BY <1>1, EntriesFacts
      <4>2. Entries(wal') = Append(Entries(wal), l.entry) /\ l.entry \in Entry
              /\ l.entry.index = Len(Entries(wal)) + 1
        BY <3>2, <3>3, <3>5, <2>1
      <4>3. /\ Len(Entries(wal)) \in Nat /\ Len(Entries(wal')) = Len(Entries(wal)) + 1
            /\ \A k \in 1..Len(Entries(wal)) : Entries(wal')[k] = Entries(wal)[k]
        BY <4>1, <4>2, AppendFacts
      <4>4. DenseSeq(Entries(wal'))
        BY <4>1, <4>2, <2>1, DenseAppend
      <4>5. \A k \in 1..Len(Entries(wal)) : k \in 1..Len(Entries(wal'))
        BY <4>3
      <4> QED
        BY <4>3, <4>4, <4>5, <2>1
    <3> QED
      BY <3>4, <3>5
  <2> QED
    BY <1>4, <2>2, <2>3
<1>5. Disk'
  BY <1>1, <1>4 DEF Disk
<1>6. ASSUME ~torn', crashes = 0
      PROVE  \A c \in commits : c.index <= WalCommit(wal')
  <2>1. nodeCommit = WalCommit(wal) /\ \A c \in commits : c.index <= nodeCommit
    BY <1>1, <1>6 DEF FirstLife
  <2>2. CASE wal' = wal
    BY <2>1, <2>2
  <2>3. CASE \E l \in Pending : wal' = Append(wal, l)
    <3>1. PICK l \in Pending : wal' = Append(wal, l)
      BY <2>3
    <3>2. l \in WalLine /\ (l.type = "COMMIT" => l.commit > nodeCommit)
      BY PendingFacts
    <3>3. WalCommit(wal') = IF l.type = "COMMIT" THEN l.commit ELSE WalCommit(wal)
      BY <3>1, <3>2, <1>1, WalFacts, LogBounds
    <3>4. CASE l.type # "COMMIT"
      BY <3>3, <3>4, <2>1
    <3>5. CASE l.type = "COMMIT"
      <4>1. l.commit \in Nat /\ l.commit > nodeCommit /\ WalCommit(wal') = l.commit
        BY <3>2, <3>3, <3>5, LineFacts
      <4>2. \A c \in commits : c.index \in Nat
        BY <1>1, EntryFacts DEF Shape, TypeOK
      <4> QED
        BY <4>1, <4>2, <2>1, <1>1
    <3> QED
      BY <3>4, <3>5
  <2> QED
    BY <1>6, <2>2, <2>3
<1>7. FirstLife'
  <2>1. crashes' # 0 /\ (crashes' = 1 => crashes = 0)
    BY <1>1
  <2> QED
    BY <2>1, <1>6 DEF FirstLife
<1> QED
  BY <1>2, <1>3, <1>5, <1>7 DEF IndInv

LEMMA CrashStep ==
    ASSUME IndInv, Crash
    PROVE  IndInv'
<1>1. /\ wal \in Seq(WalLine) /\ Len(wal) <= MaxLines /\ unended \in BOOLEAN
      /\ torn \in BOOLEAN /\ (unended => torn /\ wal # <<>>)
  BY DEF IndInv, Shape, TypeOK
<1> QED
  BY <1>1, DieStep DEF Crash

LEMMA CrashWritingStep ==
    ASSUME IndInv, NEW l \in Pending, CrashWriting(l)
    PROVE  IndInv'
<1>1. /\ wal \in Seq(WalLine) /\ unended \in BOOLEAN /\ torn \in BOOLEAN
      /\ (unended => torn /\ wal # <<>>)
      /\ Len(wal) \in Nat /\ Len(wal) < MaxLines /\ MaxLines \in Nat
      /\ Die /\ UNCHANGED <<truncated, mixed, commits>>
  BY LogBounds, LenProperties DEF IndInv, Shape, TypeOK, CrashWriting
<1>2. l \in WalLine /\ Garbled \in WalLine
  BY PendingFacts, LineFacts
<1>3. ASSUME NEW line \in WalLine, wal' = Written(wal, unended, line)
      PROVE  /\ wal' \in Seq(WalLine) /\ wal' # <<>> /\ Len(wal') <= MaxLines
             /\ ~unended => wal' = Append(wal, line)
  <2>1. /\ wal' \in Seq(WalLine) /\ wal' # <<>> /\ Len(wal') <= Len(wal) + 1
        /\ ~unended => wal' = Append(wal, line)
    BY <1>1, <1>3, WrittenFacts
  <2>2. Len(wal') \in Nat
    BY <2>1, LenProperties
  <2> QED
    BY <2>1, <2>2, <1>1
<1>4. CASE wal' = Written(wal, unended, l) /\ unended' = FALSE /\ torn' = torn
  BY <1>1, <1>2, <1>3, <1>4, DieStep
<1>5. CASE /\ wal' = Written(wal, unended, l) \/ wal' = Written(wal, unended, Garbled)
           /\ unended' = TRUE /\ torn' = TRUE
  BY <1>1, <1>2, <1>3, <1>5, DieStep
<1> QED
  BY <1>4, <1>5 DEF CrashWriting

(* A replay gives back the file, which is the log unless entries were       *)
(* truncated.                                                               *)
LEMMA RestartStep ==
    ASSUME IndInv, Restart
    PROVE  IndInv'
<1>1. /\ Shape /\ Memory /\ Disk /\ FirstLife /\ ~up /\ wal \in Seq(WalLine)
      /\ up' = TRUE /\ entries' = Entries(wal) /\ commitIndex' = WalCommit(wal)
      /\ nodeCommit' = 0 /\ term' = WalTerm(wal) /\ mixed' = (mixed \/ truncated)
      /\ UNCHANGED <<wal, unended, torn, truncated, commits, crashes>>
  BY DEF IndInv, Shape, Restart
<1>2. /\ Entries(wal) \in Seq(Entry)
      /\ WalTerm(wal) \in 0..MaxTerm /\ WalCommit(wal) \in 0..MaxIndex
  BY <1>1, EntriesFacts, WalFacts, LineFacts, LogBounds
<1>3. Shape'
  <2>1. 0 \in 0..WalCommit(wal)
    BY <1>2, LogBounds
  <2>2. TypeOK'
    BY <2>1, <1>1, <1>2 DEF Shape, TypeOK
  <2> QED
    BY <2>2, <1>1 DEF Shape, TypeOK
<1>4. Memory'
  <2> SUFFICES ASSUME ~torn, ~mixed'
               PROVE  DenseSeq(entries') /\ Recorded(entries', wal)
    BY <1>1 DEF Memory, Recorded
  <2>1. DenseSeq(Entries(wal))
    BY <1>1 DEF Disk, Shape, TypeOK
  <2>2. /\ \A i \in Int : Has(Entries(wal), i) <=> i \in 1..Len(Entries(wal))
        /\ \A i \in 1..Len(Entries(wal)) :
             GetEntry(Entries(wal), i) = Entries(wal)[i]
               /\ LastEntry(Entries(wal), i) = Entries(wal)[i]
    BY <2>1, <1>2, DenseFacts
  <2>3. Recorded(Entries(wal), wal)
    BY <2>2 DEF Recorded
  <2> QED
    BY <2>1, <2>3, <1>1
<1>5. Disk'
  BY <1>1 DEF Disk
<1>6. FirstLife'
  BY <1>1 DEF FirstLife
<1> QED
  BY <1>3, <1>4, <1>5, <1>6 DEF IndInv

LEMMA NextInv == IndInv /\ [Next]_vars => IndInv'
<1> SUFFICES ASSUME IndInv, [Next]_vars PROVE IndInv'
  OBVIOUS
<1>1. CASE \E t \in 1..MaxTerm : AdoptTerm(t)
  BY <1>1, AdoptStep
<1>2. CASE Replicate
  BY <1>2, ReplicateStep
<1>3. CASE \E e \in Entry : AppendMissing(e)
  BY <1>3, AppendMissingStep
<1>4. CASE \E e \in Entry : ReplaceConflict(e)
  BY <1>4, ReplaceConflictStep
<1>5. CASE \E i \in 1..MaxIndex : Commit(i)
  BY <1>5, CommitStep
<1>6. CASE Crash
  BY <1>6, CrashStep
<1>7. CASE \E line \in Pending : CrashWriting(line)
  BY <1>7, CrashWritingStep
<1>8. CASE Restart
  BY <1>8, RestartStep
<1>9. CASE UNCHANGED vars
  BY <1>9 DEF IndInv, Shape, TypeOK, Memory, Recorded, Disk, FirstLife, vars, logVars
<1> QED
  BY <1>1, <1>2, <1>3, <1>4, <1>5, <1>6, <1>7, <1>8, <1>9 DEF Next

LEMMA Inductive == Spec => []IndInv
BY InitInv, NextInv, PTL DEF Spec

(***************************************************************************)
(* What follows.                                                           *)
(***************************************************************************)

(* The type invariant, whatever is cut short, truncated and replayed.       *)
THEOREM TypeCorrect == Spec => []TypeOK
<1>1. IndInv => TypeOK
  BY DEF IndInv, Shape
<1> QED
  BY <1>1, Inductive, PTL

(* Until a write is cut short or a file with truncated entries is replayed, *)
(* the entry at position k has index k.                                     *)
THEOREM DenseAlways == Spec => []Dense
<1>1. IndInv => Dense
  BY DEF IndInv, Memory, Dense, DenseSeq
<1> QED
  BY <1>1, Inductive, PTL

(* Until then the last record of an index is the entry in memory.           *)
THEOREM LastRecordAlways == Spec => []LastRecordIsCurrent
<1>1. IndInv => LastRecordIsCurrent
  BY DEF IndInv, Memory, Recorded, LastRecordIsCurrent
<1> QED
  BY <1>1, Inductive, PTL

(* While the process runs, no step changes an entry at or below the commit  *)
(* index.                                                                   *)
THEOREM CommittedStays == Spec => CommittedFrozen
<1> DEFINE Frozen == up /\ up' /\ ~torn /\ ~mixed =>
             \A i \in 1..commitIndex :
                Has(entries, i) => Has(entries', i) /\ GetEntry(entries', i) = GetEntry(entries, i)
<1>1. IndInv /\ IndInv' /\ [Next]_vars => Frozen
  <2> SUFFICES ASSUME IndInv, IndInv', [Next]_vars, up, up', ~torn, ~mixed,
                      NEW i \in 1..commitIndex, Has(entries, i)
               PROVE  Has(entries', i) /\ GetEntry(entries', i) = GetEntry(entries, i)
    OBVIOUS
  <2>1. /\ entries \in Seq(Entry) /\ entries' \in Seq(Entry) /\ commitIndex \in Nat
    BY LogBounds DEF IndInv, Shape, TypeOK
  <2>2. DenseSeq(entries)
    BY DEF IndInv, Memory
  <2>3. /\ i \in 1..Len(entries) /\ GetEntry(entries, i) = entries[i]
        /\ Len(entries) \in Nat
    BY <2>1, <2>2, DenseFacts, LenProperties
  <2>4. ASSUME DenseSeq(entries'), i \in 1..Len(entries'), entries'[i] = entries[i]
        PROVE  Has(entries', i) /\ GetEntry(entries', i) = GetEntry(entries, i)
    BY <2>1, <2>3, <2>4, DenseFacts
  <2>5. CASE entries' = entries
    BY <2>5
  <2>6. ASSUME NEW base \in Seq(Entry), NEW e \in Entry, entries' = Append(base, e),
               i \in 1..Len(base), base[i] = entries[i],
               UNCHANGED <<torn, mixed>>
        PROVE  Has(entries', i) /\ GetEntry(entries', i) = GetEntry(entries, i)
    <3>1. /\ Len(base) \in Nat /\ Len(entries') = Len(base) + 1
          /\ \A k \in 1..Len(base) : entries'[k] = base[k]
      BY <2>6, AppendFacts
    <3>2. DenseSeq(entries')
      BY <2>6 DEF IndInv, Memory
    <3> QED
      BY <3>1, <3>2, <2>4, <2>6
  <2>7. CASE Replicate
    <3>1. /\ entries' = Append(entries, [index |-> LastIndex(entries) + 1, term |-> term])
          /\ UNCHANGED <<torn, mixed>>
      BY <2>7 DEF Replicate, AppendEntry
    <3>2. [index |-> LastIndex(entries) + 1, term |-> term] \in Entry
      <4>1. LastIndex(entries) \in Nat
        BY <2>1, <2>2, <2>3, DenseFacts
      <4> QED
        BY <4>1, <2>7, LogBounds DEF IndInv, Shape, TypeOK, Replicate, Entry
    <3> QED
      BY <3>1, <3>2, <2>1, <2>3, <2>6
  <2>8. ASSUME NEW e \in Entry, AppendMissing(e)
        PROVE  Has(entries', i) /\ GetEntry(entries', i) = GetEntry(entries, i)
    <3>1. entries' = Append(entries, e) /\ UNCHANGED <<torn, mixed>>
      BY <2>8 DEF AppendMissing, AppendEntry
    <3> QED
      BY <3>1, <2>1, <2>3, <2>6
  <2>9. ASSUME NEW e \in Entry, ReplaceConflict(e)
        PROVE  Has(entries', i) /\ GetEntry(entries', i) = GetEntry(entries, i)
    <3>1. /\ entries' = Append(Cut(entries, e.index), e) /\ UNCHANGED <<torn, mixed>>
          /\ Has(entries, e.index) /\ ~(e.index <= commitIndex)
      BY <2>9 DEF ReplaceConflict, AppendEntry, Refuses
    <3>2. e.index \in Nat
      BY EntryFacts
    <3>3. e.index \in 1..Len(entries)
      BY <3>1, <3>2, <2>1, <2>2, DenseFacts
    <3>4. /\ Cut(entries, e.index) \in Seq(Entry)
          /\ Len(Cut(entries, e.index)) = e.index - 1
          /\ \A k \in 1..Len(Cut(entries, e.index)) : Cut(entries, e.index)[k] = entries[k]
      BY <3>2, <3>3, <2>1, <2>2, CutFacts
    <3>5. i \in 1..Len(Cut(entries, e.index))
      BY <3>1, <3>2, <3>4, <2>1
    <3> QED
      BY <3>1, <3>4, <3>5, <2>6
  <2>10. CASE Crash \/ (\E line \in Pending : CrashWriting(line)) \/ Restart
    BY <2>10 DEF Crash, CrashWriting, Die, Restart
  <2>11. CASE \E t \in 1..MaxTerm : AdoptTerm(t)
    BY <2>11, <2>5 DEF AdoptTerm
  <2>12. CASE \E j \in 1..MaxIndex : Commit(j)
    BY <2>12, <2>5 DEF Commit
  <2>13. CASE UNCHANGED vars
    BY <2>13, <2>5 DEF vars, logVars
  <2> QED
    BY <2>7, <2>8, <2>9, <2>10, <2>11, <2>12, <2>13 DEF Next
<1>2. IndInv /\ IndInv' /\ [Next]_vars => [Frozen]_vars
  BY <1>1
<1> HIDE DEF Frozen
<1>3. Spec => [][Frozen]_vars
  BY <1>2, Inductive, PTL DEF Spec
<1> QED
  BY <1>3 DEF CommittedFrozen, Frozen

(* Without truncations and writes cut short, a restart gives back every     *)
(* entry that was ever committed, and the first one the commit index.       *)
THEOREM RestartGivesBack == Spec => RestartRestores
<1> DEFINE Restores == ~up /\ up' /\ ~torn /\ ~truncated =>
             \A e \in commits : Readable(e)' /\ (crashes = 1 => e.index <= commitIndex')
<1>1. IndInv /\ [Next]_vars => Restores
  <2> SUFFICES ASSUME IndInv, [Next]_vars, ~up, up', ~torn, ~truncated, NEW e \in commits
               PROVE  Readable(e)' /\ (crashes = 1 => e.index <= commitIndex')
    OBVIOUS
  <2>1. Restart
    BY DEF Next, AdoptTerm, Replicate, AppendMissing, ReplaceConflict, Commit, Crash,
           CrashWriting, Die, vars
  <2>2. /\ entries' = Entries(wal) /\ commitIndex' = WalCommit(wal)
        /\ wal \in Seq(WalLine)
    BY <2>1 DEF Restart, IndInv, Shape
  <2>3. Entries(wal) \in Seq(Entry)
    BY <2>2, EntriesFacts
  <2>4. DenseSeq(Entries(wal)) /\ e.index \in 1..Len(Entries(wal)) /\ Entries(wal)[e.index] = e
    BY DEF IndInv, Disk
  <2>5. Has(Entries(wal), e.index) /\ GetEntry(Entries(wal), e.index) = e
    BY <2>3, <2>4, DenseFacts
  <2>6. Readable(e)'
    BY <2>2, <2>5 DEF Readable
  <2>7. crashes = 1 => e.index <= commitIndex'
    BY <2>2 DEF IndInv, FirstLife
  <2> QED
    BY <2>6, <2>7
<1>2. IndInv /\ [Next]_vars => [Restores]_vars
  BY <1>1
<1> HIDE DEF Restores
<1>3. Spec => [][Restores]_vars
  BY <1>2, Inductive, PTL DEF Spec
<1> QED
  BY <1>3 DEF RestartRestores, Restores

============================================================================
