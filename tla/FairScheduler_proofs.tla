------------------------- MODULE FairScheduler_proofs -------------------------
(***************************************************************************)
(* Proofs about the scheduler of effects, for any tasks, effects,          *)
(* generations and limits.                                                 *)
(***************************************************************************)
EXTENDS FairScheduler, FiniteSetTheorems, SequenceTheorems, TLAPS

\* Every set of numbers that is not empty has a least one.
LEMMA LeastExists ==
    ASSUME NEW S \in SUBSET Nat, S # {}
    PROVE  \E m \in S : \A x \in S : m <= x
<1>1. IsWellFoundedOn(OpToRel(<, Nat), Nat)  BY NatLessThanWellFounded
<1>2. PICK m \in S : \A x \in S : <<x, m>> \notin OpToRel(<, Nat)  BY <1>1, WFMin
<1>3. \A x \in S : ~(x < m) /\ x \in Nat /\ m \in Nat  BY <1>2 DEF OpToRel
<1>. QED  BY <1>3

\* The rank is a bijection from the set to 1 .. its cardinality, and follows
\* the order.
LEMMA RankIsOrder ==
    ASSUME NEW n \in Nat, NEW I \in SUBSET (1 .. n)
    PROVE  /\ IsFiniteSet(I) /\ Cardinality(I) \in Nat
           /\ \A i \in I : Rank(I, i) \in 1 .. Cardinality(I)
           /\ \A i, j \in I : i < j => Rank(I, i) < Rank(I, j)
           /\ \A j \in 1 .. Cardinality(I) : \E i \in I : Rank(I, i) = j
<1>. DEFINE Up(i) == {k \in I : k <= i}
<1>1. IsFiniteSet(I) /\ Cardinality(I) \in Nat
  <2>1. IsFiniteSet(1 .. n)  BY FS_Interval
  <2>2. IsFiniteSet(I)  BY <2>1, FS_Subset
  <2>. QED  BY <2>2, FS_CardinalityType
<1>2. ASSUME NEW i \in I
      PROVE  /\ Rank(I, i) \in 1 .. Cardinality(I)
             /\ IsFiniteSet(Up(i)) /\ Rank(I, i) = Cardinality(Up(i))
  <2>1. IsFiniteSet(Up(i)) /\ Cardinality(Up(i)) <= Cardinality(I)
    BY <1>1, FS_Subset
  <2>2. Cardinality(Up(i)) \in Nat  BY <2>1, FS_CardinalityType
  <2>3. i \in Up(i)  OBVIOUS
  <2>4. Cardinality(Up(i)) # 0  BY <2>1, <2>3, FS_EmptySet
  <2>5. Rank(I, i) = Cardinality(Up(i))  BY DEF Rank
  <2>. HIDE DEF Up
  <2>. QED  BY <1>1, <2>1, <2>2, <2>4, <2>5
<1>3. ASSUME NEW i \in I, NEW j \in I, i < j  PROVE Rank(I, i) < Rank(I, j)
  <2>1. j \notin Up(i) /\ Up(i) \union {j} \subseteq Up(j)
    <3>1. i \in Int /\ j \in Int /\ ~(j <= i)  BY <1>3
    <3>2. j \notin Up(i) /\ j \in Up(j)  BY <3>1
    <3>3. ASSUME NEW k \in I, k <= i  PROVE k <= j
      <4>1. k \in Int  OBVIOUS
      <4>. QED  BY <1>3, <3>1, <3>3, <4>1
    <3>4. Up(i) \subseteq Up(j)  BY <3>3
    <3>. QED  BY <3>2, <3>4
  <2>2. Cardinality(Up(i) \union {j}) = Cardinality(Up(i)) + 1
    BY <1>2, <2>1, FS_AddElement
  <2>3. Cardinality(Up(i) \union {j}) <= Cardinality(Up(j))  BY <1>2, <2>1, FS_Subset
  <2>4. /\ Rank(I, i) = Cardinality(Up(i)) /\ Rank(I, j) = Cardinality(Up(j))
        /\ Rank(I, i) \in Nat /\ Rank(I, j) \in Nat
    BY <1>1, <1>2
  <2>. HIDE DEF Up
  <2>. QED  BY <2>2, <2>3, <2>4
<1>. DEFINE f == [i \in I |-> Rank(I, i)]
            K == 1 .. Cardinality(I)
<1>4. f \in [I -> K]  BY <1>2
<1>5. \A i, j \in I : f[i] = f[j] => i = j
  <2>. SUFFICES ASSUME NEW i \in I, NEW j \in I, f[i] = f[j], i # j PROVE FALSE
    OBVIOUS
  <2>1. i < j \/ j < i  OBVIOUS
  <2>2. /\ Rank(I, i) \in 1 .. Cardinality(I)
        /\ Rank(I, j) \in 1 .. Cardinality(I)
        /\ Rank(I, i) = Rank(I, j)
    BY <1>2
  <2>. QED  BY <1>1, <1>3, <2>1, <2>2
<1>6. IsFiniteSet(K) /\ Cardinality(K) = Cardinality(I)
  BY <1>1, FS_Interval
<1>. HIDE DEF f, K
<1>7. f \in Injection(I, K)  BY <1>4, <1>5 DEF Injection, IsInjective
<1>8. f \in Surjection(I, K)  BY <1>6, <1>7, FS_Injection
<1>9. \A j \in K : \E i \in I : f[i] = j  BY <1>8 DEF Surjection
<1>. QED  BY <1>1, <1>2, <1>3, <1>9 DEF f, K

\* The sequence t has the elements of s that are in S, in their order: position
\* j of t holds what s has at p[j], and p is increasing.
AreOf(t, s, S) ==
    \E p \in [DOMAIN t -> DOMAIN s] :
       /\ \A j \in DOMAIN t : t[j] = s[p[j]]
       /\ \A j, k \in DOMAIN t : j < k => p[j] < p[k]
       /\ \A i \in DOMAIN s : s[i] \in S => \E j \in DOMAIN t : p[j] = i

\* Picked returns a sequence of elements of s that are in S, each of them, in
\* their order.
LEMMA PickedProperties ==
    ASSUME NEW T, NEW s \in Seq(T), NEW S
    PROVE  Picked(s, S) \in Seq(T \cap S) /\ AreOf(Picked(s, S), s, S)
<1>. DEFINE I == {i \in DOMAIN s : s[i] \in S}
            n == Cardinality(I)
            p == [j \in 1 .. n |-> CHOOSE i \in I : Rank(I, i) = j]
            t == Picked(s, S)
<1>1. Len(s) \in Nat /\ DOMAIN s = 1 .. Len(s)  BY LenProperties
<1>2. I \in SUBSET (1 .. Len(s))  BY <1>1
<1>. HIDE DEF I
<1>3. /\ n \in Nat
      /\ \A i \in I : Rank(I, i) \in 1 .. n
      /\ \A i, j \in I : i < j => Rank(I, i) < Rank(I, j)
      /\ \A j \in 1 .. n : \E i \in I : Rank(I, i) = j
  BY <1>1, <1>2, RankIsOrder
<1>4. \A j \in 1 .. n : p[j] \in I /\ Rank(I, p[j]) = j  BY <1>3
<1>5. p \in [1 .. n -> I]  BY <1>4
<1>6. t = [j \in 1 .. n |-> s[p[j]]]  BY DEF Picked, I
<1>. HIDE DEF n, p, t
<1>7. \A i \in I : s[i] \in T \cap S /\ i \in DOMAIN s /\ i \in Int
  BY <1>1, ElementOfSeq DEF I
<1>8. t \in Seq(T \cap S) /\ DOMAIN t = 1 .. n
  BY <1>3, <1>5, <1>6, <1>7
<1>9. ASSUME NEW j \in 1 .. n, NEW k \in 1 .. n, j < k  PROVE p[j] < p[k]
  <2>1. p[j] \in I /\ p[k] \in I /\ p[j] \in Int /\ p[k] \in Int  BY <1>5, <1>7
  <2>2. CASE p[k] < p[j]
    <3>1. Rank(I, p[k]) < Rank(I, p[j])  BY <1>3, <2>1, <2>2
    <3>. QED  BY <1>3, <1>4, <1>9, <3>1
  <2>3. CASE p[k] = p[j]
    <3>1. j = k  BY <1>4, <2>3
    <3>. QED  BY <1>9, <3>1
  <2>. QED  BY <2>1, <2>2, <2>3
<1>10. ASSUME NEW i \in DOMAIN s, s[i] \in S
       PROVE  \E j \in 1 .. n : p[j] = i
  <2>1. i \in I  BY <1>10 DEF I
  <2>2. Rank(I, i) \in 1 .. n  BY <1>3, <2>1
  <2>3. p[Rank(I, i)] \in I /\ Rank(I, p[Rank(I, i)]) = Rank(I, i)  BY <1>4, <2>2
  <2>4. p[Rank(I, i)] = i
    <3>1. p[Rank(I, i)] \in Int /\ i \in Int  BY <1>7, <2>1, <2>3
    <3>2. CASE p[Rank(I, i)] < i  BY <1>3, <2>1, <2>2, <2>3, <3>2
    <3>3. CASE i < p[Rank(I, i)]  BY <1>3, <2>1, <2>2, <2>3, <3>3
    <3>. QED  BY <3>1, <3>2, <3>3
  <2>. QED  BY <2>2, <2>4
<1>11. p \in [DOMAIN t -> DOMAIN s]  BY <1>5, <1>7, <1>8
<1>12. \A j \in DOMAIN t : t[j] = s[p[j]]  BY <1>6, <1>8
<1>13. \A j, k \in DOMAIN t : j < k => p[j] < p[k]  BY <1>8, <1>9
<1>14. \A i \in DOMAIN s : s[i] \in S => \E j \in DOMAIN t : p[j] = i  BY <1>8, <1>10
<1>15. AreOf(t, s, S)  BY <1>11, <1>12, <1>13, <1>14, Zenon DEF AreOf
<1>. QED  BY <1>8, <1>15 DEF t

-----------------------------------------------------------------------------
(***************************************************************************)
(* Sequences without repetition: the ring of a lane, and each queue in it. *)
(***************************************************************************)
Distinct(s) == \A i, j \in DOMAIN s : s[i] = s[j] => i = j

LEMMA EmptyIsDistinct == Distinct(<<>>) /\ Range(<<>>) = {}
BY DEF Distinct, Range

LEMMA RangeIs ==
    ASSUME NEW S, NEW s \in Seq(S)
    PROVE  /\ Range(s) \subseteq S
           /\ \A i \in 1 .. Len(s) : s[i] \in Range(s)
           /\ \A x \in Range(s) : \E i \in 1 .. Len(s) : s[i] = x
           /\ s = <<>> <=> Range(s) = {}
<1>1. DOMAIN s = 1 .. Len(s) /\ Len(s) \in Nat  BY LenProperties
<1>2. \A i \in 1 .. Len(s) : s[i] \in S  BY ElementOfSeq
<1>3. s # <<>> => 1 \in 1 .. Len(s)  BY <1>1, EmptySeq
<1>4. s = <<>> => Range(s) = {}  BY EmptyIsDistinct
<1>5. s # <<>> => s[1] \in Range(s)  BY <1>1, <1>3 DEF Range
<1>6. \A x \in Range(s) : \E i \in 1 .. Len(s) : s[i] = x  BY <1>1 DEF Range
<1>7. \A i \in 1 .. Len(s) : s[i] \in Range(s)  BY <1>1 DEF Range
<1>8. Range(s) \subseteq S  BY <1>2, <1>6
<1>9. s = <<>> <=> Range(s) = {}  BY <1>4, <1>5
<1>. QED  BY <1>6, <1>7, <1>8, <1>9

LEMMA AppendIsDistinct ==
    ASSUME NEW S, NEW s \in Seq(S), Distinct(s), NEW e \in S, e \notin Range(s)
    PROVE  /\ Append(s, e) \in Seq(S) /\ Append(s, e) # <<>>
           /\ Distinct(Append(s, e)) /\ Range(Append(s, e)) = Range(s) \cup {e}
<1>. DEFINE a == Append(s, e)
<1>1. /\ a \in Seq(S) /\ a # <<>> /\ Len(a) = Len(s) + 1 /\ Len(s) \in Nat
      /\ \A i \in 1 .. Len(s) : a[i] = s[i]
      /\ a[Len(s) + 1] = e
  BY AppendProperties, LenProperties
<1>2. DOMAIN a = 1 .. Len(s) + 1 /\ DOMAIN s = 1 .. Len(s)  BY <1>1, LenProperties
<1>. HIDE DEF a
<1>3. \A i \in 1 .. Len(s) : s[i] # e  BY <1>2 DEF Range
<1>4. \A i \in DOMAIN a : i \in 1 .. Len(s) \/ i = Len(s) + 1  BY <1>1, <1>2
<1>5. Distinct(a)  BY <1>1, <1>2, <1>3, <1>4 DEF Distinct
<1>6. Range(a) \subseteq Range(s) \cup {e}  BY <1>1, <1>2, <1>4 DEF Range
<1>7. Range(s) \cup {e} \subseteq Range(a)
  <2>1. \A i \in 1 .. Len(s) : i \in DOMAIN a  BY <1>1, <1>2
  <2>2. Len(s) + 1 \in DOMAIN a  BY <1>1, <1>2
  <2>. QED  BY <1>1, <1>2, <2>1, <2>2 DEF Range
<1>. QED  BY <1>1, <1>5, <1>6, <1>7 DEF a

LEMMA PrependIsDistinct ==
    ASSUME NEW S, NEW s \in Seq(S), Distinct(s), NEW e \in S, e \notin Range(s)
    PROVE  /\ <<e>> \o s \in Seq(S) /\ <<e>> \o s # <<>>
           /\ Distinct(<<e>> \o s) /\ Range(<<e>> \o s) = Range(s) \cup {e}
<1>. DEFINE h == <<e>>
            a == h \o s
<1>1. h \in Seq(S) /\ Len(h) = 1 /\ h[1] = e  OBVIOUS
<1>2. Len(s) \in Nat /\ DOMAIN s = 1 .. Len(s)  BY LenProperties
<1>. HIDE DEF h
<1>3. /\ a \in Seq(S) /\ Len(a) = Len(h) + Len(s)
      /\ \A i \in 1 .. Len(h) + Len(s) :
            a[i] = IF i <= Len(h) THEN h[i] ELSE s[i - Len(h)]
  BY <1>1, ConcatProperties
<1>. HIDE DEF a
<1>4. DOMAIN a = 1 .. 1 + Len(s)  BY <1>1, <1>3, LenProperties
<1>5. a[1] = e  BY <1>1, <1>2, <1>3
<1>6. \A i \in DOMAIN a : i = 1 \/ (i - 1 \in DOMAIN s /\ a[i] = s[i - 1])
  BY <1>1, <1>2, <1>3, <1>4
<1>7. \A i \in DOMAIN s : i + 1 \in DOMAIN a /\ a[i + 1] = s[i]
  BY <1>1, <1>2, <1>3, <1>4
<1>8. \A i \in DOMAIN s : s[i] # e  BY DEF Range
<1>9. Distinct(a)
  <2>. SUFFICES ASSUME NEW i \in DOMAIN a, NEW j \in DOMAIN a, a[i] = a[j]  PROVE i = j
    BY DEF Distinct
  <2>. QED  BY <1>2, <1>4, <1>5, <1>6, <1>8 DEF Distinct
<1>10. Range(a) \subseteq Range(s) \cup {e}  BY <1>5, <1>6 DEF Range
<1>11. 1 \in DOMAIN a  BY <1>2, <1>4
<1>12. Range(s) \cup {e} \subseteq Range(a)  BY <1>5, <1>7, <1>11 DEF Range
<1>13. a # <<>>
  <2>1. Range(a) # {}  BY <1>12
  <2>. QED  BY <2>1, EmptyIsDistinct
<1>. QED  BY <1>3, <1>9, <1>10, <1>12, <1>13 DEF a, h

LEMMA RemoveIsDistinct ==
    ASSUME NEW S, NEW s \in Seq(S), Distinct(s), NEW k \in 1 .. Len(s)
    PROVE  /\ RemoveAt(s, k) \in Seq(S) /\ Len(RemoveAt(s, k)) = Len(s) - 1
           /\ Distinct(RemoveAt(s, k)) /\ Range(RemoveAt(s, k)) = Range(s) \ {s[k]}
<1>. DEFINE a == SubSeq(s, 1, k - 1)
            b == SubSeq(s, k + 1, Len(s))
            r == a \o b
<1>1. Len(s) \in Nat /\ DOMAIN s = 1 .. Len(s) /\ \A i \in 1 .. Len(s) : s[i] \in S
  BY LenProperties, ElementOfSeq
<1>2. /\ a \in Seq(S) /\ Len(a) = k - 1
      /\ \A i \in 1 .. k - 1 : a[i] = s[i]
  <2>1. \A i \in 1 .. k - 1 : s[i] \in S  BY <1>1
  <2>. QED  BY <1>1, <2>1, SubSeqProperties
<1>3. /\ b \in Seq(S) /\ Len(b) = Len(s) - k
      /\ \A i \in 1 .. Len(s) - k : b[i] = s[k + i]
  <2>1. \A i \in k + 1 .. Len(s) : s[i] \in S  BY <1>1
  <2>. QED  BY <1>1, <2>1, SubSeqProperties
<1>. HIDE DEF a, b
<1>4. /\ r \in Seq(S) /\ Len(r) = Len(a) + Len(b)
      /\ \A i \in 1 .. Len(a) + Len(b) :
            r[i] = IF i <= Len(a) THEN a[i] ELSE b[i - Len(a)]
  BY <1>2, <1>3, ConcatProperties
<1>5. r = RemoveAt(s, k)  BY DEF RemoveAt, a, b
<1>. HIDE DEF r
<1>6. Len(r) = Len(s) - 1  BY <1>1, <1>2, <1>3, <1>4
<1>7. DOMAIN r = 1 .. Len(s) - 1  BY <1>4, <1>6, LenProperties
<1>8. ASSUME NEW i \in DOMAIN r  PROVE r[i] = IF i < k THEN s[i] ELSE s[i + 1]
  <2>1. i \in Nat /\ i >= 1 /\ i <= Len(s) - 1 /\ k \in Nat /\ k >= 1 /\ k <= Len(s)
    BY <1>1, <1>7
  <2>2. i \in 1 .. Len(a) + Len(b)  BY <1>4, <1>6, <1>7
  <2>3. CASE i < k
    <3>1. r[i] = a[i]  BY <1>2, <1>4, <2>1, <2>2, <2>3
    <3>. QED  BY <1>2, <2>1, <2>3, <3>1
  <2>4. CASE i >= k
    <3>1. r[i] = b[i - (k - 1)]  BY <1>2, <1>4, <2>1, <2>2, <2>4
    <3>2. i - (k - 1) \in 1 .. Len(s) - k /\ k + (i - (k - 1)) = i + 1
      BY <1>1, <2>1, <2>4
    <3>3. b[i - (k - 1)] = s[k + (i - (k - 1))]  BY <1>3, <3>2
    <3>. QED  BY <2>1, <2>4, <3>1, <3>2, <3>3
  <2>. QED  BY <2>1, <2>3, <2>4
<1>9. Distinct(r)
  <2>. SUFFICES ASSUME NEW i \in DOMAIN r, NEW j \in DOMAIN r, r[i] = r[j]  PROVE i = j
    BY DEF Distinct
  <2>. QED  BY <1>1, <1>7, <1>8 DEF Distinct
<1>10. Range(r) \subseteq Range(s) \ {s[k]}
  <2>. SUFFICES ASSUME NEW i \in DOMAIN r  PROVE r[i] \in Range(s) /\ r[i] # s[k]
    BY DEF Range
  <2>. QED  BY <1>1, <1>7, <1>8 DEF Distinct, Range
<1>11. Range(s) \ {s[k]} \subseteq Range(r)
  <2>. SUFFICES ASSUME NEW i \in DOMAIN s, s[i] # s[k]  PROVE s[i] \in Range(r)
    BY DEF Range
  <2>1. CASE i < k
    <3>1. i \in DOMAIN r /\ r[i] = s[i]  BY <1>1, <1>7, <1>8, <2>1
    <3>. QED  BY <3>1 DEF Range
  <2>2. CASE i > k
    <3>1. i - 1 \in DOMAIN r /\ r[i - 1] = s[i]  BY <1>1, <1>7, <1>8, <2>2
    <3>. QED  BY <3>1 DEF Range
  <2>. QED  BY <1>1, <2>1, <2>2
<1>. QED  BY <1>4, <1>5, <1>6, <1>9, <1>10, <1>11

LEMMA PickedIsDistinct ==
    ASSUME NEW S, NEW s \in Seq(S), Distinct(s), NEW P
    PROVE  /\ Picked(s, P) \in Seq(S)
           /\ Distinct(Picked(s, P)) /\ Range(Picked(s, P)) = Range(s) \cap P
<1>. DEFINE t == Picked(s, P)
<1>1. t \in Seq(S \cap P)  BY PickedProperties
<1>2. PICK p \in [DOMAIN t -> DOMAIN s] :
         /\ \A j \in DOMAIN t : t[j] = s[p[j]]
         /\ \A j, k \in DOMAIN t : j < k => p[j] < p[k]
         /\ \A i \in DOMAIN s : s[i] \in P => \E j \in DOMAIN t : p[j] = i
  <2>1. AreOf(t, s, P)  BY PickedProperties
  <2>. HIDE DEF t
  <2>. QED  BY <2>1 DEF AreOf
<1>. HIDE DEF t
<1>3. t \in Seq(S)  BY <1>1, SeqMonotonic
<1>4. /\ DOMAIN t = 1 .. Len(t) /\ Len(t) \in Nat /\ DOMAIN s = 1 .. Len(s) /\ Len(s) \in Nat
      /\ \A i \in DOMAIN t : t[i] \in P
  BY <1>1, <1>3, LenProperties, ElementOfSeq
<1>5. Distinct(t)
  <2>. SUFFICES ASSUME NEW i \in DOMAIN t, NEW j \in DOMAIN t, t[i] = t[j], i # j  PROVE FALSE
    BY DEF Distinct
  <2>1. p[i] = p[j]  BY <1>2 DEF Distinct
  <2>2. p[i] \in Int /\ (i < j \/ j < i)  BY <1>2, <1>4
  <2>. QED  BY <1>2, <1>4, <2>1, <2>2
<1>6. Range(t) = Range(s) \cap P  BY <1>2, <1>4 DEF Range
<1>. QED  BY <1>3, <1>5, <1>6 DEF t

-----------------------------------------------------------------------------
(***************************************************************************)
(* One lane.                                                               *)
(***************************************************************************)
Lane == [ring : Seq(Tasks), work : [Tasks -> Seq(Effects)],
         cursor : Tasks \union {NoTask}, dispatched : BOOLEAN]

\* A lane but for its cursor: the ring lists, once, the tasks with entries, and
\* the entries are each where they belong, once.
QueuesOK(lane, p) ==
    /\ lane \in Lane
    /\ Distinct(lane.ring) /\ Range(lane.ring) = {t \in Tasks : lane.work[t] # <<>>}
    /\ \A t \in Tasks : Distinct(lane.work[t])
    /\ \A t \in Tasks : \A e \in Entries(lane, t) : e.task = t /\ e.prio = p

LaneOK(lane, p) ==
    /\ QueuesOK(lane, p)
    /\ IF lane.ring = <<>> THEN lane.cursor = NoTask ELSE lane.cursor \in Range(lane.ring)

LanesOK == lanes \in [Priorities -> Lane] /\ \A p \in Priorities : LaneOK(lanes[p], p)

\* The invariants about the lanes, one lane at a time.
LEMMA LanesAre ==
    LanesOK <=> LanesWellFormed /\ QueuedOnce /\ lanes \in [Priorities -> Lane]
BY DEF LanesOK, LaneOK, QueuesOK, LanesWellFormed, QueuedOnce, Distinct

LEMMA LanesAreNext ==
    LanesOK' <=> LanesWellFormed' /\ QueuedOnce' /\ lanes' \in [Priorities -> Lane]
BY DEF LanesOK, LaneOK, QueuesOK, LanesWellFormed, QueuedOnce, Distinct, Entries

LEMMA VacantIsOK ==
    ASSUME NEW p, NEW d \in BOOLEAN
    PROVE  /\ LaneOK([Vacant EXCEPT !.dispatched = d], p) /\ LaneOK(Vacant, p)
           /\ \A t \in Tasks : /\ Entries([Vacant EXCEPT !.dispatched = d], t) = {}
                               /\ Entries(Vacant, t) = {}
<1>. DEFINE v == [ring |-> <<>>, work |-> [t \in Tasks |-> <<>>], cursor |-> NoTask,
                  dispatched |-> d]
            w == [ring |-> <<>>, work |-> [t \in Tasks |-> <<>>], cursor |-> NoTask,
                  dispatched |-> FALSE]
<1>1. v = [Vacant EXCEPT !.dispatched = d] /\ w = Vacant  BY DEF Vacant
<1>2. <<>> \in Seq(Tasks) /\ <<>> \in Seq(Effects)  BY EmptySeq
<1>3. v \in Lane /\ w \in Lane  BY <1>2 DEF Lane
<1>4. /\ \A t \in Tasks : Entries(v, t) = {} /\ Entries(w, t) = {}
      /\ Range(v.ring) = {} /\ Range(w.ring) = {}
      /\ Distinct(v.ring) /\ Distinct(w.ring)
      /\ \A t \in Tasks : Distinct(v.work[t]) /\ Distinct(w.work[t])
  BY EmptyIsDistinct DEF Entries
<1>5. LaneOK(v, p)  BY <1>3, <1>4 DEF LaneOK, QueuesOK
<1>6. LaneOK(w, p)  BY <1>3, <1>4 DEF LaneOK, QueuesOK
<1>. HIDE DEF v, w
<1>. QED  BY <1>1, <1>4, <1>5, <1>6

\* Cleaning a lane gives its cursor a task of the ring, and keeps the queues.
LEMMA CleanedIsOK ==
    ASSUME NEW p, NEW lane, QueuesOK(lane, p)
    PROVE  LaneOK(Cleaned(lane), p) /\ \A t \in Tasks : Entries(Cleaned(lane), t) = Entries(lane, t)
<1>1. /\ lane \in Lane /\ lane.ring \in Seq(Tasks)
      /\ Range(lane.ring) = {t \in Tasks : lane.work[t] # <<>>}
  BY DEF QueuesOK, Lane
<1>2. CASE lane.ring = <<>>
  <2>1. Cleaned(lane) = Vacant  BY <1>2 DEF Cleaned
  <2>2. \A t \in Tasks : lane.work[t] = <<>>  BY <1>1, <1>2, EmptyIsDistinct
  <2>3. \A t \in Tasks : Entries(lane, t) = {}  BY <2>2, EmptyIsDistinct DEF Entries
  <2>. QED  BY <2>1, <2>3, VacantIsOK
<1>3. CASE lane.ring # <<>> /\ lane.cursor \in Range(lane.ring)
  BY <1>3 DEF Cleaned, LaneOK
<1>4. CASE lane.ring # <<>> /\ lane.cursor \notin Range(lane.ring)
  <2>. DEFINE h == Head(lane.ring)
              c == With(lane, lane.ring, lane.work, h)
  <2>1. h = lane.ring[1] /\ 1 \in 1 .. Len(lane.ring)  BY <1>1, <1>4, EmptySeq
  <2>2. h \in Range(lane.ring) /\ h \in Tasks  BY <1>1, <2>1, RangeIs
  <2>4. Cleaned(lane) = c  BY <1>4 DEF Cleaned
  <2>5. /\ c \in Lane /\ c.ring = lane.ring /\ c.work = lane.work /\ c.cursor = h
    BY <1>1, <2>2 DEF Lane, With
  <2>. HIDE DEF c, h
  <2>6. QueuesOK(c, p)  BY <2>5 DEF QueuesOK, Entries
  <2>7. LaneOK(c, p)  BY <1>4, <2>2, <2>5, <2>6 DEF LaneOK
  <2>8. \A t \in Tasks : Entries(c, t) = Entries(lane, t)  BY <2>5 DEF Entries
  <2>. QED  BY <2>4, <2>7, <2>8
<1>. QED  BY <1>2, <1>3, <1>4

\* The entries of l are those of the lane but for task t's up to generation g.
IsStopped(l, lane, t, g) ==
    \A u \in Tasks : Entries(l, u) = IF u = t THEN {e \in Entries(lane, t) : e.gen > g}
                                     ELSE Entries(lane, u)

\* What a stop leaves in a lane: nothing of the generations it is for.
LEMMA SweptIsOK ==
    ASSUME NEW p, NEW lane, LaneOK(lane, p), NEW t \in Tasks, NEW through
    PROVE  /\ LaneOK(Swept(lane, {t}, through), p)
           /\ IsStopped(Swept(lane, {t}, through), lane, t, through[t])
<1>. USE DEF IsStopped
<1>1. /\ lane \in Lane /\ lane.ring \in Seq(Tasks) /\ Distinct(lane.ring)
      /\ lane.work \in [Tasks -> Seq(Effects)]
      /\ \A u \in Tasks : lane.work[u] \in Seq(Effects) /\ Distinct(lane.work[u])
      /\ Range(lane.ring) = {u \in Tasks : lane.work[u] # <<>>}
      /\ \A u \in Tasks : \A e \in Entries(lane, u) : e.task = u /\ e.prio = p
  BY DEF LaneOK, QueuesOK, Lane
<1>. DEFINE Later == {e \in Effects : e.gen > through[t]}
            q == Picked(lane.work[t], Later)
            work == [u \in Tasks |->
                       IF u \in {t} THEN Picked(lane.work[u], {e \in Effects : e.gen > through[u]})
                                    ELSE lane.work[u]]
            Busy == {u \in Tasks : work[u] # <<>>}
            ring == Picked(lane.ring, Busy)
            l == With(lane, ring, work, lane.cursor)
<1>2. q \in Seq(Effects) /\ Distinct(q) /\ Range(q) = Entries(lane, t) \cap Later
  BY <1>1, PickedIsDistinct DEF Entries
<1>3. Entries(lane, t) \cap Later = {e \in Entries(lane, t) : e.gen > through[t]}
  BY <1>1, RangeIs DEF Entries
<1>4. CASE t \notin Range(lane.ring)
  <2>1. Swept(lane, {t}, through) = lane  BY <1>4 DEF Swept
  <2>2. Entries(lane, t) = {}  BY <1>1, <1>4, EmptyIsDistinct DEF Entries
  <2>. QED  BY <2>1, <2>2
<1>5. CASE t \in Range(lane.ring)
  <2>1. work[t] = q /\ \A u \in Tasks \ {t} : work[u] = lane.work[u]  OBVIOUS
  <2>. HIDE DEF q
  <2>2. work \in [Tasks -> Seq(Effects)]  BY <1>1, <1>2, <2>1
  <2>3. /\ ring \in Seq(Tasks) /\ Distinct(ring) /\ Range(ring) = Range(lane.ring) \cap Busy
    BY <1>1, PickedIsDistinct
  <2>5. Swept(lane, {t}, through) = Cleaned(l)  BY <1>5 DEF Swept
  <2>. HIDE DEF work, ring
  <2>6. l \in Lane /\ l.ring = ring /\ l.work = work  BY <1>1, <2>2, <2>3 DEF Lane, With
  <2>. HIDE DEF l
  <2>7. /\ Entries(l, t) = Range(q)
        /\ \A u \in Tasks \ {t} : Entries(l, u) = Entries(lane, u)
    BY <2>1, <2>6 DEF Entries
  <2>8. Range(l.ring) = {u \in Tasks : l.work[u] # <<>>}
    <3>1. ASSUME NEW u \in Tasks, work[u] # <<>>  PROVE u \in Range(lane.ring)
      BY <1>1, <1>5, <2>1, <3>1
    <3>. QED  BY <2>3, <2>6, <3>1
  <2>9. QueuesOK(l, p)
    <3>1. \A u \in Tasks : Distinct(l.work[u])  BY <1>1, <1>2, <2>1, <2>6
    <3>2. \A u \in Tasks : \A e \in Entries(l, u) : e.task = u /\ e.prio = p
      BY <1>1, <1>2, <2>7
    <3>. QED  BY <2>3, <2>6, <2>8, <3>1, <3>2 DEF QueuesOK
  <2>10. /\ LaneOK(Cleaned(l), p)
         /\ \A u \in Tasks : Entries(Cleaned(l), u) = Entries(l, u)
    BY <2>9, CleanedIsOK
  <2>. QED  BY <1>2, <1>3, <2>5, <2>7, <2>10
<1>. QED  BY <1>4, <1>5

\* A queued entry joins the queue of its task.
LEMMA JoinedIsOK ==
    ASSUME NEW p, NEW lane, LaneOK(lane, p), NEW e \in Effects, e.task \in Tasks, e.prio = p,
           e \notin Entries(lane, e.task)
    PROVE  /\ LaneOK(Joined(lane, e), p)
           /\ \A u \in Tasks : Entries(Joined(lane, e), u) =
                 IF u = e.task THEN Entries(lane, u) \cup {e} ELSE Entries(lane, u)
<1>1. /\ lane \in Lane /\ lane.ring \in Seq(Tasks) /\ Distinct(lane.ring)
      /\ lane.work \in [Tasks -> Seq(Effects)] /\ lane.cursor \in Tasks \cup {NoTask}
      /\ lane.dispatched \in BOOLEAN
      /\ \A u \in Tasks : lane.work[u] \in Seq(Effects) /\ Distinct(lane.work[u])
      /\ Range(lane.ring) = {u \in Tasks : lane.work[u] # <<>>}
      /\ \A u \in Tasks : \A x \in Entries(lane, u) : x.task = u /\ x.prio = p
      /\ IF lane.ring = <<>> THEN lane.cursor = NoTask ELSE lane.cursor \in Range(lane.ring)
  BY DEF LaneOK, QueuesOK, Lane
<1>. DEFINE t == e.task
            q == Append(lane.work[t], e)
            work == [lane.work EXCEPT ![t] = q]
<1>2. /\ q \in Seq(Effects) /\ q # <<>> /\ Distinct(q)
      /\ Range(q) = Entries(lane, t) \cup {e}
  BY <1>1, AppendIsDistinct DEF Entries
<1>3. /\ work \in [Tasks -> Seq(Effects)] /\ work[t] = q
      /\ \A u \in Tasks \ {t} : work[u] = lane.work[u]
  BY <1>1, <1>2
<1>. DEFINE old == lane.ring
<1>. HIDE DEF t, old
<1>0. t \in Tasks /\ old \in Seq(Tasks) /\ Distinct(old)  BY <1>1 DEF t, old
<1>4. ASSUME t \notin Range(old)
      PROVE  /\ Append(old, t) \in Seq(Tasks) /\ Append(old, t) # <<>>
             /\ Distinct(Append(old, t)) /\ Range(Append(old, t)) = Range(old) \cup {t}
  BY <1>0, <1>4, AppendIsDistinct
<1>5. ASSUME t \notin Range(old)
      PROVE  /\ <<t>> \o old \in Seq(Tasks) /\ <<t>> \o old # <<>>
             /\ Distinct(<<t>> \o old) /\ Range(<<t>> \o old) = Range(old) \cup {t}
  BY <1>0, <1>5, PrependIsDistinct
<1>. USE DEF t, old
<1>. HIDE DEF q
<1>6. \E ring \in Seq(Tasks), cursor \in Tasks :
         /\ Joined(lane, e) = With(lane, ring, work, cursor)
         /\ ring # <<>> /\ Distinct(ring)
         /\ Range(ring) = Range(lane.ring) \cup {t} /\ cursor \in Range(ring)
  <2>. DEFINE J == Joined(lane, e)
  <2>1. J = IF t \in Range(lane.ring) THEN With(lane, lane.ring, work, lane.cursor)
            ELSE IF lane.cursor = NoTask THEN With(lane, Append(lane.ring, t), work, t)
            ELSE IF lane.dispatched /\ lane.cursor \in Range(lane.ring)
                 THEN With(lane, <<t>> \o lane.ring, work, t)
            ELSE With(lane, Append(lane.ring, t), work, lane.cursor)
    BY DEF Joined, q
  <2>. HIDE DEF J, work
  <2>2. CASE t \in Range(lane.ring)
    <3>1. J = With(lane, lane.ring, work, lane.cursor)  BY <2>1, <2>2
    <3>2. lane.ring # <<>>  BY <2>2, EmptyIsDistinct
    <3>3. lane.cursor \in Range(lane.ring)  BY <1>1, <3>2
    <3>4. lane.cursor \in Tasks /\ Range(lane.ring) = Range(lane.ring) \cup {t}
      BY <1>1, <2>2, <3>3
    <3>. QED  BY <1>1, <3>1, <3>2, <3>3, <3>4 DEF J
  <2>3. CASE t \notin Range(lane.ring) /\ lane.cursor = NoTask
    <3>1. J = With(lane, Append(lane.ring, t), work, t)  BY <2>1, <2>3
    <3>. QED  BY <1>4, <2>3, <3>1 DEF J
  <2>4. CASE /\ t \notin Range(lane.ring) /\ lane.cursor # NoTask
             /\ lane.dispatched /\ lane.cursor \in Range(lane.ring)
    <3>1. J = With(lane, <<t>> \o lane.ring, work, t)  BY <2>1, <2>4
    <3>. QED  BY <1>5, <2>4, <3>1 DEF J
  <2>5. CASE /\ t \notin Range(lane.ring) /\ lane.cursor # NoTask
             /\ ~(lane.dispatched /\ lane.cursor \in Range(lane.ring))
    <3>1. J = With(lane, Append(lane.ring, t), work, lane.cursor)  BY <2>1, <2>5
    <3>2. lane.cursor \in Range(lane.ring) /\ lane.cursor \in Tasks  BY <1>1, <2>5
    <3>. QED  BY <1>4, <2>5, <3>1, <3>2 DEF J
  <2>. QED  BY <2>2, <2>3, <2>4, <2>5
<1>7. PICK ring \in Seq(Tasks), cursor \in Tasks :
         /\ Joined(lane, e) = With(lane, ring, work, cursor)
         /\ ring # <<>> /\ Distinct(ring)
         /\ Range(ring) = Range(lane.ring) \cup {t} /\ cursor \in Range(ring)
  BY <1>6
<1>. DEFINE l == With(lane, ring, work, cursor)
<1>. HIDE DEF work
<1>8. l \in Lane /\ l.ring = ring /\ l.work = work /\ l.cursor = cursor
  BY <1>1, <1>3 DEF Lane, With
<1>. HIDE DEF l
<1>9. /\ Entries(l, t) = Entries(lane, t) \cup {e}
      /\ \A u \in Tasks \ {t} : Entries(l, u) = Entries(lane, u)
  BY <1>2, <1>3, <1>8 DEF Entries
<1>10. Range(l.ring) = {u \in Tasks : l.work[u] # <<>>}
  BY <1>1, <1>2, <1>3, <1>7, <1>8
<1>11. \A u \in Tasks : Distinct(l.work[u])  BY <1>1, <1>2, <1>3, <1>8
<1>12. \A u \in Tasks : \A x \in Entries(l, u) : x.task = u /\ x.prio = p
  <2>1. \A x \in Entries(l, t) : x.task = t /\ x.prio = p  BY <1>1, <1>9
  <2>. QED  BY <1>1, <1>9, <2>1
<1>13. QueuesOK(l, p)  BY <1>7, <1>8, <1>10, <1>11, <1>12 DEF QueuesOK
<1>14. LaneOK(l, p)  BY <1>7, <1>8, <1>13 DEF LaneOK
<1>. QED  BY <1>7, <1>9, <1>14 DEF l

\* The task at position k of the ring has an i-th entry; l is the lane but for it.
HasEntry(lane, k, i) == k \in 1 .. Len(lane.ring) /\ i \in 1 .. Len(lane.work[lane.ring[k]])
IsWithout(l, lane, k, i) ==
    /\ lane.ring[k] \in Tasks /\ lane.work[lane.ring[k]][i] \in Entries(lane, lane.ring[k])
    /\ \A u \in Tasks : Entries(l, u) =
          IF u = lane.ring[k] THEN Entries(lane, u) \ {lane.work[u][i]} ELSE Entries(lane, u)

\* A launched entry leaves the queue of its task, and the cursor moves on.
LEMMA TakenIsOK ==
    ASSUME NEW p, NEW lane, LaneOK(lane, p), NEW k, NEW i, HasEntry(lane, k, i)
    PROVE  LaneOK(Taken(lane, k, i), p) /\ IsWithout(Taken(lane, k, i), lane, k, i)
<1>. USE DEF HasEntry, IsWithout
<1>1. /\ lane \in Lane /\ lane.ring \in Seq(Tasks) /\ Distinct(lane.ring)
      /\ lane.work \in [Tasks -> Seq(Effects)]
      /\ \A u \in Tasks : lane.work[u] \in Seq(Effects) /\ Distinct(lane.work[u])
      /\ Range(lane.ring) = {u \in Tasks : lane.work[u] # <<>>}
      /\ \A u \in Tasks : \A x \in Entries(lane, u) : x.task = u /\ x.prio = p
  BY DEF LaneOK, QueuesOK, Lane
<1>. DEFINE t == lane.ring[k]
            rest == RemoveAt(lane.work[t], i)
            ring == IF rest = <<>> THEN RemoveAt(lane.ring, k) ELSE lane.ring
            turn == IF rest = <<>> THEN k - 1 ELSE k
            work == [lane.work EXCEPT ![t] = rest]
            at == (turn % Len(ring)) + 1
            l == [ring |-> ring, work |-> work, cursor |-> ring[at], dispatched |-> TRUE]
<1>2. t \in Tasks /\ t \in Range(lane.ring)  BY <1>1, RangeIs
<1>. HIDE DEF t
<1>3. /\ rest \in Seq(Effects) /\ Distinct(rest)
      /\ Range(rest) = Entries(lane, t) \ {lane.work[t][i]}
      /\ lane.work[t][i] \in Entries(lane, t)
  <2>. DEFINE q == lane.work[t]
  <2>1. i \in 1 .. Len(q) /\ q \in Seq(Effects) /\ Distinct(q)  BY <1>1, <1>2 DEF t
  <2>. HIDE DEF q
  <2>2. /\ RemoveAt(q, i) \in Seq(Effects) /\ Distinct(RemoveAt(q, i))
        /\ Range(RemoveAt(q, i)) = Range(q) \ {q[i]} /\ q[i] \in Range(q)
    BY <2>1, RemoveIsDistinct, RangeIs
  <2>. QED  BY <2>2 DEF Entries, q
<1>. HIDE DEF rest
<1>4. /\ ring \in Seq(Tasks) /\ Distinct(ring)
      /\ Range(ring) = IF rest = <<>> THEN Range(lane.ring) \ {t} ELSE Range(lane.ring)
  <2>. DEFINE old == lane.ring
  <2>1. k \in 1 .. Len(old) /\ old \in Seq(Tasks) /\ Distinct(old)  BY <1>1
  <2>. HIDE DEF old
  <2>2. /\ RemoveAt(old, k) \in Seq(Tasks) /\ Distinct(RemoveAt(old, k))
        /\ Range(RemoveAt(old, k)) = Range(old) \ {old[k]}
    BY <2>1, RemoveIsDistinct
  <2>. QED  BY <1>1, <2>2 DEF old, t
<1>5. /\ work \in [Tasks -> Seq(Effects)] /\ work[t] = rest
      /\ \A u \in Tasks \ {t} : work[u] = lane.work[u]
  BY <1>1, <1>2, <1>3
<1>6. turn \in Nat  OBVIOUS
<1>7. Taken(lane, k, i) = IF ring = <<>> THEN [Vacant EXCEPT !.dispatched = TRUE] ELSE l
  BY DEF Taken, t, rest
<1>. HIDE DEF ring, work, turn
<1>8. Range(ring) = {u \in Tasks : work[u] # <<>>}  BY <1>1, <1>2, <1>4, <1>5
<1>9. CASE ring = <<>>
  <2>1. \A u \in Tasks : work[u] = <<>>  BY <1>8, <1>9, EmptyIsDistinct
  <2>2. \A u \in Tasks \ {t} : Entries(lane, u) = {}  BY <1>5, <2>1, EmptyIsDistinct DEF Entries
  <2>3. Entries(lane, t) \ {lane.work[t][i]} = {}  BY <1>2, <1>3, <1>5, <2>1, EmptyIsDistinct
  <2>4. Taken(lane, k, i) = [Vacant EXCEPT !.dispatched = TRUE]  BY <1>7, <1>9
  <2>. QED  BY <1>2, <1>3, <2>2, <2>3, <2>4, VacantIsOK DEF t
<1>10. CASE ring # <<>>
  <2>1. Len(ring) \in Nat /\ Len(ring) # 0  BY <1>4, <1>10, LenProperties, EmptySeq
  <2>2. at \in 1 .. Len(ring)  BY <1>6, <2>1
  <2>. HIDE DEF at
  <2>3. ring[at] \in Range(ring) /\ ring[at] \in Tasks  BY <1>4, <2>2, RangeIs
  <2>4. l \in Lane /\ l.ring = ring /\ l.work = work /\ l.cursor = ring[at]
    BY <1>4, <1>5, <2>3 DEF Lane
  <2>. HIDE DEF l
  <2>5. /\ Entries(l, t) = Entries(lane, t) \ {lane.work[t][i]}
        /\ \A u \in Tasks \ {t} : Entries(l, u) = Entries(lane, u)
    BY <1>3, <1>5, <2>4 DEF Entries
  <2>6. \A u \in Tasks : Distinct(l.work[u])  BY <1>1, <1>3, <1>5, <2>4
  <2>7. \A u \in Tasks : \A x \in Entries(l, u) : x.task = u /\ x.prio = p  BY <1>1, <2>5
  <2>8. QueuesOK(l, p)  BY <1>4, <1>8, <2>4, <2>6, <2>7 DEF QueuesOK
  <2>9. LaneOK(l, p)  BY <1>10, <2>3, <2>4, <2>8 DEF LaneOK
  <2>10. Taken(lane, k, i) = l  BY <1>7, <1>10
  <2>. QED  BY <1>2, <1>3, <2>5, <2>9, <2>10 DEF t
<1>. QED  BY <1>9, <1>10

-----------------------------------------------------------------------------
(***************************************************************************)
(* What may start.                                                         *)
(***************************************************************************)

\* The turn is found by going once round the ring: there is one iff some entry
\* of the lane may start, and it is the turn of a task with such an entry.
LEMMA NextTurnIs ==
    ASSUME NEW p, NEW lane, LaneOK(lane, p)
    PROVE  /\ NextTurn(lane) \in 0 .. Len(lane.ring)
           /\ NextTurn(lane) = 0 => \A t \in Tasks : \A e \in Entries(lane, t) : ~CanStart(e)
           /\ NextTurn(lane) > 0 =>
                 \E e \in Entries(lane, lane.ring[NextTurn(lane)]) : CanStart(e)
<1>1. /\ lane.ring \in Seq(Tasks) /\ lane.work \in [Tasks -> Seq(Effects)]
      /\ Range(lane.ring) = {t \in Tasks : lane.work[t] # <<>>}
  BY DEF LaneOK, QueuesOK, Lane
<1>. DEFINE n == Len(lane.ring)
            start == SelectInSeq(lane.ring, LAMBDA t : t = lane.cursor)
            from(o) == IF start = 0 THEN o + 1 ELSE ((start - 1 + o) % n) + 1
            ready == {o \in 0 .. n - 1 : \E e \in Entries(lane, lane.ring[from(o)]) : CanStart(e)}
            least == CHOOSE o \in ready : \A other \in ready : o <= other
<1>2. n \in Nat /\ \A k \in 1 .. n : lane.ring[k] \in Tasks  BY <1>1, LenProperties, ElementOfSeq
<1>3. start \in 0 .. n
  <2>. DEFINE I == {i \in 1 .. Len(lane.ring) : lane.ring[i] = lane.cursor}
  <2>1. start = IF I # {} THEN Min(I) ELSE 0  BY DEF SelectInSeq
  <2>2. I \in SUBSET Nat /\ I \subseteq 1 .. n  OBVIOUS
  <2>. HIDE DEF I, start
  <2>3. I # {} => Min(I) \in I  BY <2>2, LeastExists DEF Min
  <2>. QED  BY <1>2, <2>1, <2>2, <2>3
<1>4. NextTurn(lane) = IF ready = {} THEN 0 ELSE from(least)  BY DEF NextTurn
<1>. HIDE DEF start, n
<1>5. \A o \in 0 .. n - 1 : from(o) \in 1 .. n
  <2>. SUFFICES ASSUME NEW o \in 0 .. n - 1  PROVE from(o) \in 1 .. n  OBVIOUS
  <2>1. start # 0 => (start - 1 + o) % n \in 0 .. n - 1  BY <1>2, <1>3
  <2>. QED  BY <1>2, <1>3, <2>1
<1>6. \A k \in 1 .. n : \E o \in 0 .. n - 1 : from(o) = k
  <2>. SUFFICES ASSUME NEW k \in 1 .. n  PROVE \E o \in 0 .. n - 1 : from(o) = k  OBVIOUS
  <2>1. CASE start = 0
    <3>1. k - 1 \in 0 .. n - 1 /\ from(k - 1) = k  BY <1>2, <2>1
    <3>. QED  BY <3>1
  <2>2. CASE start # 0 /\ start <= k
    <3>1. k - start \in 0 .. n - 1 /\ start - 1 + (k - start) = k - 1  BY <1>2, <1>3, <2>2
    <3>2. (k - 1) % n = k - 1  BY <1>2
    <3>3. from(k - start) = k  BY <1>2, <2>2, <3>1, <3>2
    <3>. QED  BY <3>1, <3>3
  <2>3. CASE start # 0 /\ k < start
    <3>1. k - start + n \in 0 .. n - 1 /\ start - 1 + (k - start + n) = k - 1 + n
      BY <1>2, <1>3, <2>3
    <3>2. (k - 1 + n) % n = k - 1  BY <1>2
    <3>3. from(k - start + n) = k  BY <1>2, <2>3, <3>1, <3>2
    <3>. QED  BY <3>1, <3>3
  <2>. QED  BY <1>2, <1>3, <2>1, <2>2, <2>3
<1>. HIDE DEF from
<1>7. CASE ready = {}
  <2>1. NextTurn(lane) = 0  BY <1>4, <1>7
  <2>2. ASSUME NEW t \in Tasks, NEW e \in Entries(lane, t)  PROVE ~CanStart(e)
    <3>1. lane.work[t] # <<>>  BY <2>2, EmptyIsDistinct DEF Entries
    <3>2. PICK k \in 1 .. n : lane.ring[k] = t  BY <1>1, <3>1, RangeIs DEF n
    <3>3. PICK o \in 0 .. n - 1 : from(o) = k  BY <1>6
    <3>4. o \notin ready  BY <1>7
    <3>. QED  BY <3>2, <3>3, <3>4
  <2>. QED  BY <1>2, <2>1, <2>2 DEF n
<1>8. CASE ready # {}
  <2>1. ready \in SUBSET Nat /\ ready \subseteq 0 .. n - 1  BY <1>2
  <2>2. least \in ready
    <3>. HIDE DEF ready
    <3>1. \E o \in ready : \A other \in ready : o <= other  BY <1>8, <2>1, LeastExists
    <3>. QED  BY <3>1
  <2>. HIDE DEF least
  <2>3. NextTurn(lane) = from(least) /\ from(least) \in 1 .. n
    BY <1>4, <1>5, <1>8, <2>1, <2>2
  <2>4. \E e \in Entries(lane, lane.ring[from(least)]) : CanStart(e)  BY <2>2
  <2>. QED  BY <1>2, <2>3, <2>4 DEF n
<1>. QED  BY <1>7, <1>8

LEMMA RanksAre ==
    /\ DOMAIN Ranks = 1 .. 5
    /\ \A r \in DOMAIN Ranks : Ranks[r] \in Priorities
    /\ \A p \in Priorities : \E r \in DOMAIN Ranks : Ranks[r] = p
    /\ \A i, j \in DOMAIN Ranks : Ranks[i] = Ranks[j] => i = j
    /\ Ranks[1] = "barrier" /\ "barrier" \in Priorities
<1>1. /\ DOMAIN Ranks = 1 .. 5
      /\ Ranks[1] = "barrier" /\ Ranks[2] = "critical" /\ Ranks[3] = "high"
      /\ Ranks[4] = "normal" /\ Ranks[5] = "low"
  BY DEF Ranks
<1>2. \A r \in DOMAIN Ranks : Ranks[r] \in Priorities  BY DEF Priorities, Range
<1>3. \A p \in Priorities : \E r \in DOMAIN Ranks : Ranks[r] = p  BY DEF Priorities, Range
<1>4. \A r \in 1 .. 5 : r = 1 \/ r = 2 \/ r = 3 \/ r = 4 \/ r = 5  OBVIOUS
<1>5. \A i, j \in 1 .. 5 : Ranks[i] = Ranks[j] => i = j  BY <1>1, <1>4
<1>6. 1 \in 1 .. 5  OBVIOUS
<1>7. "barrier" \in Priorities  BY <1>1, <1>2, <1>6
<1>. QED  BY <1>1, <1>2, <1>3, <1>5, <1>7

\* The rank served has an entry that may start, no higher one has, and no lower
\* one than the barrier's is served while the barrier has entries.
LEMMA NextRankIs ==
    ASSUME LanesOK
    PROVE  /\ NextRank \in {0} \cup DOMAIN Ranks
           /\ NextRank > 0 =>
                 /\ NextTurn(lanes[Ranks[NextRank]]) > 0
                 /\ \A j \in DOMAIN Ranks : j < NextRank =>
                       \A t \in Tasks : \A e \in Entries(lanes[Ranks[j]], t) : ~CanStart(e)
                 /\ NextRank = 1 \/ \A t \in Tasks : Entries(lanes["barrier"], t) = {}
           /\ (\A p \in Priorities : lanes[p].ring = <<>>) => NextRank = 0
<1>. DEFINE ready == {r \in DOMAIN Ranks : NextTurn(lanes[Ranks[r]]) > 0}
            least == CHOOSE r \in ready : \A other \in ready : r <= other
<1>1. NextRank = IF ready = {} \/ (lanes["barrier"].ring # <<>> /\ 1 \notin ready) THEN 0
                 ELSE least
  BY DEF NextRank
<1>2. \A r \in DOMAIN Ranks : LaneOK(lanes[Ranks[r]], Ranks[r])  BY RanksAre DEF LanesOK
<1>3. \A r \in DOMAIN Ranks :
         /\ NextTurn(lanes[Ranks[r]]) \in 0 .. Len(lanes[Ranks[r]].ring)
         /\ NextTurn(lanes[Ranks[r]]) = 0 =>
               \A t \in Tasks : \A e \in Entries(lanes[Ranks[r]], t) : ~CanStart(e)
  BY <1>2, NextTurnIs
<1>4. ready \in SUBSET Nat  BY RanksAre
<1>5. ready # {} => least \in ready /\ \A other \in ready : least <= other
  <2>. HIDE DEF ready
  <2>1. ready # {} => \E r \in ready : \A other \in ready : r <= other
    BY <1>4, LeastExists
  <2>. QED  BY <2>1
<1>6. ASSUME \A p \in Priorities : lanes[p].ring = <<>>  PROVE ready = {}
  <2>1. ASSUME NEW r \in DOMAIN Ranks  PROVE NextTurn(lanes[Ranks[r]]) = 0
    <3>1. Len(lanes[Ranks[r]].ring) = 0  BY <1>6, RanksAre, EmptySeq
    <3>. QED  BY <1>3, <3>1
  <2>. QED  BY <2>1
<1>7. ASSUME NextRank > 0
      PROVE  /\ NextRank = least /\ least \in ready /\ \A other \in ready : least <= other
             /\ lanes["barrier"].ring = <<>> \/ 1 \in ready
  BY <1>1, <1>5, <1>7
<1>8. NextRank \in {0} \cup DOMAIN Ranks
  <2>1. ready \subseteq DOMAIN Ranks  OBVIOUS
  <2>. HIDE DEF ready, least
  <2>. QED  BY <1>1, <1>5, <2>1
<1>9. ASSUME NextRank > 0
      PROVE  \A j \in DOMAIN Ranks : j < NextRank =>
                \A t \in Tasks : \A e \in Entries(lanes[Ranks[j]], t) : ~CanStart(e)
  <2>. SUFFICES ASSUME NEW j \in DOMAIN Ranks, j < NextRank
                PROVE  \A t \in Tasks : \A e \in Entries(lanes[Ranks[j]], t) : ~CanStart(e)
    OBVIOUS
  <2>1. j \notin ready
    <3>. HIDE DEF ready, least
    <3>1. NextRank \in Nat /\ j \in Nat  BY <1>8, RanksAre
    <3>. QED  BY <1>7, <1>9, <3>1
  <2>2. NextTurn(lanes[Ranks[j]]) = 0
    <3>1. ~(NextTurn(lanes[Ranks[j]]) > 0)  BY <2>1
    <3>2. Len(lanes[Ranks[j]].ring) \in Nat
      BY <1>2, LenProperties DEF LaneOK, QueuesOK, Lane
    <3>. QED  BY <1>3, <3>1, <3>2
  <2>. QED  BY <1>3, <2>2
<1>10. ASSUME NextRank > 0
       PROVE  NextRank = 1 \/ \A t \in Tasks : Entries(lanes["barrier"], t) = {}
  <2>1. CASE lanes["barrier"].ring = <<>>
    <3>1. LaneOK(lanes["barrier"], "barrier")  BY RanksAre DEF LanesOK
    <3>2. \A t \in Tasks : lanes["barrier"].work[t] = <<>>
      BY <2>1, <3>1, EmptyIsDistinct DEF LaneOK, QueuesOK
    <3>. QED  BY <3>2, EmptyIsDistinct DEF Entries
  <2>2. CASE 1 \in ready
    <3>. HIDE DEF ready, least
    <3>1. NextRank <= 1  BY <1>7, <1>10, <2>2
    <3>. QED  BY <1>8, <1>10, <3>1, RanksAre
  <2>. QED  BY <1>7, <1>10, <2>1, <2>2
<1>11. NextRank > 0 => NextTurn(lanes[Ranks[NextRank]]) > 0  BY <1>7
<1>12. (\A p \in Priorities : lanes[p].ring = <<>>) => NextRank = 0  BY <1>1, <1>6
<1>. HIDE DEF ready, least
<1>. QED  BY <1>8, <1>9, <1>10, <1>11, <1>12

\* What is runnable depends on the lanes, the counters, the limits, the pauses
\* and the stops alone.
LEMMA NextRankStays ==
    ASSUME UNCHANGED <<lanes, counters, flags>>
    PROVE  NextRank' = NextRank
<1>1. ASSUME NEW e  PROVE CanStart(e)' <=> CanStart(e)
  BY DEF CanStart, IsCancelled, HasCapacity, UsesLlm, counters, flags
<1>2. ASSUME NEW lane  PROVE NextTurn(lane)' = NextTurn(lane)
  <2>. DEFINE n == Len(lane.ring)
              start == SelectInSeq(lane.ring, LAMBDA t : t = lane.cursor)
              from(o) == IF start = 0 THEN o + 1 ELSE ((start - 1 + o) % n) + 1
              ready == {o \in 0 .. n - 1 : \E e \in Entries(lane, lane.ring[from(o)]) : CanStart(e)}
              Turn(R) == IF R = {} THEN 0 ELSE from(CHOOSE o \in R : \A other \in R : o <= other)
  <2>1. ready' = ready
    <3>. HIDE DEF n, from
    <3>. QED  BY <1>1 DEF Entries
  <2>2. NextTurn(lane) = Turn(ready)  BY DEF NextTurn
  <2>3. NextTurn(lane)' = Turn(ready')  BY DEF NextTurn, SelectInSeq
  <2>. HIDE DEF ready, Turn
  <2>. QED  BY <2>1, <2>2, <2>3
<1>. DEFINE ready == {r \in DOMAIN Ranks : NextTurn(lanes[Ranks[r]]) > 0}
            Rank1(R) == IF R = {} \/ (lanes["barrier"].ring # <<>> /\ 1 \notin R) THEN 0
                        ELSE CHOOSE r \in R : \A other \in R : r <= other
<1>3. \A r : NextTurn(lanes[Ranks[r]])' = NextTurn(lanes[Ranks[r]])
  <2>1. lanes' = lanes  BY DEF counters, flags
  <2>. QED  BY <1>2, <2>1
<1>4. ready' = ready  BY <1>3
<1>5. NextRank = Rank1(ready)  BY DEF NextRank
<1>6. NextRank' = Rank1(ready')  BY DEF NextRank, counters, flags
<1>. HIDE DEF ready, Rank1
<1>. QED  BY <1>4, <1>5, <1>6

-----------------------------------------------------------------------------
(***************************************************************************)
(* The effects under way, counted.                                         *)
(***************************************************************************)
LlmCalls(A) == {e \in A : UsesLlm(e)}
Agents(A, t) == {e \in A : e.task = t /\ e.kind = "agent"}
Calls(A, t) == {e \in A : e.task = t /\ e.kind = "procedure"}

LEMMA OneMore ==
    ASSUME NEW A \in SUBSET Effects, NEW e \in Effects, e \notin A
    PROVE  /\ Cardinality(LlmCalls(A)) \in Nat
           /\ Cardinality(LlmCalls(A \cup {e})) =
                 IF UsesLlm(e) THEN Cardinality(LlmCalls(A)) + 1 ELSE Cardinality(LlmCalls(A))
           /\ \A t \in Tasks :
                 /\ Cardinality(Agents(A, t)) \in Nat /\ Cardinality(Calls(A, t)) \in Nat
                 /\ Cardinality(Agents(A \cup {e}, t)) =
                       IF e.task = t /\ e.kind = "agent" THEN Cardinality(Agents(A, t)) + 1
                       ELSE Cardinality(Agents(A, t))
                 /\ Cardinality(Calls(A \cup {e}, t)) =
                       IF e.task = t /\ e.kind = "procedure" THEN Cardinality(Calls(A, t)) + 1
                       ELSE Cardinality(Calls(A, t))
<1>1. IsFiniteSet(A)  BY FS_Subset, EffectsAssumption
<1>2. ASSUME NEW B, B \subseteq A
      PROVE  /\ Cardinality(B) \in Nat
             /\ Cardinality(B \cup {e}) = Cardinality(B) + 1
  <2>1. IsFiniteSet(B) /\ e \notin B  BY <1>1, <1>2, FS_Subset
  <2>. QED  BY <2>1, FS_AddElement, FS_CardinalityType
<1>3. /\ Cardinality(LlmCalls(A)) \in Nat
      /\ Cardinality(LlmCalls(A \cup {e})) =
            IF UsesLlm(e) THEN Cardinality(LlmCalls(A)) + 1 ELSE Cardinality(LlmCalls(A))
  <2>. DEFINE B == LlmCalls(A)
              C == LlmCalls(A \cup {e})
  <2>1. B \subseteq A  BY DEF LlmCalls
  <2>2. UsesLlm(e) => C = B \cup {e}  BY DEF LlmCalls
  <2>3. ~UsesLlm(e) => C = B  BY DEF LlmCalls
  <2>. HIDE DEF B, C
  <2>4. Cardinality(B) \in Nat /\ Cardinality(B \cup {e}) = Cardinality(B) + 1  BY <1>2, <2>1
  <2>. QED  BY <2>2, <2>3, <2>4 DEF B, C
<1>4. ASSUME NEW t \in Tasks
      PROVE  /\ Cardinality(Agents(A, t)) \in Nat
             /\ Cardinality(Agents(A \cup {e}, t)) =
                   IF e.task = t /\ e.kind = "agent" THEN Cardinality(Agents(A, t)) + 1
                   ELSE Cardinality(Agents(A, t))
  <2>. DEFINE B == Agents(A, t)
              C == Agents(A \cup {e}, t)
  <2>1. B \subseteq A  BY DEF Agents
  <2>2. e.task = t /\ e.kind = "agent" => C = B \cup {e}  BY DEF Agents
  <2>3. ~(e.task = t /\ e.kind = "agent") => C = B  BY DEF Agents
  <2>. HIDE DEF B, C
  <2>4. Cardinality(B) \in Nat /\ Cardinality(B \cup {e}) = Cardinality(B) + 1  BY <1>2, <2>1
  <2>. QED  BY <2>2, <2>3, <2>4 DEF B, C
<1>5. ASSUME NEW t \in Tasks
      PROVE  /\ Cardinality(Calls(A, t)) \in Nat
             /\ Cardinality(Calls(A \cup {e}, t)) =
                   IF e.task = t /\ e.kind = "procedure" THEN Cardinality(Calls(A, t)) + 1
                   ELSE Cardinality(Calls(A, t))
  <2>. DEFINE B == Calls(A, t)
              C == Calls(A \cup {e}, t)
  <2>1. B \subseteq A  BY DEF Calls
  <2>2. e.task = t /\ e.kind = "procedure" => C = B \cup {e}  BY DEF Calls
  <2>3. ~(e.task = t /\ e.kind = "procedure") => C = B  BY DEF Calls
  <2>. HIDE DEF B, C
  <2>4. Cardinality(B) \in Nat /\ Cardinality(B \cup {e}) = Cardinality(B) + 1  BY <1>2, <2>1
  <2>. QED  BY <2>2, <2>3, <2>4 DEF B, C
<1>. QED  BY <1>3, <1>4, <1>5

-----------------------------------------------------------------------------
(***************************************************************************)
(* The inductive invariant.                                                *)
(***************************************************************************)

\* What is queued, with its place: an entry of a lane is in the queue of its own
\* task and priority.
LEMMA QueuedIs ==
    ASSUME LanesOK
    PROVE  /\ \A p \in Priorities, t \in Tasks : \A e \in Entries(lanes[p], t) :
                 e \in Effects /\ e.prio = p /\ e.task = t /\ e \in Queued
           /\ \A e \in Queued : \E p \in Priorities, t \in Tasks : e \in Entries(lanes[p], t)
<1>1. ASSUME NEW p \in Priorities, NEW t \in Tasks
      PROVE  Entries(lanes[p], t) \subseteq Effects
  <2>1. lanes[p].work[t] \in Seq(Effects)  BY DEF LanesOK, Lane
  <2>. QED  BY <2>1, RangeIs DEF Entries
<1>2. ASSUME NEW p \in Priorities, NEW t \in Tasks, NEW e \in Entries(lanes[p], t)
      PROVE  e.prio = p /\ e.task = t
  BY DEF LanesOK, LaneOK, QueuesOK
<1>. QED  BY <1>1, <1>2 DEF Queued

\* A signal leaves nobody asleep.
LEMMA SignalIsHeard ==
    ASSUME TypeOK, SignalDispatcher
    PROVE  /\ wake' = TRUE /\ dispatcher' \in {"fresh", "woken", "running", "done"}
           /\ dispatcher' = "fresh" <=> dispatcher = "fresh"
           /\ dispatcher' = "running" <=> dispatcher = "running"
BY DEF TypeOK, SignalDispatcher

LEMMA LoopIsSignalled ==
    ASSUME TypeOK, LoopFollows, Signal, closing' = closing
    PROVE  /\ LoopFollows' /\ NeverOversleeps'
           /\ wake' \in BOOLEAN /\ dispatcher' \in {"fresh", "asleep", "woken", "running", "done"}
           /\ waiter' \in [Tasks -> {"none", "asleep", "woken"}]
<1>1. /\ wake' = TRUE /\ dispatcher' \in {"fresh", "woken", "running", "done"}
      /\ dispatcher' = "fresh" <=> dispatcher = "fresh"
      /\ dispatcher' = "running" <=> dispatcher = "running"
  BY SignalIsHeard DEF Signal
<1>2. /\ waiter' \in [Tasks -> {"none", "asleep", "woken"}]
      /\ \A t \in Tasks : waiter[t] = "none" => waiter'[t] = "none"
  BY DEF TypeOK, Signal
<1>. QED  BY <1>1, <1>2 DEF LoopFollows, NeverOversleeps

\* The accounts depend on the lanes, what is under way, its counters and the
\* stops alone.
LEMMA SameAccounts ==
    ASSUME IInv, UNCHANGED <<lanes, active, counters, cancelled>>, TypeOK'
    PROVE  Accounts' /\ QueuedOnce'
<1>1. lanes' = lanes /\ active' = active /\ cancelled' = cancelled
      /\ llm' = llm /\ taskLlm' = taskLlm /\ taskProc' = taskProc
  BY DEF counters
<1>2. LanesWellFormed' /\ QueuedOnce'
  BY <1>1 DEF IInv, Accounts, LanesWellFormed, QueuedOnce, Entries
<1>3. CountersMatchActive'  BY <1>1 DEF IInv, Accounts, CountersMatchActive, UsesLlm
<1>4. Queued' = Queued  BY <1>1 DEF Queued, Entries
<1>5. NoCancelledQueued' /\ InOnePlace'
  BY <1>1, <1>4 DEF IInv, Accounts, NoCancelledQueued, InOnePlace, IsCancelled
<1>. QED  BY <1>2, <1>3, <1>5 DEF Accounts

LEMMA SameLoop ==
    ASSUME IInv, UNCHANGED <<lanes, counters, flags, closing, dispatcher>>,
           dispatcher # "fresh" \/ UNCHANGED <<wake, waiter>>
    PROVE  LoopFollows' /\ NeverOversleeps'
<1>1. NextRank' = NextRank  BY NextRankStays
<1>. QED  BY <1>1 DEF IInv, LoopFollows, NeverOversleeps, Vacant

LEMMA InitHolds == Init => IInv
<1>. SUFFICES ASSUME Init  PROVE IInv  OBVIOUS
<1>1. Vacant \in Lane /\ \A p : LaneOK(Vacant, p)
  <2>1. \A p : LaneOK(Vacant, p)  BY VacantIsOK
  <2>. QED  BY <2>1 DEF LaneOK, QueuesOK
<1>2. LanesOK  BY <1>1 DEF Init, LanesOK
<1>3. LanesWellFormed /\ QueuedOnce /\ lanes \in [Priorities -> Lane]  BY <1>2, LanesAre
<1>4. TypeOK
  <2>1. lanes \in [Priorities -> [ring : Seq(Tasks), work : [Tasks -> Seq(Effects)],
                                  cursor : Tasks \union {NoTask}, dispatched : BOOLEAN]]
    BY <1>3 DEF Lane
  <2>2. /\ active \subseteq Effects /\ llm \in Nat
        /\ taskLlm \in [Tasks -> Nat] /\ taskProc \in [Tasks -> Nat]
        /\ limits \in LimitChoices /\ paused \subseteq Tasks /\ settled \subseteq paused
    BY LimitsAssumption DEF Init
  <2>3. cancelled \in [Tasks -> Int] /\ waiter \in [Tasks -> {"none", "asleep", "woken"}]
    BY DEF Init
  <2>. QED  BY <2>1, <2>2, <2>3 DEF Init, TypeOK
<1>5. CountersMatchActive
  <2>1. \A t : /\ {e \in active : UsesLlm(e)} = {}
               /\ {e \in active : e.task = t /\ e.kind = "agent"} = {}
               /\ {e \in active : e.task = t /\ e.kind = "procedure"} = {}
    BY DEF Init
  <2>. QED  BY <2>1, FS_EmptySet DEF Init, CountersMatchActive
<1>6. Queued = {}
  <2>1. \A p \in Priorities, t \in Tasks : Entries(lanes[p], t) = {}  BY VacantIsOK DEF Init
  <2>. QED  BY <2>1 DEF Queued
<1>7. NoCancelledQueued /\ InOnePlace  BY <1>6 DEF NoCancelledQueued, InOnePlace
<1>8. LoopFollows /\ NeverOversleeps  BY DEF Init, LoopFollows, NeverOversleeps
<1>. QED  BY <1>3, <1>4, <1>5, <1>7, <1>8 DEF IInv, Accounts

LEMMA EnqueueKeeps ==
    ASSUME IInv, NEW e \in Effects, Enqueue(e)
    PROVE  IInv'
<1>1. TypeOK /\ LoopFollows /\ LanesOK /\ CountersMatchActive /\ NoCancelledQueued /\ InOnePlace
  BY LanesAre DEF IInv, Accounts, TypeOK, Lane
<1>2. /\ e \notin Queued /\ e \notin active /\ ~IsCancelled(e)
      /\ lanes' = [lanes EXCEPT ![e.prio] = Joined(lanes[e.prio], e)]
      /\ queuedOnce' = queuedOnce \union {e}
      /\ Signal
      /\ active' = active /\ llm' = llm /\ taskLlm' = taskLlm /\ taskProc' = taskProc
      /\ limits' = limits /\ paused' = paused /\ cancelled' = cancelled
      /\ closing' = closing /\ closed' = closed /\ settled' = settled
  BY DEF Enqueue, counters, flags
<1>. DEFINE p == e.prio
            lane == lanes[p]
            l == Joined(lane, e)
<1>3. e.task \in Tasks /\ p \in Priorities /\ LaneOK(lane, p) /\ e.prio = p
  BY <1>1, EffectsAssumption DEF LanesOK
<1>4. e \notin Entries(lane, e.task)  BY <1>1, <1>2, <1>3, QueuedIs
<1>. HIDE DEF l, lane, p
<1>5. /\ LaneOK(l, p)
      /\ \A u \in Tasks : Entries(l, u) =
            IF u = e.task THEN Entries(lane, u) \cup {e} ELSE Entries(lane, u)
  <2>1. /\ LaneOK(Joined(lane, e), p)
        /\ \A u \in Tasks : Entries(Joined(lane, e), u) =
              IF u = e.task THEN Entries(lane, u) \cup {e} ELSE Entries(lane, u)
    BY <1>3, <1>4, JoinedIsOK
  <2>. QED  BY <2>1 DEF l
<1>. USE DEF lane, p
<1>6. /\ lanes' \in [Priorities -> Lane] /\ lanes'[p] = l
      /\ \A q \in Priorities \ {p} : lanes'[q] = lanes[q]
  <2>1. l \in Lane  BY <1>5 DEF LaneOK, QueuesOK
  <2>. QED  BY <1>1, <1>2, <1>3, <2>1 DEF LanesOK, l
<1>7. LanesOK'  BY <1>1, <1>5, <1>6 DEF LanesOK
<1>8. LanesWellFormed' /\ QueuedOnce'  BY <1>7, LanesAreNext
<1>9. \A x \in Queued' : x = e \/ x \in Queued
  <2>. SUFFICES ASSUME NEW q \in Priorities, NEW u \in Tasks, NEW x \in Entries(lanes'[q], u)
                PROVE  x = e \/ x \in Queued
    BY DEF Queued, Entries
  <2>1. x \in Entries(lanes[q], u) \/ x = e  BY <1>5, <1>6
  <2>. QED  BY <2>1 DEF Queued
<1>10. NoCancelledQueued' /\ InOnePlace'
  BY <1>1, <1>2, <1>9 DEF NoCancelledQueued, InOnePlace, IsCancelled
<1>11. CountersMatchActive'  BY <1>1, <1>2 DEF CountersMatchActive, UsesLlm
<1>12. /\ LoopFollows' /\ NeverOversleeps'
       /\ wake' \in BOOLEAN /\ dispatcher' \in {"fresh", "asleep", "woken", "running", "done"}
       /\ waiter' \in [Tasks -> {"none", "asleep", "woken"}]
  BY <1>1, <1>2, LoopIsSignalled
<1>13. TypeOK'  BY <1>1, <1>2, <1>6, <1>12 DEF TypeOK, Lane
<1>. QED  BY <1>8, <1>10, <1>11, <1>12, <1>13 DEF IInv, Accounts

\* A launch takes an entry that may start off a lane, and nothing of a higher
\* priority may start.
LEMMA LaunchTakes ==
    ASSUME IInv, Launch
    PROVE  \E e \in Effects, l \in Lane :
              /\ CanStart(e) /\ e \in Queued
              /\ e.prio \in Priorities /\ e.task \in Tasks
              /\ lanes' = [lanes EXCEPT ![e.prio] = l]
              /\ LaneOK(l, e.prio)
              /\ \A u \in Tasks : Entries(l, u) =
                    IF u = e.task THEN Entries(lanes[e.prio], u) \ {e} ELSE Entries(lanes[e.prio], u)
              /\ Reserve(e)
              /\ NextRank \in DOMAIN Ranks /\ Ranks[NextRank] = e.prio
<1>1. LanesOK  BY LanesAre DEF IInv, Accounts, TypeOK, Lane
<1>2. PICK r \in DOMAIN Ranks \intersect {NextRank} :
         \E k \in {NextTurn(lanes[Ranks[r]])} :
         \E queue \in {lanes[Ranks[r]].work[lanes[Ranks[r]].ring[k]]} :
         \E i \in {SelectInSeq(queue, CanStart)} :
             /\ lanes' = [lanes EXCEPT ![Ranks[r]] = Taken(@, k, i)]
             /\ Reserve(queue[i])
  BY DEF Launch
<1>. DEFINE p == Ranks[r]
            lane == lanes[p]
            k == NextTurn(lane)
            t == lane.ring[k]
            queue == lane.work[t]
            i == SelectInSeq(queue, CanStart)
            e == queue[i]
            l == Taken(lane, k, i)
<1>3. lanes' = [lanes EXCEPT ![p] = l] /\ Reserve(e)  BY <1>2
<1>4. r = NextRank /\ r \in DOMAIN Ranks /\ r > 0 /\ p \in Priorities  BY <1>2, RanksAre
<1>5. LaneOK(lane, p) /\ k > 0  BY <1>1, <1>4, NextRankIs DEF LanesOK
<1>. HIDE DEF lane, p
<1>6. /\ k \in 1 .. Len(lane.ring)
      /\ \E x \in Entries(lane, t) : CanStart(x)
  BY <1>5, NextTurnIs
<1>. HIDE DEF k
<1>7. t \in Tasks /\ queue \in Seq(Effects)
  <2>1. lane.ring \in Seq(Tasks) /\ lane.work \in [Tasks -> Seq(Effects)]
    BY <1>5 DEF LaneOK, QueuesOK, Lane
  <2>2. t \in Tasks  BY <1>6, <2>1, ElementOfSeq
  <2>. QED  BY <2>1, <2>2
<1>8. i \in 1 .. Len(queue) /\ CanStart(queue[i])
  <2>. DEFINE I == {j \in 1 .. Len(queue) : CanStart(queue[j])}
  <2>1. i = IF I # {} THEN Min(I) ELSE 0  BY DEF SelectInSeq
  <2>2. Entries(lane, t) = Range(queue)  BY DEF Entries
  <2>. HIDE DEF queue, i
  <2>3. I \in SUBSET Nat  BY <1>7, LenProperties
  <2>4. I # {}
    <3>1. PICK x \in Range(queue) : CanStart(x)  BY <1>6, <2>2
    <3>2. PICK j \in 1 .. Len(queue) : queue[j] = x  BY <1>7, RangeIs
    <3>. QED  BY <3>1, <3>2
  <2>5. Min(I) \in I
    <3>. HIDE DEF I
    <3>. QED  BY <2>3, <2>4, LeastExists DEF Min
  <2>. QED  BY <2>1, <2>4, <2>5
<1>. HIDE DEF i
<1>9. /\ e \in Entries(lane, t) /\ LaneOK(l, p)
      /\ \A u \in Tasks : Entries(l, u) =
            IF u = t THEN Entries(lane, u) \ {lane.work[u][i]} ELSE Entries(lane, u)
  <2>1. HasEntry(lane, k, i)  BY <1>6, <1>8 DEF HasEntry
  <2>. HIDE DEF t, queue, e, l
  <2>2. LaneOK(Taken(lane, k, i), p) /\ IsWithout(Taken(lane, k, i), lane, k, i)
    BY <1>5, <2>1, TakenIsOK
  <2>. QED  BY <2>2 DEF t, queue, e, l, IsWithout
<1>. HIDE DEF l
<1>10. e \in Effects /\ e.prio = p /\ e.task = t /\ e \in Queued
  BY <1>1, <1>4, <1>7, <1>9, QueuedIs DEF lane
<1>11. l \in Lane  BY <1>9 DEF LaneOK, QueuesOK
<1>12. \A u \in Tasks : Entries(l, u) =
          IF u = t THEN Entries(lane, u) \ {e} ELSE Entries(lane, u)
  BY <1>9
<1>. HIDE DEF e, t, queue
<1>13. CanStart(e)  BY <1>8 DEF e
<1>14. Ranks[NextRank] = p  BY <1>4 DEF p
<1>. QED  BY <1>3, <1>4, <1>7, <1>9, <1>10, <1>11, <1>12, <1>13, <1>14 DEF lane

\* The counters with one effect more under way.
LEMMA ReserveCounts ==
    ASSUME TypeOK, CountersMatchActive, NEW e \in Effects, e \notin active, Reserve(e)
    PROVE  /\ CountersMatchActive'
           /\ active' \subseteq Effects
           /\ llm' \in Nat /\ taskLlm' \in [Tasks -> Nat] /\ taskProc' \in [Tasks -> Nat]
<1>1. /\ active \in SUBSET Effects /\ e.task \in Tasks
      /\ llm \in Nat /\ taskLlm \in [Tasks -> Nat] /\ taskProc \in [Tasks -> Nat]
  BY EffectsAssumption DEF TypeOK
<1>2. /\ llm = Cardinality(LlmCalls(active))
      /\ \A t \in Tasks : /\ taskLlm[t] = Cardinality(Agents(active, t))
                          /\ taskProc[t] = Cardinality(Calls(active, t))
  BY DEF CountersMatchActive, LlmCalls, Agents, Calls
<1>3. active' = active \cup {e}  BY DEF Reserve
<1>4. /\ Cardinality(LlmCalls(active')) =
            IF UsesLlm(e) THEN Cardinality(LlmCalls(active)) + 1
            ELSE Cardinality(LlmCalls(active))
      /\ \A t \in Tasks :
            /\ Cardinality(Agents(active', t)) =
                  IF e.task = t /\ e.kind = "agent" THEN Cardinality(Agents(active, t)) + 1
                  ELSE Cardinality(Agents(active, t))
            /\ Cardinality(Calls(active', t)) =
                  IF e.task = t /\ e.kind = "procedure" THEN Cardinality(Calls(active, t)) + 1
                  ELSE Cardinality(Calls(active, t))
  BY <1>1, <1>3, OneMore
<1>5. llm' = Cardinality(LlmCalls(active')) /\ llm' \in Nat
  <2>1. llm' = IF UsesLlm(e) THEN llm + 1 ELSE llm  BY DEF Reserve
  <2>. QED  BY <1>1, <1>2, <1>4, <2>1
<1>6. /\ taskLlm' \in [Tasks -> Nat]
      /\ \A t \in Tasks : taskLlm'[t] = Cardinality(Agents(active', t))
  <2>1. taskLlm' = IF e.kind = "agent" THEN [taskLlm EXCEPT ![e.task] = @ + 1] ELSE taskLlm
    BY DEF Reserve
  <2>. QED  BY <1>1, <1>2, <1>4, <2>1
<1>7. /\ taskProc' \in [Tasks -> Nat]
      /\ \A t \in Tasks : taskProc'[t] = Cardinality(Calls(active', t))
  <2>1. taskProc' = IF e.kind = "procedure" THEN [taskProc EXCEPT ![e.task] = @ + 1] ELSE taskProc
    BY DEF Reserve
  <2>. QED  BY <1>1, <1>2, <1>4, <2>1
<1>8. CountersMatchActive'
  BY <1>5, <1>6, <1>7 DEF CountersMatchActive, LlmCalls, Agents, Calls, UsesLlm
<1>. QED  BY <1>1, <1>3, <1>5, <1>6, <1>7, <1>8

LEMMA LaunchKeeps ==
    ASSUME IInv, Launch
    PROVE  IInv'
<1>1. TypeOK /\ LoopFollows /\ LanesOK /\ CountersMatchActive /\ NoCancelledQueued /\ InOnePlace
  BY LanesAre DEF IInv, Accounts, TypeOK, Lane
<1>2. PICK e \in Effects, l \in Lane :
         /\ CanStart(e) /\ e \in Queued
         /\ e.prio \in Priorities /\ e.task \in Tasks
         /\ lanes' = [lanes EXCEPT ![e.prio] = l]
         /\ LaneOK(l, e.prio)
         /\ \A u \in Tasks : Entries(l, u) =
               IF u = e.task THEN Entries(lanes[e.prio], u) \ {e} ELSE Entries(lanes[e.prio], u)
         /\ Reserve(e)
  BY LaunchTakes
<1>3. /\ limits' = limits /\ paused' = paused /\ cancelled' = cancelled
      /\ closing' = closing /\ closed' = closed /\ settled' = settled
      /\ queuedOnce' = queuedOnce
      /\ wake' = wake /\ dispatcher' = dispatcher /\ waiter' = waiter
      /\ dispatcher = "running"
  BY DEF Launch, flags, loop
<1>4. e \notin active  BY <1>1, <1>2 DEF InOnePlace
<1>5. /\ CountersMatchActive' /\ active' \subseteq Effects
      /\ llm' \in Nat /\ taskLlm' \in [Tasks -> Nat] /\ taskProc' \in [Tasks -> Nat]
  BY <1>1, <1>2, <1>4, ReserveCounts
<1>6. active' = active \cup {e}  BY <1>2 DEF Reserve
<1>7. /\ lanes' \in [Priorities -> Lane] /\ lanes'[e.prio] = l
      /\ \A q \in Priorities \ {e.prio} : lanes'[q] = lanes[q]
  BY <1>1, <1>2 DEF LanesOK
<1>8. LanesOK'  BY <1>1, <1>2, <1>7 DEF LanesOK
<1>9. LanesWellFormed' /\ QueuedOnce'  BY <1>8, LanesAreNext
<1>10. \A x \in Queued' : x \in Queued /\ x # e
  <2>. SUFFICES ASSUME NEW q \in Priorities, NEW u \in Tasks, NEW x \in Entries(lanes'[q], u)
                PROVE  x \in Queued /\ x # e
    BY DEF Queued, Entries
  <2>1. x \in Entries(lanes[q], u)  BY <1>2, <1>7
  <2>2. x.prio = q /\ x.task = u /\ x \in Queued  BY <1>1, <2>1, QueuedIs
  <2>3. x # e  BY <1>2, <1>7, <2>2
  <2>. QED  BY <2>2, <2>3
<1>11. NoCancelledQueued' /\ InOnePlace'
  BY <1>1, <1>3, <1>6, <1>10 DEF NoCancelledQueued, InOnePlace, IsCancelled
<1>12. LoopFollows' /\ NeverOversleeps'  BY <1>1, <1>3 DEF LoopFollows, NeverOversleeps
<1>13. TypeOK'  BY <1>1, <1>3, <1>5, <1>7 DEF TypeOK, Lane
<1>. QED  BY <1>5, <1>9, <1>11, <1>12, <1>13 DEF IInv, Accounts

LEMMA FinishKeeps ==
    ASSUME IInv, NEW e \in Effects, Finish(e)
    PROVE  IInv'
<1>1. TypeOK /\ LoopFollows /\ LanesOK /\ CountersMatchActive /\ NoCancelledQueued /\ InOnePlace
  BY LanesAre DEF IInv, Accounts, TypeOK, Lane
<1>2. /\ e \in active /\ active' = active \ {e} /\ Signal
      /\ llm' = (IF UsesLlm(e) /\ llm > 0 THEN llm - 1 ELSE llm)
      /\ taskLlm' = (IF e.kind = "agent" /\ taskLlm[e.task] > 0
                     THEN [taskLlm EXCEPT ![e.task] = @ - 1] ELSE taskLlm)
      /\ taskProc' = (IF e.kind = "procedure" /\ taskProc[e.task] > 0
                      THEN [taskProc EXCEPT ![e.task] = @ - 1] ELSE taskProc)
      /\ lanes' = lanes /\ limits' = limits /\ paused' = paused /\ cancelled' = cancelled
      /\ closing' = closing /\ closed' = closed /\ settled' = settled
      /\ queuedOnce' = queuedOnce
  BY DEF Finish, flags
<1>3. /\ active' \in SUBSET Effects /\ e.task \in Tasks /\ e \notin active'
      /\ active = active' \cup {e}
      /\ llm \in Nat /\ taskLlm \in [Tasks -> Nat] /\ taskProc \in [Tasks -> Nat]
  BY <1>1, <1>2, EffectsAssumption DEF TypeOK
<1>4. /\ llm = Cardinality(LlmCalls(active))
      /\ \A t \in Tasks : /\ taskLlm[t] = Cardinality(Agents(active, t))
                          /\ taskProc[t] = Cardinality(Calls(active, t))
  BY <1>1 DEF CountersMatchActive, LlmCalls, Agents, Calls
<1>5. /\ Cardinality(LlmCalls(active')) \in Nat
      /\ Cardinality(LlmCalls(active)) =
            IF UsesLlm(e) THEN Cardinality(LlmCalls(active')) + 1
            ELSE Cardinality(LlmCalls(active'))
      /\ \A t \in Tasks :
            /\ Cardinality(Agents(active', t)) \in Nat /\ Cardinality(Calls(active', t)) \in Nat
            /\ Cardinality(Agents(active, t)) =
                  IF e.task = t /\ e.kind = "agent" THEN Cardinality(Agents(active', t)) + 1
                  ELSE Cardinality(Agents(active', t))
            /\ Cardinality(Calls(active, t)) =
                  IF e.task = t /\ e.kind = "procedure" THEN Cardinality(Calls(active', t)) + 1
                  ELSE Cardinality(Calls(active', t))
  <2>. DEFINE A == active'
  <2>1. A \in SUBSET Effects /\ e \notin A /\ active = A \cup {e}  BY <1>3
  <2>. HIDE DEF A
  <2>2. /\ Cardinality(LlmCalls(A)) \in Nat
        /\ Cardinality(LlmCalls(A \cup {e})) =
              IF UsesLlm(e) THEN Cardinality(LlmCalls(A)) + 1 ELSE Cardinality(LlmCalls(A))
        /\ \A t \in Tasks :
              /\ Cardinality(Agents(A, t)) \in Nat /\ Cardinality(Calls(A, t)) \in Nat
              /\ Cardinality(Agents(A \cup {e}, t)) =
                    IF e.task = t /\ e.kind = "agent" THEN Cardinality(Agents(A, t)) + 1
                    ELSE Cardinality(Agents(A, t))
              /\ Cardinality(Calls(A \cup {e}, t)) =
                    IF e.task = t /\ e.kind = "procedure" THEN Cardinality(Calls(A, t)) + 1
                    ELSE Cardinality(Calls(A, t))
    BY <2>1, OneMore
  <2>. QED  BY <2>1, <2>2 DEF A
<1>6. llm' = Cardinality(LlmCalls(active')) /\ llm' \in Nat
  <2>1. llm' = IF UsesLlm(e) /\ llm > 0 THEN llm - 1 ELSE llm  BY <1>2
  <2>. QED  BY <1>4, <1>5, <2>1
<1>7. /\ taskLlm' \in [Tasks -> Nat]
      /\ \A t \in Tasks : taskLlm'[t] = Cardinality(Agents(active', t))
  <2>1. taskLlm' = IF e.kind = "agent" /\ taskLlm[e.task] > 0
                   THEN [taskLlm EXCEPT ![e.task] = @ - 1] ELSE taskLlm
    BY <1>2
  <2>2. taskLlm \in [Tasks -> Nat] /\ e.task \in Tasks  BY <1>3
  <2>3. CASE e.kind = "agent"
    <3>1. taskLlm[e.task] = Cardinality(Agents(active', e.task)) + 1  BY <1>4, <1>5, <2>2, <2>3
    <3>2. \A t \in Tasks \ {e.task} : taskLlm[t] = Cardinality(Agents(active', t))
      BY <1>4, <1>5, <2>3
    <3>3. taskLlm' = [taskLlm EXCEPT ![e.task] = @ - 1]  BY <1>5, <2>1, <2>2, <2>3, <3>1
    <3>. QED  BY <1>5, <2>2, <3>1, <3>2, <3>3
  <2>4. CASE e.kind # "agent"
    <3>1. \A t \in Tasks : taskLlm[t] = Cardinality(Agents(active', t))  BY <1>4, <1>5, <2>4
    <3>. QED  BY <2>1, <2>2, <2>4, <3>1
  <2>. QED  BY <2>3, <2>4
<1>8. /\ taskProc' \in [Tasks -> Nat]
      /\ \A t \in Tasks : taskProc'[t] = Cardinality(Calls(active', t))
  <2>1. taskProc' = IF e.kind = "procedure" /\ taskProc[e.task] > 0
                    THEN [taskProc EXCEPT ![e.task] = @ - 1] ELSE taskProc
    BY <1>2
  <2>2. taskProc \in [Tasks -> Nat] /\ e.task \in Tasks  BY <1>3
  <2>3. CASE e.kind = "procedure"
    <3>1. taskProc[e.task] = Cardinality(Calls(active', e.task)) + 1  BY <1>4, <1>5, <2>2, <2>3
    <3>2. \A t \in Tasks \ {e.task} : taskProc[t] = Cardinality(Calls(active', t))
      BY <1>4, <1>5, <2>3
    <3>3. taskProc' = [taskProc EXCEPT ![e.task] = @ - 1]  BY <1>5, <2>1, <2>2, <2>3, <3>1
    <3>. QED  BY <1>5, <2>2, <3>1, <3>2, <3>3
  <2>4. CASE e.kind # "procedure"
    <3>1. \A t \in Tasks : taskProc[t] = Cardinality(Calls(active', t))  BY <1>4, <1>5, <2>4
    <3>. QED  BY <2>1, <2>2, <2>4, <3>1
  <2>. QED  BY <2>3, <2>4
<1>9. CountersMatchActive'
  BY <1>6, <1>7, <1>8 DEF CountersMatchActive, LlmCalls, Agents, Calls, UsesLlm
<1>10. Queued' = Queued  BY <1>2 DEF Queued, Entries
<1>11. LanesOK'  BY <1>1, <1>2 DEF LanesOK
<1>12. LanesWellFormed' /\ QueuedOnce'  BY <1>11, LanesAreNext
<1>13. NoCancelledQueued' /\ InOnePlace'
  BY <1>1, <1>2, <1>10 DEF NoCancelledQueued, InOnePlace, IsCancelled
<1>14. /\ LoopFollows' /\ NeverOversleeps'
       /\ wake' \in BOOLEAN /\ dispatcher' \in {"fresh", "asleep", "woken", "running", "done"}
       /\ waiter' \in [Tasks -> {"none", "asleep", "woken"}]
  BY <1>1, <1>2, LoopIsSignalled
<1>15. TypeOK'  BY <1>1, <1>2, <1>3, <1>6, <1>7, <1>8, <1>14 DEF TypeOK
<1>. QED  BY <1>9, <1>12, <1>13, <1>14, <1>15 DEF IInv, Accounts

LEMMA CancelGenerationKeeps ==
    ASSUME IInv, NEW t \in Tasks, NEW g \in Generations, CancelGeneration(t, g)
    PROVE  IInv'
<1>1. TypeOK /\ LoopFollows /\ LanesOK /\ CountersMatchActive /\ NoCancelledQueued /\ InOnePlace
  BY LanesAre DEF IInv, Accounts, TypeOK, Lane
<1>. DEFINE through == [cancelled EXCEPT ![t] = g]
<1>2. /\ cancelled' = through
      /\ lanes' = [p \in Priorities |-> Swept(lanes[p], {t}, through)]
      /\ Signal
      /\ active' = active /\ llm' = llm /\ taskLlm' = taskLlm /\ taskProc' = taskProc
      /\ limits' = limits /\ paused' = paused
      /\ closing' = closing /\ closed' = closed /\ settled' = settled
      /\ queuedOnce' = queuedOnce
  BY DEF CancelGeneration, counters
<1>3. /\ through \in [Tasks -> Int] /\ through[t] = g
      /\ \A u \in Tasks \ {t} : through[u] = cancelled[u]
  BY <1>1, GenerationsAssumption DEF TypeOK
<1>. HIDE DEF through
<1>4. ASSUME NEW p \in Priorities
      PROVE  /\ LaneOK(lanes'[p], p)
             /\ \A u \in Tasks : Entries(lanes'[p], u) =
                   IF u = t THEN {e \in Entries(lanes[p], t) : e.gen > g} ELSE Entries(lanes[p], u)
  <2>. DEFINE lane == lanes[p]
  <2>1. LaneOK(lane, p) /\ lanes'[p] = Swept(lane, {t}, through)
    BY <1>1, <1>2 DEF LanesOK
  <2>. HIDE DEF lane
  <2>2. /\ LaneOK(Swept(lane, {t}, through), p)
        /\ IsStopped(Swept(lane, {t}, through), lane, t, through[t])
    BY <2>1, SweptIsOK
  <2>. QED  BY <1>3, <2>1, <2>2 DEF lane, IsStopped
<1>5. LanesOK'
  <2>1. \A p \in Priorities : lanes'[p] \in Lane  BY <1>4 DEF LaneOK, QueuesOK
  <2>2. lanes' \in [Priorities -> Lane]  BY <1>2, <2>1
  <2>. QED  BY <1>4, <2>2 DEF LanesOK
<1>6. LanesWellFormed' /\ QueuedOnce'  BY <1>5, LanesAreNext
<1>7. \A x \in Queued' : x \in Queued /\ ~IsCancelled(x)'
  <2>. SUFFICES ASSUME NEW q \in Priorities, NEW u \in Tasks, NEW x \in Entries(lanes'[q], u)
                PROVE  x \in Queued /\ ~IsCancelled(x)'
    BY DEF Queued, Entries
  <2>1. x \in Entries(lanes[q], u) /\ (u = t => x.gen > g)  BY <1>4
  <2>2. x \in Effects /\ x.task = u /\ x \in Queued  BY <1>1, <2>1, QueuedIs
  <2>3. ~(x.gen <= cancelled[u])  BY <1>1, <2>2 DEF NoCancelledQueued, IsCancelled
  <2>4. x.gen \in Nat /\ g \in Nat  BY <2>2, EffectsAssumption, GenerationsAssumption
  <2>5. ~(x.gen <= cancelled'[u])  BY <1>2, <1>3, <2>1, <2>3, <2>4
  <2>. QED  BY <2>2, <2>5 DEF IsCancelled
<1>8. NoCancelledQueued' /\ InOnePlace'  BY <1>1, <1>2, <1>7 DEF NoCancelledQueued, InOnePlace
<1>9. CountersMatchActive'  BY <1>1, <1>2 DEF CountersMatchActive, UsesLlm
<1>10. /\ LoopFollows' /\ NeverOversleeps'
       /\ wake' \in BOOLEAN /\ dispatcher' \in {"fresh", "asleep", "woken", "running", "done"}
       /\ waiter' \in [Tasks -> {"none", "asleep", "woken"}]
  BY <1>1, <1>2, LoopIsSignalled
<1>11. TypeOK'
  <2>1. lanes' \in [Priorities -> Lane]  BY <1>5 DEF LanesOK
  <2>. QED  BY <1>1, <1>2, <1>3, <1>10, <2>1 DEF TypeOK, Lane
<1>. QED  BY <1>6, <1>8, <1>9, <1>10, <1>11 DEF IInv, Accounts

LEMMA CloseKeeps ==
    ASSUME IInv, Close
    PROVE  IInv'
<1>1. TypeOK /\ LoopFollows /\ CountersMatchActive  BY DEF IInv, Accounts
<1>2. /\ dispatcher # "running" /\ closing' = TRUE
      /\ lanes' = [p \in Priorities |-> Vacant] /\ waiter' = [t \in Tasks |-> "none"]
      /\ SignalDispatcher
      /\ active' = active /\ llm' = llm /\ taskLlm' = taskLlm /\ taskProc' = taskProc
      /\ limits' = limits /\ paused' = paused /\ cancelled' = cancelled
      /\ closed' = closed /\ queuedOnce' = queuedOnce /\ settled' = settled
  BY DEF Close, Managed, Yielded, counters, flags
<1>3. /\ wake' = TRUE /\ dispatcher' \in {"fresh", "woken", "running", "done"}
      /\ dispatcher' = "fresh" <=> dispatcher = "fresh"
      /\ dispatcher' = "running" <=> dispatcher = "running"
  BY <1>1, <1>2, SignalIsHeard
<1>4. LoopFollows' /\ NeverOversleeps'  BY <1>2, <1>3 DEF LoopFollows, NeverOversleeps
<1>5. \A p : LaneOK(Vacant, p) /\ \A t \in Tasks : Entries(Vacant, t) = {}  BY VacantIsOK
<1>6. LanesOK'
  <2>1. Vacant \in Lane  BY <1>5 DEF LaneOK, QueuesOK
  <2>. QED  BY <1>2, <1>5, <2>1 DEF LanesOK
<1>7. LanesWellFormed' /\ QueuedOnce' /\ lanes' \in [Priorities -> Lane]  BY <1>6, LanesAreNext
<1>8. Queued' = {}  BY <1>2, <1>5 DEF Queued, Entries
<1>9. NoCancelledQueued' /\ InOnePlace'  BY <1>8 DEF NoCancelledQueued, InOnePlace
<1>10. CountersMatchActive'  BY <1>1, <1>2 DEF CountersMatchActive, UsesLlm
<1>11. TypeOK'  BY <1>1, <1>2, <1>3, <1>7 DEF TypeOK, Lane
<1>. QED  BY <1>4, <1>7, <1>9, <1>10, <1>11 DEF IInv, Accounts

\* The steps that signal and leave the lanes and the accounts alone.
LEMMA FlagsKeep ==
    ASSUME IInv, \/ \E t \in Tasks : PauseTask(t) \/ ResumeTask(t)
                 \/ \E l \in LimitChoices : UpdateLimits(l)
    PROVE  IInv'
<1>1. TypeOK /\ LoopFollows  BY DEF IInv, Accounts
<1>2. /\ Signal
      /\ lanes' = lanes /\ active' = active /\ cancelled' = cancelled
      /\ llm' = llm /\ taskLlm' = taskLlm /\ taskProc' = taskProc
      /\ closing' = closing /\ closed' = closed /\ queuedOnce' = queuedOnce
  BY DEF PauseTask, ResumeTask, UpdateLimits, counters
<1>3. limits' \in LimitChoices /\ paused' \subseteq Tasks /\ settled' \subseteq paused'
  BY <1>1 DEF PauseTask, ResumeTask, UpdateLimits, TypeOK
<1>4. /\ LoopFollows' /\ NeverOversleeps'
      /\ wake' \in BOOLEAN /\ dispatcher' \in {"fresh", "asleep", "woken", "running", "done"}
      /\ waiter' \in [Tasks -> {"none", "asleep", "woken"}]
  BY <1>1, <1>2, LoopIsSignalled
<1>5. TypeOK'  BY <1>1, <1>2, <1>3, <1>4 DEF TypeOK
<1>6. UNCHANGED <<lanes, active, counters, cancelled>>  BY <1>2 DEF counters
<1>. QED  BY <1>4, <1>5, <1>6, SameAccounts DEF IInv

\* The steps of the dispatcher other than a launch, of the waiters and of the closer.
LEMMA LoopKeeps ==
    ASSUME IInv, \/ WakeDispatcher \/ Sleep \/ FinishClose
                 \/ \E t \in Tasks : WaitTaskIdle(t) \/ Recheck(t)
    PROVE  IInv'
<1>1. TypeOK /\ LoopFollows /\ LanesOK /\ NeverOversleeps
  BY LanesAre DEF IInv, Accounts, TypeOK, Lane
<1>2. /\ lanes' = lanes /\ active' = active /\ cancelled' = cancelled
      /\ limits' = limits /\ paused' = paused
      /\ llm' = llm /\ taskLlm' = taskLlm /\ taskProc' = taskProc
      /\ closing' = closing /\ queuedOnce' = queuedOnce
  BY DEF WakeDispatcher, Sleep, FinishClose, WaitTaskIdle, Recheck, CheckIdle, counters, flags,
         loop
<1>3. /\ wake' \in BOOLEAN /\ dispatcher' \in {"fresh", "asleep", "woken", "running", "done"}
      /\ waiter' \in [Tasks -> {"none", "asleep", "woken"}]
      /\ closed' \in BOOLEAN /\ settled' \subseteq paused
  <2>1. CASE WakeDispatcher  BY <1>1, <2>1 DEF WakeDispatcher, TypeOK
  <2>2. CASE Sleep  BY <1>1, <2>2 DEF Sleep, TypeOK
  <2>3. CASE FinishClose  BY <1>1, <2>3 DEF FinishClose, TypeOK, loop
  <2>4. CASE \E t \in Tasks : WaitTaskIdle(t) \/ Recheck(t)
    <3>1. PICK t \in Tasks : CheckIdle(t)  BY <2>4 DEF WaitTaskIdle, Recheck
    <3>. QED  BY <1>1, <3>1 DEF CheckIdle, TypeOK
  <2>. QED  BY <2>1, <2>2, <2>3, <2>4
<1>4. TypeOK'  BY <1>1, <1>2, <1>3 DEF TypeOK
<1>5. UNCHANGED <<lanes, active, counters, cancelled>> /\ UNCHANGED <<lanes, counters, flags>>
  BY <1>2 DEF counters, flags
<1>6. Accounts' /\ QueuedOnce'  BY <1>4, <1>5, SameAccounts
<1>7. LoopFollows' /\ NeverOversleeps'
  <2>1. NextRank' = NextRank  BY <1>5, NextRankStays
  <2>2. CASE WakeDispatcher
    <3>1. waiter' = waiter  BY <2>2 DEF WakeDispatcher
    <3>2. CASE closing
      BY <1>1, <1>2, <2>2, <3>2 DEF WakeDispatcher, LoopFollows, NeverOversleeps
    <3>3. CASE ~closing /\ dispatcher = "fresh" /\ ~wake
      <4>1. dispatcher' = "asleep"  BY <2>2, <3>3 DEF WakeDispatcher
      <4>2. \A p \in Priorities : lanes[p].ring = <<>>
        BY <1>1, <3>3 DEF LoopFollows, Vacant
      <4>3. NextRank = 0  BY <1>1, <4>2, NextRankIs
      <4>. QED  BY <1>2, <2>1, <3>3, <4>1, <4>3 DEF LoopFollows, NeverOversleeps
    <3>4. CASE ~closing /\ ~(dispatcher = "fresh" /\ ~wake)
      <4>1. dispatcher' = "running"  BY <2>2, <3>4 DEF WakeDispatcher
      <4>. QED  BY <1>2, <3>4, <4>1 DEF LoopFollows, NeverOversleeps
    <3>. QED  BY <3>2, <3>3, <3>4
  <2>3. CASE Sleep
    <3>1. dispatcher = "running" /\ NextRank = 0 /\ dispatcher' = "asleep"  BY <2>3 DEF Sleep
    <3>. QED  BY <1>1, <1>2, <2>1, <3>1 DEF LoopFollows, NeverOversleeps
  <2>4. CASE FinishClose \/ \E t \in Tasks : WaitTaskIdle(t) \/ Recheck(t)
    <3>1. dispatcher' = dispatcher /\ dispatcher # "fresh"
      <4>1. dispatcher = "fresh" => \A t \in Tasks : waiter[t] = "none"  BY <1>1 DEF LoopFollows
      <4>. QED  BY <2>4, <4>1 DEF FinishClose, WaitTaskIdle, Recheck, CheckIdle, loop
    <3>. QED  BY <1>1, <1>2, <2>1, <3>1 DEF LoopFollows, NeverOversleeps
  <2>. QED  BY <2>2, <2>3, <2>4
<1>. QED  BY <1>6, <1>7 DEF IInv

LEMMA StutterKeeps ==
    ASSUME IInv, UNCHANGED vars
    PROVE  IInv'
<1>1. TypeOK'  BY DEF IInv, Accounts, TypeOK, vars
<1>2. UNCHANGED <<lanes, active, counters, cancelled>>  BY DEF vars, counters
<1>3. Accounts' /\ QueuedOnce'  BY <1>1, <1>2, SameAccounts
<1>4. UNCHANGED <<lanes, counters, flags, closing, dispatcher>> /\ UNCHANGED <<wake, waiter>>
  BY DEF vars, counters, flags
<1>5. LoopFollows' /\ NeverOversleeps'  BY <1>4, SameLoop
<1>. QED  BY <1>3, <1>5 DEF IInv

\* The inductive invariant holds at every step.
THEOREM Invariant == Spec => []IInv
<1>1. Init => IInv  BY InitHolds
<1>2. IInv /\ [Next]_vars => IInv'
  <2>. SUFFICES ASSUME IInv, [Next]_vars  PROVE IInv'  OBVIOUS
  <2>1. ASSUME NEW e \in Effects, Enqueue(e) \/ Finish(e)  PROVE IInv'
    BY <2>1, EnqueueKeeps, FinishKeeps
  <2>2. ASSUME NEW t \in Tasks, PauseTask(t) \/ ResumeTask(t)  PROVE IInv'
    BY <2>2, FlagsKeep
  <2>3. ASSUME NEW t \in Tasks, WaitTaskIdle(t) \/ Recheck(t)  PROVE IInv'
    BY <2>3, LoopKeeps
  <2>4. ASSUME NEW t \in Tasks, NEW g \in Generations, CancelGeneration(t, g)  PROVE IInv'
    BY <2>4, CancelGenerationKeeps
  <2>5. ASSUME NEW l \in LimitChoices, UpdateLimits(l)  PROVE IInv'
    BY <2>5, FlagsKeep
  <2>6. CASE Close  BY <2>6, CloseKeeps
  <2>7. CASE Launch  BY <2>7, LaunchKeeps
  <2>8. CASE WakeDispatcher \/ Sleep \/ FinishClose  BY <2>8, LoopKeeps
  <2>9. CASE UNCHANGED vars  BY <2>9, StutterKeeps
  <2>. QED  BY <2>1, <2>2, <2>3, <2>4, <2>5, <2>6, <2>7, <2>8, <2>9 DEF Next
<1>. QED  BY <1>1, <1>2, PTL DEF Spec

\* The lanes, the counters, the stops and what is under way agree at every step:
\* no slot of the limits is released twice or leaked, nothing stopped stays
\* queued, and no effect is queued while it is under way (_reserve, _run_entry,
\* cancel_generation, _take_runnable).
THEOREM AccountsHold == Spec => []Accounts
BY Invariant, PTL DEF IInv

\* No lost wake-up: whenever the dispatcher sleeps, nothing is runnable, although
\* the waiters of wait_task_idle() clear the event it sleeps on (_dispatch_loop).
THEOREM SleepIsSafe == Spec => []NeverOversleeps
BY Invariant, PTL DEF IInv

\* What a step starts, it may start: its generation lives, its task is not
\* paused, the limits hold with it, and nothing of a higher priority could have
\* started instead (_can_start, _take_runnable).
THEOREM StartsAreAllowed == Spec => StartsOnlyWhatMay
<1>. DEFINE May(e) ==
          /\ ~IsCancelled(e)
          /\ ~closing
          /\ UsesLlm(e) => /\ e.task \notin paused
                           /\ Cardinality({a \in active' : UsesLlm(a)}) <= limits.llm
          /\ e.kind = "agent" =>
                Cardinality({a \in active' : a.kind = "agent" /\ a.task = e.task}) <= limits.taskLlm
          /\ e.kind = "procedure" =>
                Cardinality({a \in active' : a.kind = "procedure" /\ a.task = e.task}) <= limits.taskProc
          /\ \A i, j \in DOMAIN Ranks : j < i /\ Ranks[i] = e.prio =>
                \A t \in Tasks : \A other \in Entries(lanes[Ranks[j]], t) : ~CanStart(other)
          /\ e.prio = "barrier" \/ \A t \in Tasks : Entries(lanes["barrier"], t) = {}
<1>1. ASSUME IInv, [Next]_vars, NEW e \in active' \ active  PROVE Launch
  <2>1. CASE UNCHANGED vars  BY <1>1, <2>1 DEF vars
  <2>2. CASE Next /\ ~Launch
    <3>1. active' = active \/ \E x \in active : active' = active \ {x}
      BY <2>2 DEF Next, Enqueue, Finish, PauseTask, ResumeTask, WaitTaskIdle, Recheck, CheckIdle,
                  CancelGeneration, UpdateLimits, Close, FinishClose, WakeDispatcher, Sleep
    <3>. QED  BY <1>1, <3>1
  <2>. QED  BY <1>1, <2>1, <2>2
<1>2. ASSUME IInv, Launch, NEW e \in active' \ active  PROVE May(e)
  <2>1. TypeOK /\ LanesOK /\ CountersMatchActive /\ NoCancelledQueued /\ LoopFollows
    BY <1>2, LanesAre DEF IInv, Accounts, TypeOK, Lane
  <2>2. PICK x \in Effects, l \in Lane :
           /\ CanStart(x) /\ x \in Queued /\ x.prio \in Priorities /\ x.task \in Tasks
           /\ Reserve(x)
           /\ NextRank \in DOMAIN Ranks /\ Ranks[NextRank] = x.prio
    BY <1>2, LaunchTakes
  <2>3. e = x /\ e \in Effects /\ active' = active \cup {e} /\ active \in SUBSET Effects
    BY <1>2, <2>1, <2>2 DEF Reserve, TypeOK
  <2>4. ~IsCancelled(e) /\ (e.task \in paused => ~UsesLlm(e)) /\ HasCapacity(e)
    BY <2>2, <2>3 DEF CanStart
  <2>5. ~closing  BY <1>2, <2>1 DEF Launch, LoopFollows
  <2>6. CountersMatchActive'  BY <1>2, <2>1, <2>2, <2>3, ReserveCounts
  <2>7. /\ llm \in Nat /\ taskLlm \in [Tasks -> Nat] /\ taskProc \in [Tasks -> Nat]
        /\ limits.llm \in Nat /\ limits.taskLlm \in Nat /\ limits.taskProc \in Nat
        /\ e.task \in Tasks
    <3>1. limits \in [llm : Nat, taskLlm : Nat, taskProc : Nat]
      BY <2>1, LimitsAssumption DEF TypeOK
    <3>. QED  BY <2>1, <2>2, <2>3, <3>1 DEF TypeOK
  <2>8. UsesLlm(e) => /\ e.task \notin paused
                      /\ Cardinality({a \in active' : UsesLlm(a)}) <= limits.llm
    <3>. SUFFICES ASSUME UsesLlm(e)  PROVE Cardinality({a \in active' : UsesLlm(a)}) <= limits.llm
      BY <2>4
    <3>1. llm < limits.llm  BY <2>4 DEF UsesLlm, HasCapacity
    <3>2. llm' = llm + 1  BY <2>2, <2>3 DEF Reserve
    <3>3. llm' = Cardinality({a \in active' : UsesLlm(a)})
      BY <2>6 DEF CountersMatchActive, UsesLlm
    <3>. QED  BY <2>7, <3>1, <3>2, <3>3
  <2>9. e.kind = "agent" =>
           Cardinality({a \in active' : a.kind = "agent" /\ a.task = e.task}) <= limits.taskLlm
    <3>. SUFFICES ASSUME e.kind = "agent"
                  PROVE  Cardinality({a \in active' : a.kind = "agent" /\ a.task = e.task})
                            <= limits.taskLlm
      OBVIOUS
    <3>1. taskLlm[e.task] < limits.taskLlm  BY <2>4 DEF HasCapacity
    <3>2. taskLlm'[e.task] = taskLlm[e.task] + 1  BY <2>2, <2>3, <2>7 DEF Reserve
    <3>3. taskLlm'[e.task] = Cardinality({a \in active' : a.task = e.task /\ a.kind = "agent"})
      BY <2>6, <2>7 DEF CountersMatchActive
    <3>4. {a \in active' : a.task = e.task /\ a.kind = "agent"}
             = {a \in active' : a.kind = "agent" /\ a.task = e.task}
      OBVIOUS
    <3>5. Cardinality({a \in active' : a.kind = "agent" /\ a.task = e.task}) = taskLlm'[e.task]
      BY <3>3, <3>4
    <3>6. taskLlm'[e.task] <= limits.taskLlm  BY <2>7, <3>1, <3>2
    <3>. QED  BY <3>5, <3>6
  <2>10. e.kind = "procedure" =>
           Cardinality({a \in active' : a.kind = "procedure" /\ a.task = e.task}) <= limits.taskProc
    <3>. SUFFICES ASSUME e.kind = "procedure"
                  PROVE  Cardinality({a \in active' : a.kind = "procedure" /\ a.task = e.task})
                            <= limits.taskProc
      OBVIOUS
    <3>1. taskProc[e.task] < limits.taskProc  BY <2>4 DEF HasCapacity
    <3>2. taskProc'[e.task] = taskProc[e.task] + 1  BY <2>2, <2>3, <2>7 DEF Reserve
    <3>3. taskProc'[e.task] = Cardinality({a \in active' : a.task = e.task /\ a.kind = "procedure"})
      BY <2>6, <2>7 DEF CountersMatchActive
    <3>4. {a \in active' : a.task = e.task /\ a.kind = "procedure"}
             = {a \in active' : a.kind = "procedure" /\ a.task = e.task}
      OBVIOUS
    <3>5. Cardinality({a \in active' : a.kind = "procedure" /\ a.task = e.task}) = taskProc'[e.task]
      BY <3>3, <3>4
    <3>6. taskProc'[e.task] <= limits.taskProc  BY <2>7, <3>1, <3>2
    <3>. QED  BY <3>5, <3>6
  <2>11. NextRank > 0  BY <2>2, RanksAre
  <2>12. /\ \A j \in DOMAIN Ranks : j < NextRank =>
               \A t \in Tasks : \A other \in Entries(lanes[Ranks[j]], t) : ~CanStart(other)
         /\ NextRank = 1 \/ \A t \in Tasks : Entries(lanes["barrier"], t) = {}
    BY <2>1, <2>11, NextRankIs
  <2>13. \A i, j \in DOMAIN Ranks : j < i /\ Ranks[i] = e.prio =>
            \A t \in Tasks : \A other \in Entries(lanes[Ranks[j]], t) : ~CanStart(other)
    <3>1. \A i \in DOMAIN Ranks : Ranks[i] = e.prio => i = NextRank  BY <2>2, <2>3, RanksAre
    <3>. QED  BY <2>12, <3>1
  <2>14. e.prio = "barrier" \/ \A t \in Tasks : Entries(lanes["barrier"], t) = {}
    BY <2>2, <2>3, <2>12, RanksAre
  <2>. QED  BY <2>4, <2>5, <2>8, <2>9, <2>10, <2>13, <2>14
<1>3. IInv /\ [Next]_vars => \A e \in active' \ active : May(e)  BY <1>1, <1>2
<1>. QED  BY <1>3, Invariant, PTL DEF Spec, StartsOnlyWhatMay
=============================================================================
