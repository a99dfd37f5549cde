------------------------- MODULE ResearchTask_proofs -------------------------
(***************************************************************************)
(* Proofs about ResearchTask: every leaf of a round that goes on has one   *)
(* piece of work, a round that is over has nothing left, a paused task is  *)
(* quiet, what is over has no part in what goes on, and the credits add    *)
(* up; and about the plans it makes, as Planning states it.  The proofs of *)
(* plans and credits rest on what sums over finite sets are, which comes   *)
(* first.                                                                  *)
(***************************************************************************)
EXTENDS ResearchTask, Planning, FiniteSetTheorems, SequenceTheorems, TLAPS

\* Every set of numbers that is not empty has a least one.
LEMMA LeastExists ==
    ASSUME NEW S \in SUBSET Nat, S # {}
    PROVE  \E m \in S : \A x \in S : m <= x
<1>1. IsWellFoundedOn(OpToRel(<, Nat), Nat)  BY NatLessThanWellFounded
<1>2. PICK m \in S : \A x \in S : <<x, m>> \notin OpToRel(<, Nat)  BY <1>1, WFMin
<1>3. \A x \in S : ~(x < m) /\ x \in Nat /\ m \in Nat  BY <1>2 DEF OpToRel
<1>. QED  BY <1>3

(***************************************************************************)
(* Sums over finite sets                                                   *)
(***************************************************************************)

\* A set of numbers that has 0, and the next number of each it has, has them all.
LEMMA EveryNumber ==
    ASSUME NEW P \in SUBSET Nat, 0 \in P, \A n \in P : n + 1 \in P
    PROVE  P = Nat
<1>. SUFFICES ASSUME Nat \ P # {} PROVE FALSE  OBVIOUS
<1>1. PICK m \in Nat \ P : \A x \in Nat \ P : m <= x  BY LeastExists
<1>2. m - 1 \in Nat /\ m - 1 \notin Nat \ P  BY <1>1
<1>3. (m - 1) + 1 \in P  BY <1>2
<1>. QED  BY <1>1, <1>3

\* What holds of the empty set, and of a set with one more element when it holds of
\* the set, holds of every finite set.
LEMMA EverySubset ==
    ASSUME NEW S, IsFiniteSet(S), NEW P \in SUBSET SUBSET S,
           {} \in P, \A T \in P : \A x \in S \ T : T \union {x} \in P
    PROVE  S \in P
<1>. DEFINE N == {n \in Nat : \A T \in SUBSET S : Cardinality(T) = n => T \in P}
<1>1. \A T \in SUBSET S : IsFiniteSet(T) /\ Cardinality(T) \in Nat
  BY FS_Subset, FS_CardinalityType
<1>2. 0 \in N
  <2>. SUFFICES ASSUME NEW T \in SUBSET S, Cardinality(T) = 0 PROVE T \in P  OBVIOUS
  <2>. QED  BY <1>1, FS_EmptySet
<1>3. ASSUME NEW n \in N PROVE n + 1 \in N
  <2>. SUFFICES ASSUME NEW T \in SUBSET S, Cardinality(T) = n + 1 PROVE T \in P  OBVIOUS
  <2>1. PICK x : x \in T  BY <1>1, FS_EmptySet
  <2>2. Cardinality(T \ {x}) = n  BY <1>1, <2>1, FS_RemoveElement
  <2>3. T \ {x} \in P  BY <2>2
  <2>4. (T \ {x}) \union {x} = T /\ x \in S \ (T \ {x})  BY <2>1
  <2>. QED  BY <2>3, <2>4
<1>4. N = Nat  BY <1>2, <1>3, EveryNumber
<1>. QED  BY <1>1, <1>4

\* The equation by which the library sums the amounts f of a finite set.
AnyOf(s) == CHOOSE x \in s : TRUE
SumOrNothing(f, g, s) == IF s = {} THEN 0 ELSE f[AnyOf(s)] + g[s \ {AnyOf(s)}]
AddsUpOn(g, f, U) == g = [s \in U |-> SumOrNothing(f, g, s)]
AddsUp(g, f, S) == AddsUpOn(g, f, SUBSET S)

LEMMA SomeElement == \A s : s # {} => AnyOf(s) \in s
BY DEF AnyOf

LEMMA SumEquation ==
    ASSUME NEW f, NEW S, IsFiniteSet(S)
    PROVE  \E g : AddsUp(g, f, S) /\ SumFunctionOnSet(f, S) = g[S]
<1>. DEFINE Up(n) == {s \in SUBSET S : Cardinality(s) <= n}
            N == {n \in Nat : \E g : AddsUpOn(g, f, Up(n))}
<1>1. \A T \in SUBSET S : IsFiniteSet(T) /\ Cardinality(T) \in Nat
  BY FS_Subset, FS_CardinalityType
<1>2. \A s \in SUBSET S : s # {} => /\ s \ {AnyOf(s)} \in SUBSET S
                                   /\ Cardinality(s \ {AnyOf(s)}) = Cardinality(s) - 1
  BY <1>1, SomeElement, FS_RemoveElement
<1>3. 0 \in N
  <2>. DEFINE g == [s \in Up(0) |-> 0]
  <2>1. \A s \in Up(0) : s = {}  BY <1>1, FS_EmptySet
  <2>2. g = [s \in Up(0) |-> SumOrNothing(f, g, s)]  BY <2>1 DEF SumOrNothing
  <2>. HIDE DEF g
  <2>3. AddsUpOn(g, f, Up(0))  BY <2>2 DEF AddsUpOn
  <2>. QED  BY <2>3
<1>4. ASSUME NEW n \in N PROVE n + 1 \in N
  <2>1. PICK g : AddsUpOn(g, f, Up(n))  BY DEF N
  <2>. DEFINE h == [s \in Up(n + 1) |-> SumOrNothing(f, g, s)]
  <2>2. \A s \in Up(n + 1) : s # {} => s \ {AnyOf(s)} \in Up(n)  BY <1>1, <1>2
  <2>3. \A s \in Up(n) : s \in Up(n + 1)  BY <1>1
  <2>4. \A s \in Up(n) : g[s] = SumOrNothing(f, g, s)  BY <2>1 DEF AddsUpOn
  <2>5. \A s \in Up(n) : h[s] = g[s]  BY <2>3, <2>4
  <2>6. \A s \in Up(n + 1) : SumOrNothing(f, g, s) = SumOrNothing(f, h, s)
    <3>. HIDE DEF h, Up
    <3>. QED  BY <2>2, <2>5 DEF SumOrNothing
  <2>7. h = [s \in Up(n + 1) |-> SumOrNothing(f, h, s)]
    <3>1. h = [s \in Up(n + 1) |-> SumOrNothing(f, g, s)]  OBVIOUS
    <3>. HIDE DEF h
    <3>. QED  BY <2>6, <3>1
  <2>. HIDE DEF h
  <2>8. AddsUpOn(h, f, Up(n + 1))  BY <2>7 DEF AddsUpOn
  <2>. HIDE DEF Up
  <2>. QED  BY <2>8
<1>5. Cardinality(S) \in N  BY <1>1, <1>3, <1>4, EveryNumber
<1>6. Up(Cardinality(S)) = SUBSET S
  <2>1. \A s \in SUBSET S : Cardinality(s) <= Cardinality(S)  BY FS_Subset
  <2>. QED  BY <2>1
<1>7. \E g : AddsUp(g, f, S)  BY <1>5, <1>6 DEF AddsUp
<1>. DEFINE lib == CHOOSE h : AddsUp(h, f, S)
<1>8. AddsUp(lib, f, S)  BY <1>7
<1>9. SumFunctionOnSet(f, S) = lib[S]
  BY DEF SumFunctionOnSet, FoldFunctionOnSet, MapThenFoldSet, AddsUp, AddsUpOn, SumOrNothing, AnyOf
<1>. HIDE DEF lib
<1>. QED  BY <1>8, <1>9

\* Any two functions that meet the equation are the same where both are defined.
LEMMA SumsAgree ==
    ASSUME NEW f, NEW S, IsFiniteSet(S), NEW T \in SUBSET S, NEW g, NEW h,
           AddsUp(g, f, S), AddsUp(h, f, T)
    PROVE  g[T] = h[T]
<1>. DEFINE P == {s \in SUBSET T : g[s] = h[s]}
            N == {n \in Nat : \A s \in SUBSET T : Cardinality(s) = n => s \in P}
<1>1. \A s \in SUBSET T : s \in SUBSET S /\ IsFiniteSet(s) /\ Cardinality(s) \in Nat
  BY FS_Subset, FS_CardinalityType
<1>2. \A s \in SUBSET T : g[s] = SumOrNothing(f, g, s) /\ h[s] = SumOrNothing(f, h, s)
  BY <1>1 DEF AddsUp, AddsUpOn
<1>3. 0 \in N
  <2>1. \A s \in SUBSET T : Cardinality(s) = 0 => s = {}  BY <1>1, FS_EmptySet
  <2>. QED  BY <1>2, <2>1 DEF SumOrNothing
<1>4. ASSUME NEW n \in N PROVE n + 1 \in N
  <2>. SUFFICES ASSUME NEW s \in SUBSET T, Cardinality(s) = n + 1 PROVE s \in P  OBVIOUS
  <2>1. s # {}  BY <1>1, FS_EmptySet
  <2>2. AnyOf(s) \in s  BY <2>1, SomeElement
  <2>3. Cardinality(s \ {AnyOf(s)}) = n  BY <1>1, <2>2, FS_RemoveElement
  <2>4. s \ {AnyOf(s)} \in P  BY <2>3
  <2>. QED  BY <1>2, <2>1, <2>4 DEF SumOrNothing
<1>5. N = Nat
  <2>. HIDE DEF N
  <2>1. N \in SUBSET Nat  BY DEF N
  <2>. QED  BY <1>3, <1>4, <2>1, EveryNumber
<1>. QED  BY <1>1, <1>5

\* The sum of no amounts, and of some.
LEMMA SumSteps ==
    ASSUME NEW f, NEW S, IsFiniteSet(S)
    PROVE  SumFunctionOnSet(f, S) =
               IF S = {} THEN 0 ELSE f[AnyOf(S)] + SumFunctionOnSet(f, S \ {AnyOf(S)})
<1>1. PICK g : AddsUp(g, f, S) /\ SumFunctionOnSet(f, S) = g[S]  BY SumEquation
<1>2. PICK T \in SUBSET S : T = S \ {AnyOf(S)}  OBVIOUS
<1>3. IsFiniteSet(T)  BY FS_Subset
<1>4. PICK h : AddsUp(h, f, T) /\ SumFunctionOnSet(f, T) = h[T]  BY <1>3, SumEquation
<1>5. g[T] = h[T]  BY <1>1, <1>4, SumsAgree
<1>6. g[S] = SumOrNothing(f, g, S)  BY <1>1 DEF AddsUp, AddsUpOn
<1>. QED  BY <1>1, <1>2, <1>4, <1>5, <1>6 DEF SumOrNothing

\* The sum is a number, and does not depend on what is added first.
LEMMA SumAdds ==
    ASSUME NEW f, NEW S, IsFiniteSet(S), \A x \in S : f[x] \in Int
    PROVE  /\ SumFunctionOnSet(f, S) \in Int
           /\ \A x \in S : SumFunctionOnSet(f, S) = f[x] + SumFunctionOnSet(f, S \ {x})
<1>. DEFINE Sum(s) == SumFunctionOnSet(f, s)
            P == {s \in SUBSET S : Sum(s) \in Int /\ \A x \in s : Sum(s) = f[x] + Sum(s \ {x})}
            N == {n \in Nat : \A s \in SUBSET S : Cardinality(s) <= n => s \in P}
<1>1. \A s \in SUBSET S : IsFiniteSet(s) /\ Cardinality(s) \in Nat
  BY FS_Subset, FS_CardinalityType
<1>2. \A s \in SUBSET S : Sum(s) = IF s = {} THEN 0 ELSE f[AnyOf(s)] + Sum(s \ {AnyOf(s)})
  BY <1>1, SumSteps
<1>. HIDE DEF Sum
<1>3. 0 \in N
  <2>1. \A s \in SUBSET S : Cardinality(s) <= 0 => s = {}  BY <1>1, FS_EmptySet
  <2>. QED  BY <1>2, <2>1
<1>4. ASSUME NEW n \in N PROVE n + 1 \in N
  <2>. SUFFICES ASSUME NEW s \in SUBSET S, Cardinality(s) = n + 1 PROVE s \in P  BY <1>1
  <2>1. s # {}  BY <1>1, FS_EmptySet
  <2>. DEFINE c == AnyOf(s)
  <2>2. c \in s /\ Sum(s) = f[c] + Sum(s \ {c})  BY <1>2, <2>1, SomeElement
  <2>. HIDE DEF c
  <2>3. \A x \in s : Cardinality(s \ {x}) = n /\ s \ {x} \in SUBSET S  BY <1>1, FS_RemoveElement
  <2>4. \A x \in s : s \ {x} \in P  BY <2>3
  <2>5. f[c] \in Int /\ Sum(s \ {c}) \in Int  BY <2>2, <2>4
  <2>6. ASSUME NEW x \in s  PROVE Sum(s) = f[x] + Sum(s \ {x})
    <3>1. CASE x = c  BY <2>2, <3>1
    <3>2. CASE x # c
      <4>1. x \in s \ {c} /\ c \in s \ {x} /\ (s \ {c}) \ {x} = (s \ {x}) \ {c}  BY <2>2, <3>2
      <4>2. /\ Sum(s \ {c}) = f[x] + Sum((s \ {c}) \ {x})
            /\ Sum(s \ {x}) = f[c] + Sum((s \ {x}) \ {c})
        BY <2>2, <2>4, <4>1
      <4>. DEFINE r == (s \ {c}) \ {x}
      <4>3. IsFiniteSet(s \ {c}) /\ r \subseteq s \ {c} /\ r \in SUBSET S  BY <1>1, <2>3, <2>2
      <4>4. Cardinality(r) <= n
        <5>. HIDE DEF r
        <5>. QED  BY <1>1, <2>2, <2>3, <4>3, FS_Subset
      <4>5. f[x] \in Int /\ Sum(r) \in Int
        <5>1. r \in P  BY <4>3, <4>4
        <5>. QED  BY <5>1
      <4>6. /\ Sum(s \ {c}) = f[x] + Sum(r)
            /\ Sum(s \ {x}) = f[c] + Sum(r)
        BY <4>1, <4>2
      <4>. HIDE DEF r, P, N
      <4>. QED  BY <2>2, <2>5, <4>5, <4>6
    <3>. QED  BY <3>1, <3>2
  <2>. QED  BY <2>2, <2>5, <2>6
<1>5. N = Nat
  <2>. HIDE DEF N
  <2>1. N \in SUBSET Nat  BY DEF N
  <2>. QED  BY <1>3, <1>4, <2>1, EveryNumber
<1>6. S \in P  BY <1>1, <1>5
<1>. QED  BY <1>6 DEF Sum

LEMMA SumOfNone == \A f : SumFunctionOnSet(f, {}) = 0
BY SumSteps, FS_EmptySet

\* One more amount.
LEMMA SumInsert ==
    ASSUME NEW f, NEW S, IsFiniteSet(S), \A x \in S : f[x] \in Int
    PROVE  \A T \in SUBSET S : \A x \in S \ T :
               /\ SumFunctionOnSet(f, T) \in Int
               /\ SumFunctionOnSet(f, T \union {x}) = f[x] + SumFunctionOnSet(f, T)
<1>. SUFFICES ASSUME NEW T \in SUBSET S, NEW x \in S \ T
              PROVE  /\ SumFunctionOnSet(f, T) \in Int
                     /\ SumFunctionOnSet(f, T \union {x}) = f[x] + SumFunctionOnSet(f, T)
  OBVIOUS
<1>1. IsFiniteSet(T) /\ \A y \in T : f[y] \in Int  BY FS_Subset
<1>2. PICK U \in SUBSET S : U = T \union {x}  OBVIOUS
<1>3. IsFiniteSet(U) /\ \A y \in U : f[y] \in Int  BY FS_Subset
<1>4. x \in U /\ U \ {x} = T  BY <1>2
<1>5. SumFunctionOnSet(f, T) \in Int  BY <1>1, SumAdds
<1>6. SumFunctionOnSet(f, U) = f[x] + SumFunctionOnSet(f, U \ {x})  BY <1>3, <1>4, SumAdds
<1>. QED  BY <1>2, <1>4, <1>5, <1>6

\* The same amounts have the same sum.
LEMMA SumSame ==
    ASSUME NEW f, NEW g, NEW S, IsFiniteSet(S), \A x \in S : f[x] \in Int /\ g[x] = f[x]
    PROVE  SumFunctionOnSet(g, S) = SumFunctionOnSet(f, S)
<1>. DEFINE P == {s \in SUBSET S : SumFunctionOnSet(g, s) = SumFunctionOnSet(f, s)}
<1>1. {} \in P  BY SumOfNone
<1>2. ASSUME NEW T \in P, NEW x \in S \ T  PROVE T \union {x} \in P
  <2>1. SumFunctionOnSet(f, T \union {x}) = f[x] + SumFunctionOnSet(f, T)  BY SumInsert
  <2>2. SumFunctionOnSet(g, T \union {x}) = g[x] + SumFunctionOnSet(g, T)  BY SumInsert
  <2>. QED  BY <2>1, <2>2
<1>3. S \in P
  <2>. HIDE DEF P
  <2>1. P \in SUBSET SUBSET S  BY DEF P
  <2>. QED  BY <1>1, <1>2, <2>1, EverySubset
<1>. QED  BY <1>3

\* The sum of sums.
LEMMA SumPlus ==
    ASSUME NEW f, NEW g, NEW h, NEW S, IsFiniteSet(S),
           \A x \in S : f[x] \in Int /\ g[x] \in Int /\ h[x] = f[x] + g[x]
    PROVE  SumFunctionOnSet(h, S) = SumFunctionOnSet(f, S) + SumFunctionOnSet(g, S)
<1>. DEFINE P == {s \in SUBSET S :
                     SumFunctionOnSet(h, s) = SumFunctionOnSet(f, s) + SumFunctionOnSet(g, s)}
<1>1. {} \in P  BY SumOfNone
<1>2. ASSUME NEW T \in P, NEW x \in S \ T  PROVE T \union {x} \in P
  <2>1. /\ SumFunctionOnSet(f, T \union {x}) = f[x] + SumFunctionOnSet(f, T)
        /\ SumFunctionOnSet(f, T) \in Int
    BY SumInsert
  <2>2. /\ SumFunctionOnSet(g, T \union {x}) = g[x] + SumFunctionOnSet(g, T)
        /\ SumFunctionOnSet(g, T) \in Int
    BY SumInsert
  <2>3. \A y \in S : h[y] \in Int  OBVIOUS
  <2>4. SumFunctionOnSet(h, T \union {x}) = h[x] + SumFunctionOnSet(h, T)  BY <2>3, SumInsert
  <2>. QED  BY <2>1, <2>2, <2>4
<1>3. S \in P
  <2>. HIDE DEF P
  <2>1. P \in SUBSET SUBSET S  BY DEF P
  <2>. QED  BY <1>1, <1>2, <2>1, EverySubset
<1>. QED  BY <1>3

\* The sum over two sets that share nothing.
LEMMA SumUnion ==
    ASSUME NEW f, NEW S, NEW R, IsFiniteSet(S), IsFiniteSet(R), S \intersect R = {},
           \A x \in S \union R : f[x] \in Int
    PROVE  SumFunctionOnSet(f, S \union R) = SumFunctionOnSet(f, S) + SumFunctionOnSet(f, R)
<1>. DEFINE P == {s \in SUBSET R :
                     SumFunctionOnSet(f, S \union s) = SumFunctionOnSet(f, S) + SumFunctionOnSet(f, s)}
<1>1. IsFiniteSet(S \union R)  BY FS_Union
<1>2. SumFunctionOnSet(f, S) \in Int  BY SumAdds
<1>3. {} \in P
  <2>1. S \union {} = S  OBVIOUS
  <2>. QED  BY <1>2, <2>1, SumOfNone
<1>4. ASSUME NEW T \in P, NEW x \in R \ T  PROVE T \union {x} \in P
  <2>1. /\ SumFunctionOnSet(f, T \union {x}) = f[x] + SumFunctionOnSet(f, T)
        /\ SumFunctionOnSet(f, T) \in Int
    BY SumInsert
  <2>2. S \union T \in SUBSET (S \union R) /\ x \in (S \union R) \ (S \union T)  OBVIOUS
  <2>3. SumFunctionOnSet(f, (S \union T) \union {x}) = f[x] + SumFunctionOnSet(f, S \union T)
    BY <1>1, <2>2, SumInsert
  <2>4. (S \union T) \union {x} = S \union (T \union {x})  OBVIOUS
  <2>5. SumFunctionOnSet(f, S \union (T \union {x})) = f[x] + SumFunctionOnSet(f, S \union T)
    BY <2>3, <2>4
  <2>6. /\ SumFunctionOnSet(f, S \union T) = SumFunctionOnSet(f, S) + SumFunctionOnSet(f, T)
        /\ f[x] \in Int /\ T \union {x} \in SUBSET R
    OBVIOUS
  <2>. HIDE DEF P
  <2>7. SumFunctionOnSet(f, S \union (T \union {x})) =
            SumFunctionOnSet(f, S) + SumFunctionOnSet(f, T \union {x})
    BY <1>2, <2>1, <2>5, <2>6
  <2>. QED  BY <2>6, <2>7 DEF P
<1>5. R \in P
  <2>. HIDE DEF P
  <2>1. P \in SUBSET SUBSET R  BY DEF P
  <2>. QED  BY <1>3, <1>4, <2>1, EverySubset
<1>. QED  BY <1>5

\* A sum of numbers that are not negative is none less than any of them.
LEMMA SumOfNaturals ==
    ASSUME NEW f, NEW S, IsFiniteSet(S), \A x \in S : f[x] \in Nat
    PROVE  SumFunctionOnSet(f, S) \in Nat /\ \A x \in S : f[x] <= SumFunctionOnSet(f, S)
<1>. DEFINE P == {s \in SUBSET S : SumFunctionOnSet(f, s) \in Nat}
<1>1. {} \in P  BY SumOfNone
<1>2. ASSUME NEW T \in P, NEW x \in S \ T  PROVE T \union {x} \in P
  <2>1. SumFunctionOnSet(f, T \union {x}) = f[x] + SumFunctionOnSet(f, T)  BY SumInsert
  <2>. QED  BY <2>1
<1>3. \A s \in SUBSET S : s \in P
  <2>. SUFFICES ASSUME NEW s \in SUBSET S PROVE s \in P  OBVIOUS
  <2>. DEFINE Q == {r \in SUBSET s : r \in P}
  <2>1. IsFiniteSet(s)  BY FS_Subset
  <2>2. {} \in Q /\ \A T \in Q : \A x \in s \ T : T \union {x} \in Q
    <3>. HIDE DEF P
    <3>. QED  BY <1>1, <1>2
  <2>3. s \in Q
    <3>. HIDE DEF Q
    <3>1. Q \in SUBSET SUBSET s  BY DEF Q
    <3>. QED  BY <2>1, <2>2, <3>1, EverySubset
  <2>. QED  BY <2>3
<1>4. ASSUME NEW x \in S  PROVE f[x] <= SumFunctionOnSet(f, S)
  <2>1. SumFunctionOnSet(f, S) = f[x] + SumFunctionOnSet(f, S \ {x})  BY SumAdds
  <2>2. SumFunctionOnSet(f, S \ {x}) \in Nat  BY <1>3
  <2>. QED  BY <2>1, <2>2
<1>. QED  BY <1>3, <1>4

\* p gives every x in S a name in R of its own, and every name is given.
Renames(p, S, R) ==
    /\ p \in [S -> R]
    /\ \A x, y \in S : p[x] = p[y] => x = y
    /\ \A z \in R : \E x \in S : p[x] = z

\* Amounts that are given other names have the same sum.
LEMMA SumRenamed ==
    ASSUME NEW S, IsFiniteSet(S), NEW R, NEW p, Renames(p, S, R),
           NEW f, NEW g, \A x \in S : f[p[x]] \in Int /\ g[x] = f[p[x]]
    PROVE  IsFiniteSet(R) /\ SumFunctionOnSet(f, R) = SumFunctionOnSet(g, S)
<1>. USE DEF Renames
<1>. DEFINE Named(s) == {p[x] : x \in s}
            P == {s \in SUBSET S :
                     /\ IsFiniteSet(Named(s))
                     /\ SumFunctionOnSet(f, Named(s)) = SumFunctionOnSet(g, s)}
<1>1. {} \in P
  <2>1. Named({}) = {}  OBVIOUS
  <2>. HIDE DEF Named
  <2>. QED  BY <2>1, SumOfNone, FS_EmptySet
<1>2. ASSUME NEW T \in P, NEW x \in S \ T  PROVE T \union {x} \in P
  <2>1. SumFunctionOnSet(g, T \union {x}) = g[x] + SumFunctionOnSet(g, T)
    <3>1. \A y \in S : g[y] \in Int  OBVIOUS
    <3>. QED  BY <3>1, SumInsert
  <2>2. Named(T \union {x}) = Named(T) \union {p[x]} /\ p[x] \notin Named(T)  OBVIOUS
  <2>3. \A z \in Named(T) \union {p[x]} : f[z] \in Int  OBVIOUS
  <2>. HIDE DEF Named
  <2>4. IsFiniteSet(Named(T)) /\ IsFiniteSet(Named(T) \union {p[x]})  BY FS_AddElement
  <2>5. SumFunctionOnSet(f, Named(T) \union {p[x]}) = f[p[x]] + SumFunctionOnSet(f, Named(T))
    <3>. DEFINE U == Named(T) \union {p[x]}
    <3>1. Named(T) \in SUBSET U /\ p[x] \in U \ Named(T)  BY <2>2
    <3>2. \A z \in U : f[z] \in Int  BY <2>3
    <3>3. IsFiniteSet(U)  BY <2>4
    <3>. HIDE DEF U
    <3>4. SumFunctionOnSet(f, Named(T) \union {p[x]}) = f[p[x]] + SumFunctionOnSet(f, Named(T))
      BY <3>1, <3>2, <3>3, SumInsert
    <3>. QED  BY <3>4
  <2>. QED  BY <2>1, <2>2, <2>4, <2>5
<1>3. S \in P
  <2>. HIDE DEF P
  <2>1. P \in SUBSET SUBSET S  BY DEF P
  <2>. QED  BY <1>1, <1>2, <2>1, EverySubset
<1>4. Named(S) = R  OBVIOUS
<1>. QED  BY <1>3, <1>4

(***************************************************************************)
(* How credits are shared out                                              *)
(***************************************************************************)

\* The places of the amounts: finitely many numbers.
Places(D) == IsFiniteSet(D) /\ D \subseteq Nat

LEMMA LastPlace ==
    ASSUME NEW D, Places(D), D # {}
    PROVE  Max(D) \in D /\ \A i \in D : i <= Max(D)
<1>. DEFINE P == {s \in SUBSET D : s = {} \/ \E m \in s : \A i \in s : i <= m}
<1>1. {} \in P  OBVIOUS
<1>2. ASSUME NEW T \in P, NEW x \in D \ T  PROVE T \union {x} \in P
  <2>1. T \subseteq Nat /\ x \in Nat  BY DEF Places
  <2>2. CASE T = {}  BY <2>1, <2>2
  <2>3. CASE T # {}
    <3>1. PICK m \in T : \A i \in T : i <= m  BY <2>3
    <3>2. CASE x <= m  BY <2>1, <3>1, <3>2
    <3>3. CASE ~(x <= m)
      <4>1. \A i \in T \union {x} : i <= x  BY <2>1, <3>1, <3>3
      <4>. QED  BY <4>1
    <3>. QED  BY <3>2, <3>3
  <2>. QED  BY <2>2, <2>3
<1>3. D \in P
  <2>. HIDE DEF P
  <2>1. P \in SUBSET SUBSET D  BY DEF P
  <2>. QED  BY <1>1, <1>2, <2>1, EverySubset DEF Places
<1>4. \E m \in D : \A i \in D : m >= i  BY <1>3 DEF Places
<1>. QED  BY <1>4 DEF Max, Places

LEMMA FirstPlace ==
    ASSUME NEW D \in SUBSET Nat, D # {}
    PROVE  Min(D) \in D /\ \A i \in D : Min(D) <= i
BY LeastExists DEF Min

\* A quotient of numbers, rounded either way.
LEMMA RoundedNumber ==
    ASSUME NEW w \in Nat, NEW num \in Int, NEW den \in Nat \ {0}, NEW r \in Rounded(w, num, den)
    PROVE  r \in Int /\ (num >= 0 => r \in Nat) /\ (num = den => r = w)
<1>1. PICK a \in Int : a = w * num /\ (num >= 0 => a >= 0) /\ (num = den => a = w * den)  OBVIOUS
<1>2. r = a \div den \/ r = -((-a) \div den)  BY <1>1 DEF Rounded
<1>3. a \div den \in Int /\ (-a) \div den \in Int  BY <1>1
<1>4. a >= 0 => a \div den >= 0  BY <1>1
<1>5. a >= 0 => (-a) \div den <= 0  BY <1>1
<1>6. a = w * den => a \div den = w  BY <1>1
<1>7. a = w * den => (-a) \div den = -w
  <2>1. a = w * den => -a = (-w) * den  BY <1>1
  <2>. QED  BY <1>1, <2>1
<1>. QED  BY <1>1, <1>2, <1>3, <1>4, <1>5, <1>6, <1>7

\* The shares of the others are numbers: of a target that is not negative, none of
\* them is; and of the whole, the weights.
LEMMA RawShareNumbers ==
    ASSUME NEW weights, NEW num \in Int, NEW den \in Nat \ {0},
           \A i \in DOMAIN weights : weights[i] \in Nat,
           NEW f \in RawShares(weights, num, den)
    PROVE  /\ DOMAIN f = Others(weights)
           /\ \A i \in Others(weights) : /\ f[i] \in Int
                                         /\ num >= 0 => f[i] \in Nat
                                         /\ num = den => f[i] = weights[i]
<1>1. DOMAIN f = Others(weights) /\ \A i \in Others(weights) : f[i] \in Rounded(weights[i], num, den)
  BY DEF RawShares
<1>2. \A i \in Others(weights) : weights[i] \in Nat  BY DEF Others
<1>3. ASSUME NEW i \in Others(weights)
      PROVE  f[i] \in Int /\ (num >= 0 => f[i] \in Nat) /\ (num = den => f[i] = weights[i])
  BY <1>1, <1>2, RoundedNumber
<1>. QED  BY <1>1, <1>3

\* What is over is taken back, and no more.
LEMMA AbsorbedTakes ==
    ASSUME NEW f, Places(DOMAIN f), \A i \in DOMAIN f : f[i] \in Nat,
           NEW over \in Nat, over <= Total(f)
    PROVE  /\ DOMAIN Absorbed(f, over) = DOMAIN f
           /\ \A i \in DOMAIN f : Absorbed(f, over)[i] \in Nat
           /\ Total(Absorbed(f, over)) = Total(f) - over
<1>. DEFINE D == DOMAIN f
            Sum(g, s) == SumFunctionOnSet(g, s)
            Above(i) == {j \in D : j > i}
            taken == [i \in D |-> Least(f[i], Most(0, over - Sum(f, Above(i))))]
            left == Absorbed(f, over)
            Upper(U) == U \in SUBSET D /\ \A i \in U : Above(i) \subseteq U
            N == {n \in Nat : \A U \in SUBSET D : Upper(U) /\ Cardinality(U) = n =>
                     Sum(taken, U) = Least(Sum(f, U), over)}
<1>0. IsFiniteSet(D) /\ D \subseteq Nat /\ \A i \in D : f[i] \in Nat  BY DEF Places
<1>1. \A s \in SUBSET D : IsFiniteSet(s) /\ Cardinality(s) \in Nat /\ Sum(f, s) \in Nat
  <2>. TAKE s \in SUBSET D
  <2>1. IsFiniteSet(s) /\ Cardinality(s) \in Nat  BY <1>0, FS_Subset, FS_CardinalityType
  <2>. QED  BY <1>0, <2>1, SumOfNaturals
<1>2. \A i \in D : Sum(f, Above(i)) \in Nat  BY <1>1
<1>3. /\ DOMAIN left = D /\ DOMAIN taken = D
      /\ \A i \in D : left[i] = f[i] - taken[i]
  BY DEF Absorbed
<1>4. \A i \in D : /\ taken[i] = Least(f[i], Most(0, over - Sum(f, Above(i))))
                   /\ taken[i] \in Nat /\ taken[i] <= f[i]
  BY <1>0, <1>2 DEF Least, Most
<1>. HIDE DEF left, taken
<1>5. 0 \in N
  <2>1. \A U \in SUBSET D : Cardinality(U) = 0 => U = {}  BY <1>1, FS_EmptySet
  <2>. QED  BY <2>1, SumOfNone DEF Least
<1>6. ASSUME NEW n \in N PROVE n + 1 \in N
  <2>. SUFFICES ASSUME NEW U \in SUBSET D, Upper(U), Cardinality(U) = n + 1
                PROVE  Sum(taken, U) = Least(Sum(f, U), over)
    OBVIOUS
  <2>1. U # {} /\ U \subseteq Nat  BY <1>0, <1>1, FS_EmptySet
  <2>2. PICK m \in U : \A i \in U : m <= i  BY <2>1, LeastExists
  <2>. DEFINE V == U \ {m}
  <2>3. V = Above(m)  BY <1>0, <2>1, <2>2
  <2>4. Upper(V)  BY <1>0, <2>2, <2>3
  <2>5. Cardinality(V) = n  BY <1>1, <2>2, FS_RemoveElement
  <2>. HIDE DEF V, Above
  <2>6. V \in SUBSET D  BY <2>4
  <2>7. Sum(taken, V) = Least(Sum(f, V), over)  BY <2>4, <2>5, <2>6
  <2>. HIDE DEF N, Upper
  <2>8. Sum(taken, U) = taken[m] + Sum(taken, V)
    <3>1. \A x \in U : taken[x] \in Int  BY <1>4
    <3>. QED  BY <1>1, <2>2, <3>1, SumAdds DEF V
  <2>9. Sum(f, U) = f[m] + Sum(f, V)
    <3>1. \A x \in U : f[x] \in Int  BY <1>0
    <3>. QED  BY <1>1, <2>2, <3>1, SumAdds DEF V
  <2>10. taken[m] = Least(f[m], Most(0, over - Sum(f, V)))  BY <1>4, <2>2, <2>3
  <2>11. f[m] \in Nat /\ Sum(f, V) \in Nat  BY <1>0, <1>1, <2>2, <2>6
  <2>. HIDE DEF Sum
  <2>. QED  BY <2>7, <2>8, <2>9, <2>10, <2>11 DEF Least, Most
<1>7. N = Nat
  <2>. HIDE DEF N
  <2>1. N \in SUBSET Nat  BY DEF N
  <2>. QED  BY <1>5, <1>6, <2>1, EveryNumber
<1>8. Sum(taken, D) = over
  <2>1. Upper(D) /\ Cardinality(D) \in N  BY <1>1, <1>7
  <2>2. Sum(taken, D) = Least(Sum(f, D), over)  BY <2>1
  <2>3. Sum(f, D) \in Nat /\ over <= Sum(f, D)  BY <1>1 DEF Total, SumFunction
  <2>. QED  BY <2>2, <2>3 DEF Least
<1>9. \A i \in D : left[i] \in Nat /\ taken[i] \in Nat /\ f[i] = left[i] + taken[i]
  <2>. TAKE i \in D
  <2>1. f[i] \in Nat /\ taken[i] \in Nat /\ taken[i] <= f[i]  BY <1>0, <1>4
  <2>2. left[i] = f[i] - taken[i]  BY <1>3
  <2>. HIDE DEF D
  <2>. QED  BY <2>1, <2>2
<1>10. Sum(f, D) = Sum(left, D) + Sum(taken, D)
  <2>1. \A i \in D : left[i] \in Int /\ taken[i] \in Int /\ f[i] = left[i] + taken[i]
    BY <1>9
  <2>. QED  BY <1>0, <2>1, SumPlus
<1>11. Sum(left, D) \in Int /\ Sum(f, D) \in Int  BY <1>0, <1>1, <1>9, SumOfNaturals
<1>12. Sum(left, D) = Sum(f, D) - over  BY <1>8, <1>10, <1>11
<1>. QED  BY <1>3, <1>9, <1>12 DEF Total, SumFunction, left

\* The shares of the others and the rest add up.
LEMMA CompletedAddsUp ==
    ASSUME NEW weights, Places(DOMAIN weights), DOMAIN weights # {},
           NEW f, DOMAIN f = Others(weights), \A i \in DOMAIN f : f[i] \in Int, NEW rest \in Int
    PROVE  /\ DOMAIN Completed(weights, f, rest) = DOMAIN weights
           /\ \A i \in DOMAIN f : Completed(weights, f, rest)[i] = f[i]
           /\ Completed(weights, f, rest)[Max(DOMAIN weights)] = rest
           /\ Total(f) \in Int
           /\ Total(Completed(weights, f, rest)) = Total(f) + rest
<1>. DEFINE D == DOMAIN weights
            m == Max(D)
            s == Completed(weights, f, rest)
<1>1. m \in D /\ IsFiniteSet(D)  BY LastPlace DEF Places
<1>2. DOMAIN f = D \ {m} /\ m \notin DOMAIN f /\ DOMAIN f \subseteq D  BY DEF Others
<1>3. /\ DOMAIN s = D /\ \A i \in DOMAIN f : s[i] = f[i]
      /\ s[m] = rest
  BY <1>1, <1>2 DEF Completed
<1>4. \A i \in D : s[i] \in Int  BY <1>2, <1>3 DEF Completed
<1>. HIDE DEF s, m, D
<1>5. SumFunctionOnSet(s, D) = s[m] + SumFunctionOnSet(s, D \ {m})  BY <1>1, <1>4, SumAdds
<1>6. SumFunctionOnSet(s, DOMAIN f) = SumFunctionOnSet(f, DOMAIN f) /\ SumFunctionOnSet(f, DOMAIN f) \in Int
  <2>1. IsFiniteSet(DOMAIN f)  BY <1>1, <1>2, FS_Subset
  <2>. QED  BY <1>3, <2>1, SumSame, SumAdds
<1>7. SumFunctionOnSet(s, D) = SumFunctionOnSet(f, DOMAIN f) + rest  BY <1>2, <1>3, <1>5, <1>6
<1>. QED  BY <1>3, <1>6, <1>7 DEF Total, SumFunction, s, m, D

\* The shares add up to the target; none is negative unless it is; and of the whole
\* each takes its own.
LEMMA RemainderAddsUp ==
    ASSUME NEW weights, Places(DOMAIN weights), DOMAIN weights # {},
           \A i \in DOMAIN weights : weights[i] \in Nat, Total(weights) > 0,
           NEW num \in Int, NEW s \in LastItemRemainder(weights, num, Total(weights), num)
    PROVE  /\ DOMAIN s = DOMAIN weights
           /\ \A i \in DOMAIN s : s[i] \in Int /\ (num >= 0 => s[i] >= 0)
           /\ Total(s) = num
           /\ num = Total(weights) => \A i \in DOMAIN s : s[i] = weights[i]
<1>. DEFINE D == DOMAIN weights
            O == Others(weights)
            den == Total(weights)
            settled(f) == IF num >= 0 /\ Total(f) > num THEN Absorbed(f, Total(f) - num) ELSE f
            rest(g) == IF num >= 0 THEN Most(0, num - Total(g)) ELSE num - Total(g)
<1>1. PICK f \in RawShares(weights, num, den) : s = Completed(weights, settled(f), rest(settled(f)))
  BY DEF LastItemRemainder
<1>2. /\ IsFiniteSet(D) /\ D \subseteq Nat /\ Max(D) \in D
      /\ O = D \ {Max(D)} /\ Places(O)
  BY LastPlace, FS_Subset DEF Places, Others
<1>3. den \in Nat \ {0}
  <2>1. SumFunctionOnSet(weights, D) \in Nat  BY <1>2, SumOfNaturals
  <2>. QED  BY <2>1 DEF Total, SumFunction
<1>. HIDE DEF den
<1>4. /\ DOMAIN f = O
      /\ \A i \in O : f[i] \in Int /\ (num >= 0 => f[i] \in Nat) /\ (num = den => f[i] = weights[i])
  BY <1>3, RawShareNumbers
<1>5. Total(f) \in Int /\ (num >= 0 => Total(f) \in Nat)
  <2>1. SumFunctionOnSet(f, O) \in Int  BY <1>2, <1>4, SumAdds DEF Places
  <2>2. num >= 0 => SumFunctionOnSet(f, O) \in Nat  BY <1>2, <1>4, SumOfNaturals DEF Places
  <2>. QED  BY <1>4, <2>1, <2>2 DEF Total, SumFunction
<1>. DEFINE g == settled(f)
<1>6. /\ DOMAIN g = O /\ \A i \in O : g[i] \in Int /\ (num >= 0 => g[i] \in Nat)
      /\ Total(g) \in Int /\ (num >= 0 => Total(g) <= num)
  <2>1. CASE num >= 0 /\ Total(f) > num
    <3>1. g = Absorbed(f, Total(f) - num)  BY <2>1
    <3>2. Total(f) - num \in Nat /\ Total(f) - num <= Total(f)  BY <1>5, <2>1
    <3>3. /\ DOMAIN Absorbed(f, Total(f) - num) = O
          /\ \A i \in O : Absorbed(f, Total(f) - num)[i] \in Nat
          /\ Total(Absorbed(f, Total(f) - num)) = Total(f) - (Total(f) - num)
      BY <1>2, <1>4, <2>1, <3>2, AbsorbedTakes
    <3>. HIDE DEF g
    <3>. QED  BY <1>5, <2>1, <3>1, <3>3
  <2>2. CASE ~(num >= 0 /\ Total(f) > num)
    <3>1. g = f  BY <2>2
    <3>. HIDE DEF g
    <3>. QED  BY <1>4, <1>5, <2>2, <3>1
  <2>. QED  BY <2>1, <2>2
<1>7. rest(g) = num - Total(g)
  <2>. HIDE DEF g
  <2>. QED  BY <1>6 DEF Most
<1>8. s = Completed(weights, g, rest(g))  BY <1>1
<1>. HIDE DEF g, rest
<1>9. rest(g) \in Int /\ (num >= 0 => rest(g) >= 0)  BY <1>6, <1>7
<1>10. /\ DOMAIN s = D /\ \A i \in O : s[i] = g[i]
       /\ s[Max(D)] = rest(g) /\ Total(s) = Total(g) + rest(g)
  BY <1>6, <1>8, <1>9, CompletedAddsUp
<1>11. \A i \in D : i \in O \/ i = Max(D)  BY <1>2
<1>12. \A i \in D : s[i] \in Int /\ (num >= 0 => s[i] >= 0)  BY <1>6, <1>9, <1>10, <1>11
<1>13. Total(s) = num  BY <1>6, <1>7, <1>9, <1>10
<1>14. ASSUME num = den PROVE \A i \in D : s[i] = weights[i]
  <2>1. /\ SumFunctionOnSet(weights, D) = weights[Max(D)] + SumFunctionOnSet(weights, O)
        /\ SumFunctionOnSet(weights, O) \in Nat
    <3>1. \A x \in D : weights[x] \in Int  OBVIOUS
    <3>2. SumFunctionOnSet(weights, D) = weights[Max(D)] + SumFunctionOnSet(weights, D \ {Max(D)})
      BY <1>2, <3>1, SumAdds
    <3>3. \A x \in O : weights[x] \in Nat  BY <1>2
    <3>4. SumFunctionOnSet(weights, O) \in Nat  BY <1>2, <3>3, SumOfNaturals DEF Places
    <3>. QED  BY <1>2, <3>2, <3>4
  <2>2. SumFunctionOnSet(f, O) = SumFunctionOnSet(weights, O)
    <3>1. \A x \in O : weights[x] \in Int /\ f[x] = weights[x]  BY <1>2, <1>4, <1>14
    <3>. QED  BY <1>2, <3>1, SumSame DEF Places
  <2>3. Total(f) = SumFunctionOnSet(weights, O) /\ den = SumFunctionOnSet(weights, D)
    BY <1>4, <2>2 DEF Total, SumFunction, den
  <2>4. weights[Max(D)] \in Nat  BY <1>2
  <2>5. Total(f) <= num  BY <1>14, <2>1, <2>3, <2>4
  <2>6. g = f  BY <1>5, <2>5 DEF g
  <2>7. rest(g) = weights[Max(D)]  BY <1>7, <1>14, <2>1, <2>3, <2>4, <2>6
  <2>. QED  BY <1>4, <1>10, <1>11, <1>14, <2>6, <2>7
<1>. QED  BY <1>10, <1>12, <1>13, <1>14 DEF den

\* allocate_children keeps the balance, gives what was asked for when it can be paid,
\* and nothing back when it cannot.
LEMMA AllocationKeeps ==
    ASSUME NEW balance \in Nat, NEW requests, Places(DOMAIN requests),
           \A i \in DOMAIN requests : requests[i] \in Nat,
           NEW a \in AllocateChildren(balance, requests)
    PROVE  /\ DOMAIN a.shares = DOMAIN requests
           /\ \A i \in DOMAIN requests : a.shares[i] \in Nat
           /\ a.returned \in Nat /\ Total(a.shares) \in Nat
           /\ Total(a.shares) + a.returned = balance
           /\ IF Total(requests) <= balance THEN \A i \in DOMAIN requests : a.shares[i] = requests[i]
              ELSE a.returned = 0
<1>. DEFINE total == Total(requests)
            paid == Least(balance, total)
<1>1. total \in Nat
  BY SumOfNaturals DEF Total, SumFunction, Places
<1>2. CASE total = 0
  <2>1. a = [shares |-> requests, returned |-> balance]  BY <1>2 DEF AllocateChildren
  <2>. QED  BY <1>1, <1>2, <2>1
<1>3. CASE total # 0
  <2>1. DOMAIN requests # {}
    <3>1. SumFunctionOnSet(requests, DOMAIN requests) # 0  BY <1>3 DEF Total, SumFunction
    <3>. QED  BY <3>1, SumOfNone
  <2>2. PICK s \in LastItemRemainder(requests, paid, total, paid) :
            a = [shares |-> s, returned |-> balance - Total(s)]
    BY <1>3 DEF AllocateChildren
  <2>. HIDE DEF total
  <2>3. paid \in Nat /\ paid <= balance /\ (total <= balance => paid = total)
        /\ (~(total <= balance) => paid = balance)
    BY <1>1 DEF Least
  <2>4. total > 0  BY <1>1, <1>3
  <2>. HIDE DEF paid
  <2>5. /\ DOMAIN s = DOMAIN requests
        /\ \A i \in DOMAIN s : s[i] \in Int /\ (paid >= 0 => s[i] >= 0)
        /\ Total(s) = paid
        /\ paid = total => \A i \in DOMAIN s : s[i] = requests[i]
    BY <2>1, <2>2, <2>3, <2>4, RemainderAddsUp DEF total
  <2>6. a.shares = s /\ a.returned = balance - paid  BY <2>2, <2>5
  <2>. QED  BY <1>1, <2>3, <2>5, <2>6 DEF total
<1>. QED  BY <1>2, <1>3

\* redistribute_pool adds what it has to the balances, takes from none while it has
\* something to give, and leaves debtors alone while others can pay.
LEMMA RedistributionKeeps ==
    ASSUME NEW available \in Int, NEW balances, Places(DOMAIN balances), DOMAIN balances # {},
           \A i \in DOMAIN balances : balances[i] \in Int,
           NEW after \in RedistributePool(available, balances)
    PROVE  /\ DOMAIN after = DOMAIN balances
           /\ \A i \in DOMAIN after : after[i] \in Int
           /\ Total(after) = Total(balances) + available
           /\ available >= 0 => \A i \in DOMAIN after : after[i] >= balances[i]
           /\ (\E j \in DOMAIN after : balances[j] > 0) =>
                  \A i \in DOMAIN after : balances[i] <= 0 => after[i] = balances[i]
<1>. DEFINE D == DOMAIN balances
            positive == {i \in D : balances[i] > 0}
            weights == IF positive # {} THEN [i \in positive |-> balances[i]] ELSE [i \in D |-> 1]
            W == IF positive # {} THEN positive ELSE D
<1>1. PICK s \in LastItemRemainder(weights, available, Total(weights), available) :
          after = [i \in D |-> balances[i] + (IF i \in DOMAIN s THEN s[i] ELSE 0)]
  BY DEF RedistributePool
<1>2. IsFiniteSet(D) /\ D \subseteq Nat /\ W \subseteq D /\ W # {}  BY DEF Places
<1>3. Places(W)  BY <1>2, FS_Subset DEF Places
<1>4. DOMAIN weights = W /\ \A i \in W : weights[i] \in Nat /\ weights[i] > 0
  <2>1. CASE positive # {}  BY <2>1
  <2>2. CASE positive = {}  BY <2>2
  <2>. QED  BY <2>1, <2>2
<1>5. positive # {} => \A i \in D : balances[i] <= 0 => i \notin W  OBVIOUS
<1>6. (\E j \in D : balances[j] > 0) => positive # {}  OBVIOUS
<1>. HIDE DEF weights, W, positive
<1>7. Total(weights) > 0
  <2>1. PICK i \in W : TRUE  BY <1>2
  <2>2. weights[i] > 0 /\ weights[i] <= SumFunctionOnSet(weights, W) /\ weights[i] \in Nat
        /\ SumFunctionOnSet(weights, W) \in Nat
    BY <1>3, <1>4, SumOfNaturals DEF Places
  <2>3. SumFunctionOnSet(weights, W) > 0  BY <2>2
  <2>. QED  BY <1>4, <2>3 DEF Total, SumFunction
<1>8. /\ DOMAIN s = W
      /\ \A i \in W : s[i] \in Int /\ (available >= 0 => s[i] >= 0)
      /\ Total(s) = available
  BY <1>1, <1>2, <1>3, <1>4, <1>7, RemainderAddsUp
<1>. DEFINE share == [i \in D |-> IF i \in W THEN s[i] ELSE 0]
<1>9. \A i \in D : after[i] = balances[i] + share[i] /\ share[i] \in Int
  BY <1>1, <1>8
<1>10. \A i \in D : /\ i \in W => share[i] = s[i]
                    /\ i \notin W => share[i] = 0
                    /\ available >= 0 => share[i] >= 0
  BY <1>8
<1>. HIDE DEF share
<1>11. DOMAIN after = D  BY <1>1
<1>12. SumFunctionOnSet(after, D) = SumFunctionOnSet(balances, D) + SumFunctionOnSet(share, D)
  BY <1>2, <1>9, SumPlus
<1>13. SumFunctionOnSet(share, D) = available
  <2>. DEFINE Z == D \ W
  <2>1. D = W \union Z /\ W \intersect Z = {}  BY <1>2
  <2>2. IsFiniteSet(W) /\ IsFiniteSet(Z) /\ Z \subseteq D  BY <1>2, FS_Subset
  <2>3. \A i \in Z : share[i] = 0  BY <1>10
  <2>. HIDE DEF Z
  <2>4. SumFunctionOnSet(share, W \union Z) = SumFunctionOnSet(share, W) + SumFunctionOnSet(share, Z)
    BY <1>9, <2>1, <2>2, SumUnion
  <2>5. SumFunctionOnSet(share, W) = SumFunctionOnSet(s, W) /\ SumFunctionOnSet(s, W) \in Int
    <3>1. \A i \in W : s[i] \in Int /\ share[i] = s[i]  BY <1>2, <1>8, <1>10
    <3>. QED  BY <2>2, <3>1, SumSame, SumAdds
  <2>6. SumFunctionOnSet(share, Z) = 0
    <3>. DEFINE P == {t \in SUBSET Z : SumFunctionOnSet(share, t) = 0}
    <3>1. {} \in P  BY SumOfNone
    <3>2. ASSUME NEW t \in P, NEW x \in Z \ t  PROVE t \union {x} \in P
      <4>1. SumFunctionOnSet(share, t \union {x}) = share[x] + SumFunctionOnSet(share, t)
        BY <2>2, <2>3, SumInsert
      <4>. QED  BY <2>3, <4>1
    <3>3. Z \in P
      <4>. HIDE DEF P
      <4>1. P \in SUBSET SUBSET Z  BY DEF P
      <4>. QED  BY <2>2, <3>1, <3>2, <4>1, EverySubset
    <3>. QED  BY <3>3
  <2>7. SumFunctionOnSet(s, W) = available  BY <1>8 DEF Total, SumFunction
  <2>. QED  BY <2>1, <2>4, <2>5, <2>6, <2>7
<1>14. Total(after) = Total(balances) + available
  BY <1>11, <1>12, <1>13 DEF Total, SumFunction
<1>15. \A i \in D : after[i] \in Int /\ (available >= 0 => after[i] >= balances[i])
  BY <1>9, <1>10
<1>16. ASSUME \E j \in D : balances[j] > 0, NEW i \in D, balances[i] <= 0
       PROVE  after[i] = balances[i]
  BY <1>5, <1>6, <1>9, <1>10, <1>16
<1>. QED  BY <1>11, <1>14, <1>15, <1>16

(***************************************************************************)
(* Which delegations are accepted                                          *)
(***************************************************************************)

\* The calls that are reserved before each edge, as the verdicts count them.
OneMore(r, edges, depth, started, i) ==
    IF i = 0 THEN 0
    ELSE r[i - 1] + (IF Reason(i, edges[i].live, depth, started + r[i - 1]) = None THEN 1 ELSE 0)
ReservesUpTo(r, edges, depth, started, n) ==
    r = [i \in 0 .. n |-> OneMore(r, edges, depth, started, i)]

CountedBy(r, edges, depth, started) ==
    /\ ReservesUpTo(r, edges, depth, started, Len(edges))
    /\ Verdicts(edges, depth, started) =
           [i \in DOMAIN edges |-> Reason(i, edges[i].live, depth, started + r[i - 1])]

LEMMA VerdictsReserve ==
    ASSUME NEW edges, Len(edges) \in Nat, NEW depth, NEW started
    PROVE  \E r : CountedBy(r, edges, depth, started)
<1>. DEFINE Reserves(r, n) == ReservesUpTo(r, edges, depth, started, n)
            N == {n \in Nat : \E r : Reserves(r, n)}
<1>1. 0 \in N
  <2>. DEFINE r == [i \in 0 .. 0 |-> 0]
  <2>1. r = [i \in 0 .. 0 |-> OneMore(r, edges, depth, started, i)]  BY DEF OneMore
  <2>. HIDE DEF r
  <2>2. Reserves(r, 0)  BY <2>1 DEF ReservesUpTo
  <2>. QED  BY <2>2
<1>2. ASSUME NEW n \in N PROVE n + 1 \in N
  <2>1. PICK r : Reserves(r, n)  OBVIOUS
  <2>. DEFINE h == [i \in 0 .. n + 1 |-> OneMore(r, edges, depth, started, i)]
  <2>2. \A i \in 0 .. n : r[i] = OneMore(r, edges, depth, started, i)  BY <2>1 DEF ReservesUpTo
  <2>3. \A i \in 0 .. n : i \in 0 .. n + 1 /\ h[i] = r[i]  BY <2>2
  <2>4. \A i \in 0 .. n + 1 : i # 0 => i - 1 \in 0 .. n  OBVIOUS
  <2>5. \A i \in 0 .. n + 1 : OneMore(r, edges, depth, started, i) = OneMore(h, edges, depth, started, i)
    <3>. HIDE DEF h
    <3>. QED  BY <2>3, <2>4 DEF OneMore
  <2>6. h = [i \in 0 .. n + 1 |-> OneMore(h, edges, depth, started, i)]
    <3>1. h = [i \in 0 .. n + 1 |-> OneMore(r, edges, depth, started, i)]  OBVIOUS
    <3>. HIDE DEF h
    <3>. QED  BY <2>5, <3>1
  <2>. HIDE DEF h
  <2>7. Reserves(h, n + 1)  BY <2>6 DEF ReservesUpTo
  <2>. QED  BY <2>7
<1>3. Len(edges) \in N
  <2>. HIDE DEF N
  <2>1. N \in SUBSET Nat  BY DEF N
  <2>. QED  BY <1>1, <1>2, <2>1, EveryNumber
<1>. DEFINE reserved == CHOOSE r : Reserves(r, Len(edges))
<1>4. Reserves(reserved, Len(edges))  BY <1>3
<1>5. Verdicts(edges, depth, started) =
          [i \in DOMAIN edges |-> Reason(i, edges[i].live, depth, started + reserved[i - 1])]
  BY DEF Verdicts, ReservesUpTo, OneMore
<1>. HIDE DEF reserved
<1>6. CountedBy(reserved, edges, depth, started)  BY <1>4, <1>5 DEF CountedBy
<1>. QED  BY <1>6

\* The edges that neither a structural limit nor a missing agent excludes.
Eligible(edges, depth) ==
    {i \in DOMAIN edges : i <= MaxDelegations /\ depth < MaxDepth /\ edges[i].live}
UpTo(S, i) == {j \in S : j <= i}
Room(started) == Most(0, MaxCalls - started)

LEMMA NoReason ==
    ASSUME NEW i \in Nat, NEW live \in BOOLEAN, NEW depth \in Nat, NEW begun \in Nat
    PROVE  Reason(i, live, depth, begun) = None <=>
               i <= MaxDelegations /\ depth < MaxDepth /\ live /\ begun < MaxCalls
<1>. USE LimitsArePositive
<1>1. CASE i > MaxDelegations  BY <1>1 DEF Reason, None
<1>2. CASE i <= MaxDelegations /\ depth >= MaxDepth  BY <1>2 DEF Reason, None
<1>3. CASE i <= MaxDelegations /\ depth < MaxDepth /\ ~live
  BY <1>3 DEF Reason, None, Unavailable
<1>4. CASE i <= MaxDelegations /\ depth < MaxDepth /\ live /\ begun >= MaxCalls
  BY <1>4 DEF Reason, None, CallLimit
<1>5. CASE i <= MaxDelegations /\ depth < MaxDepth /\ live /\ begun < MaxCalls
  BY <1>5 DEF Reason, None
<1>. QED  BY <1>1, <1>2, <1>3, <1>4, <1>5

\* The edges accepted are the first of those for which there is room.
LEMMA FirstAreAccepted ==
    ASSUME NEW edges \in Seq([live : BOOLEAN, credits : Nat]), NEW depth \in Nat, NEW started \in Nat
    PROVE  Accepted(Verdicts(edges, depth, started)) =
               {i \in Eligible(edges, depth) :
                   Cardinality(UpTo(Eligible(edges, depth), i)) <= Room(started)}
<1>. DEFINE n == Len(edges)
            E == Eligible(edges, depth)
            C(i) == Cardinality(UpTo(E, i))
            room == Room(started)
<1>1. n \in Nat /\ DOMAIN edges = 1 .. n  BY LenProperties
<1>. HIDE DEF n
<1>2. \A i \in 1 .. n : edges[i].live \in BOOLEAN
  <2>1. \A i \in 1 .. n : edges[i] \in [live : BOOLEAN, credits : Nat]
    BY <1>1, ElementOfSeq DEF n
  <2>. QED  BY <2>1
<1>3. PICK r : CountedBy(r, edges, depth, started)  BY <1>1, VerdictsReserve DEF n
<1>17. /\ \A i \in 0 .. n : r[i] = OneMore(r, edges, depth, started, i)
       /\ Verdicts(edges, depth, started) =
              [i \in DOMAIN edges |-> Reason(i, edges[i].live, depth, started + r[i - 1])]
  BY <1>3 DEF CountedBy, ReservesUpTo, n
<1>4. room \in Nat /\ \A k \in Nat : (started + k < MaxCalls <=> k < room)
  BY LimitsArePositive DEF Room, Most
<1>5. E \subseteq 1 .. n /\ IsFiniteSet(E)
  <2>1. E \subseteq 1 .. n  BY <1>1 DEF Eligible
  <2>2. IsFiniteSet(1 .. n)  BY <1>1, FS_Interval
  <2>. HIDE DEF E
  <2>. QED  BY <2>1, <2>2, FS_Subset
<1>6. \A i \in 1 .. n : i \in E <=> i <= MaxDelegations /\ depth < MaxDepth /\ edges[i].live
  BY <1>1 DEF Eligible
<1>18. E \subseteq Int /\ \A j \in E : ~(j <= 0)  BY <1>1, <1>5
<1>. HIDE DEF E, room
<1>7. C(0) = 0
  <2>1. \A j : j \notin UpTo(E, 0)  BY <1>18 DEF UpTo
  <2>2. UpTo(E, 0) = {}  BY <2>1
  <2>. QED  BY <2>2, FS_EmptySet
<1>8. \A i \in 0 .. n : C(i) \in Nat
  <2>1. \A i \in 0 .. n : UpTo(E, i) \in SUBSET E  BY DEF UpTo
  <2>. QED  BY <1>5, <2>1, FS_Subset, FS_CardinalityType
<1>9. \A i \in 1 .. n : C(i) = C(i - 1) + (IF i \in E THEN 1 ELSE 0)
  <2>. TAKE i \in 1 .. n
  <2>0. i \in Int /\ \A j \in E : j <= i <=> (j <= i - 1 \/ j = i)  BY <1>1, <1>18
  <2>1. IsFiniteSet(UpTo(E, i - 1))
    <3>1. UpTo(E, i - 1) \in SUBSET E  BY DEF UpTo
    <3>. QED  BY <1>5, <3>1, FS_Subset
  <2>2. CASE i \in E
    <3>1. i \notin UpTo(E, i - 1)  BY <2>0 DEF UpTo
    <3>2. \A j : j \in UpTo(E, i) <=> j \in UpTo(E, i - 1) \union {i}  BY <2>0, <2>2 DEF UpTo
    <3>3. UpTo(E, i) = UpTo(E, i - 1) \union {i}  BY <3>2
    <3>. QED  BY <2>1, <2>2, <3>1, <3>3, FS_AddElement
  <2>3. CASE i \notin E
    <3>1. UpTo(E, i) = UpTo(E, i - 1)  BY <1>18, <2>0, <2>3 DEF UpTo
    <3>. QED
      <4>1. C(i - 1) \in Nat  BY <1>1, <1>8
      <4>. QED  BY <2>3, <3>1, <4>1
  <2>. QED  BY <2>2, <2>3
<1>. HIDE DEF C
<1>10. \A i \in 1 .. n : \A k \in Nat :
           Reason(i, edges[i].live, depth, started + k) = None <=> i \in E /\ k < room
  <2>. TAKE i \in 1 .. n
  <2>. TAKE k \in Nat
  <2>1. i \in Nat /\ edges[i].live \in BOOLEAN /\ started + k \in Nat  BY <1>1, <1>2
  <2>2. Reason(i, edges[i].live, depth, started + k) = None <=>
            i <= MaxDelegations /\ depth < MaxDepth /\ edges[i].live /\ started + k < MaxCalls
    BY <2>1, NoReason
  <2>. QED  BY <1>4, <1>6, <2>2
<1>. DEFINE N == {m \in Nat : m <= n => r[m] = Least(C(m), room)}
<1>11. 0 \in N
  <2>1. r[0] = 0  BY <1>1, <1>17 DEF OneMore
  <2>. QED  BY <1>4, <1>7, <2>1 DEF Least
<1>12. ASSUME NEW m \in N PROVE m + 1 \in N
  <2>. SUFFICES ASSUME m + 1 <= n PROVE r[m + 1] = Least(C(m + 1), room)  OBVIOUS
  <2>1. m + 1 \in 1 .. n /\ m \in 0 .. n /\ m + 1 \in 0 .. n /\ (m + 1) - 1 = m  BY <1>1
  <2>2. r[m] = Least(C(m), room) /\ C(m) \in Nat  BY <1>8, <2>1
  <2>3. r[m] \in Nat /\ (r[m] < room <=> C(m) < room)  BY <1>4, <2>2 DEF Least
  <2>. HIDE DEF N
  <2>4. r[m + 1] = r[m] + (IF m + 1 \in E /\ r[m] < room THEN 1 ELSE 0)
    <3>1. r[m + 1] = r[m] + (IF Reason(m + 1, edges[m + 1].live, depth, started + r[m]) = None
                             THEN 1 ELSE 0)
      BY <1>17, <2>1 DEF OneMore
    <3>2. Reason(m + 1, edges[m + 1].live, depth, started + r[m]) = None <=> m + 1 \in E /\ r[m] < room
      BY <1>10, <2>1, <2>3
    <3>. QED  BY <3>1, <3>2
  <2>5. C(m + 1) = C(m) + (IF m + 1 \in E THEN 1 ELSE 0)  BY <1>9, <2>1
  <2>. QED  BY <1>4, <2>2, <2>3, <2>4, <2>5 DEF Least
<1>13. N = Nat
  <2>. HIDE DEF N
  <2>1. N \in SUBSET Nat  BY DEF N
  <2>. QED  BY <1>11, <1>12, <2>1, EveryNumber
<1>14. ASSUME NEW i \in 1 .. n
       PROVE  Verdicts(edges, depth, started)[i] = None <=> i \in E /\ C(i) <= room
  <2>1. i - 1 \in Nat /\ i - 1 <= n /\ i - 1 \in 0 .. n  BY <1>1
  <2>2. r[i - 1] = Least(C(i - 1), room) /\ C(i - 1) \in Nat  BY <1>8, <1>13, <2>1
  <2>3. r[i - 1] \in Nat /\ (r[i - 1] < room <=> C(i - 1) < room)  BY <1>4, <2>2 DEF Least
  <2>4. Verdicts(edges, depth, started)[i] = None <=> i \in E /\ r[i - 1] < room
    <3>1. Verdicts(edges, depth, started)[i] = Reason(i, edges[i].live, depth, started + r[i - 1])
      BY <1>1, <1>17
    <3>. QED  BY <1>10, <2>3, <3>1
  <2>5. i \in E => C(i) = C(i - 1) + 1  BY <1>9
  <2>. QED  BY <1>4, <2>2, <2>3, <2>4, <2>5
<1>15. DOMAIN Verdicts(edges, depth, started) = 1 .. n  BY <1>1, <1>17
<1>16. Accepted(Verdicts(edges, depth, started)) = {i \in E : C(i) <= room}
  BY <1>5, <1>14, <1>15 DEF Accepted
<1>. QED  BY <1>16 DEF C, E, room

\* The turns that agents answer with ask for credits; what a plan was asked for.
Asked(p, edges) == [i \in p.children |-> edges[i].credits]
EdgesOK(edges) == edges \in Seq([live : BOOLEAN, credits : Nat])

\* The edges accepted have places, and each asks for something.
LEMMA AcceptedPlaces ==
    ASSUME NEW edges, EdgesOK(edges), NEW depth, NEW started
    PROVE  LET A == Accepted(Verdicts(edges, depth, started))
           IN /\ Places(A) /\ A \subseteq DOMAIN edges
              /\ DOMAIN Verdicts(edges, depth, started) = DOMAIN edges
              /\ \A i \in A : edges[i].credits \in Nat
<1>. DEFINE V == Verdicts(edges, depth, started)
            A == Accepted(V)
<1>1. DOMAIN V = DOMAIN edges  BY DEF Verdicts
<1>2. Len(edges) \in Nat /\ DOMAIN edges = 1 .. Len(edges)  BY LenProperties DEF EdgesOK
<1>. HIDE DEF V
<1>3. A \subseteq 1 .. Len(edges)  BY <1>1, <1>2 DEF Accepted
<1>4. IsFiniteSet(1 .. Len(edges))  BY <1>2, FS_Interval
<1>. HIDE DEF A
<1>5. Places(A)
  <2>1. A \in SUBSET (1 .. Len(edges)) /\ A \subseteq Nat  BY <1>2, <1>3
  <2>2. IsFiniteSet(A)  BY <1>4, <2>1, FS_Subset
  <2>. QED  BY <2>1, <2>2 DEF Places
<1>6. \A i \in 1 .. Len(edges) : edges[i] \in [live : BOOLEAN, credits : Nat]
  BY <1>2, ElementOfSeq DEF EdgesOK
<1>. QED  BY <1>1, <1>2, <1>3, <1>5, <1>6 DEF A, V

\* What the children of a plan get and what the pool gets back are numbers; of a
\* parent that is not in debt they are all it has, and none is negative.
LEMMA PlanKeepsCredits ==
    ASSUME NEW edges, EdgesOK(edges), NEW depth, NEW started, NEW credits \in Int,
           NEW p \in Plans(edges, depth, credits, started)
    PROVE  /\ DOMAIN p.share = p.children /\ Places(p.children) /\ p.children \subseteq DOMAIN edges
           /\ \A i \in p.children : p.share[i] \in Int
           /\ p.poolReturn \in Int
           /\ credits >= 0 /\ p.children # {} =>
                  /\ Total(p.share) + p.poolReturn = credits
                  /\ Total(p.share) \in Int
                  /\ p.poolReturn >= 0
                  /\ \A i \in p.children : p.share[i] >= 0
                  /\ IF Total(Asked(p, edges)) <= credits THEN p.share = Asked(p, edges)
                     ELSE p.poolReturn = 0
<1>. DEFINE V == Verdicts(edges, depth, started)
            A == Accepted(V)
            asked == [i \in A |-> edges[i].credits]
<1>1. PICK f \in Funded(edges, V, credits) :
          /\ p.children = A /\ p.share = f.share
          /\ p.poolReturn = IF A = {} THEN 0 ELSE f.returned
  BY DEF Plans
<1>2. PICK a \in AllocateChildren(credits, asked) :
          /\ f.share = [i \in A |-> IF i \in DOMAIN a.shares THEN a.shares[i] ELSE 0]
          /\ f.returned = a.returned
  <2>. DEFINE share(a) == [i \in A |-> IF i \in DOMAIN a.shares THEN a.shares[i] ELSE 0]
  <2>1. PICK a \in AllocateChildren(credits, asked) : f = [share |-> share(a), returned |-> a.returned]
    BY DEF Funded
  <2>. HIDE DEF share
  <2>2. f.share = share(a) /\ f.returned = a.returned  BY <2>1
  <2>. QED  BY <2>2 DEF share
<1>3. Places(A) /\ A \subseteq DOMAIN edges /\ \A i \in A : edges[i].credits \in Nat
  BY AcceptedPlaces
<1>4. DOMAIN asked = A /\ \A i \in A : asked[i] = edges[i].credits  OBVIOUS
<1>. HIDE DEF A, asked
<1>5. CASE credits < 0
  <2>1. a = [shares |-> <<>>, returned |-> 0]  BY <1>5 DEF AllocateChildren
  <2>2. DOMAIN a.shares = {} /\ a.returned = 0  BY <2>1
  <2>3. DOMAIN p.share = A /\ \A i \in A : p.share[i] = 0  BY <1>1, <1>2, <2>2
  <2>4. p.poolReturn = 0  BY <1>1, <1>2, <2>2
  <2>. QED  BY <1>1, <1>3, <1>5, <2>3, <2>4
<1>6. CASE credits >= 0
  <2>1. \A i \in DOMAIN asked : asked[i] \in Nat  BY <1>3, <1>4
  <2>2. /\ DOMAIN a.shares = A
        /\ \A i \in A : a.shares[i] \in Nat
        /\ a.returned \in Nat /\ Total(a.shares) \in Nat
        /\ Total(a.shares) + a.returned = credits
        /\ IF Total(asked) <= credits THEN \A i \in A : a.shares[i] = asked[i] ELSE a.returned = 0
    BY <1>3, <1>4, <1>6, <2>1, AllocationKeeps
  <2>3. /\ DOMAIN p.share = A
        /\ \A i \in A : p.share[i] = a.shares[i]
    BY <1>1, <1>2, <2>2
  <2>4. Total(p.share) = Total(a.shares)
    <3>1. \A i \in A : a.shares[i] \in Int  BY <2>2
    <3>2. SumFunctionOnSet(p.share, A) = SumFunctionOnSet(a.shares, A)
      BY <1>3, <2>3, <3>1, SumSame DEF Places
    <3>. QED  BY <2>2, <2>3, <3>2 DEF Total, SumFunction
  <2>5. p.poolReturn = IF A = {} THEN 0 ELSE a.returned  BY <1>1, <1>2
  <2>6. p.poolReturn \in Int /\ (A # {} => p.poolReturn = a.returned)  BY <2>2, <2>5
  <2>7. Total(asked) <= credits => p.share = asked
    <3>. SUFFICES ASSUME Total(asked) <= credits PROVE p.share = asked  OBVIOUS
    <3>1. \A i \in A : p.share[i] = asked[i]  BY <2>2, <2>3
    <3>2. p.share = [i \in A |-> p.share[i]] /\ asked = [i \in A |-> asked[i]]
      BY <1>1, <1>2 DEF asked
    <3>. QED  BY <3>1, <3>2
  <2>8. ASSUME A # {}
        PROVE  /\ Total(p.share) + p.poolReturn = credits
               /\ Total(p.share) \in Int
               /\ p.poolReturn >= 0
               /\ \A i \in A : p.share[i] >= 0
               /\ IF Total(asked) <= credits THEN p.share = asked ELSE p.poolReturn = 0
    BY <2>2, <2>3, <2>4, <2>6, <2>7, <2>8
  <2>9. asked = Asked(p, edges)  BY <1>1 DEF asked, Asked
  <2>. QED  BY <1>1, <1>3, <2>2, <2>3, <2>6, <2>8, <2>9
<1>. QED  BY <1>5, <1>6

\* Why an edge is rejected that a later turn may delegate after all.
LEMMA OnlyUnavailable ==
    ASSUME NEW i \in Nat, NEW live, NEW depth \in Nat, NEW begun,
           Reason(i, live, depth, begun) \notin
               {None, CallLimit, "branch_depth_exceeded", "delegation_limit_exceeded"}
    PROVE  i <= MaxDelegations /\ depth < MaxDepth /\ ~live
<1>1. i <= MaxDelegations
  <2>1. ASSUME i > MaxDelegations PROVE FALSE
    <3>1. Reason(i, live, depth, begun) = "delegation_limit_exceeded"
      BY <2>1, LimitsArePositive DEF Reason
    <3>. QED  BY <3>1
  <2>. QED  BY <2>1, LimitsArePositive
<1>. QED  BY LimitsArePositive DEF Reason

\* A turn that asks for work leaves one way on.
LEMMA PlanLeavesOneWay ==
    ASSUME NEW edges, EdgesOK(edges), edges # <<>>, NEW depth \in Nat, NEW started \in Nat,
           NEW credits, NEW p \in Plans(edges, depth, credits, started)
    PROVE  LET ways == [children |-> p.children # {}, retry |-> Retries(p), end |-> p.blocking # None]
           IN /\ Cardinality({w \in DOMAIN ways : ways[w]}) = 1
              /\ Cardinality(p.retires) = IF ways.children THEN 1 ELSE 0
              /\ Retries(p) => /\ p.callsAfter <= MaxCalls
                               /\ depth < MaxDepth
                               /\ \A i \in DOMAIN edges : i <= MaxDelegations /\ ~edges[i].live
<1>. DEFINE V == Verdicts(edges, depth, started)
            A == Accepted(V)
            ways == [children |-> p.children # {}, retry |-> Retries(p), end |-> p.blocking # None]
<1>1. /\ p.children = A /\ p.rejected = DOMAIN edges \ A
      /\ p.retires = {i \in A : \A j \in A : i <= j}
      /\ p.blocking = Blocking(V, started)
      /\ p.callsAfter = started + (IF edges # <<>> /\ A = {} /\ Blocking(V, started) = None
                                   THEN 1 ELSE Cardinality(A))
  BY DEF Plans
<1>2. Places(A) /\ A \subseteq DOMAIN edges /\ DOMAIN V = DOMAIN edges  BY AcceptedPlaces
<1>3. Len(edges) \in Nat /\ DOMAIN edges = 1 .. Len(edges) /\ Len(edges) # 0
  BY LenProperties, EmptySeq DEF EdgesOK
<1>4. 1 \in DOMAIN edges  BY <1>3
<1>5. V # <<>>
  <2>1. DOMAIN V # DOMAIN <<>>  BY <1>2, <1>4
  <2>. QED  BY <2>1
<1>6. A # {} => p.blocking = None /\ ~Retries(p)  BY <1>1 DEF Blocking, Retries, AllRejected
<1>7. A = {} => (Retries(p) <=> p.blocking = None)  BY <1>1, <1>4 DEF Retries, AllRejected
<1>8. Cardinality({w \in DOMAIN ways : ways[w]}) = 1
  <2>1. DOMAIN ways = {"children", "retry", "end"}  OBVIOUS
  <2>2. (ways["children"] <=> A # {}) /\ (ways["retry"] <=> Retries(p))
        /\ (ways["end"] <=> p.blocking # None)
    BY <1>1
  <2>. HIDE DEF ways, A
  <2>3. PICK w : {u \in DOMAIN ways : ways[u]} = {w}
    <3>1. CASE A # {}
      <4>1. {u \in DOMAIN ways : ways[u]} = {"children"}  BY <1>6, <2>1, <2>2, <3>1
      <4>. QED  BY <4>1
    <3>2. CASE A = {} /\ p.blocking = None
      <4>1. {u \in DOMAIN ways : ways[u]} = {"retry"}  BY <1>7, <2>1, <2>2, <3>2
      <4>. QED  BY <4>1
    <3>3. CASE A = {} /\ p.blocking # None
      <4>1. {u \in DOMAIN ways : ways[u]} = {"end"}  BY <1>7, <2>1, <2>2, <3>3
      <4>. QED  BY <4>1
    <3>. QED  BY <3>1, <3>2, <3>3
  <2>. QED  BY <2>3, FS_Singleton
<1>9. Cardinality(p.retires) = IF p.children # {} THEN 1 ELSE 0
  <2>. HIDE DEF A
  <2>1. CASE A = {}
    <3>1. p.retires = {}  BY <1>1, <2>1
    <3>. QED  BY <1>1, <2>1, <3>1, FS_EmptySet
  <2>2. CASE A # {}
    <3>1. A \subseteq Nat  BY <1>2 DEF Places
    <3>2. PICK m \in A : \A x \in A : m <= x  BY <2>2, <3>1, LeastExists
    <3>3. \A x \in p.retires : x \in A /\ x <= m /\ m <= x  BY <1>1, <3>2
    <3>4. ASSUME NEW x \in p.retires  PROVE x = m
      <4>1. x \in Nat /\ m \in Nat /\ x <= m /\ m <= x  BY <3>1, <3>3
      <4>. QED  BY <4>1
    <3>5. m \in p.retires  BY <1>1, <3>2
    <3>6. p.retires = {m}  BY <3>4, <3>5
    <3>. QED  BY <1>1, <2>2, <3>6, FS_Singleton
  <2>. QED  BY <2>1, <2>2
<1>10. ASSUME Retries(p)
       PROVE  /\ p.callsAfter <= MaxCalls /\ depth < MaxDepth
              /\ \A i \in DOMAIN edges : i <= MaxDelegations /\ ~edges[i].live
  <2>1. A = {} /\ Blocking(V, started) = None  BY <1>1, <1>6, <1>7, <1>10
  <2>2. FinalReasons(V) = {} /\ ~(started + 1 > MaxCalls)
    <3>1. CASE FinalReasons(V) # {}
      <4>1. Min(FinalReasons(V)) \in {1, 2, 3}
        <5>1. DOMAIN Deterministic = {1, 2, 3}  BY DEF Deterministic
        <5>2. FinalReasons(V) \subseteq DOMAIN Deterministic  BY DEF FinalReasons
        <5>3. FinalReasons(V) \in SUBSET Nat  BY <5>1, <5>2
        <5>. QED  BY <3>1, <5>1, <5>2, <5>3, FirstPlace
      <4>2. Deterministic[Min(FinalReasons(V))] # None
        <5>1. Deterministic[1] # None /\ Deterministic[2] # None /\ Deterministic[3] # None
          BY DEF Deterministic, CallLimit, None
        <5>. QED  BY <4>1, <5>1
      <4>. QED  BY <1>5, <2>1, <3>1, <4>2 DEF Blocking
    <3>2. CASE FinalReasons(V) = {}
      <4>1. CallLimit # None  BY DEF CallLimit, None
      <4>. QED  BY <1>5, <2>1, <3>2, <4>1 DEF Blocking
    <3>. QED  BY <3>1, <3>2
  <2>3. p.callsAfter <= MaxCalls  BY <1>1, <2>1, <2>2, LimitsArePositive
  <2>4. \A i \in DOMAIN edges : V[i] \notin {None, CallLimit, "branch_depth_exceeded",
                                             "delegation_limit_exceeded"}
    <3>. TAKE i \in DOMAIN edges
    <3>1. V[i] # None  BY <1>2, <2>1 DEF Accepted
    <3>2. \A k \in DOMAIN Deterministic : V[i] # Deterministic[k]  BY <1>2, <2>2 DEF FinalReasons
    <3>3. /\ 1 \in DOMAIN Deterministic /\ Deterministic[1] = CallLimit
          /\ 2 \in DOMAIN Deterministic /\ Deterministic[2] = "branch_depth_exceeded"
          /\ 3 \in DOMAIN Deterministic /\ Deterministic[3] = "delegation_limit_exceeded"
      BY DEF Deterministic
    <3>. QED  BY <3>1, <3>2, <3>3
  <2>5. PICK r : CountedBy(r, edges, depth, started)  BY <1>3, VerdictsReserve
  <2>6. \A i \in DOMAIN edges : i <= MaxDelegations /\ depth < MaxDepth /\ ~edges[i].live
    <3>. TAKE i \in DOMAIN edges
    <3>. DEFINE begun == started + r[i - 1]
    <3>1. V[i] = Reason(i, edges[i].live, depth, begun)  BY <2>5 DEF CountedBy
    <3>2. i \in Nat  BY <1>3
    <3>. HIDE DEF V, begun
    <3>3. V[i] \notin {None, CallLimit, "branch_depth_exceeded", "delegation_limit_exceeded"}
      BY <2>4
    <3>. QED  BY <3>1, <3>2, <3>3, OnlyUnavailable
  <2>. QED  BY <1>4, <2>3, <2>6
<1>. QED  BY <1>8, <1>9, <1>10

(***************************************************************************)
(* The call that plans, and the one that redistributes                     *)
(***************************************************************************)

\* What is planned is a plan of the arguments, and what is spread a redistribution.
PlanningInv ==
    /\ args \in Requests \union Spreads
    /\ \A p \in plans : args \in Requests /\ p \in Plans(args.edges, args.depth, args.credits, args.started)
    /\ \A b \in spread : args \in Spreads /\ b \in RedistributePool(args.available, args.balances)

LEMMA PlanningInvariant == PlanningSpec => []PlanningInv
<1>1. PlanningInit => PlanningInv  BY DEF PlanningInit, PlanningInv
<1>2. ASSUME PlanningInv, [PlanningNext]_planning PROVE PlanningInv'
  <2>1. CASE Plan  BY <1>2, <2>1 DEF Plan, PlanningInv
  <2>2. CASE Redistribute  BY <1>2, <2>2 DEF Redistribute, PlanningInv
  <2>3. CASE UNCHANGED planning  BY <1>2, <2>3 DEF planning, PlanningInv
  <2>. QED  BY <1>2, <2>1, <2>2, <2>3 DEF PlanningNext
<1>. QED  BY <1>1, <1>2, PTL DEF PlanningSpec

\* The arguments of a call that plans.
LEMMA RequestFields ==
    ASSUME NEW a \in Requests
    PROVE  EdgesOK(a.edges) /\ a.depth \in Nat /\ a.credits \in Nat /\ a.started \in Nat
<1>1. a.edges \in Seq([live : BOOLEAN, credits : Nat]) /\ {a.depth, a.credits, a.started} \subseteq Nat
  BY RequestsAssumption
<1>. QED  BY <1>1 DEF EdgesOK

\* Neither the plan of a turn nor a continue makes or loses credits, and both give
\* them to whom they are due, whatever the rounding (delegation.py, credits.py).
THEOREM PlansKeepCredits == PlanningSpec => []CreditsKept
<1>1. ASSUME PlanningInv PROVE CreditsKept
  <2>1. ASSUME NEW p \in plans, p.children # {}
        PROVE  /\ Total(p.share) + p.poolReturn = args.credits
               /\ p.poolReturn >= 0
               /\ \A i \in p.children : p.share[i] >= 0
               /\ LET asked == [i \in p.children |-> args.edges[i].credits]
                  IN IF Total(asked) <= args.credits THEN p.share = asked ELSE p.poolReturn = 0
    <3>1. args \in Requests /\ p \in Plans(args.edges, args.depth, args.credits, args.started)
      BY <1>1 DEF PlanningInv
    <3>2. EdgesOK(args.edges) /\ args.credits \in Int /\ args.credits >= 0
      BY <3>1, RequestFields
    <3>3. /\ Total(p.share) + p.poolReturn = args.credits
          /\ p.poolReturn >= 0
          /\ \A i \in p.children : p.share[i] >= 0
          /\ IF Total(Asked(p, args.edges)) <= args.credits THEN p.share = Asked(p, args.edges)
             ELSE p.poolReturn = 0
      BY <2>1, <3>1, <3>2, PlanKeepsCredits
    <3>. QED  BY <3>3 DEF Asked
  <2>2. CreditsMoved  BY <2>1 DEF CreditsMoved
  <2>3. RequestsHonoured  BY <2>1 DEF RequestsHonoured
  <2>4. ASSUME NEW after \in spread
        PROVE  /\ Total(after) = Total(args.balances) + args.available
               /\ args.available >= 0 => \A i \in DOMAIN after : after[i] >= args.balances[i]
               /\ (\E j \in DOMAIN after : args.balances[j] > 0) =>
                      \A i \in DOMAIN after : args.balances[i] <= 0 => after[i] = args.balances[i]
    <3>1. args \in Spreads /\ after \in RedistributePool(args.available, args.balances)
      BY <1>1 DEF PlanningInv
    <3>2. args.available \in Int /\ args.balances \in Seq(Int) /\ args.balances # <<>>
      BY <3>1, SpreadsAssumption
    <3>3. PICK n \in Nat : DOMAIN args.balances = 1 .. n /\ n # 0
                           /\ \A i \in 1 .. n : args.balances[i] \in Int
      BY <3>2, LenProperties, EmptySeq, ElementOfSeq
    <3>4. Places(1 .. n) /\ 1 \in 1 .. n  BY <3>3, FS_Interval DEF Places
    <3>. QED  BY <3>1, <3>2, <3>3, <3>4, RedistributionKeeps
  <2>5. PoolSpread  BY <2>4 DEF PoolSpread
  <2>. QED  BY <2>2, <2>3, <2>5 DEF CreditsKept
<1>. QED  BY <1>1, PlanningInvariant, PTL

\* The edges accepted are the first ones for which the call budget has room, of those
\* that no limit and no missing agent excludes (delegation.py, plan_delegations).
THEOREM FirstEdgesFit == PlanningSpec => []FirstThatFit
<1>1. ASSUME PlanningInv PROVE FirstThatFit
  <2>1. ASSUME NEW p \in plans
        PROVE  LET eligible == {i \in DOMAIN args.edges :
                                   i <= MaxDelegations /\ args.depth < MaxDepth /\ args.edges[i].live}
                   room == Most(0, MaxCalls - args.started)
               IN p.children = {i \in eligible : Cardinality({j \in eligible : j <= i}) <= room}
    <3>1. args \in Requests /\ p \in Plans(args.edges, args.depth, args.credits, args.started)
      BY <1>1 DEF PlanningInv
    <3>2. EdgesOK(args.edges) /\ args.depth \in Nat /\ args.started \in Nat  BY <3>1, RequestFields
    <3>3. p.children = Accepted(Verdicts(args.edges, args.depth, args.started))
      BY <3>1 DEF Plans
    <3>4. Accepted(Verdicts(args.edges, args.depth, args.started)) =
              {i \in Eligible(args.edges, args.depth) :
                  Cardinality(UpTo(Eligible(args.edges, args.depth), i)) <= Room(args.started)}
      BY <3>2, FirstAreAccepted DEF EdgesOK
    <3>5. p.children = {i \in Eligible(args.edges, args.depth) :
                  Cardinality(UpTo(Eligible(args.edges, args.depth), i)) <= Room(args.started)}
      BY <3>3, <3>4
    <3>. QED  BY <3>5 DEF Eligible, UpTo, Room
  <2>. QED  BY <2>1 DEF FirstThatFit
<1>. QED  BY <1>1, PlanningInvariant, PTL

\* A turn that asks for work leaves exactly one way on, and what no later turn can
\* change is not tried again (delegation.py, blocking_reason).
THEOREM OneWayIsLeft == PlanningSpec => []OneWayOn
<1>1. ASSUME PlanningInv PROVE OneWayOn
  <2>1. ASSUME NEW p \in plans, args.edges # <<>>
        PROVE  LET ways == [children |-> p.children # {}, retry |-> Retries(p), end |-> p.blocking # None]
               IN /\ Cardinality({w \in DOMAIN ways : ways[w]}) = 1
                  /\ Cardinality(p.retires) = IF ways.children THEN 1 ELSE 0
                  /\ Retries(p) => /\ p.callsAfter <= MaxCalls
                                   /\ args.depth < MaxDepth
                                   /\ \A i \in DOMAIN args.edges :
                                          i <= MaxDelegations /\ ~args.edges[i].live
    <3>1. args \in Requests /\ p \in Plans(args.edges, args.depth, args.credits, args.started)
      BY <1>1 DEF PlanningInv
    <3>2. EdgesOK(args.edges) /\ args.depth \in Nat /\ args.started \in Nat  BY <3>1, RequestFields
    <3>. QED  BY <2>1, <3>1, <3>2, PlanLeavesOneWay
  <2>. QED  BY <2>1 DEF OneWayOn
<1>. QED  BY <1>1, PlanningInvariant, PTL

(***************************************************************************)
(* Paths of branches                                                       *)
(***************************************************************************)

\* What a prefix is, by position.
LEMMA PrefixByPosition ==
    ASSUME NEW a \in Seq(Nat), NEW b \in Seq(Nat)
    PROVE  IsPrefix(a, b) <=> Len(a) <= Len(b) /\ \A i \in 1 .. Len(a) : a[i] = b[i]
<1>1. Len(a) \in Nat /\ Len(b) \in Nat  BY LenProperties
<1>2. CASE ~(Len(a) <= Len(b))  BY <1>2 DEF IsPrefix
<1>3. CASE Len(a) <= Len(b)
  <2>1. /\ SubSeq(a, 1, Len(a)) = [i \in 1 .. Len(a) |-> a[i]]
        /\ SubSeq(b, 1, Len(a)) = [i \in 1 .. Len(a) |-> b[i]]
    BY <1>1, <1>3
  <2>. QED  BY <1>3, <2>1 DEF IsPrefix
<1>. QED  BY <1>2, <1>3

\* A branch and a branch of a child.
LEMMA PathOfChild ==
    ASSUME NEW b \in Branches, NEW i \in Nat
    PROVE  /\ Append(b, i) \in Branches /\ Append(b, i)[1] = b[1]
           /\ Len(Append(b, i)) = Len(b) + 1 /\ Append(b, i)[Len(b) + 1] = i
           /\ \A k \in 1 .. Len(b) : Append(b, i)[k] = b[k]
<1>1. b \in Seq(Nat) /\ b # <<>> /\ Len(b) \in Nat  BY LenProperties DEF Branches
<1>2. Len(b) >= 1  BY <1>1, EmptySeq
<1>3. Append(b, i) \in Seq(Nat) /\ Append(b, i) # <<>>  BY <1>1, AppendProperties
<1>. QED  BY <1>1, <1>2, <1>3, AppendProperties DEF Branches

\* What is apart from a branch is apart from its children, which are apart from one
\* another.
LEMMA ApartFacts ==
    ASSUME NEW b \in Branches, NEW c \in Branches
    PROVE  /\ Apart(b, c) => b # c /\ Apart(c, b)
           /\ b[1] # c[1] => Apart(b, c)
           /\ \A i \in Nat : Apart(b, c) => Apart(Append(b, i), c)
           /\ \A i \in Nat : ~Apart(b, Append(b, i)) /\ ~Apart(Append(b, i), b)
           /\ \A i, k \in Nat : i # k => Apart(Append(b, i), Append(b, k))
           /\ \A i, k \in Nat : Append(b, i) = Append(c, k) => b = c
<1>1. /\ b \in Seq(Nat) /\ c \in Seq(Nat) /\ Len(b) \in Nat /\ Len(c) \in Nat
      /\ Len(b) >= 1 /\ Len(c) >= 1
  BY LenProperties, EmptySeq DEF Branches
<1>2. Apart(b, c) => b # c /\ Apart(c, b)
  BY <1>1, PrefixByPosition DEF Apart
<1>3. b[1] # c[1] => Apart(b, c)
  BY <1>1, PrefixByPosition DEF Apart
<1>4. ASSUME NEW i \in Nat, Apart(b, c)  PROVE Apart(Append(b, i), c)
  <2>. DEFINE d == Append(b, i)
  <2>1. d \in Seq(Nat) /\ Len(d) = Len(b) + 1 /\ \A k \in 1 .. Len(b) : d[k] = b[k]
    BY PathOfChild DEF Branches
  <2>. HIDE DEF d
  <2>2. ~IsPrefix(d, c)
    <3>. SUFFICES ASSUME IsPrefix(d, c) PROVE IsPrefix(b, c)  BY <1>4 DEF Apart
    <3>1. Len(d) <= Len(c) /\ \A k \in 1 .. Len(d) : d[k] = c[k]
      BY <1>1, <2>1, PrefixByPosition
    <3>2. Len(b) <= Len(c) /\ \A k \in 1 .. Len(b) : b[k] = c[k]
      BY <1>1, <2>1, <3>1
    <3>. QED  BY <1>1, <3>2, PrefixByPosition
  <2>3. ~IsPrefix(c, d)
    <3>. SUFFICES ASSUME IsPrefix(c, d) PROVE IsPrefix(c, b) \/ IsPrefix(b, c)
      BY <1>4 DEF Apart
    <3>1. Len(c) <= Len(d) /\ \A k \in 1 .. Len(c) : c[k] = d[k]
      BY <1>1, <2>1, PrefixByPosition
    <3>2. CASE Len(c) <= Len(b)
      <4>1. \A k \in 1 .. Len(c) : c[k] = b[k]  BY <1>1, <2>1, <3>1, <3>2
      <4>. QED  BY <1>1, <3>2, <4>1, PrefixByPosition
    <3>3. CASE Len(c) > Len(b)
      <4>1. Len(b) <= Len(c) /\ \A k \in 1 .. Len(b) : b[k] = c[k]
        BY <1>1, <2>1, <3>1, <3>3
      <4>. QED  BY <1>1, <4>1, PrefixByPosition
    <3>. QED  BY <1>1, <3>2, <3>3
  <2>. QED  BY <2>2, <2>3 DEF Apart, d
<1>5. ASSUME NEW i \in Nat  PROVE IsPrefix(b, Append(b, i))
  <2>. DEFINE d == Append(b, i)
  <2>1. d \in Seq(Nat) /\ Len(d) = Len(b) + 1 /\ \A k \in 1 .. Len(b) : d[k] = b[k]
    BY PathOfChild DEF Branches
  <2>. HIDE DEF d
  <2>2. Len(b) <= Len(d) /\ \A k \in 1 .. Len(b) : b[k] = d[k]  BY <1>1, <2>1
  <2>3. IsPrefix(b, d)  BY <1>1, <2>1, <2>2, PrefixByPosition
  <2>. QED  BY <2>3 DEF d
<1>6. ASSUME NEW i \in Nat, NEW k \in Nat, i # k
      PROVE  Apart(Append(b, i), Append(b, k))
  <2>. DEFINE d == Append(b, i)
              e == Append(b, k)
  <2>1. /\ d \in Seq(Nat) /\ Len(d) = Len(b) + 1 /\ d[Len(b) + 1] = i
        /\ e \in Seq(Nat) /\ Len(e) = Len(b) + 1 /\ e[Len(b) + 1] = k
    BY PathOfChild DEF Branches
  <2>. HIDE DEF d, e
  <2>2. Len(b) + 1 \in 1 .. Len(d) /\ Len(b) + 1 \in 1 .. Len(e)  BY <1>1, <2>1
  <2>3. ~IsPrefix(d, e) /\ ~IsPrefix(e, d)  BY <1>6, <2>1, <2>2, PrefixByPosition
  <2>. QED  BY <2>3 DEF Apart, d, e
<1>7. ASSUME NEW i \in Nat, NEW k \in Nat, Append(b, i) = Append(c, k)  PROVE b = c
  <2>1. Len(b) + 1 = Len(c) + 1
    <3>1. Len(Append(b, i)) = Len(b) + 1 /\ Len(Append(c, k)) = Len(c) + 1
      BY PathOfChild
    <3>. QED  BY <1>7, <3>1
  <2>2. Len(b) = Len(c)  BY <1>1, <2>1
  <2>3. /\ \A m \in 1 .. Len(b) : Append(b, i)[m] = b[m]
        /\ \A m \in 1 .. Len(c) : Append(c, k)[m] = c[m]
    BY PathOfChild
  <2>4. \A m \in 1 .. Len(b) : b[m] = c[m]  BY <1>7, <2>2, <2>3
  <2>. QED  BY <1>1, <2>2, <2>4, SeqEqual
<1>. QED  BY <1>2, <1>3, <1>4, <1>5, <1>6, <1>7 DEF Apart

\* A branch begins as its children do, and where it is no child's own.
LEMMA PrefixFacts ==
    ASSUME NEW b \in Branches, NEW r \in Branches
    PROVE  /\ \A i \in Nat : IsPrefix(Append(b, i), r) => IsPrefix(b, r) /\ r # b
           /\ IsPrefix(b, r) => b[1] = r[1]
           /\ IsPrefix(b, b)
           /\ b[1] \in Nat
<1>1. /\ b \in Seq(Nat) /\ r \in Seq(Nat) /\ Len(b) \in Nat /\ Len(r) \in Nat
      /\ Len(b) >= 1 /\ Len(r) >= 1
  BY LenProperties, EmptySeq DEF Branches
<1>2. IsPrefix(b, r) => b[1] = r[1]  BY <1>1, PrefixByPosition
<1>3. IsPrefix(b, b)  BY <1>1, PrefixByPosition
<1>4. ASSUME NEW i \in Nat, IsPrefix(Append(b, i), r)  PROVE IsPrefix(b, r) /\ r # b
  <2>. DEFINE d == Append(b, i)
  <2>1. d \in Seq(Nat) /\ Len(d) = Len(b) + 1 /\ \A k \in 1 .. Len(b) : d[k] = b[k]
    BY PathOfChild DEF Branches
  <2>2. IsPrefix(d, r)  BY <1>4
  <2>. HIDE DEF d
  <2>3. Len(d) <= Len(r) /\ \A k \in 1 .. Len(d) : d[k] = r[k]
    BY <1>1, <2>1, <2>2, PrefixByPosition
  <2>4. Len(b) < Len(r)  BY <1>1, <2>1, <2>3
  <2>5. \A k \in 1 .. Len(b) : b[k] = r[k]  BY <1>1, <2>1, <2>3
  <2>6. IsPrefix(b, r)  BY <1>1, <2>4, <2>5, PrefixByPosition
  <2>. QED  BY <1>1, <2>4, <2>6
<1>5. b[1] \in Nat  BY <1>1, ElementOfSeq
<1>. QED  BY <1>2, <1>3, <1>4, <1>5

(***************************************************************************)
(* Plans                                                                   *)
(***************************************************************************)

\* The fields of a plan.
LEMMA PlanFields ==
    ASSUME NEW edges, NEW depth, NEW credits, NEW started,
           NEW p \in Plans(edges, depth, credits, started)
    PROVE  LET A == Accepted(Verdicts(edges, depth, started))
           IN /\ p.children = A /\ p.rejected = DOMAIN edges \ A
              /\ p.retires = {i \in A : \A j \in A : i <= j}
              /\ \E r \in {1, Cardinality(A)} : p.callsAfter = started + r
<1>. DEFINE A == Accepted(Verdicts(edges, depth, started))
<1>1. /\ p.children = A /\ p.rejected = DOMAIN edges \ A
      /\ p.retires = {i \in A : \A j \in A : i <= j}
  BY DEF Plans
<1>2. \E r \in {1, Cardinality(A)} : p.callsAfter = started + r  BY DEF Plans
<1>. QED  BY <1>1, <1>2

\* What the children, the rejected edges and the retiring child of a plan are.
LEMMA PlanShape ==
    ASSUME NEW S, NEW edges \in Seq(S), edges # <<>>,
           NEW depth, NEW credits, NEW started \in Nat,
           NEW p \in Plans(edges, depth, credits, started)
    PROVE  /\ p.children \subseteq Nat /\ p.rejected \subseteq Nat
           /\ p.retires \subseteq p.children
           /\ \A i, k \in p.retires : i = k
           /\ p.children # {} => p.retires # {}
           /\ AllRejected(p) <=> p.children = {}
           /\ p.callsAfter \in Nat
<1>. DEFINE V == Verdicts(edges, depth, started)
            A == Accepted(V)
<1>1. DOMAIN V = DOMAIN edges  BY DEF Verdicts
<1>2. Len(edges) \in Nat /\ DOMAIN edges = 1 .. Len(edges)  BY LenProperties
<1>. HIDE DEF V
<1>3. A \subseteq 1 .. Len(edges)  BY <1>1, <1>2 DEF Accepted
<1>4. IsFiniteSet(A) /\ Cardinality(A) \in Nat
  <2>1. IsFiniteSet(1 .. Len(edges))  BY <1>2, FS_Interval
  <2>. HIDE DEF A
  <2>2. IsFiniteSet(A)  BY <1>3, <2>1, FS_Subset
  <2>. QED  BY <2>2, FS_CardinalityType
<1>. HIDE DEF A
<1>5. /\ p.children = A /\ p.rejected = DOMAIN edges \ A
      /\ p.retires = {i \in A : \A j \in A : i <= j}
      /\ AllRejected(p) <=> A = {}
      /\ p.callsAfter \in Nat
  <2>1. /\ p.children = A /\ p.rejected = DOMAIN edges \ A
        /\ p.retires = {i \in A : \A j \in A : i <= j}
        /\ \E r \in {1, Cardinality(A)} : p.callsAfter = started + r
    BY PlanFields DEF A, V
  <2>2. Len(edges) # 0  BY EmptySeq
  <2>3. DOMAIN edges # {}
    <3>1. 1 \in DOMAIN edges  BY <1>2, <2>2
    <3>. QED  BY <3>1
  <2>. QED  BY <1>4, <2>1, <2>3 DEF AllRejected
<1>6. A \subseteq Nat /\ DOMAIN edges \subseteq Nat  BY <1>2, <1>3
<1>7. A # {} => p.retires # {}
  <2>. SUFFICES ASSUME A # {} PROVE \E m \in A : \A x \in A : m <= x  BY <1>5
  <2>. QED  BY <1>6, LeastExists
<1>8. \A i, k \in p.retires : i = k
  <2>. SUFFICES ASSUME NEW i \in p.retires, NEW k \in p.retires PROVE i = k  OBVIOUS
  <2>1. i \in Nat /\ k \in Nat /\ i <= k /\ k <= i  BY <1>5, <1>6
  <2>. QED  BY <2>1
<1>. QED  BY <1>5, <1>6, <1>7, <1>8

\* A call of a branch.
LEMMA CallOK ==
    ASSUME NEW b \in Branches, gen \in Nat, b[1] <= gen, NEW fixes \in Nat, NEW before
    PROVE  LET k == Call(b, fixes, before)
           IN /\ JobOK(k) /\ IsWork(k) /\ k.b = b /\ k.kind = "call"
              /\ k.gen = gen /\ k.stage = "queued"
<1>. DEFINE k == Call(b, fixes, before)
<1>1. /\ k.b = b /\ k.kind = "call" /\ k.gen = gen /\ k.stage = "queued" /\ k.fixes = fixes
      /\ {"kind", "b", "gen", "stage"} \subseteq DOMAIN k
      /\ {"fixes", "before", "est"} \subseteq DOMAIN k
  BY DEF Call
<1>. HIDE DEF k
<1>2. JobOK(k)  BY <1>1 DEF JobOK
<1>3. IsWork(k)  BY <1>1 DEF IsWork
<1>. QED  BY <1>1, <1>2, <1>3 DEF k

\* A summary of a branch.
LEMMA SummaryOK ==
    ASSUME NEW b \in Branches, gen \in Nat, b[1] <= gen,
           NEW why, NEW edges, NEW credits,
           why \in {"final", "clone", "edge"} \/ (why = "checkpoint" /\ edges \in EdgeSeqs)
    PROVE  LET k == Summary(b, why, edges, credits)
           IN /\ JobOK(k) /\ k.b = b /\ k.kind = "summary" /\ k.gen = gen /\ k.stage = "queued"
              /\ k.why = why /\ (IsWork(k) <=> why \in {"final", "checkpoint"})
<1>. DEFINE k == Summary(b, why, edges, credits)
<1>1. /\ k.b = b /\ k.kind = "summary" /\ k.gen = gen /\ k.stage = "queued"
      /\ k.why = why /\ k.edges = edges
      /\ {"kind", "b", "gen", "stage"} \subseteq DOMAIN k
      /\ {"why", "edges", "credits"} \subseteq DOMAIN k
  BY DEF Summary
<1>. HIDE DEF k
<1>2. JobOK(k)  BY <1>1 DEF JobOK
<1>3. IsWork(k) <=> why \in {"final", "checkpoint"}  BY <1>1 DEF IsWork
<1>. QED  BY <1>1, <1>2, <1>3 DEF k

\* The summary that ends a branch.
LEMMA FinalOK ==
    ASSUME NEW b \in Branches, gen \in Nat, b[1] <= gen
    PROVE  LET k == Final(b)
           IN /\ JobOK(k) /\ IsWork(k) /\ k.b = b /\ k.kind = "summary"
              /\ k.gen = gen /\ k.stage = "queued" /\ k.why = "final"
<1>. DEFINE k == Final(b)
<1>1. /\ k.b = b /\ k.kind = "summary" /\ k.gen = gen /\ k.stage = "queued" /\ k.why = "final"
      /\ {"kind", "b", "gen", "stage"} \subseteq DOMAIN k
      /\ {"why", "edges", "credits"} \subseteq DOMAIN k
  BY DEF Final, Summary
<1>. HIDE DEF k
<1>2. JobOK(k)  BY <1>1 DEF JobOK
<1>3. IsWork(k)  BY <1>1 DEF IsWork
<1>. QED  BY <1>1, <1>2, <1>3 DEF k

\* The effects of a plan carry the branch b on: one effect of its own, or children of
\* which one retires it.
CarryOn(N, b) ==
    \/ \E k \in N : N = {k} /\ k.b = b /\ IsWork(k) /\ k.kind # "child"
    \/ /\ \A k \in N : IsWork(k) =>
              k.kind = "child" /\ k.parent = b /\ \E i \in Nat : k.b = Append(b, i)
       /\ \A k, m \in N : IsWork(k) /\ IsWork(m) /\ k.b = m.b => k = m
       /\ \A k, m \in N : k.kind = "child" /\ m.kind = "child" /\ k.retires /\ m.retires => k = m
       /\ \E k \in N : k.kind = "child" /\ k.retires

\* What is planned for a branch carries it on.
LEMMA PlannedCarriesOn ==
    ASSUME NEW S, NEW edges \in Seq(S), edges # <<>>,
           NEW depth, NEW credits, NEW started \in Nat,
           NEW p \in Plans(edges, depth, credits, started),
           NEW b \in Branches, gen \in Nat, b[1] <= gen
    PROVE  /\ CarryOn(Planned(b, p), b)
           /\ \A k \in Planned(b, p) : JobOK(k) /\ k.gen = gen /\ k.stage = "queued"
           /\ \A i \in p.rejected : LET k == Summary(Append(b, i), "edge", <<>>, 0)
                                    IN JobOK(k) /\ k.gen = gen /\ ~IsWork(k)
           /\ p.callsAfter \in Nat
<1>1. /\ p.children \subseteq Nat /\ p.rejected \subseteq Nat
      /\ p.retires \subseteq p.children
      /\ \A i, k \in p.retires : i = k
      /\ p.children # {} => p.retires # {}
      /\ AllRejected(p) <=> p.children = {}
      /\ p.callsAfter \in Nat
  BY PlanShape
<1>2. \A i \in Nat : Append(b, i) \in Branches /\ Append(b, i)[1] = b[1]
                     /\ Append(b, i)[Len(Append(b, i))] = i
  <2>. SUFFICES ASSUME NEW i \in Nat
                PROVE  Append(b, i) \in Branches /\ Append(b, i)[1] = b[1]
                       /\ Append(b, i)[Len(Append(b, i))] = i
    OBVIOUS
  <2>1. /\ Append(b, i) \in Branches /\ Append(b, i)[1] = b[1]
        /\ Len(Append(b, i)) = Len(b) + 1 /\ Append(b, i)[Len(b) + 1] = i
    BY PathOfChild
  <2>. QED  BY <2>1
<1>3. ASSUME NEW i \in p.children
      PROVE  LET k == Child(b, i, p)
             IN /\ JobOK(k) /\ k.gen = gen /\ k.stage = "queued" /\ IsWork(k)
                /\ k.kind = "child" /\ k.parent = b /\ k.b = Append(b, i)
                /\ k.retires <=> i \in p.retires
  <2>1. i \in Nat  BY <1>1
  <2>2. Append(b, i) \in Branches /\ Append(b, i)[1] = b[1]
        /\ Append(b, i)[Len(Append(b, i))] = i
    BY <1>2, <2>1
  <2>. DEFINE k == Child(b, i, p)
  <2>3. /\ k.b = Append(b, i) /\ k.kind = "child" /\ k.parent = b /\ k.gen = gen
        /\ k.stage = "queued" /\ k.calls = p.callsAfter
        /\ {"kind", "b", "gen", "stage"} \subseteq DOMAIN k
        /\ {"parent", "share", "retires", "back", "calls"} \subseteq DOMAIN k
    BY DEF Child
  <2>4. k.retires \in BOOLEAN  BY DEF Child
  <2>5. k.retires <=> i \in p.retires  BY DEF Child
  <2>6. IsWork(k)  BY <2>3 DEF IsWork
  <2>. HIDE DEF k
  <2>7. JobOK(k)  BY <1>1, <2>2, <2>3, <2>4 DEF JobOK
  <2>. QED  BY <2>3, <2>5, <2>6, <2>7 DEF k
<1>4. ASSUME NEW i \in p.rejected
      PROVE  LET k == Summary(Append(b, i), "edge", <<>>, 0)
             IN JobOK(k) /\ k.gen = gen /\ k.stage = "queued" /\ ~IsWork(k) /\ k.kind = "summary"
  <2>1. i \in Nat  BY <1>1
  <2>2. Append(b, i) \in Branches /\ Append(b, i)[1] = b[1]  BY <1>2, <2>1
  <2>. DEFINE k == Summary(Append(b, i), "edge", <<>>, 0)
  <2>3. /\ k.b = Append(b, i) /\ k.kind = "summary" /\ k.gen = gen /\ k.stage = "queued"
        /\ k.why = "edge"
        /\ {"kind", "b", "gen", "stage"} \subseteq DOMAIN k
        /\ {"why", "edges", "credits"} \subseteq DOMAIN k
    BY DEF Summary
  <2>. HIDE DEF k
  <2>4. JobOK(k)  BY <2>2, <2>3 DEF JobOK
  <2>5. ~IsWork(k)  BY <2>3 DEF IsWork
  <2>. QED  BY <2>3, <2>4, <2>5 DEF k
<1>5. CASE AllRejected(p)
  <2>1. \E k : /\ Planned(b, p) = {k} /\ k.b = b /\ IsWork(k) /\ k.kind # "child"
               /\ JobOK(k) /\ k.gen = gen /\ k.stage = "queued"
    <3>1. CASE Retries(p)
      <4>1. Planned(b, p) = {Call(b, 0, 0)}  BY <1>5, <3>1 DEF Planned
      <4>. QED  BY <4>1, CallOK
    <3>2. CASE ~Retries(p)
      <4>1. Planned(b, p) = {Final(b)}  BY <1>5, <3>2 DEF Planned
      <4>. QED  BY <4>1, FinalOK
    <3>. QED  BY <3>1, <3>2
  <2>. QED  BY <1>1, <1>4, <2>1 DEF CarryOn
<1>6. CASE ~AllRejected(p)
  <2>. DEFINE C == {Child(b, i, p) : i \in p.children}
              E == {Summary(Append(b, i), "edge", <<>>, 0) : i \in p.rejected}
  <2>1. Planned(b, p) = C \union E  BY <1>6 DEF Planned
  <2>2. \A k \in C : \E i \in p.children : k = Child(b, i, p)  OBVIOUS
  <2>3. \A k \in E : JobOK(k) /\ k.gen = gen /\ k.stage = "queued" /\ ~IsWork(k)
                     /\ k.kind = "summary"
    BY <1>4
  <2>4. \A k \in C : /\ JobOK(k) /\ k.gen = gen /\ k.stage = "queued" /\ IsWork(k)
                     /\ k.kind = "child" /\ k.parent = b
                     /\ \E i \in p.children : k = Child(b, i, p) /\ k.b = Append(b, i)
                                              /\ (k.retires <=> i \in p.retires)
    BY <1>3
  <2>5. \A i, m \in Nat : Append(b, i) = Append(b, m) => i = m
    BY <1>2
  <2>6. \E i \in p.retires : TRUE  BY <1>1, <1>6
  <2>7. \E k \in C : k.kind = "child" /\ k.retires  BY <1>1, <1>3, <2>6
  <2>. HIDE DEF C, E
  <2>8. \A k \in C \union E : IsWork(k) => k \in C  BY <2>3
  <2>9. \A k \in C \union E : k.kind = "child" => k \in C  BY <2>3
  <2>10. \A k, m \in C : k.b = m.b => k = m  BY <1>1, <2>4, <2>5
  <2>11. \A k, m \in C : k.retires /\ m.retires => k = m  BY <1>1, <2>4
  <2>12. \A k \in C : \E i \in Nat : k.b = Append(b, i)  BY <1>1, <2>4
  <2>13. CarryOn(C \union E, b)
    BY <2>4, <2>7, <2>8, <2>9, <2>10, <2>11, <2>12 DEF CarryOn
  <2>. QED  BY <1>1, <1>4, <2>1, <2>3, <2>4, <2>13
<1>. QED  BY <1>5, <1>6

(***************************************************************************)
(* One effect follows another                                              *)
(***************************************************************************)

\* What is active or may be launched of a task that is paused are procedures the
\* pause missed.
LEMMA PausedStands ==
    ASSUME IInv, NEW j \in jobs, j \in ActiveJobs \/ Launchable(j)
    PROVE  status = "PAUSED" => j.kind = "batch" /\ j.b \in strays
<1>. SUFFICES ASSUME status = "PAUSED", ~(j.kind = "batch" /\ j.b \in strays) PROVE FALSE
  OBVIOUS
<1>1. paused /\ \A i \in jobs :
                    \/ /\ i.stage = "queued"
                       /\ UsesLlm(i) \/ (i.kind = "batch" /\ \E s \in jobs : s.kind = "summary")
                    \/ i.kind = "batch" /\ i.b \in strays
  BY DEF IInv, PausedOK
<1>2. j.stage = "queued" /\ (UsesLlm(j) \/ (j.kind = "batch" /\ \E s \in jobs : s.kind = "summary"))
  BY <1>1
<1>3. Launchable(j)  BY <1>2 DEF ActiveJobs
<1>4. ~UsesLlm(j)  BY <1>1, <1>3 DEF Launchable
<1>5. PICK s \in jobs : j.kind = "batch" /\ s.kind = "summary"  BY <1>2, <1>4
<1>6. s.stage = "queued"  BY <1>1, <1>5
<1>7. s \in QueuedJobs /\ Barrier(s) /\ ~Barrier(j)  BY <1>5, <1>6 DEF QueuedJobs, Barrier
<1>. QED  BY <1>3, <1>7 DEF Launchable

\* The effect k carries on what j began, as procedures still while the task is paused;
\* Ends: j has no effect that does, which is so only of an effect without a leaf, or
\* that ends too late.
Follows(k, j) ==
    /\ JobOK(k) /\ k.b = j.b /\ k.gen = j.gen
    /\ k.kind # "child" /\ j \notin Children
    /\ IsWork(k) <=> IsWork(j)
    /\ j.kind = "child" => k.stage = "queued"
    /\ j.kind = "batch" /\ status = "PAUSED" => k.kind = "batch"
Ends(j) == ~(Live(j) /\ IsWork(j) /\ (j \in Children \/ j.b \in DOMAIN leaves))

\* j is replaced by the effect that follows it, or ends; nothing else of the shape of
\* the task changes.
Swaps(j) ==
    /\ \/ \E k : Replaced(j, {k}) /\ Follows(k, j)
       \/ Replaced(j, {}) /\ Ends(j)
    /\ DOMAIN leaves' = DOMAIN leaves /\ calls' \in Nat
    /\ UNCHANGED <<status, gen, round, routed, rows, held, paused, finals, exact, beside>>

\* No row is added, and what is worked on next is a branch that was, or a child of one:
\* the rows stay behind.
LEMMA RowsStay ==
    ASSUME IInv, TypeOK', rows' = rows, round' = round, DOMAIN leaves' \subseteq DOMAIN leaves,
           \A x \in Works' :
               \/ x \in Works /\ (x \in Children' => x \in Children)
               \/ \E y \in Works \union held : \/ x.b = y.b /\ x \notin Children'
                                              \/ \E i \in Nat : x.b = Append(y.b, i),
           \A g \in held' : \E y \in Works \union held : g.b = y.b
    PROVE  RowsAreBehind'
<1>1. RowsAreBehind /\ TypeOK  BY DEF IInv
<1>2. \A r \in rows : r \in Branches  BY <1>1 DEF TypeOK
<1>3. \A y \in Works \union held : y.b \in Branches
  BY <1>1 DEF TypeOK, JobOK, HeldOK, Works
<1>4. \A y \in Works \union held, r \in rows : IsPrefix(y.b, r) => r = y.b
  BY <1>1 DEF RowsAreBehind
<1>5. ASSUME NEW x \in Works', NEW r \in rows, IsPrefix(x.b, r)
      PROVE  r = x.b /\ x \notin Children'
  <2>1. CASE x \in Works /\ (x \in Children' => x \in Children)
    BY <1>1, <1>5, <2>1 DEF RowsAreBehind
  <2>2. CASE \E y \in Works \union held : x.b = y.b /\ x \notin Children'
    BY <1>4, <1>5, <2>2
  <2>3. ASSUME NEW y \in Works \union held, NEW i \in Nat, x.b = Append(y.b, i)
        PROVE  FALSE
    <3>1. IsPrefix(y.b, r) /\ r # y.b  BY <1>2, <1>3, <1>5, <2>3, PrefixFacts
    <3>. QED  BY <1>4, <3>1
  <2>. QED  BY <2>1, <2>2, <2>3
<1>6. \A g \in held', r \in rows : IsPrefix(g.b, r) => r = g.b  BY <1>4
<1>. QED  BY <1>1, <1>5, <1>6 DEF RowsAreBehind

\* A swap preserves the invariant.
LEMMA SwapKeeps ==
    ASSUME IInv, NEW j \in jobs, j \in ActiveJobs \/ Launchable(j), Swaps(j)
    PROVE  IInv'
<1>1. status = "PAUSED" => j.kind = "batch" /\ j.b \in strays  BY PausedStands
<1>2. /\ DOMAIN leaves' = DOMAIN leaves /\ calls' \in Nat
      /\ status' = status /\ gen' = gen /\ round' = round /\ routed' = routed /\ rows' = rows
      /\ held' = held /\ paused' = paused /\ finals' = finals /\ exact' = exact
      /\ gated' = gated /\ strays' = strays
      /\ pauses' = pauses /\ continues' = continues
  BY DEF Swaps, beside
<1>3. PICK K : /\ jobs' = (jobs \ {j}) \union K
               /\ \/ \E k : K = {k} /\ Follows(k, j)
                  \/ K = {} /\ Ends(j)
  BY DEF Swaps, Replaced
<1>4. \A k \in K : K = {k} /\ Follows(k, j)  BY <1>3
<1>5. \A k \in K : /\ JobOK(k) /\ k.b = j.b /\ k.gen = j.gen
                   /\ k.kind # "child" /\ j \notin Children
                   /\ IsWork(k) <=> IsWork(j)
                   /\ j.kind = "child" => k.stage = "queued"
                   /\ j.kind = "batch" /\ status = "PAUSED" => k.kind = "batch"
  BY <1>4 DEF Follows
<1>6. K = {} => Ends(j)  BY <1>3
<1>7. TypeOK /\ JobOK(j)  BY DEF IInv, TypeOK
<1>8. Children' = Children \ {j}
  BY <1>3, <1>5 DEF Children, QueuedJobs
<1>9. TypeOK'
  <2>1. \A x \in jobs' : JobOK(x)'
    <3>. SUFFICES ASSUME NEW x \in jobs' PROVE JobOK(x)'  OBVIOUS
    <3>1. JobOK(x)  BY <1>3, <1>5, <1>7 DEF TypeOK
    <3>. QED  BY <1>2, <3>1 DEF JobOK
  <2>2. \A h \in held' : HeldOK(h)'  BY <1>2, <1>7 DEF TypeOK, HeldOK
  <2>. QED  BY <1>2, <1>7, <2>1, <2>2 DEF TypeOK
<1>10. OneOfALine'
  <2>1. \A x, y \in Works : x # y => Apart(x.b, y.b)  BY DEF IInv, OneOfALine
  <2>2. \A x \in Works' : x \in Works \ {j} \/ (x \in K /\ j \in Works /\ x.b = j.b)
    BY <1>3, <1>5 DEF Works
  <2>3. ASSUME NEW x \in Works', NEW y \in Works', x # y  PROVE Apart(x.b, y.b)
    <3>1. CASE x \in K
      <4>1. y \notin K  BY <1>4, <2>3, <3>1
      <4>2. y \in Works \ {j}  BY <2>2, <4>1
      <4>3. j \in Works /\ x.b = j.b  BY <1>3, <1>5, <3>1, <2>2 DEF Works
      <4>. QED  BY <2>1, <4>2, <4>3
    <3>2. CASE x \notin K
      <4>1. x \in Works \ {j}  BY <2>2, <3>2
      <4>2. \E z \in Works : z # x /\ z.b = y.b
        <5>1. CASE y \in Works \ {j}  BY <2>3, <5>1
        <5>2. CASE y \in K /\ j \in Works /\ y.b = j.b  BY <4>1, <5>2
        <5>. QED  BY <2>2, <5>1, <5>2
      <4>. QED  BY <2>1, <4>1, <4>2
    <3>. QED  BY <3>1, <3>2
  <2>4. \A x \in Works', h \in held' : Apart(x.b, h.b)
    BY <1>2, <2>2 DEF IInv, OneOfALine
  <2>5. \A h, i \in held' : h # i => Apart(h.b, i.b)  BY <1>2 DEF IInv, OneOfALine
  <2>6. \A x, y \in Children' : x.retires /\ y.retires /\ x.parent = y.parent => x = y
    BY <1>8 DEF IInv, OneOfALine
  <2>. QED  BY <2>3, <2>4, <2>5, <2>6 DEF OneOfALine
<1>11. RoundOK'
  BY <1>2, <1>3 DEF IInv, RoundOK, Active, Ended
<1>12. LeavesHaveWork'
  <2>. SUFFICES ASSUME status \in Active, NEW b \in DOMAIN leaves
                PROVE  (b[1] = round => b \in routed) /\ (WorkOf(b)' # {} \/ b \in strays)
    BY <1>2 DEF LeavesHaveWork
  <2>1. (b[1] = round => b \in routed) /\ (WorkOf(b) # {} \/ b \in strays)
    BY DEF IInv, LeavesHaveWork
  <2>2. CASE \E h \in held : h.b = b  BY <1>2, <2>1, <2>2 DEF WorkOf
  <2>3. CASE \E x \in jobs : WorksOn(x, b) /\ x # j
    <3>1. PICK x \in jobs : WorksOn(x, b) /\ x # j  BY <2>3
    <3>2. x \in jobs' /\ WorksOn(x, b)'  BY <1>2, <1>3, <1>8, <3>1 DEF WorksOn
    <3>. QED  BY <2>1, <3>2 DEF WorkOf
  <2>4. CASE WorksOn(j, b) /\ status = "PAUSED"
    <3>1. j \notin Children  BY <1>1, <2>4 DEF Children
    <3>2. b \in strays  BY <1>1, <2>4, <3>1 DEF WorksOn
    <3>. QED  BY <2>1, <3>2
  <2>5. CASE WorksOn(j, b) /\ status # "PAUSED"
    <3>1. Live(j) /\ IsWork(j) /\ (j \in Children \/ j.b = b)
      BY <2>5 DEF WorksOn, Live, Working, Active
    <3>2. PICK k \in K : TRUE  BY <1>6, <3>1 DEF Ends
    <3>3. k.b = b /\ k.gen = gen /\ IsWork(k) /\ k \notin Children' /\ k \in jobs'
      BY <1>3, <1>5, <3>1, <3>2 DEF Children, QueuedJobs, Live
    <3>4. WorksOn(k, b)'  BY <1>2, <3>3 DEF WorksOn
    <3>. QED  BY <2>1, <3>3, <3>4 DEF WorkOf
  <2>. QED  BY <2>1, <2>2, <2>3, <2>4, <2>5 DEF WorkOf
<1>13. PausedOK'
  <2>1. PausedOK  BY DEF IInv
  <2>2. ASSUME status = "PAUSED", NEW x \in jobs'
        PROVE  \/ /\ x.stage = "queued"
                  /\ UsesLlm(x) \/ (x.kind = "batch" /\ \E s \in jobs' : s.kind = "summary")
               \/ x.kind = "batch" /\ x.b \in strays
    <3>1. CASE x \in K  BY <1>1, <1>5, <2>2, <3>1
    <3>2. CASE x \in jobs \ {j}
      <4>1. \A s \in jobs : s.kind = "summary" => s \in jobs'  BY <1>1, <1>3, <2>2
      <4>. QED  BY <2>1, <2>2, <3>2, <4>1 DEF PausedOK
    <3>. QED  BY <1>3, <2>2, <3>1, <3>2
  <2>. QED  BY <1>2, <2>1, <2>2 DEF PausedOK, UsesLlm
<1>14. TreeOK'
  <2>. SUFFICES ASSUME exact, status \in Active
                PROVE  WorkIsOfLeaves' /\ ChildrenAreAwaited'
    BY <1>2 DEF TreeOK
  <2>1. WorkIsOfLeaves /\ ChildrenAreAwaited  BY DEF IInv, TreeOK
  <2>2. WorkIsOfLeaves'
    <3>1. ASSUME NEW x \in jobs', x.gen = gen, IsWork(x)
          PROVE  /\ x.b[1] = round
                 /\ IF x \in Children' THEN x.retires => x.parent \in DOMAIN leaves
                    ELSE x.b \in DOMAIN leaves
      <4>1. CASE x \in K
        <5>1. j.gen = gen /\ IsWork(j) /\ j \notin Children /\ x.b = j.b /\ x \notin Children'
          BY <1>5, <3>1, <4>1 DEF Children, QueuedJobs
        <5>. QED  BY <2>1, <5>1 DEF WorkIsOfLeaves
      <4>2. CASE x \in jobs \ {j}
        BY <1>8, <2>1, <3>1, <4>2 DEF WorkIsOfLeaves
      <4>. QED  BY <1>3, <3>1, <4>1, <4>2
    <3>. QED  BY <1>2, <2>1, <3>1 DEF WorkIsOfLeaves
  <2>3. ChildrenAreAwaited'
    <3>1. ASSUME NEW c \in Children', c.gen = gen  PROVE \E x \in jobs' : Holds(x)'
      <4>1. c \in Children  BY <1>8
      <4>2. PICK x \in jobs : Holds(x)  BY <2>1, <3>1, <4>1 DEF ChildrenAreAwaited
      <4>3. CASE x # j
        BY <1>2, <1>3, <4>2, <4>3 DEF Holds
      <4>4. CASE x = j
        <5>1. j.gen = gen /\ IsWork(j)  BY <4>2, <4>4 DEF Holds
        <5>2. status # "PAUSED"  BY <4>1 DEF IInv, PausedOK, UsesLlm, Children, QueuedJobs
        <5>9. Live(j)  BY <5>1, <5>2 DEF Live, Working, Active
        <5>3. K # {}  BY <1>6, <2>1, <5>1, <5>9 DEF Ends, WorkIsOfLeaves
        <5>4. PICK k \in K : TRUE  BY <5>3
        <5>5. j.stage = "active"
          <6>1. SUFFICES ASSUME Launchable(j) PROVE FALSE  BY DEF ActiveJobs
          <6>2. c \in QueuedJobs /\ Barrier(c) /\ c.kind = "child"
            BY <4>1 DEF Children, Barrier
          <6>3. j.kind = "summary"
            BY <1>5, <5>4, <6>1, <6>2 DEF Launchable, Barrier, Children
          <6>. QED  BY <6>1, <6>2, <6>3 DEF Launchable
        <5>6. j.kind = "child"  BY <4>2, <4>4, <5>5 DEF Holds
        <5>7. k.stage = "queued" /\ k.gen = gen /\ IsWork(k) /\ k.kind # "child" /\ k \in jobs'
          BY <1>3, <1>5, <5>1, <5>4, <5>6
        <5>. QED  BY <1>2, <5>7 DEF Holds
      <4>. QED  BY <4>3, <4>4
    <3>. QED  BY <1>2, <2>1, <3>1 DEF ChildrenAreAwaited
  <2>. QED  BY <2>2, <2>3
<1>15. FinishedIsDone'
  <2>. SUFFICES ASSUME exact, status \in Ended  PROVE NothingLeft'
    BY <1>2 DEF FinishedIsDone
  <2>1. NothingLeft  BY DEF IInv, FinishedIsDone
  <2>. QED  BY <1>2, <1>3, <1>5, <2>1 DEF NothingLeft
<1>16. RowsAreBehind'
  <2>1. \A x \in Works' : \/ x \in Works /\ (x \in Children' => x \in Children)
                          \/ j \in Works /\ x.b = j.b /\ x \notin Children'
    BY <1>3, <1>5, <1>8 DEF Works, Children, QueuedJobs
  <2>. QED  BY <1>2, <1>9, <2>1, RowsStay
<1>. QED  BY <1>9, <1>10, <1>11, <1>12, <1>13, <1>14, <1>15, <1>16 DEF IInv

\* The branch of an effect may have other effects.
LEMMA BranchOfJob ==
    ASSUME TypeOK, NEW j \in jobs
    PROVE  /\ JobOK(j) /\ j.b \in Branches /\ j.b[1] <= gen /\ gen \in Nat /\ calls \in Nat
           /\ j.gen \in 0 .. gen /\ j.b[1] <= j.gen
           /\ j.stage \in {"queued", "active"}
<1>1. /\ JobOK(j) /\ gen \in Nat /\ calls \in Nat /\ j.b \in Branches /\ j.b[1] <= j.gen
      /\ j.gen \in 0 .. gen /\ j.stage \in {"queued", "active"}
  BY DEF TypeOK, JobOK
<1>2. j.b \in Seq(Nat) /\ Len(j.b) \in Nat /\ Len(j.b) # 0
  BY <1>1, EmptySeq, LenProperties DEF Branches
<1>3. j.b[1] \in Nat  BY <1>2, ElementOfSeq
<1>. QED  BY <1>1, <1>3

\* An effect that starts is still the same effect.
LEMMA StartedOK ==
    ASSUME NEW j, JobOK(j)
    PROVE  /\ JobOK(Started(j)) /\ Started(j).b = j.b /\ Started(j).kind = j.kind
           /\ Started(j).gen = j.gen /\ Started(j).stage = "active"
           /\ IsWork(Started(j)) <=> IsWork(j)
<1>. DEFINE k == Started(j)
<1>1. DOMAIN k = DOMAIN j /\ \A x \in DOMAIN j : x # "stage" => k[x] = j[x]
  BY DEF Started
<1>2. k.stage = "active"  BY DEF Started, JobOK
<1>. HIDE DEF k
<1>3. /\ k.b = j.b /\ k.kind = j.kind /\ k.gen = j.gen
      /\ j.kind = "call" => k.fixes = j.fixes
      /\ j.kind = "batch" => k.turn = j.turn
      /\ j.kind = "summary" => k.why = j.why /\ k.edges = j.edges
      /\ j.kind = "child" => k.parent = j.parent /\ k.retires = j.retires /\ k.calls = j.calls
  BY <1>1 DEF JobOK
<1>4. JobOK(k)  BY <1>1, <1>2, <1>3 DEF JobOK
<1>5. IsWork(k) <=> IsWork(j)  BY <1>3 DEF IsWork
<1>. QED  BY <1>2, <1>3, <1>4, <1>5 DEF k

\* FailEffect
LEMMA FailEffectSwaps ==
    ASSUME TypeOK, NEW j \in jobs, j.kind \in {"call", "batch"}, FailEffect(j)
    PROVE  Swaps(j)
<1>1. /\ JobOK(j) /\ j.b \in Branches /\ j.b[1] <= gen /\ gen \in Nat /\ calls \in Nat
  BY BranchOfJob
<1>2. /\ DOMAIN leaves' = DOMAIN leaves /\ calls' \in Nat
      /\ UNCHANGED <<status, gen, round, routed, rows, held, paused, finals, exact, beside>>
  BY <1>1 DEF FailEffect, account, places, history
<1>3. CASE Live(j) /\ j.b \in DOMAIN leaves
  <2>1. Replaced(j, {Final(j.b)})  BY <1>3 DEF FailEffect
  <2>. DEFINE k == Final(j.b)
  <2>2. /\ JobOK(k) /\ IsWork(k) /\ k.b = j.b /\ k.kind = "summary"
        /\ k.gen = gen /\ k.stage = "queued"
    BY <1>1, FinalOK
  <2>. HIDE DEF k
  <2>3. Follows(k, j)  BY <1>3, <2>2 DEF Follows, Live, Working, IsWork, Children
  <2>. QED  BY <1>2, <2>1, <2>3 DEF Swaps, k
<1>4. CASE ~(Live(j) /\ j.b \in DOMAIN leaves)
  <2>1. Replaced(j, {})  BY <1>4 DEF FailEffect
  <2>2. Ends(j)  BY <1>4 DEF Ends, Children
  <2>. QED  BY <1>2, <2>1, <2>2 DEF Swaps
<1>. QED  BY <1>3, <1>4

\* A call answered, broken or failed.
LEMMA CallAnswersKeeps ==
    ASSUME IInv, NEW j \in jobs, NEW turn \in Turns, NEW cost, CallAnswers(j, turn, cost)
    PROVE  IInv'
<1>1. TypeOK /\ j.kind = "call" /\ j \in ActiveJobs /\ Live(j)  BY DEF CallAnswers, IInv
<1>2. JobOK(j) /\ j.b \in Branches /\ j.b[1] <= gen /\ gen \in Nat /\ calls \in Nat
  BY <1>1, BranchOfJob
<1>. DEFINE k == Batch(j.b, j.before - cost, turn)
<1>3. /\ k.kind = "batch" /\ k.b = j.b /\ k.gen = gen /\ k.stage = "queued" /\ k.turn = turn
      /\ {"kind", "b", "gen", "stage"} \subseteq DOMAIN k
      /\ {"after", "turn"} \subseteq DOMAIN k
  BY DEF Batch
<1>. HIDE DEF k
<1>4. JobOK(k) /\ IsWork(k)  BY <1>2, <1>3 DEF JobOK, IsWork
<1>5. Follows(k, j)  BY <1>1, <1>3, <1>4 DEF Follows, Live, IsWork, Children
<1>6. Replaced(j, {k})  BY DEF CallAnswers, k
<1>7. DOMAIN leaves' = DOMAIN leaves  BY DEF CallAnswers, Balanced
<1>8. calls' \in Nat /\ UNCHANGED <<status, gen, round, routed, rows, held, paused, finals,
                                    exact, beside>>
  BY <1>2 DEF CallAnswers, places
<1>9. Swaps(j)  BY <1>5, <1>6, <1>7, <1>8 DEF Swaps
<1>. QED  BY <1>1, <1>9, SwapKeeps

LEMMA CallIsBrokenKeeps ==
    ASSUME IInv, NEW j \in jobs, NEW cost, NEW pinned \in BOOLEAN, CallIsBroken(j, cost, pinned)
    PROVE  IInv'
<1>1. TypeOK /\ j.kind = "call" /\ j \in ActiveJobs /\ Live(j)  BY DEF CallIsBroken, IInv
<1>2. JobOK(j) /\ j.b \in Branches /\ j.b[1] <= gen /\ gen \in Nat /\ calls \in Nat
  BY <1>1, BranchOfJob
<1>3. \E k : Replaced(j, {k}) /\ JobOK(k) /\ IsWork(k) /\ k.b = j.b /\ k.gen = gen
             /\ k.kind # "child" /\ k.stage = "queued"
  <2>. DEFINE after == j.before - cost
              fix == Call(j.b, j.fixes + 1, after)
              end == Final(j.b)
  <2>1. j.fixes + 1 \in Nat  BY <1>1, <1>2 DEF JobOK
  <2>. HIDE DEF after
  <2>2. /\ JobOK(fix) /\ IsWork(fix) /\ fix.b = j.b /\ fix.kind = "call" /\ fix.gen = gen
        /\ fix.stage = "queued"
    BY <1>2, <2>1, CallOK
  <2>3. /\ JobOK(end) /\ IsWork(end) /\ end.b = j.b /\ end.kind = "summary" /\ end.gen = gen
        /\ end.stage = "queued"
    BY <1>2, FinalOK
  <2>4. Replaced(j, {fix}) \/ Replaced(j, {end})  BY DEF CallIsBroken, after
  <2>. HIDE DEF fix, end
  <2>. QED  BY <2>2, <2>3, <2>4
<1>4. PICK k : Replaced(j, {k}) /\ JobOK(k) /\ IsWork(k) /\ k.b = j.b /\ k.gen = gen
               /\ k.kind # "child" /\ k.stage = "queued"
  BY <1>3
<1>5. Follows(k, j)  BY <1>1, <1>4 DEF Follows, Live, IsWork, Children
<1>6. DOMAIN leaves' = DOMAIN leaves  BY DEF CallIsBroken, Balanced
<1>7. calls' \in Nat /\ UNCHANGED <<status, gen, round, routed, rows, held, paused, finals,
                                    exact, beside>>
  BY <1>2 DEF CallIsBroken, places
<1>8. Swaps(j)  BY <1>4, <1>5, <1>6, <1>7 DEF Swaps
<1>. QED  BY <1>1, <1>8, SwapKeeps

LEMMA CallFailsKeeps ==
    ASSUME IInv, NEW j \in jobs, NEW cost, CallFails(j, cost)
    PROVE  IInv'
<1>1. TypeOK /\ j.kind = "call" /\ j \in ActiveJobs /\ Live(j)  BY DEF CallFails, IInv
<1>2. JobOK(j) /\ j.b \in Branches /\ j.b[1] <= gen /\ gen \in Nat /\ calls \in Nat
  BY <1>1, BranchOfJob
<1>. DEFINE k == Final(j.b)
<1>3. /\ JobOK(k) /\ IsWork(k) /\ k.b = j.b /\ k.kind = "summary" /\ k.gen = gen
      /\ k.stage = "queued"
  BY <1>2, FinalOK
<1>4. Replaced(j, {k})  BY DEF CallFails
<1>. HIDE DEF k
<1>5. Follows(k, j)  BY <1>1, <1>3 DEF Follows, Live, IsWork, Children
<1>6. DOMAIN leaves' = DOMAIN leaves  BY DEF CallFails, Balanced
<1>7. calls' \in Nat /\ UNCHANGED <<status, gen, round, routed, rows, held, paused, finals,
                                    exact, beside>>
  BY <1>2 DEF CallFails, places
<1>8. Swaps(j)  BY <1>4, <1>5, <1>6, <1>7 DEF Swaps
<1>. QED  BY <1>1, <1>8, SwapKeeps

\* A call launched, dropped or raised.
LEMMA LaunchCallKeeps ==
    ASSUME IInv, NEW j \in jobs, NEW est, LaunchCall(j, est)
    PROVE  IInv'
<1>1. TypeOK /\ j.kind = "call" /\ Launchable(j)  BY DEF LaunchCall, IInv
<1>2. JobOK(j) /\ calls \in Nat  BY <1>1, BranchOfJob
<1>3. /\ JobOK(Started(j)) /\ Started(j).b = j.b /\ Started(j).kind = j.kind
      /\ Started(j).gen = j.gen /\ IsWork(Started(j)) /\ IsWork(j)
      /\ Started(j).stage = "active"
  BY <1>1, <1>2, StartedOK DEF IsWork
<1>4. \E k : Replaced(j, {k}) /\ Follows(k, j)
  <2>1. CASE j.fixes > 0
    <3>1. Replaced(j, {Started(j)})  BY <2>1 DEF LaunchCall
    <3>2. Follows(Started(j), j)  BY <1>1, <1>3 DEF Follows, Children
    <3>. QED  BY <3>1, <3>2
  <2>2. CASE ~(j.fixes > 0)
    <3>. DEFINE s == Started(j)
                k == [s EXCEPT !.before = leaves[j.b], !.est = est]
    <3>1. Replaced(j, {k})  BY <2>2 DEF LaunchCall
    <3>. HIDE DEF s
    <3>2. /\ DOMAIN k = DOMAIN s
          /\ \A x \in DOMAIN s : x \notin {"before", "est"} => k[x] = s[x]
      OBVIOUS
    <3>. HIDE DEF k
    <3>3. JobOK(s) /\ s.kind = "call" /\ s.b = j.b /\ s.gen = j.gen  BY <1>1, <1>3 DEF s
    <3>4. /\ k.kind = "call" /\ k.b = s.b /\ k.gen = s.gen /\ k.stage = s.stage
          /\ k.fixes = s.fixes
      BY <3>2, <3>3 DEF JobOK
    <3>5. JobOK(k)  BY <3>2, <3>3, <3>4 DEF JobOK
    <3>6. Follows(k, j)
      BY <1>1, <3>3, <3>4, <3>5 DEF Follows, IsWork, Children
    <3>. QED  BY <3>1, <3>6
  <2>. QED  BY <2>1, <2>2
<1>5. DOMAIN leaves' = DOMAIN leaves  BY DEF LaunchCall
<1>6. calls' \in Nat /\ UNCHANGED <<status, gen, round, routed, rows, held, paused, finals,
                                    exact, beside>>
  BY <1>2 DEF LaunchCall, places
<1>7. Swaps(j)  BY <1>4, <1>5, <1>6 DEF Swaps
<1>. QED  BY <1>1, <1>7, SwapKeeps

LEMMA LaunchCallFailsKeeps ==
    ASSUME IInv, NEW j \in jobs, LaunchCallFails(j)
    PROVE  IInv'
<1>1. TypeOK /\ j.kind \in {"call", "batch"} /\ Launchable(j) /\ FailEffect(j)
  BY DEF LaunchCallFails, IInv
<1>. QED  BY <1>1, FailEffectSwaps, SwapKeeps

LEMMA DropLateKeeps ==
    ASSUME IInv, NEW j \in jobs, DropLate(j)
    PROVE  IInv'
<1>1. TypeOK /\ j \in ActiveJobs /\ ~Live(j) /\ Replaced(j, {})  BY DEF DropLate, IInv
<1>2. Ends(j)  BY <1>1 DEF Ends
<1>3. calls \in Nat  BY <1>1 DEF TypeOK
<1>4. Swaps(j)  BY <1>1, <1>2, <1>3 DEF Swaps, DropLate, account, places, history
<1>. QED  BY <1>1, <1>4, SwapKeeps

LEMMA WorkerRaisesKeeps ==
    ASSUME IInv, NEW j \in jobs, WorkerRaises(j)
    PROVE  IInv'
<1>1. TypeOK /\ j.kind \in {"call", "batch"} /\ j \in ActiveJobs /\ FailEffect(j)
  BY DEF WorkerRaises, IInv
<1>. QED  BY <1>1, FailEffectSwaps, SwapKeeps

\* Procedures launched, or ended without a delegation.
LEMMA LaunchBatchKeeps ==
    ASSUME IInv, NEW j \in jobs, LaunchBatch(j)
    PROVE  IInv'
<1>1. TypeOK /\ j.kind = "batch" /\ Launchable(j) /\ Replaced(j, {Started(j)})
  BY DEF LaunchBatch, IInv
<1>2. JobOK(j) /\ calls \in Nat  BY <1>1, BranchOfJob
<1>3. /\ JobOK(Started(j)) /\ Started(j).b = j.b /\ Started(j).kind = j.kind
      /\ Started(j).gen = j.gen /\ IsWork(Started(j)) /\ IsWork(j)
  BY <1>1, <1>2, StartedOK DEF IsWork
<1>4. Follows(Started(j), j)  BY <1>1, <1>3 DEF Follows, Children
<1>5. DOMAIN leaves' = DOMAIN leaves /\ calls' \in Nat
      /\ UNCHANGED <<status, gen, round, routed, rows, held, paused, finals, exact, beside>>
  BY <1>2 DEF LaunchBatch, account, places, history
<1>6. Swaps(j)  BY <1>1, <1>4, <1>5 DEF Swaps
<1>. QED  BY <1>1, <1>6, SwapKeeps

LEMMA LaunchBatchFailsKeeps ==
    ASSUME IInv, NEW j \in jobs, LaunchBatchFails(j)
    PROVE  IInv'
<1>1. TypeOK /\ j.kind \in {"call", "batch"} /\ Launchable(j) /\ FailEffect(j)
  BY DEF LaunchBatchFails, IInv
<1>. QED  BY <1>1, FailEffectSwaps, SwapKeeps

LEMMA FinishTurnKeeps ==
    ASSUME IInv, NEW j \in jobs, NEW charge, FinishTurn(j, charge)
    PROVE  IInv'
<1>1. TypeOK /\ j.kind = "batch" /\ j \in ActiveJobs /\ Live(j)  BY DEF FinishTurn, IInv
<1>2. JobOK(j) /\ j.b \in Branches /\ j.b[1] <= gen /\ gen \in Nat /\ calls \in Nat
  BY <1>1, BranchOfJob
<1>3. \E k : Replaced(j, {k}) /\ JobOK(k) /\ IsWork(k) /\ k.b = j.b /\ k.gen = gen
             /\ k.kind = "summary"
  <2>. DEFINE after == j.after - charge
              ends == \/ j.turn.control = "terminate"
                      \/ after < 0
                      \/ Delegated(j.turn, after, TRUE) = <<>>
              end == Final(j.b)
              wait == Summary(j.b, "checkpoint", j.turn.edges, after)
  <2>1. CASE ends
    <3>1. /\ JobOK(end) /\ IsWork(end) /\ end.b = j.b /\ end.kind = "summary" /\ end.gen = gen
      BY <1>2, FinalOK
    <3>2. Replaced(j, {end})  BY <2>1 DEF FinishTurn
    <3>. HIDE DEF end
    <3>. QED  BY <3>1, <3>2
  <2>2. CASE ~ends
    <3>1. j.turn \in Turns  BY <1>1, <1>2 DEF JobOK
    <3>2. j.turn.control = "checkpoint"  BY <2>2 DEF FinishTurn
    <3>3. j.turn.edges # <<>>  BY <2>2, <3>2 DEF Delegated
    <3>4. j.turn.edges \in EdgeSeqs  BY <3>1, <3>3, TurnsAssumption DEF EdgeSeqs
    <3>5. Replaced(j, {wait})  BY <2>2 DEF FinishTurn
    <3>. HIDE DEF after
    <3>6. /\ JobOK(wait) /\ wait.b = j.b /\ wait.kind = "summary" /\ wait.gen = gen
          /\ wait.why = "checkpoint"
      BY <1>2, <3>4, SummaryOK
    <3>7. IsWork(wait)  BY <3>6 DEF IsWork
    <3>. HIDE DEF wait
    <3>. QED  BY <3>5, <3>6, <3>7
  <2>. QED  BY <2>1, <2>2
<1>4. PICK k : Replaced(j, {k}) /\ JobOK(k) /\ IsWork(k) /\ k.b = j.b /\ k.gen = gen
               /\ k.kind = "summary"
  BY <1>3
<1>5. Follows(k, j)  BY <1>1, <1>4 DEF Follows, Live, Working, IsWork, Children
<1>6. DOMAIN leaves' = DOMAIN leaves  BY DEF FinishTurn, Balanced
<1>7. calls' \in Nat /\ UNCHANGED <<status, gen, round, routed, rows, held, paused, finals,
                                    exact, beside>>
  BY <1>2 DEF FinishTurn, places
<1>8. Swaps(j)  BY <1>4, <1>5, <1>6, <1>7 DEF Swaps
<1>. QED  BY <1>1, <1>8, SwapKeeps

\* A child that got its first call, and one that is late.
LEMMA StartChildKeeps ==
    ASSUME IInv, NEW j \in jobs, NEW live \in BOOLEAN, StartChild(j, live)
    PROVE  IInv'
<1>1. TypeOK /\ j.kind = "child" /\ j \in ActiveJobs  BY DEF StartChild, IInv
<1>2. JobOK(j) /\ j.b \in Branches /\ j.b[1] <= gen /\ gen \in Nat /\ calls \in Nat
  BY <1>1, BranchOfJob
<1>3. DOMAIN leaves' = DOMAIN leaves /\ calls' \in Nat
      /\ UNCHANGED <<status, gen, round, routed, rows, held, paused, finals, exact, beside>>
  BY <1>2 DEF StartChild, account, places, history
<1>4. CASE j.gen # gen
  <2>1. Replaced(j, {}) /\ Ends(j)  BY <1>4 DEF StartChild, Ends, Live
  <2>2. Swaps(j)  BY <1>3, <2>1 DEF Swaps
  <2>. QED  BY <1>1, <2>2, SwapKeeps
<1>5. CASE j.gen = gen
  <2>1. \E k : Replaced(j, {k}) /\ JobOK(k) /\ IsWork(k) /\ k.b = j.b /\ k.gen = gen
               /\ k.kind # "child" /\ k.stage = "queued"
    <3>. DEFINE first == Call(j.b, 0, 0)
                end == Final(j.b)
    <3>1. /\ JobOK(first) /\ IsWork(first) /\ first.b = j.b /\ first.kind = "call"
          /\ first.gen = gen /\ first.stage = "queued"
      BY <1>2, CallOK
    <3>2. /\ JobOK(end) /\ IsWork(end) /\ end.b = j.b /\ end.kind = "summary"
          /\ end.gen = gen /\ end.stage = "queued"
      BY <1>2, FinalOK
    <3>3. Replaced(j, {first}) \/ Replaced(j, {end})  BY <1>5 DEF StartChild
    <3>. HIDE DEF first, end
    <3>. QED  BY <3>1, <3>2, <3>3
  <2>2. PICK k : Replaced(j, {k}) /\ JobOK(k) /\ IsWork(k) /\ k.b = j.b /\ k.gen = gen
                 /\ k.kind # "child" /\ k.stage = "queued"
    BY <2>1
  <2>3. Follows(k, j)
    BY <1>1, <1>5, <2>2 DEF Follows, IsWork, Children, QueuedJobs, ActiveJobs
  <2>4. Swaps(j)  BY <1>3, <2>2, <2>3 DEF Swaps
  <2>. QED  BY <1>1, <2>4, SwapKeeps
<1>. QED  BY <1>4, <1>5

LEMMA DropChildKeeps ==
    ASSUME IInv, NEW j \in jobs, DropChild(j)
    PROVE  IInv'
<1>1. TypeOK /\ Launchable(j) /\ j.gen # gen /\ Replaced(j, {})  BY DEF DropChild, IInv
<1>2. Ends(j)  BY <1>1 DEF Ends, Live
<1>3. calls \in Nat  BY <1>1 DEF TypeOK
<1>4. Swaps(j)  BY <1>1, <1>2, <1>3 DEF Swaps, DropChild, account, places, history
<1>. QED  BY <1>1, <1>4, SwapKeeps

\* A summary that starts, and the clone of a branch.
LEMMA LaunchSummaryKeeps ==
    ASSUME IInv, NEW j \in jobs, LaunchSummary(j)
    PROVE  IInv'
<1>1. TypeOK /\ j.kind = "summary" /\ Launchable(j)  BY DEF LaunchSummary, IInv
<1>2. JobOK(j) /\ calls \in Nat  BY <1>1, BranchOfJob
<1>3. DOMAIN leaves' = DOMAIN leaves /\ calls' \in Nat
      /\ UNCHANGED <<status, gen, round, routed, rows, held, paused, finals, exact, beside>>
  BY <1>2 DEF LaunchSummary, account, places, history
<1>4. CASE j.gen = gen
  <2>1. Replaced(j, {Started(j)})  BY <1>4 DEF LaunchSummary
  <2>2. /\ JobOK(Started(j)) /\ Started(j).b = j.b /\ Started(j).kind = j.kind
        /\ Started(j).gen = j.gen /\ (IsWork(Started(j)) <=> IsWork(j))
    BY <1>2, StartedOK
  <2>3. Follows(Started(j), j)  BY <1>1, <2>2 DEF Follows, Children
  <2>4. Swaps(j)  BY <1>3, <2>1, <2>3 DEF Swaps
  <2>. QED  BY <1>1, <2>4, SwapKeeps
<1>5. CASE j.gen # gen
  <2>1. Replaced(j, {}) /\ Ends(j)  BY <1>5 DEF LaunchSummary, Ends, Live
  <2>2. Swaps(j)  BY <1>3, <2>1 DEF Swaps
  <2>. QED  BY <1>1, <2>2, SwapKeeps
<1>. QED  BY <1>4, <1>5

LEMMA CloneKeeps ==
    ASSUME IInv, NEW j \in jobs, Clone(j)
    PROVE  IInv'
<1>1. TypeOK /\ j \in ActiveJobs /\ j.kind = "summary" /\ j.why = "clone" /\ Replaced(j, {})
  BY DEF Clone, IInv
<1>2. Ends(j)  BY <1>1 DEF Ends, IsWork
<1>3. calls \in Nat  BY <1>1 DEF TypeOK
<1>4. Swaps(j)  BY <1>1, <1>2, <1>3 DEF Swaps, Clone, account, places, history
<1>. QED  BY <1>1, <1>4, SwapKeeps

(***************************************************************************)
(* A plan takes the place of the work of its branch                        *)
(***************************************************************************)

\* Works of N are of b or of children of b, and apart from one another.
LEMMA CarriersApart ==
    ASSUME NEW b \in Branches, NEW N, CarryOn(N, b)
    PROVE  /\ \A k \in N : IsWork(k) => k.b = b \/ \E i \in Nat : k.b = Append(b, i)
           /\ \A k, m \in N : IsWork(k) /\ IsWork(m) /\ k # m => Apart(k.b, m.b)
           /\ \A k \in N : k.kind = "child" => k.parent = b
           /\ \A k, m \in N : k.kind = "child" /\ m.kind = "child" /\ k.retires /\ m.retires => k = m
           /\ \E k \in N : \/ IsWork(k) /\ k.b = b /\ k.kind # "child"
                           \/ k.kind = "child" /\ k.retires
<1>1. CASE \E k \in N : N = {k} /\ k.b = b /\ IsWork(k) /\ k.kind # "child"
  BY <1>1
<1>2. CASE /\ \A k \in N : IsWork(k) =>
                  k.kind = "child" /\ k.parent = b /\ \E i \in Nat : k.b = Append(b, i)
           /\ \A k, m \in N : IsWork(k) /\ IsWork(m) /\ k.b = m.b => k = m
           /\ \A k, m \in N : k.kind = "child" /\ m.kind = "child" /\ k.retires /\ m.retires => k = m
           /\ \E k \in N : k.kind = "child" /\ k.retires
  <2>1. ASSUME NEW k \in N, NEW m \in N, IsWork(k), IsWork(m), k # m
        PROVE  Apart(k.b, m.b)
    <3>1. PICK i \in Nat : k.b = Append(b, i)  BY <1>2, <2>1
    <3>2. PICK n \in Nat : m.b = Append(b, n)  BY <1>2, <2>1
    <3>3. i # n  BY <1>2, <2>1, <3>1, <3>2
    <3>. QED  BY <3>1, <3>2, <3>3, ApartFacts
  <2>2. \A k \in N : k.kind = "child" => k.parent = b  BY <1>2 DEF IsWork
  <2>. QED  BY <1>2, <2>1, <2>2
<1>. QED  BY <1>1, <1>2 DEF CarryOn

\* The work of b, an effect or a checkpoint, is replaced by what carries b on, N, and
\* effects that are no work, C.
LEMMA PlanKeeps ==
    ASSUME IInv, NEW b \in Branches, NEW R \in SUBSET jobs, NEW N, NEW C,
           jobs' = R \union N \union C, CarryOn(N, b), \E y \in Works \union held : y.b = b,
           \A k \in N \union C : JobOK(k) /\ k.gen = gen /\ k.stage = "queued",
           \A k \in C : ~IsWork(k),
           held' \subseteq held,
           \A x \in Works \cap R : Apart(b, x.b),
           \A h \in held' : Apart(b, h.b),
           \A x \in jobs \ R : x \notin Children /\ x.b = b,
           \A h \in held \ held' : h.b = b,
           status # "PAUSED", round # -1,
           DOMAIN leaves' = DOMAIN leaves, calls' \in Nat,
           UNCHANGED <<status, gen, round, routed, rows, paused, finals, beside>>,
           exact' \in BOOLEAN,
           exact' => /\ exact /\ status \notin Ended
                     /\ status \in Active => b[1] = round /\ b \in DOMAIN leaves
    PROVE  IInv'
<1>1. /\ status' = status /\ gen' = gen /\ round' = round /\ routed' = routed /\ rows' = rows
      /\ paused' = paused /\ finals' = finals /\ gated' = gated /\ strays' = strays
      /\ pauses' = pauses /\ continues' = continues
  BY DEF beside
<1>2. /\ \A k \in N : IsWork(k) => k.b = b \/ \E i \in Nat : k.b = Append(b, i)
      /\ \A k, m \in N : IsWork(k) /\ IsWork(m) /\ k # m => Apart(k.b, m.b)
      /\ \A k \in N : k.kind = "child" => k.parent = b
      /\ \A k, m \in N : k.kind = "child" /\ m.kind = "child" /\ k.retires /\ m.retires => k = m
      /\ \E k \in N : \/ IsWork(k) /\ k.b = b /\ k.kind # "child"
                      \/ k.kind = "child" /\ k.retires
  BY CarriersApart
<1>3. \A k \in C : k.kind # "child"  BY DEF IsWork
<1>21. \A k \in N : IsWork(k) => \/ k.b = b /\ k.kind # "child"
                                 \/ \E i \in Nat : k.b = Append(b, i)
  BY DEF CarryOn
<1>4. TypeOK  BY DEF IInv
<1>5. \A x \in Works' : x \in Works \cap R \/ (x \in N /\ IsWork(x))  BY DEF Works
<1>6. \A x \in Children' : x \in Children \cap R \/ (x \in N /\ x.kind = "child")
  BY <1>3 DEF Children, QueuedJobs
<1>7. \A x \in R : x \in Children' <=> x \in Children
  BY DEF Children, QueuedJobs
<1>8. ASSUME NEW x \in Works \cap R, NEW k \in N, IsWork(k)
      PROVE  Apart(x.b, k.b) /\ Apart(k.b, x.b)
  <2>1. Apart(b, x.b)  OBVIOUS
  <2>2. x.b \in Branches /\ k.b \in Branches  BY <1>4 DEF TypeOK, JobOK
  <2>3. CASE k.b = b  BY <2>1, <2>2, <2>3, ApartFacts
  <2>4. CASE \E i \in Nat : k.b = Append(b, i)
    <3>1. Apart(k.b, x.b)  BY <2>1, <2>2, <2>4, ApartFacts
    <3>. QED  BY <2>2, <3>1, ApartFacts
  <2>. QED  BY <1>2, <1>8, <2>3, <2>4
<1>9. ASSUME NEW h \in held', NEW k \in N, IsWork(k)  PROVE Apart(k.b, h.b)
  <2>1. Apart(b, h.b)  OBVIOUS
  <2>2. h.b \in Branches  BY <1>4 DEF TypeOK, HeldOK
  <2>3. CASE k.b = b  BY <2>1, <2>3
  <2>4. CASE \E i \in Nat : k.b = Append(b, i)
    BY <2>1, <2>2, <2>4, ApartFacts
  <2>. QED  BY <1>2, <1>9, <2>3, <2>4
<1>10. ASSUME NEW x \in Children \cap R  PROVE x.parent # b
  <2>1. x \in Works \cap R  BY DEF Children, QueuedJobs, Works, IsWork
  <2>2. Apart(b, x.b)  BY <2>1
  <2>3. x.b \in Branches /\ x.parent \in Branches /\ x.b = Append(x.parent, x.b[Len(x.b)])
    BY <1>4 DEF TypeOK, JobOK, Children, QueuedJobs
  <2>4. x.b \in Seq(Nat) /\ Len(x.b) \in 1 .. Len(x.b)
    BY <2>3, EmptySeq, LenProperties DEF Branches
  <2>. DEFINE i == x.b[Len(x.b)]
  <2>5. i \in Nat  BY <2>4, ElementOfSeq
  <2>. HIDE DEF i
  <2>6. x.parent = b => x.b = Append(b, i)  BY <2>3 DEF i
  <2>7. ~Apart(b, Append(b, i))  BY <2>5, ApartFacts
  <2>. QED  BY <2>2, <2>6, <2>7
<1>11. TypeOK'
  <2>1. \A x \in jobs' : JobOK(x)'
    <3>. SUFFICES ASSUME NEW x \in jobs' PROVE JobOK(x)'  OBVIOUS
    <3>1. JobOK(x)  BY <1>4 DEF TypeOK
    <3>. QED  BY <1>1, <3>1 DEF JobOK
  <2>2. \A h \in held' : HeldOK(h)'  BY <1>1, <1>4 DEF TypeOK, HeldOK
  <2>. QED  BY <1>1, <1>4, <2>1, <2>2 DEF TypeOK
<1>12. OneOfALine'
  <2>1. ASSUME NEW x \in Works', NEW y \in Works', x # y  PROVE Apart(x.b, y.b)
    <3>1. CASE x \in Works \cap R /\ y \in Works \cap R
      BY <2>1, <3>1 DEF IInv, OneOfALine
    <3>2. CASE x \in N /\ IsWork(x) /\ y \in N /\ IsWork(y)  BY <1>2, <2>1, <3>2
    <3>. QED  BY <1>5, <1>8, <3>1, <3>2
  <2>2. ASSUME NEW x \in Works', NEW h \in held'  PROVE Apart(x.b, h.b)
    <3>1. CASE x \in Works \cap R  BY <3>1 DEF IInv, OneOfALine
    <3>. QED  BY <1>5, <1>9, <3>1
  <2>3. \A h, i \in held' : h # i => Apart(h.b, i.b)  BY DEF IInv, OneOfALine
  <2>4. ASSUME NEW x \in Children', NEW y \in Children', x.retires, y.retires,
               x.parent = y.parent
        PROVE  x = y
    <3>1. CASE x \in Children \cap R /\ y \in Children \cap R
      BY <2>4, <3>1 DEF IInv, OneOfALine
    <3>. QED  BY <1>2, <1>6, <1>10, <2>4, <3>1
  <2>. QED  BY <2>1, <2>2, <2>3, <2>4 DEF OneOfALine
<1>13. RoundOK'  BY <1>1 DEF IInv, RoundOK, Active, Ended
<1>14. PICK k \in N : \/ IsWork(k) /\ k.b = b /\ k.kind # "child"
                      \/ k.kind = "child" /\ k.retires
  BY <1>2
<1>15. /\ k \in jobs' /\ k.gen = gen /\ k.stage = "queued" /\ IsWork(k)
       /\ (k \in Children' <=> k.kind = "child")
  BY <1>14 DEF IsWork, Children, QueuedJobs
<1>16. LeavesHaveWork'
  <2>. SUFFICES ASSUME status \in Active, NEW l \in DOMAIN leaves
                PROVE  (l[1] = round => l \in routed) /\ (WorkOf(l)' # {} \/ l \in strays)
    BY <1>1 DEF LeavesHaveWork
  <2>1. (l[1] = round => l \in routed) /\ (WorkOf(l) # {} \/ l \in strays)
    BY DEF IInv, LeavesHaveWork
  <2>2. CASE l = b
    <3>1. WorksOn(k, b)'  BY <1>1, <1>2, <1>14, <1>15 DEF WorksOn
    <3>. QED  BY <1>15, <2>1, <2>2, <3>1 DEF WorkOf
  <2>3. CASE l # b
    <3>1. CASE \E h \in held : h.b = l
      <4>1. PICK h \in held : h.b = l  BY <3>1
      <4>2. h \in held'  BY <2>3, <4>1
      <4>. QED  BY <2>1, <4>1, <4>2 DEF WorkOf
    <3>2. CASE \E x \in jobs : WorksOn(x, l)
      <4>1. PICK x \in jobs : WorksOn(x, l)  BY <3>2
      <4>2. x \in R  BY <2>3, <4>1 DEF WorksOn
      <4>3. x \in jobs' /\ WorksOn(x, l)'  BY <1>1, <1>7, <4>1, <4>2 DEF WorksOn
      <4>. QED  BY <2>1, <4>3 DEF WorkOf
    <3>. QED  BY <2>1, <3>1, <3>2 DEF WorkOf
  <2>. QED  BY <2>2, <2>3
<1>17. PausedOK'  BY <1>1 DEF IInv, PausedOK
<1>18. TreeOK'
  <2>. SUFFICES ASSUME exact', status \in Active
                PROVE  WorkIsOfLeaves' /\ ChildrenAreAwaited'
    BY <1>1 DEF TreeOK
  <2>1. WorkIsOfLeaves /\ ChildrenAreAwaited /\ b[1] = round /\ b \in DOMAIN leaves
    BY DEF IInv, TreeOK
  <2>2. ASSUME NEW x \in jobs', x.gen = gen, IsWork(x)
        PROVE  /\ x.b[1] = round
               /\ IF x \in Children' THEN x.retires => x.parent \in DOMAIN leaves
                  ELSE x.b \in DOMAIN leaves
    <3>1. CASE x \in R  BY <1>7, <2>1, <2>2, <3>1 DEF WorkIsOfLeaves
    <3>2. CASE x \in N /\ x.kind = "child"
      <4>1. x.parent = b /\ x \in Children'
        BY <1>2, <3>2 DEF Children, QueuedJobs
      <4>2. x.b = Append(x.parent, x.b[Len(x.b)]) /\ x.b \in Branches
        BY <3>2 DEF JobOK
      <4>3. x.b[1] = b[1]
        <5>. DEFINE i == x.b[Len(x.b)]
        <5>1. x.b \in Seq(Nat) /\ Len(x.b) \in 1 .. Len(x.b)
          BY <4>2, EmptySeq, LenProperties DEF Branches
        <5>2. i \in Nat  BY <5>1, ElementOfSeq
        <5>3. x.b = Append(b, i)  BY <4>1, <4>2
        <5>. HIDE DEF i
        <5>. QED  BY <5>2, <5>3, PathOfChild
      <4>. QED  BY <2>1, <4>1, <4>3
    <3>3. CASE x \in N /\ x.kind # "child"
      <4>1. x.b = b
        <5>1. CASE \E m \in N : N = {m} /\ m.b = b /\ IsWork(m) /\ m.kind # "child"
          BY <3>3, <5>1
        <5>. QED  BY <2>2, <3>3, <5>1 DEF CarryOn
      <4>2. x \notin Children'  BY <3>3 DEF Children
      <4>. QED  BY <2>1, <4>1, <4>2
    <3>. QED  BY <2>2, <3>1, <3>2, <3>3
  <2>3. WorkIsOfLeaves'
    <3>1. \A h \in held' : h.b[1] = round => h.b \in DOMAIN leaves  BY <2>1 DEF WorkIsOfLeaves
    <3>. QED  BY <1>1, <2>1, <2>2, <3>1 DEF WorkIsOfLeaves
  <2>4. ChildrenAreAwaited'
    <3>1. Holds(k)'  BY <1>1, <1>14, <1>15 DEF Holds
    <3>. QED  BY <1>1, <1>15, <2>1, <3>1 DEF ChildrenAreAwaited
  <2>. QED  BY <2>3, <2>4
<1>19. FinishedIsDone'  BY <1>1 DEF FinishedIsDone
<1>20. RowsAreBehind'
  <2>1. PICK y \in Works \union held : y.b = b  OBVIOUS
  <2>2. ASSUME NEW x \in Works'
        PROVE  \/ x \in Works /\ (x \in Children' => x \in Children)
               \/ x.b = y.b /\ x \notin Children'
               \/ \E i \in Nat : x.b = Append(y.b, i)
    <3>1. CASE x \in Works \cap R  BY <1>7, <3>1
    <3>2. CASE x \in N /\ IsWork(x) /\ x.kind = "child"
      BY <1>21, <2>1, <3>2
    <3>3. CASE x \in N /\ IsWork(x) /\ x.kind # "child"
      BY <1>21, <2>1, <3>3 DEF Children
    <3>. QED  BY <1>5, <3>1, <3>2, <3>3
  <2>. QED  BY <1>1, <1>11, <2>2, RowsStay
<1>. QED  BY <1>11, <1>12, <1>13, <1>16, <1>17, <1>18, <1>19, <1>20 DEF IInv

\* Procedures that ended with delegations, and the checkpoint that is let go.
LEMMA DelegateKeeps ==
    ASSUME IInv, NEW j \in jobs, NEW charge, NEW live \in BOOLEAN, Delegate(j, charge, live)
    PROVE  IInv'
<1>. DEFINE after == j.after - charge
            edges == Delegated(j.turn, after, live)
            clone == IF status = "REPORTING" THEN {Summary(j.b, "clone", <<>>, 0)} ELSE {}
            R == jobs \ {j}
<1>1. TypeOK /\ j.kind = "batch" /\ j \in ActiveJobs /\ Live(j) /\ edges # <<>>
  BY DEF Delegate, IInv
<1>2. /\ JobOK(j) /\ j.b \in Branches /\ j.b[1] <= gen /\ gen \in Nat /\ calls \in Nat
      /\ IsWork(j) /\ j \notin Children /\ j.gen = gen
  BY <1>1, BranchOfJob DEF IsWork, Children, Live
<1>3. \E S : edges \in Seq(S)
  <2>. DEFINE e == [live |-> live, credits |-> after]
  <2>1. j.turn \in Turns  BY <1>1, <1>2 DEF JobOK
  <2>2. edges = <<e>> \/ edges = j.turn.edges  BY DEF Delegated
  <2>. HIDE DEF e, edges
  <2>3. CASE edges = <<e>>
    <3>1. edges \in Seq({e})  BY <2>3
    <3>. QED  BY <3>1
  <2>4. CASE edges = j.turn.edges  BY <2>1, <2>4, TurnsAssumption
  <2>. QED  BY <2>2, <2>3, <2>4
<1>4. PICK S : edges \in Seq(S)  BY <1>3
<1>5. PICK p \in Plans(edges, Depth(j.b), after, calls) :
          calls' = p.callsAfter /\ Replaced(j, Planned(j.b, p) \union clone)
  BY DEF Delegate
<1>6. /\ DOMAIN leaves' = DOMAIN leaves /\ exact' = exact /\ held' = held
      /\ UNCHANGED <<status, gen, round, routed, rows, paused, finals, beside>>
  BY DEF Delegate, Balanced, places
<1>. HIDE DEF edges, after
<1>7. /\ CarryOn(Planned(j.b, p), j.b)
      /\ \A k \in Planned(j.b, p) : JobOK(k) /\ k.gen = gen /\ k.stage = "queued"
      /\ p.callsAfter \in Nat
  BY <1>1, <1>2, <1>4, PlannedCarriesOn
<1>8. \A k \in clone : JobOK(k) /\ k.gen = gen /\ k.stage = "queued" /\ ~IsWork(k)
  <2>. DEFINE s == Summary(j.b, "clone", <<>>, 0)
  <2>1. /\ s.b = j.b /\ s.kind = "summary" /\ s.gen = gen /\ s.stage = "queued"
        /\ s.why = "clone"
        /\ {"kind", "b", "gen", "stage"} \subseteq DOMAIN s
        /\ {"why", "edges", "credits"} \subseteq DOMAIN s
    BY DEF Summary
  <2>2. clone \subseteq {s}  OBVIOUS
  <2>. HIDE DEF s, clone
  <2>3. JobOK(s) /\ ~IsWork(s)  BY <1>2, <2>1 DEF JobOK, IsWork
  <2>. QED  BY <2>1, <2>2, <2>3
<1>. HIDE DEF clone
<1>9. jobs' = R \union Planned(j.b, p) \union clone  BY <1>5 DEF Replaced
<1>10. j \in Works  BY <1>2 DEF Works
<1>11. \A x \in Works \cap R : Apart(j.b, x.b)  BY <1>10 DEF IInv, OneOfALine
<1>12. \A h \in held' : Apart(j.b, h.b)  BY <1>6, <1>10 DEF IInv, OneOfALine
<1>13. status # "PAUSED" /\ status \notin Ended  BY <1>1 DEF Live, Working, Ended
<1>14. round # -1  BY DEF IInv, RoundOK
<1>15. exact /\ status \in Active => j.b[1] = round /\ j.b \in DOMAIN leaves
  BY <1>2 DEF IInv, TreeOK, WorkIsOfLeaves
<1>16. exact \in BOOLEAN  BY <1>1 DEF TypeOK
<1>17. \A x \in jobs \ R : x \notin Children /\ x.b = j.b  BY <1>2
<1>18. /\ R \in SUBSET jobs /\ held' \subseteq held /\ \A h \in held \ held' : h.b = j.b
       /\ calls' \in Nat /\ exact' \in BOOLEAN
       /\ exact' => /\ exact /\ status \notin Ended
                    /\ status \in Active => j.b[1] = round /\ j.b \in DOMAIN leaves
  BY <1>5, <1>6, <1>7, <1>13, <1>15, <1>16
<1>19. \A k \in Planned(j.b, p) \union clone : JobOK(k) /\ k.gen = gen /\ k.stage = "queued"
  BY <1>7, <1>8
<1>20. \A k \in clone : ~IsWork(k)  BY <1>8
<1>21. \E y \in Works \union held : y.b = j.b  BY <1>10
<1>. HIDE DEF R
<1>. QED
  BY <1>2, <1>6, <1>7, <1>9, <1>11, <1>12, <1>13, <1>14, <1>17, <1>18, <1>19, <1>20, <1>21,
     PlanKeeps

LEMMA ReleaseKeeps ==
    ASSUME IInv, NEW h \in held, Release(h)
    PROVE  IInv'
<1>. DEFINE credits == IF h.b \in DOMAIN leaves THEN leaves[h.b] ELSE h.credits
<1>1. /\ TypeOK /\ HeldOK(h) /\ h.open /\ h.b \in Branches /\ h.b[1] <= gen /\ gen \in Nat
      /\ h.edges \in Seq([live : BOOLEAN, credits : Nat]) /\ h.edges # <<>> /\ calls \in Nat
  BY DEF Release, IInv, TypeOK, HeldOK, EdgeSeqs
<1>2. PICK p \in Plans(h.edges, Depth(h.b), credits, calls) :
           jobs' = jobs \union Planned(h.b, p)
                        \union (IF AllRejected(p)
                                THEN {Summary(Append(h.b, i), "edge", <<>>, 0) : i \in p.rejected}
                                ELSE {})
  BY DEF Release
<1>. HIDE DEF credits
<1>. DEFINE C == IF AllRejected(p)
                 THEN {Summary(Append(h.b, i), "edge", <<>>, 0) : i \in p.rejected} ELSE {}
<1>3. /\ CarryOn(Planned(h.b, p), h.b)
      /\ \A k \in Planned(h.b, p) : JobOK(k) /\ k.gen = gen /\ k.stage = "queued"
      /\ \A i \in p.rejected : LET k == Summary(Append(h.b, i), "edge", <<>>, 0)
                               IN JobOK(k) /\ k.gen = gen /\ ~IsWork(k)
  BY <1>1, PlannedCarriesOn
<1>4. \A k \in C : JobOK(k) /\ k.gen = gen /\ k.stage = "queued" /\ ~IsWork(k)
  <2>1. \A i : LET k == Summary(Append(h.b, i), "edge", <<>>, 0) IN k.stage = "queued"
    BY DEF Summary
  <2>. QED  BY <1>3, <2>1
<1>5. /\ jobs' = jobs \union Planned(h.b, p) \union C /\ held' = held \ {h}
      /\ DOMAIN leaves' = DOMAIN leaves /\ calls' = calls
      /\ UNCHANGED <<status, gen, round, routed, rows, paused, finals, beside>>
      /\ exact' = (exact /\ h.b[1] = round)
  BY <1>2 DEF Release, account, places
<1>. HIDE DEF C
<1>6. \A x \in Works \cap jobs : Apart(h.b, x.b)
  <2>1. \A x \in Works : Apart(x.b, h.b) /\ x.b \in Branches
    BY <1>1 DEF IInv, OneOfALine, TypeOK, JobOK, Works
  <2>. QED  BY <1>1, <2>1, ApartFacts
<1>7. \A i \in held' : Apart(h.b, i.b)  BY <1>5 DEF IInv, OneOfALine
<1>8. status # "PAUSED" /\ round # -1  BY <1>1 DEF IInv, PausedOK, RoundOK
<1>9. exact' => /\ exact /\ status \notin Ended
                /\ status \in Active => h.b[1] = round /\ h.b \in DOMAIN leaves
  BY <1>5 DEF IInv, FinishedIsDone, NothingLeft, TreeOK, WorkIsOfLeaves
<1>10. exact' \in BOOLEAN  BY <1>5
<1>11. \E y \in Works \union held : y.b = h.b  OBVIOUS
<1>. QED
  BY <1>1, <1>3, <1>4, <1>5, <1>6, <1>7, <1>8, <1>9, <1>10, <1>11, PlanKeeps

(***************************************************************************)
(* A child is made                                                         *)
(***************************************************************************)

LEMMA MaterializeKeeps ==
    ASSUME IInv, NEW j \in jobs, Materialize(j)
    PROVE  IInv'
<1>. DEFINE k == Started(j)
            gone == IF j.retires THEN {j.parent} ELSE {}
<1>1. /\ TypeOK /\ j.kind = "child" /\ Launchable(j) /\ j.gen = gen
      /\ routed' = (routed \ gone) \union {j.b}
      /\ jobs' = (jobs \ {j}) \union {k}
  BY DEF Materialize, IInv, Replaced
<1>2. /\ JobOK(j) /\ j.b \in Branches /\ gen \in Nat /\ calls \in Nat
      /\ j.parent \in Branches /\ j.b = Append(j.parent, j.b[Len(j.b)]) /\ j.calls \in Nat
      /\ j.retires \in BOOLEAN /\ IsWork(j) /\ j \in Children /\ j \in Works
  BY <1>1, BranchOfJob DEF JobOK, IsWork, Children, Launchable, Works
<1>3. /\ JobOK(k) /\ k.b = j.b /\ k.kind = "child" /\ k.gen = gen /\ k.stage = "active"
      /\ IsWork(k)
  BY <1>1, <1>2, StartedOK
<1>4. /\ status' = status /\ gen' = gen /\ round' = round /\ held' = held /\ paused' = paused
      /\ finals' = finals /\ exact' = exact /\ gated' = gated /\ strays' = strays
      /\ pauses' = pauses /\ continues' = continues
  BY DEF Materialize, history, beside
<1>5. Working => /\ DOMAIN leaves' = (DOMAIN leaves \ gone) \union {j.b}
                 /\ calls' = Most(calls, j.calls) /\ rows' = rows \union {j.b}
  BY DEF Materialize
<1>6. ~Working => leaves' = leaves /\ calls' = calls /\ rows' = rows
  BY DEF Materialize, account
<1>. HIDE DEF k, gone
<1>7. status # "PAUSED"  BY <1>1, PausedStands
<1>8. status \in Active => Working  BY <1>7 DEF Active, Working
<1>9. Children' = Children \ {j}
  BY <1>1, <1>3 DEF Children, QueuedJobs
<1>10. ~Apart(j.parent, j.b) /\ ~Apart(j.b, j.parent)
  <2>. DEFINE i == j.b[Len(j.b)]
  <2>1. j.b \in Seq(Nat) /\ Len(j.b) \in 1 .. Len(j.b)
    BY <1>2, EmptySeq, LenProperties DEF Branches
  <2>2. i \in Nat  BY <2>1, ElementOfSeq
  <2>3. j.b = Append(j.parent, i)  BY <1>2
  <2>. HIDE DEF i
  <2>4. ~Apart(j.parent, Append(j.parent, i)) /\ ~Apart(Append(j.parent, i), j.parent)
    BY <1>2, <2>2, ApartFacts
  <2>. QED  BY <2>3, <2>4
<1>11. TypeOK'
  <2>1. \A x \in jobs' : JobOK(x)'
    <3>. SUFFICES ASSUME NEW x \in jobs' PROVE JobOK(x)'  OBVIOUS
    <3>1. JobOK(x)  BY <1>1, <1>3 DEF TypeOK
    <3>. QED  BY <1>4, <3>1 DEF JobOK
  <2>2. \A h \in held' : HeldOK(h)'  BY <1>1, <1>4 DEF TypeOK, HeldOK
  <2>3. calls' \in Nat  BY <1>2, <1>5, <1>6 DEF Most
  <2>4. DOMAIN leaves' \subseteq Branches /\ routed' \subseteq Branches /\ rows' \subseteq Branches
    BY <1>1, <1>2, <1>5, <1>6 DEF TypeOK
  <2>. QED  BY <1>1, <1>4, <2>1, <2>2, <2>3, <2>4 DEF TypeOK
<1>12. OneOfALine'
  <2>1. \A x \in Works' : \E y \in Works : y.b = x.b /\ (x = y \/ (x = k /\ y = j))
    BY <1>1, <1>2, <1>3 DEF Works
  <2>2. ASSUME NEW x \in Works', NEW y \in Works', x # y  PROVE Apart(x.b, y.b)
    <3>1. PICK x1 \in Works : x1.b = x.b /\ (x = x1 \/ (x = k /\ x1 = j))  BY <2>1
    <3>2. PICK y1 \in Works : y1.b = y.b /\ (y = y1 \/ (y = k /\ y1 = j))  BY <2>1
    <3>3. x1 # y1
      <4>1. CASE x = k /\ x1 = j
        <5>1. y # k  BY <2>2, <4>1
        <5>2. y \in jobs \ {j}  BY <1>1, <5>1 DEF Works
        <5>. QED  BY <3>2, <4>1, <5>1, <5>2
      <4>2. CASE x = x1 /\ x # k
        <5>1. x \in jobs \ {j}  BY <1>1, <4>2 DEF Works
        <5>. QED  BY <2>2, <3>2, <4>2, <5>1
      <4>3. CASE x = x1 /\ x = k /\ x1 # j
        <5>1. y # k /\ y \in jobs \ {j}  BY <1>1, <2>2, <4>3 DEF Works
        <5>. QED  BY <2>2, <3>2, <4>3, <5>1
      <4>. QED  BY <3>1, <4>1, <4>2, <4>3
    <3>. QED  BY <3>1, <3>2, <3>3 DEF IInv, OneOfALine
  <2>3. \A x \in Works', h \in held' : Apart(x.b, h.b)
    BY <1>4, <2>1 DEF IInv, OneOfALine
  <2>4. \A h, i \in held' : h # i => Apart(h.b, i.b)  BY <1>4 DEF IInv, OneOfALine
  <2>5. \A x, y \in Children' : x.retires /\ y.retires /\ x.parent = y.parent => x = y
    BY <1>9 DEF IInv, OneOfALine
  <2>. QED  BY <2>2, <2>3, <2>4, <2>5 DEF OneOfALine
<1>13. RoundOK'
  BY <1>1, <1>4, <1>5, <1>8 DEF IInv, RoundOK, Ended, Active
<1>14. LeavesHaveWork'
  <2>. SUFFICES ASSUME status \in Active, NEW l \in DOMAIN leaves'
                PROVE  (l[1] = round => l \in routed') /\ (WorkOf(l)' # {} \/ l \in strays)
    BY <1>4 DEF LeavesHaveWork
  <2>1. CASE l = j.b
    <3>1. WorksOn(k, l)' /\ k \in jobs'
      BY <1>1, <1>3, <1>4, <2>1 DEF WorksOn, Children, QueuedJobs
    <3>. QED  BY <1>1, <2>1, <3>1 DEF WorkOf
  <2>2. CASE l # j.b
    <3>1. l \in DOMAIN leaves \ gone  BY <1>5, <1>8, <2>2
    <3>2. (l[1] = round => l \in routed) /\ (WorkOf(l) # {} \/ l \in strays)
      BY <3>1 DEF IInv, LeavesHaveWork
    <3>3. CASE \E h \in held : h.b = l
      BY <1>1, <1>4, <3>1, <3>2, <3>3 DEF WorkOf
    <3>4. CASE \E x \in jobs : WorksOn(x, l)
      <4>1. PICK x \in jobs : WorksOn(x, l)  BY <3>4
      <4>2. x # j  BY <1>2, <3>1, <4>1 DEF WorksOn, gone
      <4>3. x \in jobs' /\ WorksOn(x, l)'  BY <1>1, <1>4, <1>9, <4>1, <4>2 DEF WorksOn
      <4>. QED  BY <1>1, <3>1, <3>2, <4>3 DEF WorkOf
    <3>5. CASE l \in strays  BY <1>1, <3>1, <3>2, <3>5
    <3>. QED  BY <3>2, <3>3, <3>4, <3>5 DEF WorkOf
  <2>. QED  BY <2>1, <2>2
<1>15. PausedOK'  BY <1>4, <1>7 DEF IInv, PausedOK
<1>16. TreeOK'
  <2>. SUFFICES ASSUME exact, status \in Active
                PROVE  WorkIsOfLeaves' /\ ChildrenAreAwaited'
    BY <1>4 DEF TreeOK
  <2>1. WorkIsOfLeaves /\ ChildrenAreAwaited  BY DEF IInv, TreeOK
  <2>2. j.b[1] = round /\ (j.retires => j.parent \in DOMAIN leaves)
    BY <1>1, <1>2, <2>1 DEF WorkIsOfLeaves
  <2>3. DOMAIN leaves' = (DOMAIN leaves \ gone) \union {j.b}  BY <1>5, <1>8
  <2>4. \A x \in gone : j.retires /\ x = j.parent  BY DEF gone
  <2>5. ASSUME NEW x \in jobs', x.gen = gen, IsWork(x)
        PROVE  /\ x.b[1] = round
               /\ IF x \in Children' THEN x.retires => x.parent \in DOMAIN leaves'
                  ELSE x.b \in DOMAIN leaves'
    <3>1. CASE x = k
      BY <1>3, <2>2, <2>3, <3>1 DEF Children, QueuedJobs
    <3>2. CASE x \in jobs \ {j}
      <4>1. /\ x.b[1] = round
            /\ IF x \in Children THEN x.retires => x.parent \in DOMAIN leaves
               ELSE x.b \in DOMAIN leaves
        BY <2>1, <2>5, <3>2 DEF WorkIsOfLeaves
      <4>2. CASE x \in Children
        <5>1. x.retires /\ j.retires => x.parent # j.parent
          BY <1>2, <3>2, <4>2 DEF IInv, OneOfALine
        <5>. QED  BY <1>9, <2>3, <2>4, <3>2, <4>1, <4>2, <5>1
      <4>3. CASE x \notin Children
        <5>1. Apart(x.b, j.b)  BY <1>2, <2>5, <3>2 DEF IInv, OneOfALine, Works
        <5>2. x.b # j.parent  BY <1>10, <5>1
        <5>. QED  BY <1>9, <2>3, <2>4, <4>1, <4>3, <5>2
      <4>. QED  BY <4>2, <4>3
    <3>. QED  BY <1>1, <3>1, <3>2
  <2>6. ASSUME NEW h \in held, h.b[1] = round  PROVE h.b \in DOMAIN leaves'
    <3>1. h.b \in DOMAIN leaves  BY <2>1, <2>6 DEF WorkIsOfLeaves
    <3>2. Apart(j.b, h.b)  BY <1>2 DEF IInv, OneOfALine
    <3>3. h.b # j.parent  BY <1>10, <3>2
    <3>. QED  BY <2>3, <2>4, <3>1, <3>3
  <2>7. \A b \in DOMAIN leaves' : b[1] = round  BY <2>1, <2>2, <2>3 DEF WorkIsOfLeaves
  <2>8. WorkIsOfLeaves'  BY <1>4, <2>5, <2>6, <2>7 DEF WorkIsOfLeaves
  <2>9. round \notin finals
    <3>1. PICK x \in jobs : Holds(x)  BY <1>1, <1>2, <2>1 DEF ChildrenAreAwaited
    <3>2. DOMAIN leaves # {}
      BY <2>1, <3>1 DEF WorkIsOfLeaves, Holds, Children, QueuedJobs
    <3>. QED  BY <2>1, <3>2 DEF ChildrenAreAwaited
  <2>10. Holds(k)' /\ k \in jobs'  BY <1>1, <1>3, <1>4 DEF Holds
  <2>. QED  BY <1>4, <2>8, <2>9, <2>10 DEF ChildrenAreAwaited
<1>17. FinishedIsDone'
  <2>1. ~(exact /\ status \in Ended)
    BY <1>1, <1>2 DEF IInv, FinishedIsDone, NothingLeft
  <2>. QED  BY <1>4, <2>1 DEF FinishedIsDone
<1>18. RowsAreBehind'
  <2>1. RowsAreBehind  BY DEF IInv
  <2>2. ASSUME NEW r \in rows'  PROVE r \in rows \/ r = j.b
    BY <1>5, <1>6
  <2>3. j.b \in rows' => j.b[1] <= round
    <3>1. CASE Working
      <4>1. j.b[1] <= gen /\ gen = round
        BY <1>1, <1>2, <3>1 DEF JobOK, IInv, RoundOK, Working, Active
      <4>. QED  BY <4>1
    <3>2. CASE ~Working  BY <1>6, <2>1, <3>2 DEF RowsAreBehind
    <3>. QED  BY <3>1, <3>2
  <2>4. ASSUME NEW x \in Works', NEW r \in rows', IsPrefix(x.b, r)
        PROVE  r = x.b /\ x \notin Children'
    <3>1. CASE x = k
      <4>1. r \in rows => FALSE  BY <1>2, <1>3, <2>1, <2>4, <3>1 DEF RowsAreBehind
      <4>. QED  BY <1>3, <2>2, <3>1, <4>1 DEF Children, QueuedJobs
    <3>2. CASE x \in Works \ {j}
      <4>1. ~IsPrefix(x.b, j.b)  BY <1>2, <3>2 DEF IInv, OneOfALine, Apart
      <4>2. r \in rows  BY <2>2, <2>4, <4>1
      <4>. QED  BY <1>9, <2>1, <2>4, <3>2, <4>2 DEF RowsAreBehind
    <3>. QED  BY <1>1, <3>1, <3>2 DEF Works
  <2>5. ASSUME NEW h \in held, NEW r \in rows', IsPrefix(h.b, r)  PROVE r = h.b
    <3>1. h.b \in Branches  BY <1>1 DEF TypeOK, HeldOK
    <3>2. Apart(j.b, h.b)  BY <1>2 DEF IInv, OneOfALine
    <3>3. ~IsPrefix(h.b, j.b)  BY <3>2 DEF Apart
    <3>4. r \in rows  BY <2>2, <2>5, <3>3
    <3>. QED  BY <2>1, <2>5, <3>4 DEF RowsAreBehind
  <2>6. DOMAIN leaves' \subseteq rows'  BY <1>5, <1>6, <2>1 DEF RowsAreBehind
  <2>. QED  BY <1>4, <2>1, <2>2, <2>3, <2>4, <2>5, <2>6 DEF RowsAreBehind
<1>. QED  BY <1>11, <1>12, <1>13, <1>14, <1>15, <1>16, <1>17, <1>18 DEF IInv

(***************************************************************************)
(* Checkpoints are made and let go                                         *)
(***************************************************************************)

\* The checkpoints that are held next are those of H, some of them let go.
Reopens(H) ==
    /\ \A g \in held' : HeldOK(g) /\ \E h \in H : g.b = h.b
    /\ \A h \in H : \E g \in held' : g.b = h.b
    /\ \A g, i \in held' : g # i => Apart(g.b, i.b)

\* Opened lets checkpoints go and changes nothing else of them.
LEMMA OpenedReopens ==
    ASSUME NEW H, NEW r, NEW mine, held' \in Opened(H, r, mine),
           \A h \in H : HeldOK(h), \A h, i \in H : h # i => Apart(h.b, i.b)
    PROVE  Reopens(H)
<1>. DEFINE Let(h) == [h EXCEPT !.open = TRUE]
<1>1. \A h \in H : HeldOK(Let(h)) /\ Let(h).b = h.b
  <2>. SUFFICES ASSUME NEW h \in H PROVE HeldOK(Let(h)) /\ Let(h).b = h.b  OBVIOUS
  <2>. DEFINE g == Let(h)
  <2>1. HeldOK(h)  OBVIOUS
  <2>2. DOMAIN g = DOMAIN h /\ \A x \in DOMAIN h : x # "open" => g[x] = h[x]  OBVIOUS
  <2>3. g.open = TRUE  BY <2>1 DEF HeldOK
  <2>. HIDE DEF g
  <2>4. g.b = h.b /\ g.edges = h.edges  BY <2>1, <2>2 DEF HeldOK
  <2>5. HeldOK(g)  BY <2>1, <2>2, <2>3, <2>4 DEF HeldOK
  <2>. QED  BY <2>4, <2>5 DEF g
<1>. DEFINE Some(P) == {IF h \in P THEN Let(h) ELSE h : h \in H}
<1>2. \E P : held' = Some(P)
  <2>1. CASE held' = H
    <3>1. held' = Some({})  BY <2>1
    <3>. HIDE DEF Some
    <3>. QED  BY <3>1
  <2>2. CASE held' = {IF h.b[1] = r THEN [h EXCEPT !.open = TRUE] ELSE h : h \in H}
    <3>1. held' = Some({h \in H : h.b[1] = r})  BY <2>2
    <3>. HIDE DEF Some
    <3>. QED  BY <3>1
  <2>3. CASE held' = {IF h \in mine THEN [h EXCEPT !.open = TRUE] ELSE h : h \in H}
    <3>1. held' = Some(mine)  BY <2>3
    <3>. HIDE DEF Some
    <3>. QED  BY <3>1
  <2>. QED  BY <2>1, <2>2, <2>3 DEF Opened
<1>3. PICK P : held' = Some(P)  BY <1>2
<1>. DEFINE f(h) == IF h \in P THEN Let(h) ELSE h
<1>4. \A h \in H : f(h) \in held' /\ f(h).b = h.b /\ HeldOK(f(h))  BY <1>1, <1>3
<1>5. \A g \in held' : \E h \in H : g = f(h)  BY <1>3
<1>. HIDE DEF f
<1>6. ASSUME NEW g \in held', NEW i \in held', g # i  PROVE Apart(g.b, i.b)
  <2>1. PICK h \in H : g = f(h)  BY <1>5
  <2>2. PICK l \in H : i = f(l)  BY <1>5
  <2>3. h # l  BY <1>6, <2>1, <2>2
  <2>. QED  BY <1>4, <2>1, <2>2, <2>3
<1>. QED  BY <1>4, <1>5, <1>6 DEF Reopens

\* A checkpoint takes the place of its summary.
LEMMA CheckpointKeeps ==
    ASSUME IInv, NEW j \in jobs, Checkpoint(j)
    PROVE  IInv'
<1>. DEFINE mine == [b |-> j.b, edges |-> j.edges, credits |-> j.credits, open |-> FALSE]
            H == held \union {mine}
<1>1. /\ TypeOK /\ j.kind = "summary" /\ j \in ActiveJobs /\ j.why = "checkpoint"
      /\ jobs' = jobs \ {j} /\ held' \in Opened(H, j.b[1], {mine})
  BY DEF Checkpoint, IInv, Replaced
<1>2. /\ JobOK(j) /\ j.b \in Branches /\ j.b[1] <= gen /\ gen \in Nat /\ calls \in Nat
      /\ IsWork(j) /\ j \in Works /\ j \notin Children /\ j.edges \in EdgeSeqs
      /\ j.gen \in 0 .. gen /\ j.b[1] <= j.gen /\ j.stage = "active"
  BY <1>1, BranchOfJob DEF JobOK, IsWork, Works, Children, ActiveJobs
<1>3. /\ status' = status /\ gen' = gen /\ round' = round /\ routed' = routed /\ rows' = rows
      /\ leaves' = leaves /\ calls' = calls /\ paused' = paused
      /\ finals' = finals /\ exact' = exact /\ gated' = gated /\ strays' = strays
      /\ pauses' = pauses /\ continues' = continues
  BY DEF Checkpoint, account, places, history, beside
<1>4. mine.b = j.b /\ HeldOK(mine)
  BY <1>2 DEF HeldOK
<1>. HIDE DEF mine
<1>5. \A h \in H : HeldOK(h)  BY <1>1, <1>4 DEF TypeOK
<1>6. \A h, i \in H : h # i => Apart(h.b, i.b)
  <2>1. \A h \in held : Apart(j.b, h.b) /\ Apart(h.b, j.b)
    <3>1. \A h \in held : Apart(j.b, h.b) /\ h.b \in Branches
      BY <1>1, <1>2 DEF IInv, OneOfALine, TypeOK, HeldOK
    <3>. QED  BY <1>2, <3>1, ApartFacts
  <2>. QED  BY <1>4, <2>1 DEF IInv, OneOfALine
<1>. HIDE DEF H
<1>7. Reopens(H)  BY <1>1, <1>5, <1>6, OpenedReopens
<1>8. \A g \in held' : g.b = j.b \/ \E h \in held : g.b = h.b
  BY <1>4, <1>7 DEF Reopens, H
<1>9. /\ \A h \in held : \E g \in held' : g.b = h.b
      /\ \E g \in held' : g.b = j.b
  BY <1>4, <1>7 DEF Reopens, H
<1>10. status # "PAUSED"  BY <1>1, PausedStands
<1>11. Children' = Children  BY <1>1, <1>2 DEF Children, QueuedJobs
<1>12. TypeOK'
  <2>1. \A x \in jobs' : JobOK(x)'  BY <1>1, <1>3 DEF TypeOK, JobOK
  <2>2. \A h \in held' : HeldOK(h)'
    <3>. SUFFICES ASSUME NEW h \in held' PROVE HeldOK(h)'  OBVIOUS
    <3>1. HeldOK(h)  BY <1>7 DEF Reopens
    <3>. QED  BY <1>3, <3>1 DEF HeldOK
  <2>. QED  BY <1>1, <1>3, <2>1, <2>2 DEF TypeOK
<1>13. OneOfALine'
  <2>1. Works' = Works \ {j}  BY <1>1 DEF Works
  <2>2. \A x \in Works', h \in held' : Apart(x.b, h.b)
    BY <1>2, <1>8, <2>1 DEF IInv, OneOfALine
  <2>3. \A x, y \in Works' : x # y => Apart(x.b, y.b)  BY <2>1 DEF IInv, OneOfALine
  <2>4. \A g, i \in held' : g # i => Apart(g.b, i.b)  BY <1>7 DEF Reopens
  <2>5. \A x, y \in Children' : x.retires /\ y.retires /\ x.parent = y.parent => x = y
    BY <1>11 DEF IInv, OneOfALine
  <2>. QED  BY <2>2, <2>3, <2>4, <2>5 DEF OneOfALine
<1>14. RoundOK'  BY <1>3 DEF IInv, RoundOK, Active, Ended
<1>15. LeavesHaveWork'
  <2>. SUFFICES ASSUME status \in Active, NEW l \in DOMAIN leaves
                PROVE  (l[1] = round => l \in routed) /\ (WorkOf(l)' # {} \/ l \in strays)
    BY <1>3 DEF LeavesHaveWork
  <2>1. (l[1] = round => l \in routed) /\ (WorkOf(l) # {} \/ l \in strays)
    BY DEF IInv, LeavesHaveWork
  <2>2. CASE l = j.b \/ \E h \in held : h.b = l  BY <1>9, <2>1, <2>2 DEF WorkOf
  <2>3. CASE l # j.b /\ \E x \in jobs : WorksOn(x, l)
    <3>1. PICK x \in jobs : WorksOn(x, l)  BY <2>3
    <3>2. x # j  BY <1>2, <2>3, <3>1 DEF WorksOn
    <3>3. x \in jobs' /\ WorksOn(x, l)'  BY <1>1, <1>3, <1>11, <3>1, <3>2 DEF WorksOn
    <3>. QED  BY <2>1, <3>3 DEF WorkOf
  <2>. QED  BY <2>1, <2>2, <2>3 DEF WorkOf
<1>16. PausedOK'  BY <1>3, <1>10 DEF IInv, PausedOK
<1>17. j.gen # gen /\ status \in Active \union Ended => j.b[1] # round
  <2>1. j.b \in Seq(Nat) /\ Len(j.b) \in Nat /\ Len(j.b) # 0
    BY <1>2, EmptySeq, LenProperties DEF Branches
  <2>2. j.b[1] \in Nat  BY <2>1, ElementOfSeq
  <2>. QED  BY <1>2, <2>2 DEF IInv, RoundOK
<1>18. TreeOK'
  <2>. SUFFICES ASSUME exact, status \in Active
                PROVE  WorkIsOfLeaves' /\ ChildrenAreAwaited'
    BY <1>3 DEF TreeOK
  <2>1. WorkIsOfLeaves /\ ChildrenAreAwaited  BY DEF IInv, TreeOK
  <2>2. j.b[1] = round => j.b \in DOMAIN leaves
    BY <1>2, <1>17, <2>1 DEF WorkIsOfLeaves
  <2>3. WorkIsOfLeaves'
    BY <1>1, <1>3, <1>8, <1>11, <2>1, <2>2 DEF WorkIsOfLeaves
  <2>4. \A x \in jobs : Holds(x) => x \in jobs' /\ Holds(x)'
    BY <1>1, <1>2, <1>3 DEF Holds
  <2>5. ChildrenAreAwaited'
    BY <1>3, <1>11, <2>1, <2>4 DEF ChildrenAreAwaited
  <2>. QED  BY <2>3, <2>5
<1>19. FinishedIsDone'
  <2>. SUFFICES ASSUME exact, status \in Ended  PROVE NothingLeft'
    BY <1>3 DEF FinishedIsDone
  <2>1. NothingLeft  BY DEF IInv, FinishedIsDone
  <2>2. j.b[1] # round  BY <1>2, <1>17, <2>1 DEF NothingLeft
  <2>. QED  BY <1>1, <1>3, <1>8, <2>1, <2>2 DEF NothingLeft
<1>20. RowsAreBehind'
  <2>1. Works' = Works \ {j}  BY <1>1 DEF Works
  <2>2. \A g \in held' : \E y \in Works \union held : g.b = y.b  BY <1>2, <1>8
  <2>. QED  BY <1>3, <1>11, <1>12, <2>1, <2>2, RowsStay
<1>. QED  BY <1>12, <1>13, <1>14, <1>15, <1>16, <1>18, <1>19, <1>20 DEF IInv

(***************************************************************************)
(* A branch ends, and the round with the last                              *)
(***************************************************************************)

\* A tree without a leaf has no work left.
LEMMA EmptyTree ==
    ASSUME WorkIsOfLeaves', ChildrenAreAwaited', DOMAIN leaves' = {}
    PROVE  NothingLeft'
<1>1. \A h \in held' : h.b[1] # round'  BY DEF WorkIsOfLeaves
<1>2. ASSUME NEW x \in jobs', Holds(x)'  PROVE FALSE
  <2>1. x.gen = gen' /\ IsWork(x)' /\ (x \in Children' => x.retires)
    BY <1>2 DEF Holds, Children, QueuedJobs
  <2>. QED  BY <2>1 DEF WorkIsOfLeaves
<1>3. \A c \in Children' : c.gen # gen'  BY <1>2 DEF ChildrenAreAwaited
<1>4. \A x \in jobs' : x.gen = gen' => ~IsWork(x)'  BY <1>3 DEF WorkIsOfLeaves
<1>. QED  BY <1>1, <1>4 DEF NothingLeft

\* The end of a branch, or of a rejected edge.
LEMMA FinalizeKeeps ==
    ASSUME IInv, NEW j \in jobs, Finalize(j)
    PROVE  IInv'
<1>. DEFINE taken == j.gen = gen /\ (Working \/ status = "FINALIZING")
<1>1. /\ TypeOK /\ j.kind = "summary" /\ j \in ActiveJobs /\ j.why \in {"final", "edge"}
      /\ routed' = routed \ {j.b} /\ held' \in Opened(held, j.b[1], {})
      /\ jobs' = jobs \ {j}
      /\ exact' = (exact /\ ~(taken /\ j.why = "edge" /\ j.b \in DOMAIN leaves))
  BY DEF Finalize, IInv, Replaced
<1>2. /\ JobOK(j) /\ j.b \in Branches /\ j.b[1] <= gen /\ gen \in Nat /\ calls \in Nat
      /\ j \notin Children /\ j.gen \in 0 .. gen /\ j.b[1] <= j.gen /\ j.stage = "active"
      /\ (j.why = "final" => j \in Works)
  BY <1>1, BranchOfJob DEF IsWork, Works, Children, ActiveJobs
<1>3. /\ gen' = gen /\ round' = round /\ rows' = rows /\ calls' = calls /\ paused' = paused
      /\ gated' = gated /\ strays' = strays
      /\ pauses' = pauses /\ continues' = continues
  BY DEF Finalize, beside
<1>4. \/ /\ ~taken /\ leaves' = leaves /\ finals' = finals /\ status' = status
      \/ /\ taken /\ status' = "FAILED" /\ leaves' = leaves /\ finals' = finals
      \/ /\ taken /\ DOMAIN leaves' = DOMAIN leaves \ {j.b}
         /\ (finals' = finals \/ (DOMAIN leaves' = {} /\ finals' = finals \union {round}))
         /\ \/ status' = status
            \/ (DOMAIN leaves' = {} /\ status = "RUNNING" /\ status' = "FINALIZING")
  <2>1. CASE ~taken  BY <2>1 DEF Finalize
  <2>2. CASE taken /\ j.b \notin rows  BY <2>2 DEF Finalize, Settled
  <2>3. CASE taken /\ j.b \in rows
    <3>1. Settled(j.b)  BY <2>3 DEF Finalize
    <3>2. DOMAIN leaves' = DOMAIN leaves \ {j.b}  BY <2>3, <3>1 DEF Settled, Without
    <3>. QED  BY <2>3, <3>1, <3>2 DEF Settled
  <2>. QED  BY <2>1, <2>2, <2>3
<1>. HIDE DEF taken
<1>5. round # -1 /\ round \in 0 .. gen
  <2>1. round # -1  BY DEF IInv, RoundOK
  <2>. QED  BY <1>1, <2>1 DEF TypeOK
<1>6. Reopens(held)
  BY <1>1, OpenedReopens DEF TypeOK, IInv, OneOfALine
<1>7. /\ \A g \in held' : \E h \in held : g.b = h.b
      /\ \A h \in held : \E g \in held' : g.b = h.b
  BY <1>6 DEF Reopens
<1>8. status # "PAUSED"  BY <1>1, PausedStands
<1>9. Children' = Children  BY <1>1, <1>2 DEF Children, QueuedJobs
<1>10. TypeOK'
  <2>1. \A x \in jobs' : JobOK(x)'  BY <1>1, <1>3 DEF TypeOK, JobOK
  <2>2. \A h \in held' : HeldOK(h)'
    <3>. SUFFICES ASSUME NEW h \in held' PROVE HeldOK(h)'  OBVIOUS
    <3>1. HeldOK(h)  BY <1>6 DEF Reopens
    <3>. QED  BY <1>3, <3>1 DEF HeldOK
  <2>3. status' \in Statuses  BY <1>1, <1>4 DEF TypeOK, Statuses
  <2>4. finals' \subseteq 0 .. gen  BY <1>1, <1>4, <1>5 DEF TypeOK
  <2>5. exact' \in BOOLEAN  BY <1>1
  <2>6. DOMAIN leaves' \subseteq Branches  BY <1>1, <1>4 DEF TypeOK
  <2>. QED  BY <1>1, <1>3, <2>1, <2>2, <2>3, <2>4, <2>5, <2>6 DEF TypeOK
<1>11. OneOfALine'
  <2>1. Works' = Works \ {j}  BY <1>1 DEF Works
  <2>2. \A x \in Works', h \in held' : Apart(x.b, h.b)
    BY <1>7, <2>1 DEF IInv, OneOfALine
  <2>3. \A x, y \in Works' : x # y => Apart(x.b, y.b)  BY <2>1 DEF IInv, OneOfALine
  <2>4. \A g, i \in held' : g # i => Apart(g.b, i.b)  BY <1>6 DEF Reopens
  <2>5. \A x, y \in Children' : x.retires /\ y.retires /\ x.parent = y.parent => x = y
    BY <1>9 DEF IInv, OneOfALine
  <2>. QED  BY <2>2, <2>3, <2>4, <2>5 DEF OneOfALine
<1>12. RoundOK'
  <2>1. RoundOK  BY DEF IInv
  <2>2. status' \in Active => routed' \subseteq DOMAIN leaves'
    BY <1>1, <1>4, <2>1 DEF RoundOK, Active
  <2>3. status' = "FORMALIZING" => gen = 0 /\ round = -1  BY <1>4, <2>1 DEF RoundOK
  <2>4. status' \in Active \union Ended => gen = round
    BY <1>4, <2>1 DEF RoundOK, Active, Ended
  <2>. QED  BY <1>3, <1>5, <2>2, <2>3, <2>4 DEF RoundOK
<1>13. ASSUME status' \in Active \union Ended
       PROVE  /\ status \in Active \union Ended /\ gen = round
              /\ \/ ~taken /\ leaves' = leaves
                 \/ taken /\ DOMAIN leaves' = DOMAIN leaves \ {j.b}
  BY <1>4, <1>13 DEF IInv, RoundOK, Active, Ended
<1>14. ASSUME status \in Active, ~taken  PROVE j.gen # gen /\ (gen = round => j.b[1] # round)
  <2>1. j.gen # gen  BY <1>8, <1>14 DEF taken, Working, Active
  <2>2. j.b \in Seq(Nat) /\ Len(j.b) \in Nat /\ Len(j.b) # 0
    BY <1>2, EmptySeq, LenProperties DEF Branches
  <2>3. j.b[1] \in Nat  BY <2>2, ElementOfSeq
  <2>. QED  BY <1>2, <2>1, <2>3
<1>15. LeavesHaveWork'
  <2>. SUFFICES ASSUME status' \in Active, NEW l \in DOMAIN leaves'
                PROVE  (l[1] = round => l \in routed') /\ (WorkOf(l)' # {} \/ l \in strays)
    BY <1>3 DEF LeavesHaveWork
  <2>1. status \in Active /\ gen = round  BY <1>4, <1>13 DEF Active
  <2>2. l \in DOMAIN leaves  BY <1>13
  <2>3. (l[1] = round => l \in routed) /\ (WorkOf(l) # {} \/ l \in strays)
    BY <2>1, <2>2 DEF IInv, LeavesHaveWork
  <2>4. l[1] = round => l # j.b  BY <1>13, <1>14, <2>1
  <2>5. CASE \E h \in held : h.b = l  BY <1>1, <1>7, <2>3, <2>4, <2>5 DEF WorkOf
  <2>6. CASE \E x \in jobs : WorksOn(x, l)
    <3>1. PICK x \in jobs : WorksOn(x, l)  BY <2>6
    <3>2. x # j  BY <1>2, <1>13, <1>14, <2>1, <3>1 DEF WorksOn
    <3>3. x \in jobs' /\ WorksOn(x, l)'  BY <1>1, <1>3, <1>9, <3>1, <3>2 DEF WorksOn
    <3>. QED  BY <1>1, <2>3, <2>4, <3>3 DEF WorkOf
  <2>7. CASE l \in strays  BY <1>1, <2>3, <2>4, <2>7
  <2>. QED  BY <2>3, <2>5, <2>6, <2>7 DEF WorkOf
<1>16. PausedOK'  BY <1>3, <1>4, <1>8 DEF IInv, PausedOK
<1>17. ASSUME exact', status \in Active, status' \in Active \union Ended
       PROVE  WorkIsOfLeaves' /\ ChildrenAreAwaited'
  <2>1. WorkIsOfLeaves /\ ChildrenAreAwaited  BY <1>1, <1>17 DEF IInv, TreeOK
  <2>2. taken => j.why = "final" \/ j.b \notin DOMAIN leaves  BY <1>1, <1>17
  <2>3. DOMAIN leaves' \subseteq DOMAIN leaves
        /\ \A l \in DOMAIN leaves : l \notin DOMAIN leaves' => j.why = "final" /\ l = j.b
    BY <1>13, <1>17, <2>2
  <2>4. ASSUME NEW x \in jobs', x.gen = gen, IsWork(x)
        PROVE  /\ x.b[1] = round
               /\ IF x \in Children' THEN x.retires => x.parent \in DOMAIN leaves'
                  ELSE x.b \in DOMAIN leaves'
    <3>1. /\ x \in jobs \ {j} /\ x \in Works /\ x.b[1] = round
          /\ IF x \in Children THEN x.retires => x.parent \in DOMAIN leaves
             ELSE x.b \in DOMAIN leaves
      BY <1>1, <2>1, <2>4 DEF WorkIsOfLeaves, Works
    <3>2. j.why = "final" => Apart(j.b, x.b)  BY <1>2, <3>1 DEF IInv, OneOfALine
    <3>3. x.b \in Branches  BY <1>1, <3>1 DEF TypeOK, JobOK
    <3>4. CASE x \in Children
      <4>. DEFINE i == x.b[Len(x.b)]
      <4>1. x.b \in Seq(Nat) /\ Len(x.b) \in 1 .. Len(x.b)
        BY <3>3, EmptySeq, LenProperties DEF Branches
      <4>2. i \in Nat  BY <4>1, ElementOfSeq
      <4>3. x.b = Append(x.parent, i) /\ x.parent \in Branches
        BY <1>1, <3>1, <3>4 DEF TypeOK, JobOK, Children
      <4>. HIDE DEF i
      <4>4. ~Apart(x.parent, Append(x.parent, i))  BY <4>2, <4>3, ApartFacts
      <4>5. j.why = "final" => x.parent # j.b  BY <3>2, <4>3, <4>4
      <4>. QED  BY <1>9, <2>3, <3>1, <3>4, <4>5
    <3>5. CASE x \notin Children
      <4>1. j.why = "final" => x.b # j.b  BY <1>2, <3>2, <3>3, ApartFacts
      <4>. QED  BY <1>9, <2>3, <3>1, <3>5, <4>1
    <3>. QED  BY <3>4, <3>5
  <2>5. ASSUME NEW g \in held', g.b[1] = round  PROVE g.b \in DOMAIN leaves'
    <3>1. PICK h \in held : g.b = h.b  BY <1>7
    <3>2. h.b \in DOMAIN leaves  BY <2>1, <2>5, <3>1 DEF WorkIsOfLeaves
    <3>3. j.why = "final" => Apart(j.b, h.b)  BY <1>2 DEF IInv, OneOfALine
    <3>4. h.b \in Branches  BY <1>1 DEF TypeOK, HeldOK
    <3>5. j.why = "final" => h.b # j.b  BY <1>2, <3>3, <3>4, ApartFacts
    <3>. QED  BY <2>3, <3>1, <3>2, <3>5
  <2>6. WorkIsOfLeaves'
    BY <1>3, <2>1, <2>3, <2>4, <2>5 DEF WorkIsOfLeaves
  <2>7. \A x \in jobs : Holds(x) => x \in jobs' /\ Holds(x)'
    BY <1>1, <1>2, <1>3 DEF Holds
  <2>8. round \in finals' => DOMAIN leaves' = {}
    BY <1>4, <2>1, <2>3 DEF ChildrenAreAwaited
  <2>9. ChildrenAreAwaited'
    BY <1>3, <1>9, <2>1, <2>7, <2>8 DEF ChildrenAreAwaited
  <2>. QED  BY <2>6, <2>9
<1>18. TreeOK'
  <2>. SUFFICES ASSUME exact', status' \in Active
                PROVE  WorkIsOfLeaves' /\ ChildrenAreAwaited'
    BY DEF TreeOK
  <2>1. status \in Active  BY <1>4, <1>13 DEF Active
  <2>. QED  BY <1>17, <2>1
<1>19. FinishedIsDone'
  <2>. SUFFICES ASSUME exact', status' \in Ended  PROVE NothingLeft'
    BY DEF FinishedIsDone
  <2>1. CASE status \in Ended
    <3>1. NothingLeft  BY <1>1, <2>1 DEF IInv, FinishedIsDone
    <3>. QED  BY <1>1, <1>3, <1>7, <1>13, <3>1 DEF NothingLeft
  <2>2. CASE status \notin Ended
    <3>1. DOMAIN leaves' = {} /\ status = "RUNNING"  BY <1>4, <2>2 DEF Ended
    <3>2. WorkIsOfLeaves' /\ ChildrenAreAwaited'  BY <1>17, <3>1 DEF Active
    <3>. QED  BY <3>1, <3>2, EmptyTree
  <2>. QED  BY <2>1, <2>2
<1>20. RowsAreBehind'
  <2>1. Works' = Works \ {j}  BY <1>1 DEF Works
  <2>2. \A g \in held' : \E y \in Works \union held : g.b = y.b  BY <1>7
  <2>3. DOMAIN leaves' \subseteq DOMAIN leaves  BY <1>4
  <2>. QED  BY <1>3, <1>9, <1>10, <2>1, <2>2, <2>3, RowsStay
<1>. QED  BY <1>10, <1>11, <1>12, <1>15, <1>16, <1>18, <1>19, <1>20 DEF IInv

(***************************************************************************)
(* Reports and users                                                       *)
(***************************************************************************)

\* Checkpoints that stay as they are.
LEMMA HeldStays ==
    ASSUME IInv, held' = held
    PROVE  Reopens(held)
BY DEF Reopens, IInv, TypeOK, OneOfALine

\* A step that leaves the effects of the task alone and makes no leaf.
LEMMA StillKeeps ==
    ASSUME IInv, jobs' = jobs, gen' = gen, round' = round, rows' = rows, calls' = calls,
           Reopens(held),
           status' \in Statuses, paused' \in BOOLEAN, exact' \in BOOLEAN,
           gated' \in BOOLEAN, strays' \subseteq Branches,
           \A b \in strays : b \in strays' \/ WorkOf(b) # {},
           pauses' \in 0 .. MaxPauses, continues' \in 0 .. MaxContinues,
           routed' \subseteq Branches, DOMAIN leaves' \subseteq DOMAIN leaves,
           \/ finals' \subseteq finals
           \/ finals' = finals \union {round} /\ status \in Active /\ DOMAIN leaves = {},
           status' = "FORMALIZING" => status = "FORMALIZING",
           status' \in Active => /\ status \in Active /\ routed' \subseteq DOMAIN leaves'
                                 /\ \A l \in DOMAIN leaves' : l[1] = round => l \in routed',
           status' \in Active \union Ended => status \in Active \union Ended,
           exact' => exact,
           exact' /\ status \in Active => DOMAIN leaves' = DOMAIN leaves,
           exact' /\ status' \in Ended => status \in Ended \/ DOMAIN leaves = {},
           PausedOK'
    PROVE  IInv'
<1>1. /\ \A g \in held' : \E h \in held : g.b = h.b
      /\ \A h \in held : \E g \in held' : g.b = h.b
      /\ \A g \in held' : HeldOK(g)
      /\ \A g, i \in held' : g # i => Apart(g.b, i.b)
  BY DEF Reopens
<1>2. TypeOK  BY DEF IInv
<1>3. Children' = Children  BY DEF Children, QueuedJobs
<1>4. TypeOK'
  <2>1. \A x \in jobs' : JobOK(x)'  BY <1>2 DEF TypeOK, JobOK
  <2>2. \A h \in held' : HeldOK(h)'
    <3>. SUFFICES ASSUME NEW h \in held' PROVE HeldOK(h)'  OBVIOUS
    <3>1. HeldOK(h)  BY <1>1
    <3>. QED  BY <3>1 DEF HeldOK
  <2>3. finals' \subseteq 0 .. gen
    <3>1. status \in Active => round \in 0 .. gen
      <4>1. status \in Active => round # -1  BY DEF IInv, RoundOK
      <4>. QED  BY <1>2, <4>1 DEF TypeOK
    <3>. QED  BY <1>2, <3>1 DEF TypeOK
  <2>. QED  BY <1>2, <2>1, <2>2, <2>3 DEF TypeOK
<1>5. OneOfALine'
  <2>1. Works' = Works  BY DEF Works
  <2>2. \A x \in Works', h \in held' : Apart(x.b, h.b)
    BY <1>1, <2>1 DEF IInv, OneOfALine
  <2>3. \A x, y \in Works' : x # y => Apart(x.b, y.b)  BY <2>1 DEF IInv, OneOfALine
  <2>4. \A x, y \in Children' : x.retires /\ y.retires /\ x.parent = y.parent => x = y
    BY <1>3 DEF IInv, OneOfALine
  <2>. QED  BY <1>1, <2>2, <2>3, <2>4 DEF OneOfALine
<1>6. RoundOK'
  <2>1. RoundOK  BY DEF IInv
  <2>2. round = -1 => held' = {} /\ finals' = {} /\ status' \notin Active \union Ended
    BY <1>1, <2>1 DEF RoundOK
  <2>. QED  BY <2>1, <2>2 DEF RoundOK
<1>7. LeavesHaveWork'
  <2>. SUFFICES ASSUME status' \in Active, NEW l \in DOMAIN leaves'
                PROVE  (l[1] = round => l \in routed') /\ (WorkOf(l)' # {} \/ l \in strays')
    BY DEF LeavesHaveWork
  <2>1. l[1] = round => l \in routed'  OBVIOUS
  <2>2. WorkOf(l) # {} \/ l \in strays'
    <3>1. WorkOf(l) # {} \/ l \in strays  BY DEF IInv, LeavesHaveWork
    <3>. QED  BY <3>1
  <2>3. CASE \E h \in held : h.b = l  BY <1>1, <2>1, <2>3 DEF WorkOf
  <2>4. CASE \E x \in jobs : WorksOn(x, l)
    <3>1. PICK x \in jobs : WorksOn(x, l)  BY <2>4
    <3>2. x \in jobs' /\ WorksOn(x, l)'  BY <1>3, <3>1 DEF WorksOn
    <3>. QED  BY <2>1, <3>2 DEF WorkOf
  <2>. QED  BY <2>1, <2>2, <2>3, <2>4 DEF WorkOf
<1>8. ASSUME exact', status \in Active  PROVE WorkIsOfLeaves' /\ ChildrenAreAwaited'
  <2>1. WorkIsOfLeaves /\ ChildrenAreAwaited  BY <1>8 DEF IInv, TreeOK
  <2>2. DOMAIN leaves' = DOMAIN leaves  BY <1>8
  <2>3. WorkIsOfLeaves'  BY <1>1, <1>3, <2>1, <2>2 DEF WorkIsOfLeaves
  <2>4. \A x \in jobs : Holds(x) => Holds(x)'  BY DEF Holds
  <2>5. round \in finals' => DOMAIN leaves' = {}  BY <2>1, <2>2 DEF ChildrenAreAwaited
  <2>6. ChildrenAreAwaited'  BY <1>3, <2>1, <2>4, <2>5 DEF ChildrenAreAwaited
  <2>. QED  BY <2>3, <2>6
<1>9. TreeOK'  BY <1>8 DEF TreeOK
<1>10. FinishedIsDone'
  <2>. SUFFICES ASSUME exact', status' \in Ended  PROVE NothingLeft'
    BY DEF FinishedIsDone
  <2>1. CASE status \in Ended
    <3>1. NothingLeft  BY <2>1 DEF IInv, FinishedIsDone
    <3>. QED  BY <1>1, <3>1 DEF NothingLeft
  <2>2. CASE status \notin Ended
    <3>1. status \in Active /\ DOMAIN leaves' = {}  BY <2>2
    <3>2. WorkIsOfLeaves' /\ ChildrenAreAwaited'  BY <1>8, <3>1
    <3>. QED  BY <3>1, <3>2, EmptyTree
  <2>. QED  BY <2>1, <2>2
<1>11. RowsAreBehind'
  <2>1. Works' = Works  BY DEF Works
  <2>2. \A g \in held' : \E y \in Works \union held : g.b = y.b  BY <1>1
  <2>. QED  BY <1>3, <1>4, <2>1, <2>2, RowsStay
<1>. QED  BY <1>4, <1>5, <1>6, <1>7, <1>9, <1>10, <1>11 DEF IInv

\* What a step that leaves most of the task alone has of the invariant.
LEMMA TypesOfIInv ==
    ASSUME IInv
    PROVE  /\ gen \in Nat /\ status \in Statuses /\ paused \in BOOLEAN /\ exact \in BOOLEAN
           /\ gated \in BOOLEAN /\ strays \subseteq Branches
           /\ pauses \in 0 .. MaxPauses /\ continues \in 0 .. MaxContinues
           /\ routed \subseteq Branches /\ DOMAIN leaves \subseteq Branches
           /\ status \in Active => /\ routed \subseteq DOMAIN leaves
                                   /\ \A l \in DOMAIN leaves : l[1] = round => l \in routed
           /\ PausedOK
           /\ MaxPauses \in Nat /\ MaxContinues \in Nat
BY BoundsAssumption DEF IInv, TypeOK, RoundOK, LeavesHaveWork

\* The deadline opens an epoch, or the final report of a round without a leaf.
LEMMA DeadlineKeeps ==
    ASSUME IInv, Deadline
    PROVE  IInv'
<1>1. /\ jobs' = jobs /\ gen' = gen /\ round' = round /\ rows' = rows /\ calls' = calls
      /\ leaves' = leaves /\ routed' = routed /\ paused' = paused /\ exact' = exact
      /\ gated' = gated /\ strays' = strays
      /\ pauses' = pauses /\ continues' = continues /\ status = "RUNNING"
      /\ \/ DOMAIN leaves = {} /\ status' = "FINALIZING" /\ finals' = finals \union {round}
         \/ status' = "REPORTING" /\ finals' = finals
  BY DEF Deadline, account, history, beside
<1>2. held' \in Opened(held, round, {})  BY DEF Deadline, Opened
<1>3. Reopens(held)  BY <1>2, OpenedReopens DEF IInv, TypeOK, OneOfALine
<1>4. PausedOK'  BY <1>1 DEF PausedOK
<1>. QED
  BY <1>1, <1>3, <1>4, StillKeeps, TypesOfIInv DEF Statuses, Active, Ended

LEMMA IntermediateReportKeeps ==
    ASSUME IInv, IntermediateReport
    PROVE  IInv'
<1>1. /\ jobs' = jobs /\ gen' = gen /\ round' = round /\ rows' = rows /\ calls' = calls
      /\ leaves' = leaves /\ routed' = routed /\ paused' = paused /\ exact' = exact
      /\ gated' = gated /\ strays' = strays
      /\ pauses' = pauses /\ continues' = continues /\ status = "REPORTING" /\ held' = held
      /\ finals' = finals
      /\ \/ DOMAIN leaves = {} /\ status' = "FINALIZING"
         \/ status' = "RUNNING"
  BY DEF IntermediateReport, account, places, history, beside
<1>2. PausedOK'  BY <1>1 DEF PausedOK
<1>. QED
  BY <1>1, <1>2, HeldStays, StillKeeps, TypesOfIInv DEF Statuses, Active, Ended

\* A final report of the round is written when it has no leaf.
LEMMA FinalReportKeeps ==
    ASSUME IInv, NEW r \in finals, FinalReport(r)
    PROVE  IInv'
<1>1. /\ jobs' = jobs /\ gen' = gen /\ round' = round /\ rows' = rows /\ calls' = calls
      /\ leaves' = leaves /\ routed' = routed /\ paused' = paused
      /\ gated' = gated /\ strays' = strays
      /\ pauses' = pauses /\ continues' = continues /\ held' = held
      /\ finals' \subseteq finals
      /\ \/ /\ status \in {"RUNNING", "REPORTING", "FINALIZING"}
            /\ status' \in {"COMPLETED", "COMPLETED_WITH_ERRORS"}
            /\ exact' = (exact /\ r = round)
         \/ status' = status /\ exact' = exact
  BY DEF FinalReport, account, places, beside
<1>2. PausedOK'
  <2>1. PausedOK  BY TypesOfIInv
  <2>2. CASE status' = status
    BY <1>1, <2>1, <2>2 DEF PausedOK
  <2>3. CASE status' # status  BY <1>1, <2>3 DEF PausedOK
  <2>. QED  BY <2>2, <2>3
<1>3. exact' /\ status' # status /\ status \in Active => DOMAIN leaves = {}
  BY <1>1 DEF IInv, TreeOK, ChildrenAreAwaited
<1>4. exact' \in BOOLEAN /\ (exact' => exact)
  <2>1. exact \in BOOLEAN  BY TypesOfIInv
  <2>2. CASE exact' = (exact /\ r = round)  BY <2>2
  <2>3. CASE exact' = exact  BY <2>1, <2>3
  <2>. QED  BY <1>1, <2>2, <2>3
<1>5. status' \in Statuses  BY <1>1, TypesOfIInv DEF Statuses
<1>6. status' \in Active => status' = status  BY <1>1 DEF Active
<1>7. status' \in Active \union Ended => status \in Active \union Ended
  BY <1>1 DEF Active, Ended
<1>8. exact' /\ status' \in Ended => status \in Ended \/ DOMAIN leaves = {}
  BY <1>1, <1>3 DEF Active, Ended
<1>9. status' = "FORMALIZING" => status = "FORMALIZING"  BY <1>1
<1>. QED
  BY <1>1, <1>2, <1>4, <1>5, <1>6, <1>7, <1>8, <1>9, HeldStays, StillKeeps, TypesOfIInv

\* The users' pause, its end, and the task that cannot be formalized.
LEMMA PauseKeeps ==
    ASSUME IInv, Pause
    PROVE  IInv'
<1>1. /\ jobs' = jobs /\ gen' = gen /\ round' = round /\ rows' = rows /\ calls' = calls
      /\ leaves' = leaves /\ routed' = routed /\ paused' = TRUE /\ exact' = exact
      /\ gated' = gated /\ strays' = strays
      /\ pauses < MaxPauses /\ pauses' = pauses + 1 /\ continues' = continues /\ held' = held
      /\ finals' = finals /\ status \in {"RUNNING", "REPORTING"} /\ status' = "PAUSING"
  BY DEF Pause, account, places, history
<1>2. PausedOK'  BY <1>1 DEF PausedOK
<1>3. pauses' \in 0 .. MaxPauses  BY <1>1, TypesOfIInv
<1>. QED
  BY <1>1, <1>2, <1>3, HeldStays, StillKeeps, TypesOfIInv DEF Statuses, Active, Ended

LEMMA MarkPausedKeeps ==
    ASSUME IInv, MarkPaused, ~Releasing
    PROVE  IInv'
<1>1. /\ jobs' = jobs /\ gen' = gen /\ round' = round /\ rows' = rows /\ calls' = calls
      /\ leaves' = leaves /\ routed' = routed /\ paused' = paused /\ exact' = exact
      /\ gated' = gated /\ strays' = strays \union {j.b : j \in Missed}
      /\ pauses' = pauses /\ continues' = continues /\ held' = held
      /\ finals' = finals /\ status = "PAUSING" /\ status' = "PAUSED"
  BY DEF MarkPaused, account, places, history
<1>2. PausedOK'
  <2>1. paused' /\ \A h \in held' : ~h.open
    BY <1>1, TypesOfIInv DEF Releasing, PausedOK
  <2>2. ASSUME NEW j \in jobs
        PROVE  \/ /\ j.stage = "queued"
                  /\ UsesLlm(j) \/ (j.kind = "batch" /\ \E s \in jobs : s.kind = "summary")
               \/ j.kind = "batch" /\ j.b \in strays'
    <3>1. j \in QueuedJobs /\ j.stage = "queued"
      BY BranchOfJob DEF IInv, MarkPaused, ActiveJobs, QueuedJobs
    <3>2. UsesLlm(j) \/ j.kind = "batch"  BY <3>1 DEF MarkPaused
    <3>3. CASE j \in Missed  BY <1>1, <3>3 DEF Missed
    <3>4. CASE j.kind = "batch" /\ j \notin Missed
      BY <3>1, <3>4 DEF Missed, QueuedJobs
    <3>. QED  BY <3>1, <3>2, <3>3, <3>4
  <2>. QED  BY <1>1, <2>1, <2>2 DEF PausedOK, UsesLlm
<1>3. strays' \subseteq Branches
  <2>1. \A j \in Missed : j.b \in Branches  BY BranchOfJob DEF IInv, Missed, QueuedJobs
  <2>. QED  BY <1>1, <2>1, TypesOfIInv
<1>4. \A b \in strays : b \in strays'  BY <1>1
<1>. QED
  BY <1>1, <1>2, <1>3, <1>4, HeldStays, StillKeeps, TypesOfIInv DEF Statuses, Active, Ended

LEMMA ExpirePauseKeeps ==
    ASSUME IInv, ExpirePause
    PROVE  IInv'
<1>1. /\ jobs' = jobs /\ gen' = gen /\ round' = round /\ rows' = rows /\ calls' = calls
      /\ leaves' = leaves /\ routed' = {} /\ paused' = paused /\ exact' = exact
      /\ gated' = gated /\ strays' = strays
      /\ pauses' = pauses /\ continues' = continues /\ held' = held
      /\ finals' = finals /\ status' = "EXPIRED"
  BY DEF ExpirePause, account, history, beside
<1>2. PausedOK'  BY <1>1 DEF PausedOK
<1>. QED
  BY <1>1, <1>2, HeldStays, StillKeeps, TypesOfIInv DEF Statuses, Active, Ended

LEMMA FormalizationFailsKeeps ==
    ASSUME IInv, FormalizationFails
    PROVE  IInv'
<1>1. /\ jobs' = jobs /\ gen' = gen /\ round' = round /\ rows' = rows /\ calls' = calls
      /\ leaves' = leaves /\ routed' = routed /\ paused' = paused /\ exact' = exact
      /\ gated' = gated /\ strays' = strays
      /\ pauses' = pauses /\ continues' = continues /\ held' = held
      /\ finals' = finals /\ status' = "FAILED"
  BY DEF FormalizationFails, account, places, history, beside
<1>2. PausedOK'  BY <1>1 DEF PausedOK
<1>. QED
  BY <1>1, <1>2, HeldStays, StillKeeps, TypesOfIInv DEF Statuses, Active, Ended

\* A continue of a task that is paused drops leaves in debt, and their routes.
LEMMA ContinuePausedKeeps ==
    ASSUME IInv, NEW a \in Adjustments, ContinuePaused(a)
    PROVE  IInv'
<1>1. /\ jobs' = jobs /\ gen' = gen /\ round' = round /\ rows' = rows /\ calls' = calls
      /\ paused' = FALSE /\ pauses' = pauses /\ continues < MaxContinues
      /\ continues' = continues + 1 /\ held' = held /\ finals' = finals
      /\ status = "PAUSED" /\ status' = "RUNNING"
      /\ gated' = gated /\ strays' = {b \in strays : WorkOf(b) = {}}
  BY DEF ContinuePaused
<1>2. /\ DOMAIN leaves' = routed' /\ routed' \subseteq routed
      /\ exact' \in BOOLEAN /\ (exact' => exact /\ routed' = routed)
  BY DEF ContinuePaused
<1>3. /\ routed \subseteq DOMAIN leaves
      /\ \A l \in DOMAIN leaves : l[1] = round => l \in routed
  BY <1>1, TypesOfIInv DEF Active
<1>4. exact' => DOMAIN leaves' = DOMAIN leaves
  <2>1. exact => \A l \in DOMAIN leaves : l[1] = round
    BY <1>1 DEF IInv, TreeOK, WorkIsOfLeaves, Active
  <2>. QED  BY <1>2, <1>3, <2>1
<1>5. PausedOK'  BY <1>1 DEF PausedOK
<1>6. continues' \in 0 .. MaxContinues  BY <1>1, TypesOfIInv
<1>7. routed' \subseteq Branches /\ DOMAIN leaves' \subseteq DOMAIN leaves
  BY <1>2, <1>3, TypesOfIInv
<1>8. strays' \subseteq Branches /\ \A b \in strays : b \in strays' \/ WorkOf(b) # {}
  BY <1>1, TypesOfIInv
<1>. QED
  BY <1>1, <1>2, <1>4, <1>5, <1>6, <1>7, <1>8, HeldStays, StillKeeps, TypesOfIInv
     DEF Statuses, Active, Ended

\* Another task is paused, continued or stopped.
LEMMA OtherTasksKeeps ==
    ASSUME IInv, OtherTasks
    PROVE  IInv'
<1>1. /\ jobs' = jobs /\ gen' = gen /\ round' = round /\ rows' = rows /\ calls' = calls
      /\ leaves' = leaves /\ routed' = routed /\ paused' = paused /\ exact' = exact
      /\ gated' \in BOOLEAN /\ strays' = strays
      /\ pauses' = pauses /\ continues' = continues /\ held' = held
      /\ finals' = finals /\ status' = status
  BY DEF OtherTasks, account, places, history
<1>2. PausedOK'  BY <1>1, TypesOfIInv DEF PausedOK, UsesLlm
<1>3. exact' /\ status' \in Ended => status \in Ended  BY <1>1
<1>. QED
  BY <1>1, <1>2, <1>3, HeldStays, StillKeeps, TypesOfIInv DEF Statuses, Active, Ended, RoundOK

\* A stop leaves the effects that are active, which are late from then on.
LEMMA StopKeeps ==
    ASSUME IInv, Stop
    PROVE  IInv'
<1>1. /\ jobs' = ActiveJobs /\ gen' = gen + 1 /\ round' = round /\ rows' = rows
      /\ calls' = calls /\ leaves' = leaves /\ paused' = paused /\ exact' = exact
      /\ gated' = gated /\ strays' = strays
      /\ pauses' = pauses /\ continues' = continues /\ held' = held
      /\ finals' = finals /\ status' = "STOPPED"
  BY DEF Stop, account, history, beside
<1>2. TypeOK /\ gen \in Nat  BY DEF IInv, TypeOK
<1>3. routed' \subseteq Branches
  <2>1. \A j \in jobs : j.b \in Branches  BY <1>2 DEF TypeOK, JobOK
  <2>. QED  BY <2>1 DEF Stop, QueuedJobs
<1>4. jobs' \subseteq jobs /\ Children' = {} /\ Works' \subseteq Works
  BY <1>1 DEF ActiveJobs, Children, QueuedJobs, Works
<1>5. TypeOK'
  <2>1. \A x \in jobs' : JobOK(x)'
    <3>. SUFFICES ASSUME NEW x \in jobs' PROVE JobOK(x)'  OBVIOUS
    <3>1. JobOK(x)  BY <1>2, <1>4 DEF TypeOK
    <3>2. x.gen \in 0 .. gen'  BY <1>1, <1>2, <3>1 DEF JobOK
    <3>. QED  BY <3>1, <3>2 DEF JobOK
  <2>2. \A h \in held' : HeldOK(h)'
    <3>. SUFFICES ASSUME NEW h \in held' PROVE HeldOK(h)'  OBVIOUS
    <3>1. HeldOK(h)  BY <1>1, <1>2 DEF TypeOK
    <3>2. h.b \in Seq(Nat) /\ Len(h.b) \in Nat /\ Len(h.b) # 0
      BY <3>1, EmptySeq, LenProperties DEF Branches, HeldOK
    <3>3. h.b[1] \in Nat  BY <3>2, ElementOfSeq
    <3>4. h.b[1] <= gen'  BY <1>1, <1>2, <3>1, <3>3 DEF HeldOK
    <3>. QED  BY <3>1, <3>4 DEF HeldOK
  <2>3. finals' \subseteq 0 .. gen'  BY <1>1, <1>2 DEF TypeOK
  <2>4. gen' \in Nat /\ round' <= gen' /\ status' \in Statuses
    BY <1>1, <1>2 DEF TypeOK, Statuses
  <2>. QED  BY <1>1, <1>2, <1>3, <2>1, <2>2, <2>3, <2>4 DEF TypeOK
<1>6. OneOfALine'  BY <1>1, <1>4 DEF IInv, OneOfALine
<1>7. RoundOK'  BY <1>1, <1>4 DEF IInv, RoundOK, Active, Ended
<1>8. LeavesHaveWork' /\ PausedOK' /\ TreeOK' /\ FinishedIsDone'
  BY <1>1 DEF LeavesHaveWork, PausedOK, TreeOK, FinishedIsDone, Active, Ended
<1>9. RowsAreBehind'  BY <1>1, <1>4 DEF IInv, RowsAreBehind
<1>. QED  BY <1>5, <1>6, <1>7, <1>8, <1>9 DEF IInv

(***************************************************************************)
(* A round begins                                                          *)
(***************************************************************************)

\* The root of a round, of a generation that nothing is of yet, and its first call.
LEMMA RoundBegins ==
    ASSUME IInv, NEW g \in Nat, gen <= g, gen' = g, round' = g, status' = "RUNNING",
           DOMAIN leaves' = {<<g>>}, routed' = {<<g>>}, rows' = rows \union {<<g>>},
           NEW k, jobs' = jobs \union {k}, JobOK(k)', k.b = <<g>>, k.gen = g, k.kind = "call",
           \A x \in jobs : x.gen < g, \A h \in held : h.b[1] < g, \A r \in finals : r < g,
           \A r \in rows : r[1] < g,
           held' = held, finals' = finals, calls' = calls,
           paused' = paused, exact' \in BOOLEAN, gated' = gated, strays' \subseteq Branches,
           pauses' = pauses, continues' \in 0 .. MaxContinues
    PROVE  IInv'
<1>1. TypeOK /\ gen \in Nat  BY DEF IInv, TypeOK
<1>2. <<g>> \in Branches /\ <<g>>[1] = g  BY DEF Branches
<1>. DEFINE root == <<g>>
<1>3. root \in Branches /\ root[1] = g /\ k.b = root  BY <1>2
<1>4. DOMAIN leaves' = {root} /\ routed' = {root} /\ rows' = rows \union {root}  OBVIOUS
<1>. HIDE DEF root
<1>5. Works' \subseteq Works \union {k} /\ k \in Works' /\ Children' = Children
  BY DEF Works, IsWork, Children, QueuedJobs
<1>6. \A x \in jobs : JobOK(x) /\ x.b \in Branches /\ x.b[1] < g
  <2>. SUFFICES ASSUME NEW x \in jobs PROVE JobOK(x) /\ x.b \in Branches /\ x.b[1] < g
    OBVIOUS
  <2>1. JobOK(x) /\ x.b \in Branches /\ x.b[1] <= x.gen /\ x.gen \in 0 .. gen
    BY <1>1, BranchOfJob
  <2>2. x.b \in Seq(Nat) /\ Len(x.b) \in Nat /\ Len(x.b) # 0
    BY <2>1, EmptySeq, LenProperties DEF Branches
  <2>3. x.b[1] \in Nat /\ x.gen < g  BY <2>2, ElementOfSeq
  <2>. QED  BY <2>1, <2>3
<1>7. \A h \in held : HeldOK(h) /\ h.b \in Branches /\ h.b[1] < g
  BY <1>1 DEF TypeOK, HeldOK
<1>8. TypeOK'
  <2>1. \A x \in jobs' : JobOK(x)'
    <3>. SUFFICES ASSUME NEW x \in jobs, JobOK(x) PROVE JobOK(x)'  BY <1>6
    <3>1. x.gen \in 0 .. gen'  BY <1>1 DEF JobOK
    <3>. QED  BY <3>1 DEF JobOK
  <2>2. \A h \in held' : HeldOK(h)'
    <3>. SUFFICES ASSUME NEW h \in held, HeldOK(h), h.b[1] < g PROVE HeldOK(h)'  BY <1>7
    <3>1. h.b \in Seq(Nat) /\ Len(h.b) \in Nat /\ Len(h.b) # 0
      BY EmptySeq, LenProperties DEF Branches, HeldOK
    <3>2. h.b[1] \in Nat  BY <3>1, ElementOfSeq
    <3>3. h.b[1] <= gen'  BY <3>2
    <3>. QED  BY <3>3 DEF HeldOK
  <2>3. finals' \subseteq 0 .. gen'  BY <1>1 DEF TypeOK
  <2>4. status' \in Statuses  BY DEF Statuses
  <2>. QED  BY <1>1, <1>3, <1>4, <2>1, <2>2, <2>3, <2>4 DEF TypeOK
<1>9. OneOfALine'
  <2>1. \A x \in Works : Apart(x.b, root) /\ Apart(root, x.b)
    <3>1. \A x \in Works : x.b \in Branches /\ x.b[1] # root[1] /\ root[1] # x.b[1]
      <4>. SUFFICES ASSUME NEW x \in Works
                    PROVE  x.b \in Branches /\ x.b[1] # root[1] /\ root[1] # x.b[1]
        OBVIOUS
      <4>1. x.b \in Branches /\ x.b[1] < g  BY <1>6 DEF Works
      <4>2. x.b \in Seq(Nat) /\ Len(x.b) \in Nat /\ Len(x.b) # 0
        BY <4>1, EmptySeq, LenProperties DEF Branches
      <4>3. x.b[1] \in Nat  BY <4>2, ElementOfSeq
      <4>. QED  BY <1>3, <4>1, <4>3
    <3>. QED  BY <1>3, <3>1, ApartFacts
  <2>2. \A h \in held : Apart(root, h.b)
    <3>1. \A h \in held : h.b \in Branches /\ root[1] # h.b[1]
      <4>. SUFFICES ASSUME NEW h \in held PROVE h.b \in Branches /\ root[1] # h.b[1]
        OBVIOUS
      <4>1. h.b \in Branches /\ h.b[1] < g  BY <1>7
      <4>2. h.b \in Seq(Nat) /\ Len(h.b) \in Nat /\ Len(h.b) # 0
        BY <4>1, EmptySeq, LenProperties DEF Branches
      <4>3. h.b[1] \in Nat  BY <4>2, ElementOfSeq
      <4>. QED  BY <1>3, <4>1, <4>3
    <3>. QED  BY <1>3, <3>1, ApartFacts
  <2>. QED  BY <1>3, <1>5, <2>1, <2>2 DEF IInv, OneOfALine
<1>10. RoundOK'  BY <1>1, <1>4 DEF RoundOK
<1>11. WorksOn(k, root)'
  BY <1>3 DEF WorksOn, IsWork, Children
<1>12. LeavesHaveWork'
  BY <1>4, <1>11 DEF LeavesHaveWork, WorkOf
<1>13. PausedOK'  BY DEF PausedOK
<1>14. \A x \in jobs : x.gen # g
  <2>1. \A x \in jobs : x.gen \in 0 .. gen /\ x.gen < g  BY <1>6 DEF JobOK
  <2>. QED  BY <1>1, <2>1
<1>15. \A h \in held : h.b[1] # g
  <2>. SUFFICES ASSUME NEW h \in held PROVE h.b[1] # g  OBVIOUS
  <2>1. h.b \in Branches /\ h.b[1] < g  BY <1>7
  <2>2. h.b \in Seq(Nat) /\ Len(h.b) \in Nat /\ Len(h.b) # 0
    BY <2>1, EmptySeq, LenProperties DEF Branches
  <2>3. h.b[1] \in Nat  BY <2>2, ElementOfSeq
  <2>. QED  BY <2>1, <2>3
<1>16. k \notin Children'  BY DEF Children
<1>17. WorkIsOfLeaves'
  BY <1>3, <1>4, <1>14, <1>15, <1>16 DEF WorkIsOfLeaves
<1>18. ChildrenAreAwaited'
  <2>1. \A c \in Children' : c.gen # gen'  BY <1>5, <1>14 DEF Children, QueuedJobs
  <2>2. round' \notin finals'  BY <1>1 DEF TypeOK
  <2>. QED  BY <2>1, <2>2 DEF ChildrenAreAwaited
<1>19. TreeOK' /\ FinishedIsDone'
  BY <1>17, <1>18 DEF TreeOK, FinishedIsDone, Ended
<1>20. RowsAreBehind'
  <2>1. RowsAreBehind /\ rows \subseteq Branches  BY <1>1 DEF IInv, TypeOK
  <2>2. \A r \in rows : r[1] \in Nat /\ r[1] < g  BY <2>1, PrefixFacts
  <2>3. \A r \in rows' : r[1] <= round'  BY <1>3, <1>4, <2>2
  <2>4. ASSUME NEW x \in Works', NEW r \in rows', IsPrefix(x.b, r)
        PROVE  r = x.b /\ x \notin Children'
    <3>1. CASE x = k
      <4>1. IsPrefix(root, r)  BY <1>3, <2>4, <3>1
      <4>2. r \notin rows  BY <1>3, <2>1, <2>2, <4>1, PrefixFacts
      <4>. QED  BY <1>3, <1>4, <1>16, <3>1, <4>2
    <3>2. CASE x \in Works
      <4>1. x.b \in Branches /\ x.b[1] < g /\ x.b[1] \in Nat
        BY <1>6, <3>2, PrefixFacts DEF Works
      <4>2. ~IsPrefix(x.b, root)  BY <1>3, <4>1, PrefixFacts
      <4>3. r \in rows  BY <1>4, <2>4, <4>2
      <4>. QED  BY <1>5, <2>1, <2>4, <3>2, <4>3 DEF RowsAreBehind
    <3>. QED  BY <1>5, <3>1, <3>2
  <2>5. ASSUME NEW h \in held, NEW r \in rows', IsPrefix(h.b, r)  PROVE r = h.b
    <3>1. h.b \in Branches /\ h.b[1] < g /\ h.b[1] \in Nat  BY <1>7, PrefixFacts
    <3>2. ~IsPrefix(h.b, root)  BY <1>3, <3>1, PrefixFacts
    <3>3. r \in rows  BY <1>4, <2>5, <3>2
    <3>. QED  BY <2>1, <2>5, <3>3 DEF RowsAreBehind
  <2>6. DOMAIN leaves' \subseteq rows'  BY <1>4
  <2>. QED  BY <2>3, <2>4, <2>5, <2>6 DEF RowsAreBehind
<1>. QED  BY <1>8, <1>9, <1>10, <1>12, <1>13, <1>19, <1>20 DEF IInv

LEMMA FormalizedKeeps ==
    ASSUME IInv, Formalized
    PROVE  IInv'
<1>1. TypeOK /\ gen = 0 /\ jobs = {} /\ held = {} /\ finals = {}
  BY DEF Formalized, IInv, RoundOK
<1>2. PICK g : g = gen  OBVIOUS
<1>. DEFINE root == <<g>>
<1>3. root \in Branches /\ root[1] = g /\ g \in Nat /\ gen \in Nat
  BY <1>1, <1>2 DEF Branches
<1>4. /\ gen' = g /\ round' = g /\ status' = "RUNNING" /\ routed' = {root}
      /\ rows' = rows \union {root} /\ held' = held /\ finals' = finals
      /\ calls' = calls /\ paused' = paused /\ exact' = exact /\ pauses' = pauses
      /\ gated' = gated /\ strays' = strays
      /\ continues' = continues /\ DOMAIN leaves' = {root}
  BY <1>2 DEF Formalized, history, beside
<1>5. \E k : jobs' = {k} /\ k = Call(root, 0, 0)  BY <1>2 DEF Formalized
<1>6. PICK k : jobs' = {k} /\ k = Call(root, 0, 0)  BY <1>5
<1>. HIDE DEF root
<1>7. JobOK(k) /\ k.b = root /\ k.kind = "call" /\ k.gen = g
  BY <1>2, <1>3, <1>6, CallOK
<1>8. JobOK(k)'  BY <1>2, <1>4, <1>7 DEF JobOK
<1>9. jobs' = jobs \union {k}  BY <1>1, <1>6
<1>10. exact' \in BOOLEAN /\ continues' \in 0 .. MaxContinues /\ strays' \subseteq Branches
  BY <1>1, <1>4 DEF TypeOK
<1>11. \A r \in rows : r[1] < g
  <2>. SUFFICES ASSUME NEW r \in rows PROVE FALSE  OBVIOUS
  <2>1. round = -1  BY DEF Formalized, IInv, RoundOK
  <2>2. r \in Branches /\ r[1] <= round  BY <1>1 DEF IInv, RowsAreBehind, TypeOK
  <2>3. r[1] \in Nat  BY <2>2, PrefixFacts
  <2>. QED  BY <2>1, <2>2, <2>3
<1>. QED
  BY <1>1, <1>2, <1>3, <1>4, <1>7, <1>8, <1>9, <1>10, <1>11, RoundBegins DEF root

\* A continue of a round that is over adds to its pool, or begins a round.
LEMMA RestartKeeps ==
    ASSUME IInv, NEW a \in Adjustments, Restart(a)
    PROVE  IInv'
<1>1. /\ TypeOK /\ calls' = calls /\ held' = held /\ paused' = paused /\ finals' = finals
      /\ pauses' = pauses /\ continues < MaxContinues /\ continues' = continues + 1
      /\ gated' = gated
      /\ status \in {"STOPPED", "EXPIRED", "COMPLETED", "COMPLETED_WITH_ERRORS", "FAILED"}
  BY DEF Restart, IInv
<1>2. continues' \in 0 .. MaxContinues  BY <1>1, TypesOfIInv
<1>3. CASE pool + a < 0
  <2>1. /\ jobs' = jobs /\ gen' = gen /\ round' = round /\ rows' = rows
        /\ leaves' = leaves /\ routed' = routed /\ exact' = exact /\ status' = status
        /\ strays' = strays
    BY <1>3 DEF Restart
  <2>2. PausedOK'  BY <1>1, <2>1 DEF PausedOK
  <2>. QED
    BY <1>1, <1>2, <2>1, <2>2, HeldStays, StillKeeps, TypesOfIInv
<1>4. CASE ~(pool + a < 0)
  <2>. PICK g : g = gen + 1  OBVIOUS
  <2>. DEFINE root == <<g>>
              c == Call(root, 0, 0)
  <2>1. /\ gen' = g /\ round' = g /\ status' = "RUNNING" /\ routed' = {root}
        /\ rows' = rows \union {root} /\ exact' = TRUE /\ strays' = {}
        /\ DOMAIN leaves' = {root}
    BY <1>4 DEF Restart
  <2>2. gen \in Nat /\ g \in Nat /\ gen <= g  BY <1>1 DEF TypeOK
  <2>3. root \in Branches /\ root[1] = g  BY <2>2 DEF Branches
  <2>4. \E k : jobs' = jobs \union {k} /\ k = [c EXCEPT !.gen = g]  BY <1>4 DEF Restart
  <2>5. PICK k : jobs' = jobs \union {k} /\ k = [c EXCEPT !.gen = g]  BY <2>4
  <2>. HIDE DEF root
  <2>6. JobOK(k)' /\ k.b = root /\ k.kind = "call" /\ k.gen = g
    <3>1. /\ c.b = root /\ c.kind = "call" /\ c.stage = "queued" /\ c.fixes = 0
          /\ DOMAIN c = {"kind", "b", "gen", "stage", "fixes", "before", "est"}
      BY DEF Call
    <3>. HIDE DEF c
    <3>2. /\ k.b = root /\ k.kind = "call" /\ k.stage = "queued" /\ k.fixes = 0 /\ k.gen = g
          /\ DOMAIN k = {"kind", "b", "gen", "stage", "fixes", "before", "est"}
      BY <2>5, <3>1
    <3>3. g \in 0 .. g /\ g <= g  BY <2>2
    <3>. QED  BY <2>1, <2>3, <3>2, <3>3 DEF JobOK
  <2>7. \A x \in jobs : x.gen < g
    <3>1. \A x \in jobs : x.gen \in 0 .. gen  BY <1>1 DEF TypeOK, JobOK
    <3>. QED  BY <2>2, <3>1
  <2>8. \A h \in held : h.b[1] < g
    <3>. SUFFICES ASSUME NEW h \in held PROVE h.b[1] < g  OBVIOUS
    <3>1. h.b \in Branches /\ h.b[1] <= gen  BY <1>1 DEF TypeOK, HeldOK
    <3>2. h.b \in Seq(Nat) /\ Len(h.b) \in Nat /\ Len(h.b) # 0
      BY <3>1, EmptySeq, LenProperties DEF Branches
    <3>3. h.b[1] \in Nat  BY <3>2, ElementOfSeq
    <3>. QED  BY <2>2, <3>1, <3>3
  <2>9. \A r \in finals : r < g
    <3>1. \A r \in finals : r \in 0 .. gen  BY <1>1 DEF TypeOK
    <3>. QED  BY <2>2, <3>1
  <2>10. exact' \in BOOLEAN /\ strays' \subseteq Branches  BY <2>1
  <2>11. \A r \in rows : r[1] < g
    <3>. SUFFICES ASSUME NEW r \in rows PROVE r[1] < g  OBVIOUS
    <3>1. r \in Branches /\ r[1] <= round  BY <1>1 DEF IInv, RowsAreBehind, TypeOK
    <3>2. r[1] \in Nat  BY <3>1, PrefixFacts
    <3>3. round \in Nat \union {-1} /\ round <= gen  BY <1>1 DEF TypeOK
    <3>. QED  BY <2>2, <3>1, <3>2, <3>3
  <2>. QED
    BY <1>1, <1>2, <2>1, <2>2, <2>5, <2>6, <2>7, <2>8, <2>9, <2>10, <2>11, RoundBegins DEF root
<1>. QED  BY <1>3, <1>4

(***************************************************************************)
(* The theorems                                                            *)
(***************************************************************************)

LEMMA InitIInv == Init => IInv
<1>. SUFFICES ASSUME Init PROVE IInv  OBVIOUS
<1>1. /\ status = "FORMALIZING" /\ gen = 0 /\ round = -1 /\ calls = 0 /\ leaves = <<>>
      /\ routed = {} /\ rows = {} /\ jobs = {} /\ held = {} /\ finals = {}
      /\ paused = FALSE /\ gated = FALSE /\ strays = {} /\ exact = TRUE
      /\ pauses = 0 /\ continues = 0
  BY DEF Init
<1>2. TypeOK
  <2>1. DOMAIN leaves = {} /\ MaxPauses \in Nat /\ MaxContinues \in Nat
    BY <1>1, BoundsAssumption
  <2>2. /\ status \in Statuses /\ gen \in Nat /\ round \in Nat \union {-1} /\ round <= gen
        /\ calls \in Nat /\ pauses \in 0 .. MaxPauses /\ continues \in 0 .. MaxContinues
    BY <1>1, <2>1 DEF Statuses
  <2>. QED  BY <1>1, <2>1, <2>2 DEF TypeOK
<1>3. OneOfALine  BY <1>1 DEF OneOfALine, Works, Children, QueuedJobs
<1>4. RoundOK /\ LeavesHaveWork /\ PausedOK /\ TreeOK /\ FinishedIsDone
  BY <1>1 DEF RoundOK, LeavesHaveWork, PausedOK, TreeOK, FinishedIsDone, Active, Ended
<1>5. RowsAreBehind  BY <1>1 DEF RowsAreBehind, Works
<1>. QED  BY <1>2, <1>3, <1>4, <1>5 DEF IInv

LEMMA StutterKeeps ==
    ASSUME IInv, UNCHANGED vars
    PROVE  IInv'
<1>1. /\ jobs' = jobs /\ gen' = gen /\ round' = round /\ rows' = rows /\ calls' = calls
      /\ leaves' = leaves /\ routed' = routed /\ paused' = paused /\ exact' = exact
      /\ gated' = gated /\ strays' = strays
      /\ pauses' = pauses /\ continues' = continues /\ held' = held
      /\ finals' = finals /\ status' = status
  BY DEF vars, places
<1>2. PausedOK'  BY <1>1, TypesOfIInv DEF PausedOK, UsesLlm
<1>. QED
  BY <1>1, <1>2, HeldStays, StillKeeps, TypesOfIInv

LEMMA WorkKeeps ==
    ASSUME IInv, NEW j \in jobs, Work(j)
    PROVE  IInv'
<1>1. ASSUME NEW est \in Estimates, LaunchCall(j, est)  PROVE IInv'  BY <1>1, LaunchCallKeeps
<1>2. CASE LaunchCallFails(j)  BY <1>2, LaunchCallFailsKeeps
<1>3. ASSUME NEW turn \in Turns, NEW cost \in Costs, CallAnswers(j, turn, cost)  PROVE IInv'
  BY <1>3, CallAnswersKeeps
<1>4. ASSUME NEW cost \in Costs, NEW pinned \in BOOLEAN, CallIsBroken(j, cost, pinned)
      PROVE  IInv'
  BY <1>4, CallIsBrokenKeeps
<1>5. ASSUME NEW cost \in Costs \union Estimates, CallFails(j, cost)  PROVE IInv'
  BY <1>5, CallFailsKeeps
<1>6. CASE DropLate(j)  BY <1>6, DropLateKeeps
<1>7. CASE WorkerRaises(j)  BY <1>7, WorkerRaisesKeeps
<1>8. CASE LaunchBatch(j)  BY <1>8, LaunchBatchKeeps
<1>9. CASE LaunchBatchFails(j)  BY <1>9, LaunchBatchFailsKeeps
<1>10. ASSUME NEW charge \in Charges, FinishTurn(j, charge)  PROVE IInv'
  BY <1>10, FinishTurnKeeps
<1>11. ASSUME NEW charge \in Charges, NEW live \in BOOLEAN, Delegate(j, charge, live)
       PROVE  IInv'
  BY <1>11, DelegateKeeps
<1>12. CASE Materialize(j)  BY <1>12, MaterializeKeeps
<1>13. CASE DropChild(j)  BY <1>13, DropChildKeeps
<1>14. ASSUME NEW live \in BOOLEAN, StartChild(j, live)  PROVE IInv'
  BY <1>14, StartChildKeeps
<1>15. CASE LaunchSummary(j)  BY <1>15, LaunchSummaryKeeps
<1>16. CASE Checkpoint(j)  BY <1>16, CheckpointKeeps
<1>17. CASE Clone(j)  BY <1>17, CloneKeeps
<1>18. CASE Finalize(j)  BY <1>18, FinalizeKeeps
<1>. QED
  BY <1>1, <1>2, <1>3, <1>4, <1>5, <1>6, <1>7, <1>8, <1>9, <1>10, <1>11, <1>12, <1>13,
     <1>14, <1>15, <1>16, <1>17, <1>18 DEF Work

LEMMA NextKeeps == IInv /\ [Next]_vars => IInv'
<1>. SUFFICES ASSUME IInv, [Next]_vars PROVE IInv'  OBVIOUS
<1>1. CASE UNCHANGED vars  BY <1>1, StutterKeeps
<1>2. ASSUME NEW h \in held, Release(h)  PROVE IInv'  BY <1>2, ReleaseKeeps
<1>3. CASE Formalized  BY <1>3, FormalizedKeeps
<1>4. CASE FormalizationFails  BY <1>4, FormalizationFailsKeeps
<1>5. ASSUME NEW j \in jobs, Work(j)  PROVE IInv'  BY <1>5, WorkKeeps
<1>6. CASE Deadline  BY <1>6, DeadlineKeeps
<1>7. CASE IntermediateReport  BY <1>7, IntermediateReportKeeps
<1>8. ASSUME NEW r \in finals, FinalReport(r)  PROVE IInv'  BY <1>8, FinalReportKeeps
<1>9. CASE MarkPaused /\ ~Releasing  BY <1>9, MarkPausedKeeps
<1>10. CASE ExpirePause  BY <1>10, ExpirePauseKeeps
<1>11. CASE Pause  BY <1>11, PauseKeeps
<1>12. CASE Stop  BY <1>12, StopKeeps
<1>13. ASSUME NEW a \in Adjustments, ContinuePaused(a)  PROVE IInv'
  BY <1>13, ContinuePausedKeeps
<1>14. ASSUME NEW a \in Adjustments, Restart(a)  PROVE IInv'  BY <1>14, RestartKeeps
<1>15. CASE OtherTasks  BY <1>15, OtherTasksKeeps
<1>. QED
  BY <1>1, <1>2, <1>3, <1>4, <1>5, <1>6, <1>7, <1>8, <1>9, <1>10, <1>11, <1>12, <1>13, <1>14,
     <1>15 DEF Next, User

\* The inductive invariant: of a branch and its line one is worked on; a leaf of a
\* round that goes on has work, unless it is a stray, whose procedures a pause missed
\* behind another task's barrier (scheduler._pause_runnable_queued_counts); a task that
\* is PAUSED has nothing under way but those procedures; and of a round that ends with
\* its last leaf nothing is left.
THEOREM Invariant == Spec => []IInv
<1>1. Init => IInv  BY InitIInv
<1>2. IInv /\ [Next]_vars => IInv'  BY NextKeeps
<1>. QED  BY <1>1, <1>2, PTL DEF Spec

\* The work of a leaf is one piece of work.
LEMMA OnePieceOfWork ==
    ASSUME TypeOK, OneOfALine, NEW b \in Branches,
           NEW u \in WorkOf(b), NEW v \in WorkOf(b)
    PROVE  u = v
<1>1. \A j \in jobs : JobOK(j) /\ j.b \in Branches  BY DEF TypeOK, JobOK
<1>2. ~Apart(b, b)  BY ApartFacts
<1>3. ASSUME NEW j \in jobs, WorksOn(j, b)
      PROVE  /\ j \in Works
             /\ \/ j \in Children /\ j.retires /\ j.parent = b /\ \E i \in Nat : j.b = Append(b, i)
                \/ j \notin Children /\ j.b = b
  <2>1. j \in Works  BY <1>3 DEF Works, WorksOn
  <2>2. CASE j \in Children
    <3>. DEFINE i == j.b[Len(j.b)]
    <3>1. j.retires /\ j.parent = b  BY <1>3, <2>2 DEF WorksOn
    <3>2. j.b \in Branches /\ j.b = Append(b, i)
      BY <1>1, <2>2, <3>1 DEF JobOK, Children
    <3>3. j.b \in Seq(Nat) /\ Len(j.b) \in 1 .. Len(j.b)
      BY <3>2, EmptySeq, LenProperties DEF Branches
    <3>4. i \in Nat  BY <3>3, ElementOfSeq
    <3>. HIDE DEF i
    <3>. QED  BY <2>1, <2>2, <3>1, <3>2, <3>4
  <2>3. CASE j \notin Children  BY <1>3, <2>1, <2>3 DEF WorksOn
  <2>. QED  BY <2>2, <2>3
<1>4. ASSUME NEW j \in jobs, WorksOn(j, b)  PROVE ~Apart(j.b, b) /\ ~Apart(b, j.b)
  <2>1. CASE j.b = b  BY <1>2, <2>1
  <2>2. CASE \E i \in Nat : j.b = Append(b, i)
    <3>1. PICK i \in Nat : j.b = Append(b, i)  BY <2>2
    <3>2. ~Apart(b, Append(b, i)) /\ ~Apart(Append(b, i), b)  BY ApartFacts
    <3>. QED  BY <3>1, <3>2
  <2>. QED  BY <1>3, <1>4, <2>1, <2>2
<1>5. ASSUME NEW j \in jobs, NEW k \in jobs, WorksOn(j, b), WorksOn(k, b)  PROVE j = k
  <2>1. j \in Works /\ k \in Works  BY <1>3, <1>5
  <2>2. CASE j \in Children /\ k \in Children
    BY <1>3, <1>5, <2>2 DEF OneOfALine
  <2>3. CASE j \notin Children
    <3>1. j.b = b /\ ~Apart(b, k.b)  BY <1>3, <1>4, <1>5, <2>3
    <3>. QED  BY <2>1, <3>1 DEF OneOfALine
  <2>4. CASE k \notin Children
    <3>1. k.b = b /\ ~Apart(j.b, b)  BY <1>3, <1>4, <1>5, <2>4
    <3>. QED  BY <2>1, <3>1 DEF OneOfALine
  <2>. QED  BY <2>2, <2>3, <2>4
<1>6. ASSUME NEW h \in held, NEW i \in held, h.b = b, i.b = b  PROVE h = i
  BY <1>2, <1>6 DEF OneOfALine
<1>7. ASSUME NEW j \in jobs, NEW h \in held, WorksOn(j, b), h.b = b  PROVE FALSE
  BY <1>3, <1>4, <1>7 DEF OneOfALine
<1>. QED  BY <1>5, <1>6, <1>7 DEF WorkOf

\* While a round goes on every leaf has exactly one piece of work, whatever fails,
\* whatever a pause or a continue does and whatever other tasks hold at the barrier,
\* but for the strays: leaves whose procedures a pause missed behind another task's
\* barrier, which may have lost that work (runtime/reducer.py, effect_runner.py,
\* scheduler.py).  A round that is over has nothing left.
THEOREM TaskInvariant == Spec => []TaskInv
<1>1. ASSUME IInv  PROVE TaskInv
  <2>1. TypeOK /\ OneOfALine /\ LeavesHaveWork /\ FinishedIsDone  BY <1>1 DEF IInv
  <2>2. ASSUME status \in Active, NEW b \in DOMAIN leaves
        PROVE  /\ b[1] = round => b \in routed
               /\ Cardinality(WorkOf(b)) = 1 \/ (b \in strays /\ WorkOf(b) = {})
    <3>1. (b[1] = round => b \in routed) /\ (WorkOf(b) # {} \/ b \in strays)
      BY <2>1, <2>2 DEF LeavesHaveWork
    <3>2. b \in Branches  BY <2>1 DEF TypeOK
    <3>3. ASSUME NEW u \in WorkOf(b)  PROVE Cardinality(WorkOf(b)) = 1
      <4>1. WorkOf(b) = {u}  BY <2>1, <3>2, <3>3, OnePieceOfWork
      <4>2. Cardinality({u}) = 1  BY FS_Singleton
      <4>. QED  BY <4>1, <4>2
    <3>. QED  BY <3>1, <3>3
  <2>3. RowsAreNew
    <3>1. RowsAreBehind  BY <1>1 DEF IInv
    <3>2. ASSUME NEW c \in Children  PROVE c.b \notin rows
      <4>1. c \in Works  BY DEF Children, QueuedJobs, Works, IsWork
      <4>2. c.b \in Branches  BY <2>1 DEF TypeOK, JobOK, Children, QueuedJobs
      <4>3. IsPrefix(c.b, c.b)  BY <4>2, PrefixFacts
      <4>. QED  BY <3>1, <4>1, <4>3 DEF RowsAreBehind
    <3>. QED  BY <3>1, <3>2 DEF RowsAreBehind, RowsAreNew
  <2>. QED  BY <2>1, <2>2, <2>3 DEF TaskInv, NoBranchForgotten
<1>. QED  BY <1>1, Invariant, PTL

\* Nothing of a task that is paused is under way and nothing can start, but the
\* procedures of strays: those another task's barrier hid from the count when the pause
\* settled (manager._mark_paused, scheduler._pause_runnable_queued_counts).
THEOREM PausedTaskIsQuiet == Spec => []PausedIsQuiet
<1>1. ASSUME IInv  PROVE PausedIsQuiet
  <2>. SUFFICES ASSUME status = "PAUSED", NEW j \in jobs, ~(j.kind = "batch" /\ j.b \in strays)
                PROVE  j.stage = "queued" /\ ~Launchable(j)
    BY DEF PausedIsQuiet
  <2>1. j.stage = "queued"  BY <1>1 DEF IInv, PausedOK
  <2>2. ~Launchable(j)  BY <1>1, PausedStands
  <2>. QED  BY <2>1, <2>2
<1>. QED  BY <1>1, Invariant, PTL

(***************************************************************************)
(* Late results                                                            *)
(***************************************************************************)

\* What LateResultsAreDropped says of a step.
DropsLate ==
    \A j \in ActiveJobs \ jobs' :
        j.gen # gen => jobs' \subseteq jobs /\ UNCHANGED <<status, pool, leaves, calls>>

\* A step that replaces an effect that is not late, or that is only launched.
LEMMA ReplacesNoLate ==
    ASSUME NEW i \in jobs, NEW K, Replaced(i, K), i.gen = gen \/ i \notin ActiveJobs
    PROVE  DropsLate
BY DEF Replaced, DropsLate, ActiveJobs

\* A step that drops an effect and moves nothing.
LEMMA OnlyDrops ==
    ASSUME NEW i \in jobs, Replaced(i, {}), UNCHANGED <<status, pool, leaves, calls>>
    PROVE  DropsLate
BY DEF Replaced, DropsLate

\* Work that raised is summarized only if it is not late.
LEMMA FailEffectDropsLate ==
    ASSUME NEW i \in jobs, FailEffect(i)
    PROVE  DropsLate
<1>1. CASE Live(i)
  <2>1. \E K : Replaced(i, K)  BY DEF FailEffect
  <2>. QED  BY <1>1, <2>1, ReplacesNoLate DEF Live
<1>2. CASE ~Live(i)
  <2>1. Replaced(i, {}) /\ UNCHANGED <<status, pool, leaves, calls>>
    BY <1>2 DEF FailEffect, account
  <2>. QED  BY <2>1, OnlyDrops
<1>. QED  BY <1>1, <1>2

LEMMA WorkDropsLate ==
    ASSUME NEW i \in jobs, Work(i)
    PROVE  DropsLate
<1>1. Launchable(i) => i \notin ActiveJobs  BY DEF Launchable, QueuedJobs, ActiveJobs
<1>2. ASSUME NEW est \in Estimates, LaunchCall(i, est)  PROVE DropsLate
  <2>1. \E K : Replaced(i, K)  BY <1>2 DEF LaunchCall
  <2>. QED  BY <1>1, <1>2, <2>1, ReplacesNoLate DEF LaunchCall
<1>3. CASE LaunchCallFails(i) \/ LaunchBatchFails(i) \/ WorkerRaises(i)
  BY <1>3, FailEffectDropsLate DEF LaunchCallFails, LaunchBatchFails, WorkerRaises
<1>4. ASSUME NEW turn \in Turns, NEW cost \in Costs, CallAnswers(i, turn, cost)
      PROVE  DropsLate
  BY <1>4, ReplacesNoLate DEF CallAnswers, Live
<1>5. ASSUME NEW cost \in Costs, NEW pinned \in BOOLEAN, CallIsBroken(i, cost, pinned)
      PROVE  DropsLate
  <2>1. \E K : Replaced(i, K)  BY <1>5 DEF CallIsBroken
  <2>. QED  BY <1>5, <2>1, ReplacesNoLate DEF CallIsBroken, Live
<1>6. ASSUME NEW cost \in Costs \union Estimates, CallFails(i, cost)  PROVE DropsLate
  BY <1>6, ReplacesNoLate DEF CallFails, Live
<1>7. CASE DropLate(i) \/ DropChild(i) \/ Clone(i) \/ Checkpoint(i)
  BY <1>7, OnlyDrops DEF DropLate, DropChild, Clone, Checkpoint, account
<1>8. CASE LaunchBatch(i)  BY <1>1, <1>8, ReplacesNoLate DEF LaunchBatch
<1>9. ASSUME NEW charge \in Charges, FinishTurn(i, charge)  PROVE DropsLate
  <2>1. \E K : Replaced(i, K)  BY <1>9 DEF FinishTurn
  <2>. QED  BY <1>9, <2>1, ReplacesNoLate DEF FinishTurn, Live
<1>10. ASSUME NEW charge \in Charges, NEW live \in BOOLEAN, Delegate(i, charge, live)
       PROVE  DropsLate
  <2>1. \E K : Replaced(i, K)  BY <1>10 DEF Delegate
  <2>. QED  BY <1>10, <2>1, ReplacesNoLate DEF Delegate, Live
<1>11. CASE Materialize(i)  BY <1>1, <1>11, ReplacesNoLate DEF Materialize
<1>12. ASSUME NEW live \in BOOLEAN, StartChild(i, live)  PROVE DropsLate
  <2>1. CASE i.gen = gen
    <3>1. \E K : Replaced(i, K)  BY <1>12 DEF StartChild
    <3>. QED  BY <2>1, <3>1, ReplacesNoLate
  <2>2. CASE i.gen # gen
    BY <1>12, <2>2, OnlyDrops DEF StartChild, account
  <2>. QED  BY <2>1, <2>2
<1>13. CASE LaunchSummary(i)
  <2>1. \E K : Replaced(i, K)  BY <1>13 DEF LaunchSummary
  <2>. QED  BY <1>1, <1>13, <2>1, ReplacesNoLate DEF LaunchSummary
<1>14. CASE Finalize(i)
  <2>1. Replaced(i, {})  BY <1>14 DEF Finalize
  <2>2. CASE i.gen = gen  BY <2>1, <2>2, ReplacesNoLate
  <2>3. CASE i.gen # gen
    BY <1>14, <2>1, <2>3, OnlyDrops DEF Finalize
  <2>. QED  BY <2>2, <2>3
<1>. QED
  BY <1>2, <1>3, <1>4, <1>5, <1>6, <1>7, <1>8, <1>9, <1>10, <1>11, <1>12, <1>13, <1>14
     DEF Work

\* The end of an effect of an earlier generation changes nothing of the task, moves
\* no credits, and has no effect follow (the generation checks of runtime/reducer.py).
THEOREM LateResults == Spec => LateResultsAreDropped
<1>1. ASSUME IInv, [Next]_vars  PROVE [DropsLate]_vars
  <2>. SUFFICES ASSUME Next PROVE DropsLate  BY <1>1
  <2>1. jobs \subseteq jobs' => DropsLate  BY DEF DropsLate, ActiveJobs
  <2>2. ASSUME NEW h \in held, Release(h)  PROVE DropsLate
    <3>1. jobs \subseteq jobs'  BY <2>2 DEF Release
    <3>. QED  BY <2>1, <3>1
  <2>3. CASE Formalized
    <3>1. jobs = {}  BY <1>1, <2>3 DEF IInv, RoundOK, Formalized
    <3>. QED  BY <2>1, <3>1
  <2>4. ASSUME NEW j \in jobs, Work(j)  PROVE DropsLate  BY <2>4, WorkDropsLate
  <2>5. CASE Stop
    <3>1. jobs' = ActiveJobs  BY <2>5 DEF Stop
    <3>. QED  BY <3>1 DEF DropsLate
  <2>6. ASSUME NEW a \in Adjustments, Restart(a)  PROVE DropsLate
    <3>1. jobs \subseteq jobs'  BY <2>6 DEF Restart
    <3>. QED  BY <2>1, <3>1
  <2>7. ASSUME NEW a \in Adjustments, ContinuePaused(a)  PROVE DropsLate
    <3>1. jobs' = jobs  BY <2>7 DEF ContinuePaused
    <3>. QED  BY <2>1, <3>1
  <2>8. ASSUME NEW r \in finals, FinalReport(r)  PROVE DropsLate
    <3>1. jobs' = jobs  BY <2>8 DEF FinalReport
    <3>. QED  BY <2>1, <3>1
  <2>9. CASE FormalizationFails \/ Deadline \/ IntermediateReport \/ MarkPaused \/ ExpirePause
             \/ Pause \/ OtherTasks
    <3>1. jobs' = jobs
      BY <2>9 DEF FormalizationFails, Deadline, IntermediateReport, MarkPaused, ExpirePause,
                  Pause, OtherTasks
    <3>. QED  BY <2>1, <3>1
  <2>. QED
    BY <2>2, <2>3, <2>4, <2>5, <2>6, <2>7, <2>8, <2>9 DEF Next, User
<1>2. [DropsLate]_vars => [\A j \in ActiveJobs \ jobs' :
           j.gen # gen => jobs' \subseteq jobs /\ UNCHANGED <<status, pool, leaves, calls>>]_vars
  BY DEF DropsLate
<1>3. Spec => [][\A j \in ActiveJobs \ jobs' :
           j.gen # gen => jobs' \subseteq jobs /\ UNCHANGED <<status, pool, leaves, calls>>]_vars
  BY <1>1, <1>2, Invariant, PTL DEF Spec
<1>. QED  BY <1>3 DEF LateResultsAreDropped

\* A step makes no leaf of a branch that has a row.
NoneBeginsAgain == \A b \in rows \ DOMAIN leaves : b \notin DOMAIN leaves'

LEMMA NoneIsAdded ==
    ASSUME DOMAIN leaves' \subseteq DOMAIN leaves
    PROVE  NoneBeginsAgain
BY DEF NoneBeginsAgain

\* A child that is made has no row yet.
LEMMA MaterializeIsNew ==
    ASSUME IInv, NEW j \in jobs, Materialize(j)
    PROVE  NoneBeginsAgain
<1>1. j \in Children /\ j \in Works
  BY DEF Materialize, Launchable, Children, Works, IsWork
<1>2. j.b \in Branches  BY <1>1, BranchOfJob DEF IInv
<1>3. IsPrefix(j.b, j.b)  BY <1>2, PrefixFacts
<1>4. j.b \notin rows  BY <1>1, <1>3 DEF IInv, RowsAreBehind
<1>5. DOMAIN leaves' \subseteq DOMAIN leaves \union {j.b}
  BY DEF Materialize, account
<1>. QED  BY <1>4, <1>5 DEF NoneBeginsAgain

LEMMA WorkAddsNone ==
    ASSUME NEW j \in jobs, Work(j), ~Materialize(j)
    PROVE  DOMAIN leaves' \subseteq DOMAIN leaves
<1>1. ASSUME NEW est \in Estimates, LaunchCall(j, est)
      PROVE  DOMAIN leaves' \subseteq DOMAIN leaves
  BY <1>1 DEF LaunchCall
<1>2. CASE LaunchCallFails(j) \/ LaunchBatchFails(j) \/ WorkerRaises(j)
  BY <1>2 DEF LaunchCallFails, LaunchBatchFails, WorkerRaises, FailEffect, account
<1>3. \A c : DOMAIN Balanced(j.b, c) = DOMAIN leaves  BY DEF Balanced
<1>4. ASSUME NEW turn \in Turns, NEW cost \in Costs, CallAnswers(j, turn, cost)
      PROVE  DOMAIN leaves' \subseteq DOMAIN leaves
  BY <1>3, <1>4 DEF CallAnswers
<1>5. ASSUME NEW cost \in Costs, NEW pinned \in BOOLEAN, CallIsBroken(j, cost, pinned)
      PROVE  DOMAIN leaves' \subseteq DOMAIN leaves
  BY <1>3, <1>5 DEF CallIsBroken
<1>6. ASSUME NEW cost \in Costs \union Estimates, CallFails(j, cost)
      PROVE  DOMAIN leaves' \subseteq DOMAIN leaves
  BY <1>3, <1>6 DEF CallFails
<1>7. ASSUME NEW charge \in Charges, FinishTurn(j, charge)
      PROVE  DOMAIN leaves' \subseteq DOMAIN leaves
  BY <1>3, <1>7 DEF FinishTurn
<1>8. ASSUME NEW charge \in Charges, NEW live \in BOOLEAN, Delegate(j, charge, live)
      PROVE  DOMAIN leaves' \subseteq DOMAIN leaves
  BY <1>3, <1>8 DEF Delegate
<1>9. CASE \/ DropLate(j) \/ LaunchBatch(j) \/ DropChild(j) \/ LaunchSummary(j)
           \/ Checkpoint(j) \/ Clone(j)
           \/ \E live \in BOOLEAN : StartChild(j, live)
  BY <1>9 DEF DropLate, LaunchBatch, DropChild, LaunchSummary, Checkpoint, Clone,
              StartChild, account
<1>10. CASE Finalize(j)
  <2>1. leaves' = leaves \/ Settled(j.b)  BY <1>10 DEF Finalize
  <2>2. leaves' = leaves \/ leaves' = Without(j.b)  BY <2>1 DEF Settled
  <2>. QED  BY <2>2 DEF Without
<1>. QED
  BY <1>1, <1>2, <1>4, <1>5, <1>6, <1>7, <1>8, <1>9, <1>10 DEF Work

\* The root of a new round has no row yet, which is of an earlier one.
LEMMA RootIsNew ==
    ASSUME IInv, NEW g \in Nat, g > round, DOMAIN leaves' = {<<g>>}
    PROVE  NoneBeginsAgain
<1>1. <<g>> \notin rows
  <2>. DEFINE r == <<g>>
  <2>1. r[1] = g  OBVIOUS
  <2>. HIDE DEF r
  <2>2. \A x \in rows : x[1] <= round  BY DEF IInv, RowsAreBehind
  <2>3. round \in Nat \union {-1}  BY DEF IInv, TypeOK
  <2>4. r \notin rows  BY <2>1, <2>2, <2>3
  <2>. QED  BY <2>4 DEF r
<1>. QED  BY <1>1 DEF NoneBeginsAgain

\* A branch that has ended is not begun again (manager.materialize_child_effect,
\* and the store, which has one row for each id): whatever is planned again, comes
\* late, is stopped and continued.
THEOREM BranchesEndOnce == Spec => EndedStaysEnded
<1>1. ASSUME IInv, [Next]_vars  PROVE [NoneBeginsAgain]_vars
  <2>. SUFFICES ASSUME Next PROVE NoneBeginsAgain  BY <1>1
  <2>1. leaves' = leaves => NoneBeginsAgain  BY NoneIsAdded
  <2>2. ASSUME NEW h \in held, Release(h)  PROVE NoneBeginsAgain
    BY <2>1, <2>2 DEF Release, account
  <2>3. CASE Formalized
    <3>1. gen = 0 /\ round = -1 /\ DOMAIN leaves' = {<<gen>>}
      BY <1>1, <2>3 DEF IInv, RoundOK, Formalized
    <3>. QED  BY <1>1, <3>1, RootIsNew
  <2>4. ASSUME NEW j \in jobs, Work(j)  PROVE NoneBeginsAgain
    BY <1>1, <2>4, MaterializeIsNew, WorkAddsNone, NoneIsAdded
  <2>5. ASSUME NEW a \in Adjustments, ContinuePaused(a)  PROVE NoneBeginsAgain
    <3>1. DOMAIN leaves' \subseteq routed  BY <2>5 DEF ContinuePaused
    <3>2. routed \subseteq DOMAIN leaves
      BY <1>1, <2>5 DEF IInv, RoundOK, ContinuePaused, Active
    <3>. QED  BY <3>1, <3>2, NoneIsAdded
  <2>6. ASSUME NEW a \in Adjustments, Restart(a)  PROVE NoneBeginsAgain
    <3>1. leaves' = leaves \/ DOMAIN leaves' = {<<gen + 1>>}  BY <2>6 DEF Restart
    <3>2. gen + 1 \in Nat /\ gen + 1 > round  BY <1>1 DEF IInv, TypeOK
    <3>. QED  BY <1>1, <2>1, <3>1, <3>2, RootIsNew
  <2>7. ASSUME NEW r \in finals, FinalReport(r)  PROVE NoneBeginsAgain
    BY <2>1, <2>7 DEF FinalReport, account
  <2>8. CASE FormalizationFails \/ Deadline \/ IntermediateReport \/ MarkPaused \/ ExpirePause
             \/ Pause \/ Stop \/ OtherTasks
    BY <2>1, <2>8 DEF FormalizationFails, Deadline, IntermediateReport, MarkPaused, ExpirePause,
                      Pause, Stop, OtherTasks, account
  <2>. QED
    BY <2>2, <2>3, <2>4, <2>5, <2>6, <2>7, <2>8 DEF Next, User
<1>2. [NoneBeginsAgain]_vars => [\A b \in rows \ DOMAIN leaves : b \notin DOMAIN leaves']_vars
  BY DEF NoneBeginsAgain
<1>3. Spec => [][\A b \in rows \ DOMAIN leaves : b \notin DOMAIN leaves']_vars
  BY <1>1, <1>2, Invariant, PTL DEF Spec
<1>. QED  BY <1>3 DEF EndedStaysEnded

\* What is over has no part in what goes on: late results are dropped, and branches
\* that have ended are not begun again.
THEOREM PastIsPast == Spec => PastStaysPast
BY LateResults, BranchesEndOnce DEF PastStaysPast

(***************************************************************************)
(* Credits in leaves and under way                                         *)
(***************************************************************************)

\* What a function gives is finite when its domain is.
LEMMA FiniteImage ==
    ASSUME NEW S, IsFiniteSet(S), NEW f, DOMAIN f = S, NEW T, T = {f[x] : x \in S}
    PROVE  IsFiniteSet(T)
<1>. DEFINE g == [x \in S |-> f[x]]
<1>1. g \in [S -> T] /\ \A y \in T : \E x \in S : g[x] = y  OBVIOUS
<1>. HIDE DEF g
<1>2. g \in Surjection(S, T)  BY <1>1 DEF Surjection
<1>. QED  BY <1>2, FS_Surjection

\* A total is the sum over the places of its amounts.
LEMMA TotalIsSum == \A f : Total(f) = SumFunctionOnSet(f, DOMAIN f)
BY DEF Total, SumFunction

Amounts(f) == IsFiniteSet(DOMAIN f) /\ \A x \in DOMAIN f : f[x] \in Int

\* A total is a number.
LEMMA TotalIsNumber ==
    ASSUME NEW f, Amounts(f)
    PROVE  Total(f) \in Int
BY TotalIsSum, SumAdds DEF Amounts

\* The total of equal amounts.
LEMMA TotalOfNone ==
    ASSUME NEW f, DOMAIN f = {}
    PROVE  Total(f) = 0
BY TotalIsSum, SumOfNone

\* One amount is changed.
LEMMA TotalChanges ==
    ASSUME NEW f, NEW g, Amounts(f), DOMAIN g = DOMAIN f, NEW b \in DOMAIN f, g[b] \in Int,
           \A x \in DOMAIN f \ {b} : g[x] = f[x]
    PROVE  Total(g) = Total(f) - f[b] + g[b]
<1>. DEFINE D == DOMAIN f
            R == D \ {b}
<1>1. IsFiniteSet(D) /\ \A x \in D : f[x] \in Int /\ g[x] \in Int  BY DEF Amounts
<1>2. SumFunctionOnSet(f, D) = f[b] + SumFunctionOnSet(f, R)  BY <1>1, SumAdds
<1>3. SumFunctionOnSet(g, D) = g[b] + SumFunctionOnSet(g, R)  BY <1>1, SumAdds
<1>4. IsFiniteSet(R) /\ \A x \in R : f[x] \in Int /\ g[x] = f[x]
  BY <1>1, FS_RemoveElement
<1>5. SumFunctionOnSet(g, R) = SumFunctionOnSet(f, R)  BY <1>4, SumSame
<1>6. SumFunctionOnSet(f, R) \in Int  BY <1>4, SumAdds
<1>7. Total(f) = SumFunctionOnSet(f, D) /\ Total(g) = SumFunctionOnSet(g, D)  BY TotalIsSum
<1>. HIDE DEF R, D
<1>8. f[b] \in Int /\ g[b] \in Int  BY <1>1 DEF D
<1>. QED  BY <1>2, <1>3, <1>5, <1>6, <1>7, <1>8

\* One amount is taken out.
LEMMA TotalLess ==
    ASSUME NEW f, NEW g, Amounts(f), NEW b \in DOMAIN f, DOMAIN g = DOMAIN f \ {b},
           \A x \in DOMAIN g : g[x] = f[x]
    PROVE  Amounts(g) /\ Total(g) = Total(f) - f[b] /\ Total(f) \in Int /\ Total(g) \in Int
<1>. DEFINE D == DOMAIN f
            R == D \ {b}
<1>1. IsFiniteSet(D) /\ \A x \in D : f[x] \in Int  BY DEF Amounts
<1>2. SumFunctionOnSet(f, D) = f[b] + SumFunctionOnSet(f, R)  BY <1>1, SumAdds
<1>3. IsFiniteSet(R) /\ \A x \in R : f[x] \in Int /\ g[x] = f[x]
  BY <1>1, FS_RemoveElement
<1>4. SumFunctionOnSet(g, R) = SumFunctionOnSet(f, R)  BY <1>3, SumSame
<1>5. SumFunctionOnSet(f, R) \in Int  BY <1>3, SumAdds
<1>6. Total(f) = SumFunctionOnSet(f, D) /\ Total(g) = SumFunctionOnSet(g, R)  BY TotalIsSum
<1>7. Amounts(g)  BY <1>3 DEF Amounts
<1>. HIDE DEF R, D
<1>8. f[b] \in Int  BY <1>1 DEF D
<1>. QED  BY <1>2, <1>4, <1>5, <1>6, <1>7, <1>8

\* The shares of effects are numbers, and there are finitely many.
SharesOK(C) == IsFiniteSet(C) /\ \A c \in C : c.share \in Int

\* Shares of no effects, of one more or less, and of two kinds of effects.
LEMMA SharesAdd ==
    ASSUME NEW C, SharesOK(C)
    PROVE  /\ Shares(C) \in Int
           /\ \A c \in C : Shares(C) = c.share + Shares(C \ {c})
           /\ \A D \in SUBSET C : SharesOK(D) /\ Shares(D) \in Int
                                  /\ Shares(C) = Shares(D) + Shares(C \ D)
<1>. DEFINE f == [c \in C |-> c.share]
<1>1. IsFiniteSet(C) /\ \A c \in C : f[c] \in Int /\ f[c] = c.share  BY DEF SharesOK
<1>2. ASSUME NEW D \in SUBSET C  PROVE Shares(D) = SumFunctionOnSet(f, D) /\ IsFiniteSet(D)
  <2>. DEFINE g == [c \in D |-> c.share]
  <2>1. DOMAIN g = D /\ \A x \in D : f[x] \in Int /\ g[x] = f[x]  BY <1>1
  <2>2. Shares(D) = Total(g)  BY DEF Shares
  <2>3. Total(g) = SumFunctionOnSet(g, D)  BY <2>1, TotalIsSum
  <2>4. IsFiniteSet(D)  BY <1>1, FS_Subset
  <2>. HIDE DEF g, f
  <2>5. SumFunctionOnSet(g, D) = SumFunctionOnSet(f, D)  BY <2>1, <2>4, SumSame
  <2>. QED  BY <2>2, <2>3, <2>4, <2>5
<1>. HIDE DEF f
<1>3. SumFunctionOnSet(f, C) \in Int
      /\ \A c \in C : SumFunctionOnSet(f, C) = f[c] + SumFunctionOnSet(f, C \ {c})
  BY <1>1, SumAdds
<1>4. Shares(C) = SumFunctionOnSet(f, C)  BY <1>2
<1>5. ASSUME NEW c \in C  PROVE Shares(C) = c.share + Shares(C \ {c})
  <2>1. Shares(C \ {c}) = SumFunctionOnSet(f, C \ {c})  BY <1>2
  <2>. QED  BY <1>1, <1>3, <1>4, <2>1
<1>6. ASSUME NEW D \in SUBSET C
      PROVE  SharesOK(D) /\ Shares(D) \in Int /\ Shares(C) = Shares(D) + Shares(C \ D)
  <2>1. /\ Shares(D) = SumFunctionOnSet(f, D) /\ IsFiniteSet(D)
        /\ Shares(C \ D) = SumFunctionOnSet(f, C \ D) /\ IsFiniteSet(C \ D)
    BY <1>2
  <2>2. SumFunctionOnSet(f, D \union (C \ D)) = SumFunctionOnSet(f, D) + SumFunctionOnSet(f, C \ D)
    BY <1>1, <2>1, SumUnion
  <2>3. SumFunctionOnSet(f, D) \in Int  BY <1>1, <2>1, SumAdds
  <2>4. D \union (C \ D) = C  OBVIOUS
  <2>5. SharesOK(D)  BY <2>1 DEF SharesOK
  <2>. QED  BY <1>4, <2>1, <2>2, <2>3, <2>4, <2>5
<1>. QED  BY <1>3, <1>4, <1>5, <1>6

LEMMA SharesOfNone == Shares({}) = 0
<1>1. DOMAIN [c \in {} |-> c.share] = {}  OBVIOUS
<1>. QED  BY <1>1, TotalOfNone DEF Shares

\* The children of a plan have its shares.
LEMMA SharesOfPlan ==
    ASSUME NEW b \in Branches, NEW p, p.children \subseteq Nat, IsFiniteSet(p.children),
           DOMAIN p.share = p.children, \A i \in p.children : p.share[i] \in Int
    PROVE  LET C == {Child(b, i, p) : i \in p.children}
           IN SharesOK(C) /\ Shares(C) = Total(p.share)
<1>. DEFINE A == p.children
            C == {Child(b, i, p) : i \in A}
            q == [i \in A |-> Child(b, i, p)]
            f == [c \in C |-> c.share]
<1>1. \A i \in A : Child(b, i, p).b = Append(b, i) /\ Child(b, i, p).share = p.share[i]
  BY DEF Child
<1>2. \A i, k \in Nat : Append(b, i) = Append(b, k) => i = k
  <2>. SUFFICES ASSUME NEW i \in Nat, NEW k \in Nat, Append(b, i) = Append(b, k)
                PROVE  i = k
    OBVIOUS
  <2>. QED  BY PathOfChild
<1>3. /\ q \in [A -> C]
      /\ \A x \in A : q[x].b = Append(b, x) /\ q[x].share = p.share[x]
      /\ \A z \in C : \E x \in A : q[x] = z
  BY <1>1
<1>4. ASSUME NEW x \in A, NEW y \in A, q[x] = q[y]  PROVE x = y
  <2>1. Append(b, x) = Append(b, y)  BY <1>3, <1>4
  <2>. QED  BY <1>2, <2>1
<1>5. DOMAIN f = C /\ \A c \in C : f[c] = c.share  OBVIOUS
<1>6. Shares(C) = Total(f)  BY DEF Shares
<1>. DEFINE g == p.share
<1>. HIDE DEF q, C, f
<1>7. DOMAIN g = A /\ \A x \in A : f[q[x]] \in Int /\ g[x] = f[q[x]]  BY <1>3, <1>5
<1>. HIDE DEF A, g
<1>8. IsFiniteSet(A)  BY DEF A
<1>9. IsFiniteSet(C) /\ SumFunctionOnSet(f, C) = SumFunctionOnSet(g, A)
  <2>1. Renames(q, A, C)  BY <1>3, <1>4 DEF Renames
  <2>. QED  BY <1>7, <1>8, <2>1, SumRenamed
<1>10. SharesOK(C)
  <2>1. \A c \in C : c.share \in Int  BY <1>3, <1>5, <1>7
  <2>. QED  BY <1>9, <2>1 DEF SharesOK
<1>11. Shares(C) = Total(g)  BY <1>5, <1>6, <1>7, <1>9, TotalIsSum
<1>. QED  BY <1>10, <1>11 DEF C, A, g

(***************************************************************************)
(* The accounts                                                            *)
(***************************************************************************)

\* The children that are queued, those that are of no leaf any more, and the equation.
Current == {c \in Children : c.gen = gen}
OnTheirWay == {c \in Current : c.parent \notin DOMAIN leaves}
Balances == Total(leaves) + pool + Shares(OnTheirWay) = granted - spent
Goes == exact /\ status \in Active
Counted == exact /\ status \in Active \union Ended

\* The accounts, in these words.
LEMMA FamilyIs == \A b : Family(b) = {c \in Current : c.parent = b}
BY DEF Family, Current

LEMMA AccountsAre ==
    AccountsOK <=> AmountsOK /\ (Goes => CarriedOK /\ FamiliesOK) /\ (Counted => Balances)
<1>. DEFINE C == {j \in Children : j.gen = gen /\ j.parent \notin DOMAIN leaves}
<1>1. C = OnTheirWay  BY DEF OnTheirWay, Current
<1>2. InTransit = Shares(C)  BY DEF InTransit
<1>3. InTransit = Shares(OnTheirWay)  BY <1>1, <1>2
<1>4. CreditsAccounted <=>
          /\ pool \in Int /\ granted \in Int /\ spent \in Int
          /\ \A b \in DOMAIN leaves : leaves[b] \in Int
          /\ Counted => Balances
  BY <1>3 DEF CreditsAccounted, Counted, Balances
<1>. QED  BY <1>4 DEF AccountsOK, AmountsOK, Goes

\* Shares are of finitely many children, and numbers.
LEMMA CurrentShares ==
    ASSUME AmountsOK
    PROVE  /\ SharesOK(Current) /\ SharesOK(OnTheirWay) /\ Shares(OnTheirWay) \in Int
           /\ Amounts(leaves) /\ Total(leaves) \in Int
           /\ pool \in Int /\ granted \in Int /\ spent \in Int
<1>1. Current \in SUBSET jobs /\ OnTheirWay \in SUBSET Current
  BY DEF Current, OnTheirWay, Children, QueuedJobs
<1>2. IsFiniteSet(Current)  BY <1>1, FS_Subset DEF AmountsOK
<1>3. \A c \in Current : c.share \in Int
  BY DEF AmountsOK, AmountsOfJob, Current, Children, QueuedJobs
<1>4. SharesOK(Current)  BY <1>2, <1>3 DEF SharesOK
<1>5. SharesOK(OnTheirWay)  BY <1>1, <1>4, SharesAdd
<1>6. Amounts(leaves)  BY DEF AmountsOK, Amounts
<1>. QED  BY <1>4, <1>5, <1>6, SharesAdd, TotalIsNumber DEF AmountsOK

\* New effects N, and new checkpoints H, carry what their leaves have.
Joined(N) ==
    /\ IsFiniteSet(N) /\ jobs' \subseteq jobs \union N
    /\ \A k \in N : AmountsOfJob(k) /\ (Goes' => Carries(k))
Waiting(H) ==
    /\ \A h \in held' : \E i \in held \union H : h.b = i.b /\ h.credits = i.credits
    /\ \A h \in H : h.credits \in Int /\ (Goes' /\ h.b \in DOMAIN leaves => leaves[h.b] >= 0)

\* The same children are queued, and the leaves have what they had.
LEMMA QuietAccounts ==
    ASSUME AccountsOK, UNCHANGED <<leaves, pool, granted, spent, gen>>,
           Goes' => Goes, Counted' => Counted,
           status' = "FORMALIZING" => status = "FORMALIZING",
           Current' = Current,
           NEW N, Joined(N), NEW H, Waiting(H)
    PROVE  AccountsOK'
<1>. USE DEF Joined, Waiting
<1>1. AmountsOK /\ (Goes => CarriedOK /\ FamiliesOK) /\ (Counted => Balances)
  BY AccountsAre
<1>2. AmountsOK'
  <2>1. IsFiniteSet(jobs \union N) /\ jobs' \in SUBSET (jobs \union N)
    BY <1>1, FS_Union DEF AmountsOK
  <2>2. IsFiniteSet(jobs')  BY <2>1, FS_Subset
  <2>3. \A k \in jobs' : AmountsOfJob(k)  BY <1>1 DEF AmountsOK
  <2>4. \A h \in held' : h.credits \in Int  BY <1>1 DEF AmountsOK
  <2>. QED  BY <1>1, <2>2, <2>3, <2>4 DEF AmountsOK
<1>3. OnTheirWay' = OnTheirWay  BY DEF OnTheirWay
<1>4. Counted' => Balances'  BY <1>1, <1>3 DEF Balances
<1>5. ASSUME Goes'  PROVE CarriedOK' /\ FamiliesOK'
  <2>1. CarriedOK /\ FamiliesOK  BY <1>1, <1>5
  <2>2. \A k \in jobs' : Carries(k)  BY <1>5, <2>1 DEF CarriedOK
  <2>3. \A k \in jobs' : Carries(k)'  BY <2>2 DEF Carries
  <2>4. \A h \in held' : h.b \in DOMAIN leaves => leaves[h.b] >= 0  BY <1>5, <2>1 DEF CarriedOK
  <2>5. CarriedOK'  BY <2>3, <2>4 DEF CarriedOK
  <2>6. \A b : Family(b)' = Family(b)
    <3>1. \A b : Family(b)' = {c \in Current' : c.parent = b}  BY DEF Family, Current
    <3>. QED  BY <3>1, FamilyIs
  <2>7. FamiliesOK'  BY <2>1, <2>6 DEF FamiliesOK, Current
  <2>. QED  BY <2>5, <2>7
<1>6. AccountsOK' <=> AmountsOK' /\ (Goes' => CarriedOK' /\ FamiliesOK') /\ (Counted' => Balances')
  BY AccountsAre, PTL
<1>. QED  BY <1>2, <1>4, <1>5, <1>6

\* The effect j carries the balance v of its leaf.
Bears(j, v) ==
    /\ j.gen = gen /\ j.kind = "batch" => v = j.after
    /\ j.gen = gen /\ j.kind = "call" /\ (j.stage = "active" \/ j.fixes > 0) => v = j.before - j.est
    /\ j.kind = "summary" /\ j.why = "checkpoint" => v >= 0

LEMMA CarriesIs == \A j : Carries(j) <=> (j.b \in DOMAIN leaves => Bears(j, leaves[j.b]))
BY DEF Carries, Bears

\* Effects that carry nothing.
Bare(k) == k.kind # "child" /\ AmountsOfJob(k) /\ \A v : Bears(k, v)

LEMMA BareEffects ==
    /\ \A b : Bare(Call(b, 0, 0)) /\ Call(b, 0, 0).b = b
    /\ \A b : Bare(Final(b)) /\ Final(b).b = b
    /\ \A b, e : \A why \in {"final", "clone", "edge"} :
           Bare(Summary(b, why, e, 0)) /\ Summary(b, why, e, 0).b = b
    /\ \A k : Bare(k) => Carries(k)
<1>1. ASSUME NEW b  PROVE Bare(Call(b, 0, 0)) /\ Call(b, 0, 0).b = b
  <2>. DEFINE k == Call(b, 0, 0)
  <2>1. /\ k.kind = "call" /\ k.b = b /\ k.stage = "queued" /\ k.fixes = 0
        /\ k.before = 0 /\ k.est = 0
    BY DEF Call
  <2>. HIDE DEF k
  <2>2. Bare(k)  BY <2>1 DEF Bare, Bears, AmountsOfJob
  <2>. QED  BY <2>1, <2>2 DEF k
<1>2. ASSUME NEW b, NEW e, NEW why \in {"final", "clone", "edge"}
      PROVE  Bare(Summary(b, why, e, 0)) /\ Summary(b, why, e, 0).b = b
  <2>. DEFINE k == Summary(b, why, e, 0)
  <2>1. k.kind = "summary" /\ k.b = b /\ k.why = why /\ k.credits = 0
    BY DEF Summary
  <2>. HIDE DEF k
  <2>2. Bare(k)  BY <2>1 DEF Bare, Bears, AmountsOfJob
  <2>. QED  BY <2>1, <2>2 DEF k
<1>3. \A b : Bare(Final(b)) /\ Final(b).b = b
  BY <1>2 DEF Final
<1>4. \A k : Bare(k) => Carries(k)  BY CarriesIs DEF Bare
<1>. QED  BY <1>1, <1>2, <1>3, <1>4

\* An effect that starts carries what it did.
LEMMA StartedBears ==
    ASSUME TypeOK, NEW j \in jobs, AmountsOfJob(j)
    PROVE  LET k == Started(j)
           IN /\ AmountsOfJob(k)
              /\ \A v : Bears(j, v) /\ (j.kind = "call" => j.fixes > 0) => Bears(k, v)
              /\ k.b = j.b /\ k.kind = j.kind /\ k.gen = j.gen /\ k.stage = "active"
<1>. DEFINE k == Started(j)
<1>1. JobOK(j)  BY BranchOfJob
<1>2. DOMAIN k = DOMAIN j /\ \A x \in DOMAIN j : x # "stage" => k[x] = j[x]
  BY DEF Started
<1>3. /\ k.b = j.b /\ k.kind = j.kind /\ k.gen = j.gen /\ k.stage = "active"
      /\ JobOK(k)
  BY <1>1, StartedOK
<1>. HIDE DEF k
<1>4. /\ j.kind = "call" => k.fixes = j.fixes /\ k.before = j.before /\ k.est = j.est
      /\ j.kind = "batch" => k.after = j.after
      /\ j.kind = "summary" => k.why = j.why /\ k.credits = j.credits
      /\ j.kind = "child" => k.share = j.share /\ k.back = j.back
  BY <1>1, <1>2 DEF JobOK
<1>5. AmountsOfJob(k)  BY <1>3, <1>4 DEF AmountsOfJob
<1>6. ASSUME NEW v, Bears(j, v), j.kind = "call" => j.fixes > 0  PROVE Bears(k, v)
  BY <1>3, <1>4, <1>6 DEF Bears
<1>. QED  BY <1>3, <1>5, <1>6 DEF k

\* An effect is replaced by others, none of them a child, and nothing else changes.
LEMMA QuietSwap ==
    ASSUME AccountsOK, UNCHANGED <<leaves, pool, granted, spent, gen, status, exact>>,
           held' \subseteq held,
           NEW j \in jobs, j \in Children => j.gen # gen,
           NEW N, IsFiniteSet(N), Replaced(j, N),
           \A k \in N : k.kind # "child" /\ AmountsOfJob(k) /\ (Goes => Carries(k))
    PROVE  AccountsOK'
<1>1. jobs' = (jobs \ {j}) \union N  BY DEF Replaced
<1>2. Goes' = Goes /\ Counted' = Counted  BY DEF Goes, Counted
<1>3. \A c : c \in Current' <=> c \in Current
  BY <1>1 DEF Current, Children, QueuedJobs
<1>4. Current' = Current  BY <1>3
<1>5. Joined(N)  BY <1>1, <1>2 DEF Joined
<1>6. Waiting({})  BY DEF Waiting
<1>. QED  BY <1>2, <1>4, <1>5, <1>6, QuietAccounts

\* fail_agent_effect
LEMMA FailEffectAccounts ==
    ASSUME AccountsOK, NEW j \in jobs, j.kind \in {"call", "batch"}, FailEffect(j)
    PROVE  AccountsOK'
<1>. DEFINE N == IF Live(j) /\ j.b \in DOMAIN leaves THEN {Final(j.b)} ELSE {}
<1>1. /\ UNCHANGED <<leaves, pool, granted, spent, gen, status, exact>> /\ held' = held
      /\ Replaced(j, N)
  BY DEF FailEffect, account, history
<1>2. j \notin Children  BY DEF Children
<1>3. \A k \in N : Bare(k)  BY BareEffects
<1>4. IsFiniteSet(N)  BY FS_Singleton, FS_EmptySet
<1>. HIDE DEF N
<1>5. \A k \in N : k.kind # "child" /\ AmountsOfJob(k) /\ (Goes => Carries(k))
  BY <1>3, BareEffects DEF Bare
<1>. QED  BY <1>1, <1>2, <1>4, <1>5, QuietSwap

\* Only the status, the checkpoints that are let go and the like change.
LEMMA StillAccounts ==
    ASSUME AccountsOK, UNCHANGED <<leaves, pool, granted, spent, gen, jobs>>,
           exact' => exact, status' \in Active => status \in Active,
           status' \in Active \union Ended => status \in Active \union Ended,
           status' = "FORMALIZING" => status = "FORMALIZING",
           \A h \in held' : \E i \in held : h.b = i.b /\ h.credits = i.credits
    PROVE  AccountsOK'
<1>1. (Goes' => Goes) /\ (Counted' => Counted)  BY DEF Goes, Counted
<1>2. Current' = Current  BY DEF Current, Children, QueuedJobs
<1>3. Joined({})  BY FS_EmptySet DEF Joined
<1>4. Waiting({})  BY DEF Waiting
<1>. QED  BY <1>1, <1>2, <1>3, <1>4, QuietAccounts

\* Checkpoints that are let go are the same.
LEMMA OpenedCredits ==
    ASSUME NEW H, NEW r, NEW mine, held' \in Opened(H, r, mine), \A h \in H : HeldOK(h)
    PROVE  \A g \in held' : \E h \in H : g.b = h.b /\ g.credits = h.credits
<1>1. \A h \in H : LET g == [h EXCEPT !.open = TRUE] IN g.b = h.b /\ g.credits = h.credits
  BY DEF HeldOK
<1>2. ASSUME NEW P, held' = {IF h \in P THEN [h EXCEPT !.open = TRUE] ELSE h : h \in H}
      PROVE  \A g \in held' : \E h \in H : g.b = h.b /\ g.credits = h.credits
  BY <1>1, <1>2
<1>3. CASE held' = H  BY <1>3
<1>4. CASE held' = {IF h.b[1] = r THEN [h EXCEPT !.open = TRUE] ELSE h : h \in H}
  BY <1>1, <1>4
<1>5. CASE held' = {IF h \in mine THEN [h EXCEPT !.open = TRUE] ELSE h : h \in H}
  BY <1>1, <1>5
<1>. QED  BY <1>3, <1>4, <1>5 DEF Opened

LEMMA DeadlineAccounts == AccountsOK /\ TypeOK /\ Deadline => AccountsOK'
<1>. SUFFICES ASSUME AccountsOK, TypeOK, Deadline PROVE AccountsOK'  OBVIOUS
<1>1. /\ UNCHANGED <<leaves, pool, granted, spent, gen, jobs, exact>>
      /\ status = "RUNNING" /\ status' \in {"FINALIZING", "REPORTING"}
      /\ held' = {IF h.b[1] = round THEN [h EXCEPT !.open = TRUE] ELSE h : h \in held}
  BY DEF Deadline, account, history
<1>2. held' \in Opened(held, round, {})  BY <1>1 DEF Opened
<1>3. \A h \in held : HeldOK(h)  BY DEF TypeOK
<1>4. \A h \in held' : \E i \in held : h.b = i.b /\ h.credits = i.credits
  BY <1>2, <1>3, OpenedCredits
<1>. QED  BY <1>1, <1>4, StillAccounts DEF Active, Ended

LEMMA IntermediateReportAccounts == AccountsOK /\ IntermediateReport => AccountsOK'
<1>. SUFFICES ASSUME AccountsOK, IntermediateReport PROVE AccountsOK'  OBVIOUS
<1>1. /\ UNCHANGED <<leaves, pool, granted, spent, gen, jobs, exact, held>>
      /\ status = "REPORTING" /\ status' \in {"FINALIZING", "RUNNING"}
  BY DEF IntermediateReport, account, history
<1>. QED  BY <1>1, StillAccounts DEF Active, Ended

LEMMA FinalReportAccounts == ASSUME AccountsOK, NEW r, FinalReport(r) PROVE AccountsOK'
<1>1. /\ UNCHANGED <<leaves, pool, granted, spent, gen, jobs, held>> /\ (exact' => exact)
      /\ \/ /\ status \in {"RUNNING", "REPORTING", "FINALIZING"}
            /\ status' \in {"COMPLETED", "COMPLETED_WITH_ERRORS"}
         \/ status' = status
  BY DEF FinalReport, account
<1>. QED  BY <1>1, StillAccounts DEF Active, Ended

LEMMA PauseAccounts ==
    AccountsOK /\ (Pause \/ MarkPaused \/ ExpirePause \/ FormalizationFails) => AccountsOK'
<1>. SUFFICES ASSUME AccountsOK, Pause \/ MarkPaused \/ ExpirePause \/ FormalizationFails
              PROVE  AccountsOK'
  OBVIOUS
<1>1. /\ UNCHANGED <<leaves, pool, granted, spent, gen, jobs, held, exact>>
      /\ \/ status \in Active /\ status' \in {"PAUSING", "PAUSED"}
         \/ status' \in {"EXPIRED", "FAILED"}
  BY DEF Pause, MarkPaused, ExpirePause, FormalizationFails, account, history, Active
<1>. QED  BY <1>1, StillAccounts DEF Active, Ended

LEMMA OtherTasksAccounts == AccountsOK /\ OtherTasks => AccountsOK'
<1>. SUFFICES ASSUME AccountsOK, OtherTasks PROVE AccountsOK'  OBVIOUS
<1>. QED  BY StillAccounts DEF OtherTasks, account, history

LEMMA StutterAccounts == AccountsOK /\ UNCHANGED vars => AccountsOK'
<1>. SUFFICES ASSUME AccountsOK, UNCHANGED vars PROVE AccountsOK'  OBVIOUS
<1>. QED  BY StillAccounts DEF vars

\* Effects that start, are dropped or have one of their own follow.
LEMMA SwapAccounts ==
    ASSUME AccountsOK, TypeOK, NEW j \in jobs,
           UNCHANGED <<status, gen, account, held, history>>,
           \/ Replaced(j, {}) /\ (j \in Children => j.gen # gen)
           \/ Replaced(j, {Started(j)}) /\ j.kind # "child" /\ (j.kind = "call" => j.fixes > 0)
           \/ \E k : Replaced(j, {k}) /\ j \notin Children /\ Bare(k)
    PROVE  AccountsOK'
<1>1. UNCHANGED <<leaves, pool, granted, spent, gen, status, exact>> /\ held' \subseteq held
  BY DEF account, history
<1>2. IsFiniteSet({}) /\ \A k : IsFiniteSet({k})  BY FS_EmptySet, FS_Singleton
<1>3. CASE Replaced(j, {}) /\ (j \in Children => j.gen # gen)
  BY <1>1, <1>2, <1>3, QuietSwap
<1>4. CASE Replaced(j, {Started(j)}) /\ j.kind # "child" /\ (j.kind = "call" => j.fixes > 0)
  <2>. DEFINE k == Started(j)
  <2>1. AmountsOfJob(j) /\ (Goes => Carries(j))
    BY AccountsAre DEF AmountsOK, CarriedOK
  <2>2. /\ AmountsOfJob(k) /\ \A v : Bears(j, v) => Bears(k, v)
        /\ k.b = j.b /\ k.kind = j.kind /\ k.gen = j.gen
    BY <1>4, <2>1, StartedBears
  <2>3. Replaced(j, {k}) /\ j \notin Children  BY <1>4 DEF Children
  <2>. HIDE DEF k
  <2>4. Goes => Carries(k)  BY <2>1, <2>2, CarriesIs
  <2>. QED  BY <1>1, <1>2, <1>4, <2>2, <2>3, <2>4, QuietSwap
<1>5. CASE \E k : Replaced(j, {k}) /\ j \notin Children /\ Bare(k)
  <2>1. PICK k : Replaced(j, {k}) /\ j \notin Children /\ Bare(k)  BY <1>5
  <2>2. \A m \in {k} : m.kind # "child" /\ AmountsOfJob(m) /\ (Goes => Carries(m))
    BY <2>1, BareEffects DEF Bare
  <2>. QED  BY <1>1, <1>2, <2>1, <2>2, QuietSwap
<1>. QED  BY <1>3, <1>4, <1>5

LEMMA LaunchesAccounts ==
    ASSUME AccountsOK, TypeOK, NEW j \in jobs,
           \/ LaunchCallFails(j) \/ LaunchBatchFails(j) \/ LaunchBatch(j) \/ LaunchSummary(j)
           \/ DropLate(j) \/ DropChild(j) \/ WorkerRaises(j) \/ Clone(j)
           \/ \E live \in BOOLEAN : StartChild(j, live)
    PROVE  AccountsOK'
<1>1. CASE LaunchCallFails(j) \/ LaunchBatchFails(j) \/ WorkerRaises(j)
  BY <1>1, FailEffectAccounts DEF LaunchCallFails, LaunchBatchFails, WorkerRaises
<1>2. CASE LaunchBatch(j)
  <2>1. /\ UNCHANGED <<status, gen, account, held, history>>
        /\ Replaced(j, {Started(j)}) /\ j.kind = "batch"
    BY <1>2 DEF LaunchBatch
  <2>. QED  BY <2>1, SwapAccounts
<1>3. CASE LaunchSummary(j)
  <2>1. /\ UNCHANGED <<status, gen, account, held, history>> /\ j.kind = "summary"
        /\ Replaced(j, {Started(j)}) \/ Replaced(j, {})
    BY <1>3 DEF LaunchSummary
  <2>2. j \notin Children  BY <2>1 DEF Children
  <2>. QED  BY <2>1, <2>2, SwapAccounts
<1>4. CASE DropLate(j) \/ DropChild(j) \/ Clone(j)
  <2>1. /\ UNCHANGED <<status, gen, account, held, history>> /\ Replaced(j, {})
        /\ j.gen # gen \/ j.kind # "child"
    BY <1>4 DEF DropLate, DropChild, Clone
  <2>2. j \in Children => j.gen # gen  BY <2>1 DEF Children
  <2>. QED  BY <2>1, <2>2, SwapAccounts
<1>5. ASSUME NEW live \in BOOLEAN, StartChild(j, live)  PROVE AccountsOK'
  <2>1. /\ UNCHANGED <<status, gen, account, held, history>> /\ j \notin Children
        /\ Replaced(j, {}) \/ Replaced(j, {Call(j.b, 0, 0)}) \/ Replaced(j, {Final(j.b)})
    BY <1>5 DEF StartChild, Children, QueuedJobs, ActiveJobs
  <2>2. Bare(Call(j.b, 0, 0)) /\ Bare(Final(j.b))  BY BareEffects
  <2>. QED  BY <2>1, <2>2, SwapAccounts
<1>. QED  BY <1>1, <1>2, <1>3, <1>4, <1>5

\* A checkpoint waits with the credits of its leaf, which is not in debt.
LEMMA CheckpointAccounts ==
    ASSUME AccountsOK, TypeOK, NEW j \in jobs, Checkpoint(j)
    PROVE  AccountsOK'
<1>. DEFINE mine == [b |-> j.b, edges |-> j.edges, credits |-> j.credits, open |-> FALSE]
            H == held \union {mine}
<1>1. /\ UNCHANGED <<status, gen, leaves, pool, granted, spent, exact>>
      /\ j.kind = "summary" /\ j \in ActiveJobs /\ j.why = "checkpoint"
      /\ jobs' = jobs \ {j} /\ held' \in Opened(H, j.b[1], {mine})
  BY DEF Checkpoint, Replaced, account, history
<1>2. JobOK(j) /\ j.b \in Branches /\ j.b[1] <= gen  BY BranchOfJob
<1>3. AmountsOfJob(j) /\ (Goes => Carries(j))  BY AccountsAre DEF AmountsOK, CarriedOK
<1>4. mine.b = j.b /\ mine.credits = j.credits /\ HeldOK(mine)
  BY <1>1, <1>2 DEF HeldOK, JobOK
<1>5. j.credits \in Int  BY <1>1, <1>3 DEF AmountsOfJob
<1>6. \A h \in H : HeldOK(h)  BY <1>4 DEF TypeOK
<1>. HIDE DEF mine
<1>7. \A g \in held' : \E h \in H : g.b = h.b /\ g.credits = h.credits
  BY <1>1, <1>6, OpenedCredits
<1>8. Goes' = Goes /\ Counted' = Counted  BY <1>1 DEF Goes, Counted
<1>9. Waiting({mine})
  BY <1>1, <1>3, <1>4, <1>5, <1>7, <1>8 DEF Waiting, Carries
<1>10. Joined({})  BY <1>1, FS_EmptySet DEF Joined
<1>11. Current' = Current
  <2>1. \A c : c \in Current' <=> c \in Current
    BY <1>1 DEF Current, Children, QueuedJobs
  <2>. QED  BY <2>1
<1>. QED  BY <1>1, <1>8, <1>9, <1>10, <1>11, QuietAccounts

(***************************************************************************)
(* Work that carries a balance                                             *)
(***************************************************************************)

\* Nothing else is of a branch that is worked on, or waits, nor a child of it.
NoOther(b, J) ==
    \A k \in jobs \ J : IsWork(k) => k.b # b /\ (k.kind = "child" => k.parent # b)

LEMMA WorkAlone ==
    ASSUME IInv, NEW j \in jobs, IsWork(j)
    PROVE  NoOther(j.b, {j}) /\ \A h \in held : h.b # j.b
<1>1. TypeOK /\ OneOfALine /\ j \in Works  BY DEF IInv, Works
<1>2. j.b \in Branches  BY <1>1, BranchOfJob
<1>3. ASSUME NEW k \in jobs \ {j}, IsWork(k)
      PROVE  k.b # j.b /\ (k.kind = "child" => k.parent # j.b)
  <2>1. k.b \in Branches /\ JobOK(k)  BY <1>1, BranchOfJob
  <2>2. Apart(j.b, k.b)  BY <1>1, <1>3 DEF OneOfALine, Works
  <2>3. ASSUME k.kind = "child", k.parent = j.b  PROVE FALSE
    <3>1. k.b = Append(j.b, k.b[Len(k.b)])  BY <2>1, <2>3 DEF JobOK
    <3>2. k.b[Len(k.b)] \in Nat
      <4>1. k.b \in Seq(Nat) /\ Len(k.b) \in Nat /\ Len(k.b) # 0
        BY <2>1, EmptySeq, LenProperties DEF Branches
      <4>2. Len(k.b) \in 1 .. Len(k.b)  BY <4>1
      <4>. QED  BY <4>1, <4>2, ElementOfSeq
    <3>3. ~Apart(j.b, Append(j.b, k.b[Len(k.b)]))  BY <1>2, <3>2, ApartFacts
    <3>. QED  BY <2>2, <3>1, <3>3
  <2>. QED  BY <1>2, <2>1, <2>2, <2>3, ApartFacts
<1>4. \A h \in held : h.b # j.b
  <2>. SUFFICES ASSUME NEW h \in held PROVE h.b # j.b  OBVIOUS
  <2>1. h.b \in Branches /\ Apart(j.b, h.b)  BY <1>1 DEF OneOfALine, TypeOK, HeldOK
  <2>. QED  BY <1>2, <2>1, ApartFacts
<1>. QED  BY <1>3, <1>4 DEF NoOther

LEMMA HeldAlone ==
    ASSUME IInv, NEW h \in held
    PROVE  NoOther(h.b, {}) /\ \A i \in held \ {h} : i.b # h.b
<1>1. TypeOK /\ OneOfALine  BY DEF IInv
<1>2. h.b \in Branches  BY <1>1 DEF TypeOK, HeldOK
<1>3. ASSUME NEW k \in jobs, IsWork(k)
      PROVE  k.b # h.b /\ (k.kind = "child" => k.parent # h.b)
  <2>1. k.b \in Branches /\ JobOK(k)  BY <1>1, BranchOfJob
  <2>2. Apart(k.b, h.b)  BY <1>1, <1>3 DEF OneOfALine, Works
  <2>3. Apart(h.b, k.b)  BY <1>2, <2>1, <2>2, ApartFacts
  <2>4. ASSUME k.kind = "child", k.parent = h.b  PROVE FALSE
    <3>1. k.b = Append(h.b, k.b[Len(k.b)])  BY <2>1, <2>4 DEF JobOK
    <3>2. k.b[Len(k.b)] \in Nat
      <4>1. k.b \in Seq(Nat) /\ Len(k.b) \in Nat /\ Len(k.b) # 0
        BY <2>1, EmptySeq, LenProperties DEF Branches
      <4>2. Len(k.b) \in 1 .. Len(k.b)  BY <4>1
      <4>. QED  BY <4>1, <4>2, ElementOfSeq
    <3>3. ~Apart(h.b, Append(h.b, k.b[Len(k.b)]))  BY <1>2, <3>2, ApartFacts
    <3>. QED  BY <2>3, <3>1, <3>3
  <2>. QED  BY <1>2, <2>1, <2>3, <2>4, ApartFacts
<1>4. ASSUME NEW i \in held \ {h}  PROVE i.b # h.b
  <2>1. i.b \in Branches /\ Apart(i.b, h.b)  BY <1>1 DEF OneOfALine, TypeOK, HeldOK
  <2>. QED  BY <1>2, <2>1, ApartFacts
<1>. QED  BY <1>3, <1>4 DEF NoOther

\* The effects N carry the balance v of the branch b on: as theirs, or as the shares
\* of its children and what comes back with the one that retires it.
Kids(N) == {k \in N : k.kind = "child"}
Bear(N, b, v) ==
    /\ \A k \in N : IF k.b = b THEN Bears(k, v) ELSE \A w : Bears(k, w)
    /\ \A c \in Kids(N) :
           /\ c.parent = b /\ c.gen = gen /\ c.stage = "queued"
           /\ IF c.retires THEN v = Shares(Kids(N)) + c.back
              ELSE c.back = 0 /\ \E k \in Kids(N) : k.retires

\* The leaf b has v now, which N carry on in place of J, and has paid the rest.
Passes(b, v, J, N) ==
    /\ status \in Active /\ b \in DOMAIN leaves /\ v + spent' = leaves[b] + spent
    /\ NoOther(b, J) /\ J \intersect Current = {}
    /\ \A h \in held' : h.b # b
    /\ Bear(N, b, v)

\* The leaf b, if it is one, has v now.
HasNow(b, v) ==
    \/ leaves' = Balanced(b, v)
    \/ leaves' = leaves /\ (b \in DOMAIN leaves => leaves[b] = v)

LEMMA BranchAccounts ==
    ASSUME AccountsOK, IInv, NEW b, NEW v \in Int, HasNow(b, v),
           UNCHANGED <<status, gen, pool, granted>>, spent' \in Int, exact' => exact,
           status # "FORMALIZING",
           NEW J, NEW N, IsFiniteSet(N), jobs' = (jobs \ J) \union N, held' \subseteq held,
           \A k \in N : AmountsOfJob(k), Counted' => Passes(b, v, J, N)
    PROVE  AccountsOK'
<1>1. AmountsOK /\ (Goes => CarriedOK /\ FamiliesOK) /\ (Counted => Balances)
  BY AccountsAre
<1>2. DOMAIN leaves' = DOMAIN leaves
      /\ \A x \in DOMAIN leaves : leaves'[x] = IF x = b THEN v ELSE leaves[x]
  BY DEF HasNow, Balanced
<1>3. AmountsOK'
  <2>1. IsFiniteSet(jobs \union N) /\ jobs' \in SUBSET (jobs \union N)
    BY <1>1, FS_Union DEF AmountsOK
  <2>2. IsFiniteSet(jobs')  BY <2>1, FS_Subset
  <2>3. \A k \in jobs' : AmountsOfJob(k)  BY <1>1 DEF AmountsOK
  <2>4. \A x \in DOMAIN leaves' : leaves'[x] \in Int  BY <1>1, <1>2 DEF AmountsOK
  <2>. QED  BY <1>1, <1>2, <2>2, <2>3, <2>4 DEF AmountsOK
<1>4. ASSUME Counted'  PROVE Balances' /\ CarriedOK' /\ FamiliesOK'
  <2>1. Passes(b, v, J, N)  BY <1>4
  <2>2. CarriedOK /\ FamiliesOK /\ Balances
    BY <1>1, <1>4, <2>1 DEF Passes, Counted, Goes
  <2>3. /\ b \in DOMAIN leaves /\ v + spent' = leaves[b] + spent /\ leaves[b] \in Int
        /\ J \intersect Current = {} /\ Bear(N, b, v) /\ \A h \in held' : h.b # b
        /\ \A k \in jobs \ J : IsWork(k) => k.b # b /\ (k.kind = "child" => k.parent # b)
    BY <1>1, <2>1 DEF Passes, NoOther, AmountsOK
  <2>4. Current' = Current \union Kids(N)
    <3>1. \A c : c \in Current' <=> c \in Current \/ c \in Kids(N)
      BY <2>3 DEF Current, Children, QueuedJobs, Kids, Bear
    <3>. QED  BY <3>1
  <2>5. OnTheirWay' = OnTheirWay
    <3>1. \A c \in Kids(N) : c.parent \in DOMAIN leaves  BY <2>3 DEF Bear
    <3>2. \A c : c \in OnTheirWay' <=> c \in OnTheirWay
      BY <1>2, <2>4, <3>1 DEF OnTheirWay
    <3>. QED  BY <3>2
  <2>6. Total(leaves') = Total(leaves) - leaves[b] + v
    <3>1. Amounts(leaves)  BY <1>1, CurrentShares
    <3>2. leaves'[b] = v /\ \A x \in DOMAIN leaves \ {b} : leaves'[x] = leaves[x]
      BY <1>2, <2>3
    <3>3. Total(leaves') = Total(leaves) - leaves[b] + leaves'[b]
      BY <1>2, <2>3, <3>1, <3>2, TotalChanges
    <3>. QED  BY <3>2, <3>3
  <2>7. Balances'
    <3>1. /\ Total(leaves) \in Int /\ Shares(OnTheirWay) \in Int
          /\ pool \in Int /\ granted \in Int /\ spent \in Int
      BY <1>1, CurrentShares
    <3>2. Total(leaves) + pool + Shares(OnTheirWay) = granted - spent
      BY <2>2 DEF Balances
    <3>3. (Total(leaves) - leaves[b] + v) + pool + Shares(OnTheirWay) = granted - spent'
      BY <2>3, <3>1, <3>2
    <3>4. Total(leaves') + pool' + Shares(OnTheirWay') = granted' - spent'
      BY <2>5, <2>6, <3>3
    <3>. QED  BY <3>4 DEF Balances
  <2>8. CarriedOK'
    <3>1. ASSUME NEW k \in jobs', k.b \in DOMAIN leaves'  PROVE Bears(k, leaves'[k.b])
      <4>1. CASE k \in N  BY <1>2, <2>3, <3>1, <4>1 DEF Bear
      <4>2. CASE k \notin N
        <5>1. k \in jobs \ J  BY <4>2
        <5>2. Bears(k, leaves[k.b])  BY <1>2, <2>2, <3>1, <5>1, CarriesIs DEF CarriedOK
        <5>3. CASE IsWork(k)
          <6>1. leaves'[k.b] = leaves[k.b]  BY <1>2, <2>3, <3>1, <5>1, <5>3
          <6>. QED  BY <5>2, <6>1
        <5>4. CASE ~IsWork(k)  BY <5>4 DEF IsWork, Bears
        <5>. QED  BY <5>3, <5>4
      <4>. QED  BY <4>1, <4>2
    <3>2. \A k \in jobs' : Carries(k)'  BY <3>1 DEF Carries, Bears
    <3>3. \A h \in held' : h.b \in DOMAIN leaves' => leaves'[h.b] >= 0
      BY <1>2, <2>2, <2>3 DEF CarriedOK
    <3>. QED  BY <3>2, <3>3 DEF CarriedOK
  <2>9. FamiliesOK'
    <3>1. \A c \in Current : c.parent # b
      BY <2>3 DEF Current, Children, QueuedJobs, IsWork
    <3>2. \A x : Family(x)' = {c \in Current' : c.parent = x}  BY DEF Family, Current
    <3>3. \A x : x # b => Family(x)' = Family(x)
      <4>. SUFFICES ASSUME NEW x, x # b PROVE Family(x)' = Family(x)  OBVIOUS
      <4>1. \A c : c \in Family(x)' <=> c \in Family(x)
        BY <2>3, <2>4, <3>2, FamilyIs DEF Bear
      <4>. QED  BY <4>1
    <3>4. Family(b)' = Kids(N)
      <4>1. \A c : c \in Family(b)' <=> c \in Kids(N)  BY <2>3, <2>4, <3>1, <3>2 DEF Bear
      <4>. QED  BY <4>1
    <3>5. ASSUME NEW c \in Current'
          PROVE  IF c.retires THEN leaves'[c.parent] = Shares(Family(c.parent)') + c.back
                 ELSE c.back = 0 /\ (c.parent \in DOMAIN leaves' => \E k \in Family(c.parent)' : k.retires)
      <4>1. CASE c \in Current
        <5>1. c.parent # b  BY <3>1, <4>1
        <5>2. c \in Children /\ c.gen = gen  BY <4>1 DEF Current
        <5>3. IF c.retires THEN leaves[c.parent] = Shares(Family(c.parent)) + c.back
              ELSE c.back = 0 /\ (c.parent \in DOMAIN leaves => \E k \in Family(c.parent) : k.retires)
          BY <2>2, <5>2 DEF FamiliesOK
        <5>4. Family(c.parent)' = Family(c.parent)  BY <3>3, <5>1
        <5>5. c.parent \in DOMAIN leaves => leaves'[c.parent] = leaves[c.parent]
          BY <1>2, <5>1
        <5>6. c.retires => c.parent \in DOMAIN leaves
          <6>1. WorkIsOfLeaves  BY <1>4, <2>1 DEF IInv, TreeOK, Passes, Counted
          <6>2. IsWork(c) /\ c \in jobs  BY <5>2 DEF IsWork, Children, QueuedJobs
          <6>. QED  BY <5>2, <6>1, <6>2 DEF WorkIsOfLeaves
        <5>. QED  BY <1>2, <5>3, <5>4, <5>5, <5>6
      <4>2. CASE c \in Kids(N)
        <5>1. c.parent = b  BY <2>3, <4>2 DEF Bear
        <5>. QED  BY <1>2, <2>3, <3>4, <4>2, <5>1 DEF Bear
      <4>. QED  BY <2>4, <4>1, <4>2
    <3>. QED  BY <3>5 DEF FamiliesOK, Current
  <2>. QED  BY <2>7, <2>8, <2>9
<1>5. AccountsOK' <=> AmountsOK' /\ (Goes' => CarriedOK' /\ FamiliesOK') /\ (Counted' => Balances')
  BY AccountsAre, PTL
<1>6. Goes' => Counted'  BY DEF Goes, Counted
<1>. QED  BY <1>3, <1>4, <1>5, <1>6

\* A leaf has the balance that the call or the procedures under way carry.
LEMMA WorkPasses ==
    ASSUME AccountsOK, IInv, NEW j \in jobs, j.kind \in {"call", "batch"}, Live(j), exact
    PROVE  /\ status \in Active /\ j.b \in DOMAIN leaves
           /\ leaves[j.b] \in Int /\ Bears(j, leaves[j.b])
<1>1. TypeOK /\ TreeOK  BY DEF IInv
<1>2. status \in Active /\ j.gen = gen  BY DEF Live, Working, Active
<1>3. WorkIsOfLeaves  BY <1>1, <1>2 DEF TreeOK
<1>4. IsWork(j) /\ j \notin Children  BY DEF IsWork, Children
<1>5. j.b \in DOMAIN leaves  BY <1>2, <1>3, <1>4 DEF WorkIsOfLeaves
<1>6. AmountsOK /\ CarriedOK  BY <1>2, AccountsAre DEF Goes
<1>. QED  BY <1>2, <1>5, <1>6, CarriesIs DEF AmountsOK, CarriedOK

\* The call or the procedures under way are replaced by what carries their leaf on.
LEMMA TurnAccounts ==
    ASSUME AccountsOK, IInv, NEW j \in jobs, j.kind \in {"call", "batch"}, Live(j),
           NEW v \in Int, leaves' = Balanced(j.b, v), spent' \in Int,
           UNCHANGED <<status, gen, pool, granted, exact, held>>,
           NEW N, IsFiniteSet(N), Replaced(j, N), \A k \in N : AmountsOfJob(k),
           exact => v + spent' = leaves[j.b] + spent /\ Bear(N, j.b, v)
    PROVE  AccountsOK'
<1>1. NoOther(j.b, {j}) /\ \A h \in held' : h.b # j.b
  <2>1. IsWork(j)  BY DEF IsWork
  <2>. QED  BY <2>1, WorkAlone
<1>2. {j} \intersect Current = {}  BY DEF Current, Children
<1>3. Counted' => Passes(j.b, v, {j}, N)
  BY <1>1, <1>2, WorkPasses DEF Passes, Counted
<1>4. status # "FORMALIZING"  BY DEF Live, Working
<1>5. /\ jobs' = (jobs \ {j}) \union N /\ held' \subseteq held
      /\ HasNow(j.b, v)
  BY DEF Replaced, HasNow
<1>. QED  BY <1>3, <1>4, <1>5, BranchAccounts

\* One effect that is no child carries a branch on.
LEMMA OneBears ==
    ASSUME NEW k, k.kind # "child", AmountsOfJob(k), NEW v, Bears(k, v)
    PROVE  /\ IsFiniteSet({k}) /\ \A m \in {k} : AmountsOfJob(m)
           /\ Bear({k}, k.b, v)
<1>1. Kids({k}) = {}  BY DEF Kids
<1>. QED  BY <1>1, FS_Singleton DEF Bear

LEMMA BareBears ==
    ASSUME NEW k, Bare(k), NEW v
    PROVE  /\ IsFiniteSet({k}) /\ \A m \in {k} : AmountsOfJob(m)
           /\ Bear({k}, k.b, v)
BY OneBears DEF Bare

\* An agent call takes its estimate from the leaf, and remembers what it took it from.
LEMMA LaunchCallAccounts ==
    ASSUME AccountsOK, IInv, NEW j \in jobs, NEW est \in Estimates, LaunchCall(j, est)
    PROVE  AccountsOK'
<1>1. est \in Int /\ AmountsOK /\ AmountsOfJob(j) /\ TypeOK
  BY CreditsAssumption, AccountsAre DEF AmountsOK, IInv
<1>2. CASE j.fixes > 0
  <2>1. /\ UNCHANGED <<status, gen, account, held, history>>
        /\ Replaced(j, {Started(j)}) /\ j.kind = "call"
    BY <1>2 DEF LaunchCall, account, history
  <2>. QED  BY <1>1, <1>2, <2>1, SwapAccounts
<1>3. CASE ~(j.fixes > 0)
  <2>. DEFINE k == [Started(j) EXCEPT !.before = leaves[j.b], !.est = est]
              v == leaves[j.b] - est
  <2>1. /\ j.kind = "call" /\ Live(j) /\ j.b \in DOMAIN leaves
        /\ Replaced(j, {k}) /\ leaves' = [leaves EXCEPT ![j.b] = @ - est] /\ spent' = spent + est
        /\ UNCHANGED <<status, gen, pool, granted, exact, held>>
    BY <1>3 DEF LaunchCall
  <2>2. JobOK(j)  BY <1>1, BranchOfJob
  <2>3. /\ Started(j).b = j.b /\ Started(j).kind = j.kind
        /\ {"b", "kind", "before", "est"} \subseteq DOMAIN Started(j)
    BY <2>1, <2>2, StartedOK DEF JobOK
  <2>4. k.b = j.b /\ k.kind = "call" /\ k.before = leaves[j.b] /\ k.est = est
    BY <2>1, <2>3
  <2>5. leaves[j.b] \in Int /\ spent \in Int  BY <1>1, <2>1 DEF AmountsOK
  <2>6. leaves' = Balanced(j.b, v)  BY <2>1 DEF Balanced
  <2>. HIDE DEF k
  <2>7. v \in Int /\ spent' \in Int /\ v + spent' = leaves[j.b] + spent
    BY <1>1, <2>1, <2>5
  <2>8. AmountsOfJob(k) /\ Bears(k, v)  BY <1>1, <2>4, <2>5 DEF AmountsOfJob, Bears
  <2>. HIDE DEF v
  <2>9. IsFiniteSet({k}) /\ (\A m \in {k} : AmountsOfJob(m)) /\ Bear({k}, j.b, v)
    BY <2>4, <2>8, OneBears
  <2>. QED  BY <2>1, <2>6, <2>7, <2>9, TurnAccounts
<1>. QED  BY <1>2, <1>3

\* A call is settled at its cost: the answer, the correction or the end that follows
\* has what is left.
LEMMA SettledCallAccounts ==
    ASSUME AccountsOK, IInv, NEW j \in jobs, j.kind = "call", j \in ActiveJobs, Live(j),
           NEW cost \in Int, leaves' = Balanced(j.b, j.before - cost),
           spent' = spent + cost - j.est,
           UNCHANGED <<status, gen, pool, granted, exact, held>>,
           NEW k, Replaced(j, {k}), k.b = j.b, k.kind # "child", AmountsOfJob(k),
           Bears(k, j.before - cost)
    PROVE  AccountsOK'
<1>. DEFINE v == j.before - cost
<1>1. AmountsOfJob(j) /\ spent \in Int  BY AccountsAre DEF AmountsOK
<1>2. j.before \in Int /\ j.est \in Int  BY <1>1 DEF AmountsOfJob
<1>3. v \in Int /\ spent' \in Int  BY <1>1, <1>2
<1>4. exact => v + spent' = leaves[j.b] + spent
  <2>. SUFFICES ASSUME exact PROVE v + spent' = leaves[j.b] + spent  OBVIOUS
  <2>1. leaves[j.b] \in Int /\ Bears(j, leaves[j.b])  BY WorkPasses
  <2>2. leaves[j.b] = j.before - j.est  BY <2>1 DEF Bears, Live, ActiveJobs
  <2>. QED  BY <1>1, <1>2, <2>2
<1>. HIDE DEF v
<1>5. IsFiniteSet({k}) /\ (\A m \in {k} : AmountsOfJob(m)) /\ Bear({k}, j.b, v)
  BY OneBears DEF v
<1>6. leaves' = Balanced(j.b, v)  BY DEF v
<1>. QED  BY <1>3, <1>4, <1>5, <1>6, TurnAccounts

LEMMA CallAccounts ==
    ASSUME AccountsOK, IInv, NEW j \in jobs,
           \/ \E turn \in Turns, cost \in Costs : CallAnswers(j, turn, cost)
           \/ \E cost \in Costs, pinned \in BOOLEAN : CallIsBroken(j, cost, pinned)
           \/ \E cost \in Costs \union Estimates : CallFails(j, cost)
    PROVE  AccountsOK'
<1>1. j.kind = "call" /\ j.before \in Int
  <2>1. AmountsOfJob(j)  BY AccountsAre DEF AmountsOK
  <2>. QED  BY <2>1 DEF CallAnswers, CallIsBroken, CallFails, AmountsOfJob
<1>2. Costs \subseteq Int /\ Estimates \subseteq Int  BY CreditsAssumption
<1>3. ASSUME NEW turn \in Turns, NEW cost \in Costs, CallAnswers(j, turn, cost)
      PROVE  AccountsOK'
  <2>. DEFINE k == Batch(j.b, j.before - cost, turn)
  <2>1. k.b = j.b /\ k.kind = "batch" /\ k.after = j.before - cost  BY DEF Batch
  <2>2. /\ j \in ActiveJobs /\ Live(j) /\ leaves' = Balanced(j.b, j.before - cost)
        /\ spent' = spent + cost - j.est /\ Replaced(j, {k})
        /\ UNCHANGED <<status, gen, pool, granted, exact, held>>
    BY <1>3 DEF CallAnswers
  <2>. HIDE DEF k
  <2>3. cost \in Int /\ j.before - cost \in Int  BY <1>1, <1>2
  <2>4. AmountsOfJob(k) /\ Bears(k, j.before - cost)
    BY <2>1, <2>3 DEF AmountsOfJob, Bears
  <2>. QED  BY <1>1, <2>1, <2>2, <2>3, <2>4, SettledCallAccounts
<1>4. ASSUME NEW cost \in Costs, NEW pinned \in BOOLEAN, CallIsBroken(j, cost, pinned)
      PROVE  AccountsOK'
  <2>. DEFINE k == Call(j.b, j.fixes + 1, j.before - cost)
  <2>1. /\ k.b = j.b /\ k.kind = "call" /\ k.before = j.before - cost /\ k.est = 0
        /\ k.stage = "queued"
    BY DEF Call
  <2>2. /\ j \in ActiveJobs /\ Live(j) /\ leaves' = Balanced(j.b, j.before - cost)
        /\ spent' = spent + cost - j.est
        /\ Replaced(j, {k}) \/ Replaced(j, {Final(j.b)})
        /\ UNCHANGED <<status, gen, pool, granted, exact, held>>
    BY <1>4 DEF CallIsBroken
  <2>. HIDE DEF k
  <2>3. cost \in Int /\ j.before - cost \in Int /\ (j.before - cost) - 0 = j.before - cost
    BY <1>1, <1>2
  <2>4. AmountsOfJob(k) /\ Bears(k, j.before - cost)
    BY <2>1, <2>3 DEF AmountsOfJob, Bears
  <2>5. Bare(Final(j.b)) /\ Final(j.b).b = j.b  BY BareEffects
  <2>6. CASE Replaced(j, {k})
    BY <1>1, <2>1, <2>2, <2>3, <2>4, <2>6, SettledCallAccounts
  <2>7. CASE Replaced(j, {Final(j.b)})
    <3>. DEFINE m == Final(j.b)
    <3>1. Replaced(j, {m}) /\ Bare(m) /\ m.b = j.b  BY <2>5, <2>7
    <3>. HIDE DEF m
    <3>2. m.kind # "child" /\ AmountsOfJob(m) /\ Bears(m, j.before - cost)
      BY <3>1 DEF Bare
    <3>. QED  BY <1>1, <2>2, <2>3, <3>1, <3>2, SettledCallAccounts
  <2>. QED  BY <2>2, <2>6, <2>7
<1>5. ASSUME NEW cost \in Costs \union Estimates, CallFails(j, cost)
      PROVE  AccountsOK'
  <2>. DEFINE k == Final(j.b)
  <2>1. /\ j \in ActiveJobs /\ Live(j) /\ leaves' = Balanced(j.b, j.before - cost)
        /\ spent' = spent + cost - j.est /\ Replaced(j, {k})
        /\ UNCHANGED <<status, gen, pool, granted, exact, held>>
    BY <1>5 DEF CallFails
  <2>2. cost \in Int  BY <1>2
  <2>3. Bare(k) /\ k.b = j.b  BY BareEffects
  <2>. HIDE DEF k
  <2>4. k.kind # "child" /\ AmountsOfJob(k) /\ Bears(k, j.before - cost)
    BY <2>3 DEF Bare
  <2>. QED  BY <1>1, <2>1, <2>2, <2>3, <2>4, SettledCallAccounts
<1>. QED  BY <1>3, <1>4, <1>5

\* Procedures are paid, and what follows them has what is left.
LEMMA SettledBatchAccounts ==
    ASSUME AccountsOK, IInv, NEW j \in jobs, j.kind = "batch", Live(j),
           NEW charge \in Int, leaves' = Balanced(j.b, j.after - charge),
           spent' = spent + charge,
           UNCHANGED <<status, gen, pool, granted, exact, held>>,
           NEW N, IsFiniteSet(N), Replaced(j, N), \A k \in N : AmountsOfJob(k),
           Bear(N, j.b, j.after - charge)
    PROVE  AccountsOK'
<1>. DEFINE v == j.after - charge
<1>1. AmountsOfJob(j) /\ spent \in Int  BY AccountsAre DEF AmountsOK
<1>2. j.after \in Int  BY <1>1 DEF AmountsOfJob
<1>3. v \in Int /\ spent' \in Int  BY <1>1, <1>2
<1>4. exact => v + spent' = leaves[j.b] + spent
  <2>. SUFFICES ASSUME exact PROVE v + spent' = leaves[j.b] + spent  OBVIOUS
  <2>1. leaves[j.b] \in Int /\ Bears(j, leaves[j.b])  BY WorkPasses
  <2>2. leaves[j.b] = j.after  BY <2>1 DEF Bears, Live
  <2>. QED  BY <1>1, <1>2, <2>2
<1>. HIDE DEF v
<1>5. Bear(N, j.b, v) /\ leaves' = Balanced(j.b, v)  BY DEF v
<1>. QED  BY <1>3, <1>4, <1>5, TurnAccounts

\* A turn that ends its branch, or holds it at a checkpoint: that is not in debt.
LEMMA FinishTurnAccounts ==
    ASSUME AccountsOK, IInv, NEW j \in jobs, NEW charge \in Charges, FinishTurn(j, charge)
    PROVE  AccountsOK'
<1>. DEFINE after == j.after - charge
            f == Final(j.b)
            k == Summary(j.b, "checkpoint", j.turn.edges, after)
<1>1. /\ j.kind = "batch" /\ Live(j) /\ leaves' = Balanced(j.b, after)
      /\ spent' = spent + charge /\ UNCHANGED <<status, gen, pool, granted, exact, held>>
      /\ \/ Replaced(j, {f})
         \/ ~(after < 0) /\ Replaced(j, {k})
  BY DEF FinishTurn
<1>2. charge \in Int  BY CreditsAssumption
<1>3. AmountsOfJob(j)  BY AccountsAre DEF AmountsOK
<1>4. after \in Int  BY <1>1, <1>2, <1>3 DEF AmountsOfJob
<1>5. k.kind = "summary" /\ k.b = j.b /\ k.credits = after /\ k.why = "checkpoint"
  BY DEF Summary
<1>6. Bare(f) /\ f.b = j.b  BY BareEffects
<1>. HIDE DEF f, k
<1>7. CASE Replaced(j, {f})
  <2>1. IsFiniteSet({f}) /\ (\A m \in {f} : AmountsOfJob(m)) /\ Bear({f}, j.b, after)
    BY <1>6, BareBears
  <2>. QED  BY <1>1, <1>2, <1>7, <2>1, SettledBatchAccounts
<1>8. CASE ~(after < 0) /\ Replaced(j, {k})
  <2>1. AmountsOfJob(k) /\ Bears(k, after) /\ k.kind # "child"
    BY <1>4, <1>5, <1>8 DEF AmountsOfJob, Bears
  <2>2. IsFiniteSet({k}) /\ (\A m \in {k} : AmountsOfJob(m)) /\ Bear({k}, j.b, after)
    BY <1>5, <2>1, OneBears
  <2>. QED  BY <1>1, <1>2, <1>8, <2>2, SettledBatchAccounts
<1>. QED  BY <1>1, <1>7, <1>8

\* Effects that carry nothing may come with those that carry a branch on.
LEMMA BareAdded ==
    ASSUME NEW N, NEW b, NEW v, IsFiniteSet(N), \A k \in N : AmountsOfJob(k),
           v >= 0 => Bear(N, b, v),
           NEW E, IsFiniteSet(E), \A k \in E : Bare(k)
    PROVE  /\ IsFiniteSet(N \union E) /\ \A k \in N \union E : AmountsOfJob(k)
           /\ v >= 0 => Bear(N \union E, b, v)
<1>1. Kids(N \union E) = Kids(N)  BY DEF Kids, Bare
<1>2. IsFiniteSet(N \union E)  BY FS_Union
<1>3. \A k \in N \union E : AmountsOfJob(k)  BY DEF Bare
<1>4. ASSUME v >= 0  PROVE Bear(N \union E, b, v)
  <2>1. Bear(N, b, v)  BY <1>4
  <2>2. \A k \in E : \A w : Bears(k, w)  BY DEF Bare
  <2>. QED  BY <1>1, <2>1, <2>2 DEF Bear
<1>. QED  BY <1>2, <1>3, <1>4

\* The rejected edges of a plan carry nothing.
Rejected(b, p) == {Summary(Append(b, i), "edge", <<>>, 0) : i \in p.rejected}

LEMMA RejectedAreBare ==
    ASSUME NEW edges, EdgesOK(edges), NEW depth, NEW credits, NEW started,
           NEW p \in Plans(edges, depth, credits, started), NEW b
    PROVE  IsFiniteSet(Rejected(b, p)) /\ \A k \in Rejected(b, p) : Bare(k)
<1>1. p.rejected \subseteq DOMAIN edges  BY PlanFields
<1>2. Len(edges) \in Nat /\ DOMAIN edges = 1 .. Len(edges)  BY LenProperties DEF EdgesOK
<1>3. p.rejected \in SUBSET (1 .. Len(edges)) /\ IsFiniteSet(1 .. Len(edges))
  BY <1>1, <1>2, FS_Interval
<1>4. IsFiniteSet(p.rejected)  BY <1>3, FS_Subset
<1>. DEFINE f == [i \in p.rejected |-> Summary(Append(b, i), "edge", <<>>, 0)]
<1>5. DOMAIN f = p.rejected /\ Rejected(b, p) = {f[i] : i \in p.rejected}  BY DEF Rejected
<1>. HIDE DEF f
<1>6. IsFiniteSet(Rejected(b, p))  BY <1>4, <1>5, FiniteImage
<1>7. \A k \in Rejected(b, p) : Bare(k)  BY BareEffects DEF Rejected
<1>. QED  BY <1>6, <1>7

(***************************************************************************)
(* Children are planned and made                                           *)
(***************************************************************************)

\* What is queued for the accepted edges of a plan.
ChildrenOf(b, p) == {Child(b, i, p) : i \in p.children}

\* The children of a plan get the balance of a parent that is not in debt.
LEMMA ChildrenBear ==
    ASSUME NEW edges, EdgesOK(edges), edges # <<>>, NEW depth, NEW started \in Nat, NEW v \in Int,
           NEW p \in Plans(edges, depth, v, started), NEW b \in Branches, p.children # {}
    PROVE  /\ IsFiniteSet(ChildrenOf(b, p)) /\ \A k \in ChildrenOf(b, p) : AmountsOfJob(k)
           /\ v >= 0 => Bear(ChildrenOf(b, p), b, v)
<1>. DEFINE C == {Child(b, i, p) : i \in p.children}
<1>1. /\ DOMAIN p.share = p.children /\ Places(p.children)
      /\ \A i \in p.children : p.share[i] \in Int
      /\ p.poolReturn \in Int
      /\ v >= 0 => Total(p.share) + p.poolReturn = v /\ Total(p.share) \in Int
  BY PlanKeepsCredits
<1>2. p.retires \subseteq p.children /\ p.retires # {}
  <2>1. edges \in Seq([live : BOOLEAN, credits : Nat])  BY DEF EdgesOK
  <2>. QED  BY <2>1, PlanShape
<1>3. SharesOK(C) /\ Shares(C) = Total(p.share)
  <2>1. p.children \subseteq Nat /\ IsFiniteSet(p.children)  BY <1>1 DEF Places
  <2>. QED  BY <1>1, <2>1, SharesOfPlan
<1>4. ASSUME NEW i \in p.children
      PROVE  LET k == Child(b, i, p)
             IN /\ k.kind = "child" /\ k.parent = b /\ k.gen = gen /\ k.stage = "queued"
                /\ k.share = p.share[i] /\ (k.retires <=> i \in p.retires)
                /\ k.back = IF i \in p.retires THEN p.poolReturn ELSE 0
  BY DEF Child
<1>5. \A k \in C :
          /\ k.kind = "child" /\ k.parent = b /\ k.gen = gen /\ k.stage = "queued"
          /\ k.share \in Int
          /\ k.back = IF k.retires THEN p.poolReturn ELSE 0
  BY <1>1, <1>4
<1>6. \E k \in C : k.retires  BY <1>2, <1>4
<1>. HIDE DEF C
<1>7. IsFiniteSet(C)  BY <1>3 DEF SharesOK
<1>8. \A k \in C : AmountsOfJob(k) /\ \A w : Bears(k, w)
  BY <1>1, <1>5 DEF AmountsOfJob, Bears
<1>9. Kids(C) = C  BY <1>5 DEF Kids
<1>10. ASSUME v >= 0  PROVE Bear(C, b, v)
  <2>1. v = Shares(C) + p.poolReturn  BY <1>1, <1>3, <1>10
  <2>. QED  BY <1>5, <1>6, <1>8, <1>9, <2>1 DEF Bear
<1>11. C = ChildrenOf(b, p)  BY DEF C, ChildrenOf
<1>. QED  BY <1>7, <1>8, <1>10, <1>11

\* What is planned for a leaf carries its balance on.
LEMMA PlannedBears ==
    ASSUME NEW edges, EdgesOK(edges), edges # <<>>, NEW depth, NEW started \in Nat, NEW v \in Int,
           NEW p \in Plans(edges, depth, v, started), NEW b \in Branches
    PROVE  /\ IsFiniteSet(Planned(b, p)) /\ \A k \in Planned(b, p) : AmountsOfJob(k)
           /\ v >= 0 => Bear(Planned(b, p), b, v)
<1>1. AllRejected(p) <=> p.children = {}
  <2>1. edges \in Seq([live : BOOLEAN, credits : Nat])  BY DEF EdgesOK
  <2>. QED  BY <2>1, PlanShape
<1>2. CASE AllRejected(p)
  <2>1. PICK k : Planned(b, p) = {k} /\ Bare(k) /\ k.b = b
    <3>1. Planned(b, p) = {Call(b, 0, 0)} \/ Planned(b, p) = {Final(b)}
      BY <1>2 DEF Planned
    <3>. QED  BY <3>1, BareEffects
  <2>. QED  BY <2>1, BareBears
<1>3. CASE ~AllRejected(p)
  <2>. DEFINE C == ChildrenOf(b, p)
              E == Rejected(b, p)
  <2>1. Planned(b, p) = C \union E  BY <1>3 DEF Planned, Rejected, ChildrenOf
  <2>2. IsFiniteSet(E) /\ \A k \in E : Bare(k)  BY RejectedAreBare
  <2>3. IsFiniteSet(C) /\ (\A k \in C : AmountsOfJob(k)) /\ (v >= 0 => Bear(C, b, v))
    BY <1>1, <1>3, ChildrenBear
  <2>. HIDE DEF C, E
  <2>4. /\ IsFiniteSet(C \union E) /\ \A k \in C \union E : AmountsOfJob(k)
        /\ v >= 0 => Bear(C \union E, b, v)
    BY <2>2, <2>3, BareAdded
  <2>. QED  BY <2>1, <2>4
<1>. QED  BY <1>2, <1>3

LEMMA DelegateAccounts ==
    ASSUME AccountsOK, IInv, NEW j \in jobs, NEW charge \in Charges, NEW live \in BOOLEAN,
           Delegate(j, charge, live)
    PROVE  AccountsOK'
<1>. DEFINE v == j.after - charge
            edges == Delegated(j.turn, v, live)
            E == IF status = "REPORTING" THEN {Summary(j.b, "clone", <<>>, 0)} ELSE {}
<1>1. PICK p \in Plans(edges, Depth(j.b), v, calls) : Replaced(j, Planned(j.b, p) \union E)
  BY DEF Delegate
<1>2. /\ j.kind = "batch" /\ Live(j) /\ leaves' = Balanced(j.b, v)
      /\ spent' = spent + charge /\ UNCHANGED <<status, gen, pool, granted, exact, held>>
      /\ v >= 0 /\ edges # <<>>
  BY DEF Delegate
<1>3. charge \in Int /\ TypeOK  BY CreditsAssumption DEF IInv
<1>4. JobOK(j) /\ j.b \in Branches /\ calls \in Nat  BY <1>3, BranchOfJob
<1>5. v \in Nat
  <2>1. AmountsOfJob(j)  BY AccountsAre DEF AmountsOK
  <2>. QED  BY <1>2, <1>3, <2>1 DEF AmountsOfJob
<1>. HIDE DEF v
<1>6. EdgesOK(edges)
  <2>1. j.turn.edges \in Seq([live : BOOLEAN, credits : Nat])
    BY <1>2, <1>4, TurnsAssumption DEF JobOK
  <2>2. [live |-> live, credits |-> v] \in [live : BOOLEAN, credits : Nat]  BY <1>5
  <2>3. <<[live |-> live, credits |-> v]>> \in Seq([live : BOOLEAN, credits : Nat])
    BY <2>2
  <2>. QED  BY <2>1, <2>3 DEF EdgesOK, Delegated
<1>7. IsFiniteSet(E) /\ \A k \in E : Bare(k)
  <2>1. Bare(Summary(j.b, "clone", <<>>, 0))  BY BareEffects
  <2>. QED  BY <2>1, FS_Singleton, FS_EmptySet
<1>. DEFINE N == Planned(j.b, p)
<1>. HIDE DEF edges, E
<1>8. v \in Int /\ v >= 0  BY <1>5
<1>9. IsFiniteSet(N) /\ (\A k \in N : AmountsOfJob(k)) /\ (v >= 0 => Bear(N, j.b, v))
  BY <1>1, <1>2, <1>4, <1>6, <1>8, PlannedBears
<1>. HIDE DEF N
<1>10. /\ IsFiniteSet(N \union E) /\ \A k \in N \union E : AmountsOfJob(k)
       /\ v >= 0 => Bear(N \union E, j.b, v)
  BY <1>7, <1>9, BareAdded
<1>11. Replaced(j, N \union E)  BY <1>1 DEF N
<1>. DEFINE M == N \union E
<1>. HIDE DEF M
<1>12. IsFiniteSet(M) /\ (\A k \in M : AmountsOfJob(k)) /\ Bear(M, j.b, j.after - charge)
       /\ Replaced(j, M) /\ leaves' = Balanced(j.b, j.after - charge)
  BY <1>2, <1>8, <1>10, <1>11 DEF M, v
<1>. QED  BY <1>2, <1>3, <1>12, SettledBatchAccounts

\* A checkpoint that is let go: its leaf has what it had.
LEMMA ReleaseAccounts ==
    ASSUME AccountsOK, IInv, NEW h \in held, Release(h)
    PROVE  AccountsOK'
<1>. DEFINE b == h.b
            v == IF b \in DOMAIN leaves THEN leaves[b] ELSE h.credits
<1>1. PICK p \in Plans(h.edges, Depth(b), v, calls) :
          jobs' = jobs \union Planned(b, p)
                       \union (IF AllRejected(p) THEN Rejected(b, p) ELSE {})
  BY DEF Release, Rejected
<1>2. /\ UNCHANGED <<status, gen, leaves, pool, granted, spent>>
      /\ exact' = (exact /\ b[1] = round) /\ held' = held \ {h}
  BY DEF Release, account
<1>3. TypeOK /\ AmountsOK /\ FinishedIsDone /\ TreeOK /\ RoundOK
  BY AccountsAre DEF IInv
<1>4. HeldOK(h) /\ calls \in Nat  BY <1>3 DEF TypeOK
<1>5. b \in Branches /\ EdgesOK(h.edges) /\ h.edges # <<>>
  BY <1>4 DEF HeldOK, EdgeSeqs, EdgesOK
<1>6. v \in Int  BY <1>3 DEF AmountsOK
<1>7. NoOther(b, {}) /\ \A i \in held' : i.b # b  BY <1>2, HeldAlone
<1>8. ASSUME Counted'
      PROVE  status \in Active /\ b \in DOMAIN leaves /\ v = leaves[b] /\ v >= 0
  <2>1. exact /\ b[1] = round /\ status \in Active \union Ended
    BY <1>2, <1>8 DEF Counted
  <2>2. status \notin Ended  BY <1>3, <2>1 DEF FinishedIsDone, NothingLeft
  <2>3. status \in Active  BY <2>1, <2>2
  <2>4. b \in DOMAIN leaves  BY <1>3, <2>1, <2>3 DEF TreeOK, WorkIsOfLeaves
  <2>5. CarriedOK  BY <2>1, <2>3, AccountsAre DEF Goes
  <2>. QED  BY <2>3, <2>4, <2>5 DEF CarriedOK
<1>9. status # "FORMALIZING"
  <2>. SUFFICES ASSUME status = "FORMALIZING" PROVE FALSE  OBVIOUS
  <2>. QED  BY <1>3 DEF RoundOK
<1>10. HasNow(b, v)  BY <1>2 DEF HasNow
<1>. DEFINE N == Planned(b, p)
            E == IF AllRejected(p) THEN Rejected(b, p) ELSE {}
<1>. HIDE DEF v
<1>11. IsFiniteSet(N) /\ (\A k \in N : AmountsOfJob(k)) /\ (v >= 0 => Bear(N, b, v))
  BY <1>1, <1>4, <1>5, <1>6, PlannedBears
<1>12. IsFiniteSet(E) /\ \A k \in E : Bare(k)
  BY <1>1, <1>5, RejectedAreBare, FS_EmptySet
<1>13. jobs' = (jobs \ {}) \union (N \union E)  BY <1>1
<1>. HIDE DEF N, E
<1>14. /\ IsFiniteSet(N \union E) /\ \A k \in N \union E : AmountsOfJob(k)
       /\ v >= 0 => Bear(N \union E, b, v)
  BY <1>11, <1>12, BareAdded
<1>. DEFINE M == N \union E
<1>15. IsFiniteSet(M) /\ (\A k \in M : AmountsOfJob(k)) /\ (v >= 0 => Bear(M, b, v))
       /\ jobs' = (jobs \ {}) \union M
  BY <1>13, <1>14
<1>. HIDE DEF M
<1>16. Counted' => Passes(b, v, {}, M)
  BY <1>2, <1>3, <1>7, <1>8, <1>15 DEF Passes
<1>17. spent' \in Int /\ (exact' => exact) /\ held' \subseteq held
  BY <1>2, <1>3 DEF AmountsOK
<1>. QED  BY <1>2, <1>6, <1>9, <1>10, <1>15, <1>16, <1>17, BranchAccounts

\* A child that may be launched is not a leaf yet, nor is it the parent of another.
LEMMA ChildAlone ==
    ASSUME IInv, NEW j \in jobs, j.kind = "child", Launchable(j), j.gen = gen
    PROVE  /\ j \in Current /\ j.b \notin DOMAIN leaves /\ j.parent # j.b
           /\ NoOther(j.b, {j}) /\ \A h \in held : h.b # j.b
           /\ \A c \in Current : c.parent # j.b
<1>1. TypeOK /\ RowsAreBehind  BY DEF IInv
<1>2. j \in Current /\ j \in Children /\ IsWork(j) /\ j \in Works
  BY DEF Launchable, Current, Children, IsWork, Works
<1>3. JobOK(j) /\ j.b \in Branches  BY <1>1, BranchOfJob
<1>4. j.parent \in Branches /\ j.b = Append(j.parent, j.b[Len(j.b)])  BY <1>3 DEF JobOK
<1>5. j.parent # j.b
  <2>1. Len(j.parent) \in Nat /\ Len(Append(j.parent, j.b[Len(j.b)])) = Len(j.parent) + 1
    BY <1>4, LenProperties, AppendProperties DEF Branches
  <2>. QED  BY <1>4, <2>1
<1>6. j.b \notin DOMAIN leaves
  <2>. SUFFICES ASSUME j.b \in DOMAIN leaves PROVE FALSE  OBVIOUS
  <2>1. j.b \in rows /\ IsPrefix(j.b, j.b)  BY <1>1, <1>3, PrefixFacts DEF RowsAreBehind
  <2>. QED  BY <1>1, <1>2, <2>1 DEF RowsAreBehind
<1>7. NoOther(j.b, {j}) /\ \A h \in held : h.b # j.b  BY <1>2, WorkAlone
<1>8. ASSUME NEW c \in Current  PROVE c.parent # j.b
  <2>1. c \in jobs /\ c.kind = "child" /\ IsWork(c)
    BY DEF Current, Children, QueuedJobs, IsWork
  <2>. QED  BY <1>5, <1>7, <2>1 DEF NoOther
<1>. QED  BY <1>2, <1>5, <1>6, <1>7, <1>8

\* The child that retires its parent: the parent's balance is shared out.
LEMMA RetiringBalances ==
    ASSUME AmountsOK, Balances, FamiliesOK, NEW j \in Current, j.retires,
           j.parent \in DOMAIN leaves, j.b \notin DOMAIN leaves, j.parent # j.b,
           \A c \in Current : c.parent # j.b, Current' = Current \ {j},
           DOMAIN leaves' = (DOMAIN leaves \ {j.parent}) \union {j.b},
           \A x \in DOMAIN leaves' : leaves'[x] = IF x = j.b THEN j.share ELSE leaves[x],
           pool' = pool + j.back, UNCHANGED <<granted, spent>>
    PROVE  Balances'
<1>. DEFINE F == Family(j.parent)
            B == [x \in DOMAIN leaves \ {j.parent} |-> leaves[x]]
<1>1. /\ SharesOK(Current) /\ SharesOK(OnTheirWay) /\ Shares(OnTheirWay) \in Int
      /\ Amounts(leaves) /\ Total(leaves) \in Int
      /\ pool \in Int /\ granted \in Int /\ spent \in Int
  BY CurrentShares
<1>2. j.share \in Int /\ j.back \in Int /\ leaves[j.parent] \in Int
  BY DEF AmountsOK, AmountsOfJob, Current, Children, QueuedJobs
<1>3. F = {c \in Current : c.parent = j.parent} /\ j \in F  BY FamilyIs
<1>4. leaves[j.parent] = Shares(F) + j.back  BY DEF FamiliesOK, Current
<1>5. OnTheirWay' = (OnTheirWay \union F) \ {j}
  <2>1. \A c : c \in OnTheirWay' <=> c \in (OnTheirWay \union F) \ {j}
    BY <1>3 DEF OnTheirWay
  <2>. QED  BY <2>1
<1>6. (OnTheirWay \union F) \in SUBSET Current /\ OnTheirWay \intersect F = {}
  BY <1>3 DEF OnTheirWay
<1>. HIDE DEF F
<1>. DEFINE U == OnTheirWay \union F
<1>7. Shares(U) = Shares(OnTheirWay) + Shares(F) /\ Shares(F) \in Int
  <2>1. SharesOK(U)  BY <1>1, <1>6, SharesAdd
  <2>2. OnTheirWay \in SUBSET U /\ F \in SUBSET U /\ U \ OnTheirWay = F  BY <1>6
  <2>. HIDE DEF U
  <2>. QED  BY <2>1, <2>2, SharesAdd
<1>8. Shares(U) = j.share + Shares(U \ {j}) /\ Shares(U \ {j}) \in Int
  <2>1. SharesOK(U) /\ j \in U  BY <1>1, <1>3, <1>6, SharesAdd
  <2>2. U \ {j} \in SUBSET U  OBVIOUS
  <2>. HIDE DEF U
  <2>. QED  BY <2>1, <2>2, SharesAdd
<1>9. Total(B) = Total(leaves) - leaves[j.parent] /\ Total(B) \in Int
  <2>1. DOMAIN B = DOMAIN leaves \ {j.parent} /\ \A x \in DOMAIN B : B[x] = leaves[x]
    OBVIOUS
  <2>. HIDE DEF B
  <2>. QED  BY <1>1, <2>1, TotalLess
<1>10. Total(B) = Total(leaves') - j.share /\ Total(leaves') \in Int
  <2>1. /\ DOMAIN B = DOMAIN leaves' \ {j.b} /\ \A x \in DOMAIN B : B[x] = leaves'[x]
        /\ j.b \in DOMAIN leaves' /\ leaves'[j.b] = j.share
    OBVIOUS
  <2>2. Amounts(leaves')
    <3>1. IsFiniteSet(DOMAIN leaves)  BY <1>1 DEF Amounts
    <3>2. IsFiniteSet(DOMAIN leaves \ {j.parent})  BY <3>1, FS_RemoveElement
    <3>3. IsFiniteSet(DOMAIN leaves')  BY <3>2, FS_AddElement
    <3>. QED  BY <1>1, <1>2, <3>3 DEF Amounts
  <2>. DEFINE f == leaves'
  <2>. HIDE DEF B, f
  <2>3. Amounts(f) /\ j.b \in DOMAIN f /\ DOMAIN B = DOMAIN f \ {j.b}
        /\ (\A x \in DOMAIN B : B[x] = f[x]) /\ f[j.b] = j.share
    BY <2>1, <2>2 DEF f
  <2>4. Total(B) = Total(f) - f[j.b] /\ Total(f) \in Int  BY <2>3, TotalLess
  <2>. QED  BY <2>3, <2>4 DEF f
<1>11. Shares(OnTheirWay') = Shares(U \ {j})  BY <1>5
<1>12. Total(leaves) + pool + Shares(OnTheirWay) = granted - spent  BY DEF Balances
<1>. HIDE DEF U, B
<1>. DEFINE sf == Shares(F)
            so == Shares(OnTheirWay)
            sr == Shares(U \ {j})
            t == Total(leaves)
            tn == Total(leaves')
<1>13. /\ so + sf = j.share + sr /\ t - (sf + j.back) = tn - j.share
       /\ t + pool + so = granted - spent
       /\ sf \in Int /\ so \in Int /\ sr \in Int /\ t \in Int /\ tn \in Int
  BY <1>1, <1>4, <1>7, <1>8, <1>9, <1>10, <1>12
<1>. HIDE DEF sf, so, sr, t, tn
<1>14. tn + (pool + j.back) + sr = granted - spent  BY <1>1, <1>2, <1>13
<1>15. Total(leaves') + pool' + Shares(OnTheirWay') = granted' - spent'
  BY <1>11, <1>14 DEF sr, tn
<1>. QED  BY <1>15 DEF Balances

\* Another child: its share has been under way.
LEMMA FollowingBalances ==
    ASSUME AmountsOK, Balances, NEW j \in Current, j.back = 0,
           j.parent \notin DOMAIN leaves, j.b \notin DOMAIN leaves,
           \A c \in Current : c.parent # j.b, Current' = Current \ {j},
           DOMAIN leaves' = DOMAIN leaves \union {j.b},
           \A x \in DOMAIN leaves' : leaves'[x] = IF x = j.b THEN j.share ELSE leaves[x],
           pool' = pool + j.back, UNCHANGED <<granted, spent>>
    PROVE  Balances'
<1>1. /\ SharesOK(OnTheirWay) /\ Shares(OnTheirWay) \in Int
      /\ Amounts(leaves) /\ Total(leaves) \in Int
      /\ pool \in Int /\ granted \in Int /\ spent \in Int
  BY CurrentShares
<1>2. j.share \in Int
  BY DEF AmountsOK, AmountsOfJob, Current, Children, QueuedJobs
<1>3. OnTheirWay' = OnTheirWay \ {j} /\ j \in OnTheirWay
  <2>1. \A c : c \in OnTheirWay' <=> c \in OnTheirWay \ {j}
    BY DEF OnTheirWay
  <2>. QED  BY <2>1 DEF OnTheirWay
<1>4. Shares(OnTheirWay) = j.share + Shares(OnTheirWay \ {j})
      /\ Shares(OnTheirWay \ {j}) \in Int
  <2>1. OnTheirWay \ {j} \in SUBSET OnTheirWay  OBVIOUS
  <2>. QED  BY <1>1, <1>3, <2>1, SharesAdd
<1>5. Total(leaves) = Total(leaves') - j.share /\ Total(leaves') \in Int
  <2>. DEFINE f == leaves'
  <2>1. IsFiniteSet(DOMAIN leaves')  BY <1>1, FS_AddElement DEF Amounts
  <2>2. Amounts(leaves')  BY <1>1, <1>2, <2>1 DEF Amounts
  <2>3. /\ Amounts(f) /\ j.b \in DOMAIN f /\ DOMAIN leaves = DOMAIN f \ {j.b}
        /\ (\A x \in DOMAIN leaves : leaves[x] = f[x]) /\ f[j.b] = j.share
    BY <2>2
  <2>. HIDE DEF f
  <2>4. Total(leaves) = Total(f) - f[j.b] /\ Total(f) \in Int  BY <2>3, TotalLess
  <2>. QED  BY <2>3, <2>4 DEF f
<1>6. Total(leaves) + pool + Shares(OnTheirWay) = granted - spent  BY DEF Balances
<1>. DEFINE so == Shares(OnTheirWay)
            sr == Shares(OnTheirWay \ {j})
            t == Total(leaves)
            tn == Total(leaves')
<1>7. /\ so = j.share + sr /\ t = tn - j.share /\ t + pool + so = granted - spent
      /\ so \in Int /\ sr \in Int /\ t \in Int /\ tn \in Int /\ pool' = pool
  BY <1>1, <1>4, <1>5, <1>6
<1>. HIDE DEF so, sr, t, tn
<1>8. tn + pool + sr = granted - spent  BY <1>1, <1>2, <1>7
<1>9. Total(leaves') + pool' + Shares(OnTheirWay') = granted' - spent'
  BY <1>3, <1>7, <1>8 DEF sr, tn
<1>. QED  BY <1>9 DEF Balances

\* A child becomes a leaf with its share.
LEMMA MaterializeAccounts ==
    ASSUME AccountsOK, IInv, NEW j \in jobs, Materialize(j)
    PROVE  AccountsOK'
<1>. DEFINE k == Started(j)
            R == IF j.retires THEN {j.parent} ELSE {}
<1>1. /\ j.kind = "child" /\ Launchable(j) /\ j.gen = gen /\ jobs' = (jobs \ {j}) \union {k}
      /\ UNCHANGED <<status, gen, held, granted, spent, exact>>
      /\ Working => /\ DOMAIN leaves' = (DOMAIN leaves \ R) \union {j.b}
                    /\ \A x \in DOMAIN leaves' : leaves'[x] = IF x = j.b THEN j.share ELSE leaves[x]
                    /\ pool' = pool + j.back
      /\ ~Working => UNCHANGED <<leaves, pool>>
  BY DEF Materialize, Replaced, account, history
<1>2. AmountsOK /\ (Goes => CarriedOK /\ FamiliesOK) /\ (Counted => Balances)
  BY AccountsAre
<1>3. /\ j \in Current /\ j.b \notin DOMAIN leaves /\ j.parent # j.b
      /\ NoOther(j.b, {j}) /\ \A h \in held : h.b # j.b
      /\ \A c \in Current : c.parent # j.b
  BY <1>1, ChildAlone
<1>4. /\ AmountsOfJob(k) /\ k.b = j.b /\ k.kind = "child" /\ k.stage = "active"
      /\ j.share \in Int /\ j.back \in Int
  <2>1. AmountsOfJob(j) /\ TypeOK  BY <1>2 DEF AmountsOK, IInv
  <2>. QED  BY <1>1, <2>1, StartedBears DEF AmountsOfJob
<1>. HIDE DEF k
<1>5. Current' = Current \ {j}
  <2>1. \A c : c \in Current' <=> c \in Current \ {j}
    BY <1>1, <1>4 DEF Current, Children, QueuedJobs
  <2>. QED  BY <2>1
<1>6. AmountsOK'
  <2>1. IsFiniteSet(jobs')
    <3>1. IsFiniteSet(jobs \ {j})  BY <1>2, FS_RemoveElement DEF AmountsOK
    <3>. QED  BY <1>1, <3>1, FS_AddElement
  <2>2. \A m \in jobs' : AmountsOfJob(m)  BY <1>1, <1>2, <1>4 DEF AmountsOK
  <2>3. CASE Working
    <3>1. IsFiniteSet(DOMAIN leaves')
      <4>1. IsFiniteSet(DOMAIN leaves \ R)
        <5>1. IsFiniteSet(DOMAIN leaves) /\ (DOMAIN leaves \ R) \in SUBSET DOMAIN leaves
          BY <1>2 DEF AmountsOK
        <5>. QED  BY <5>1, FS_Subset
      <4>. QED  BY <1>1, <2>3, <4>1, FS_AddElement
    <3>2. /\ \A x \in DOMAIN leaves' : leaves'[x] \in Int
          /\ pool' \in Int /\ status' # "FORMALIZING"
      BY <1>1, <1>2, <1>4, <2>3 DEF AmountsOK, Working
    <3>. QED  BY <1>1, <1>2, <2>1, <2>2, <3>1, <3>2 DEF AmountsOK
  <2>4. CASE ~Working  BY <1>1, <1>2, <2>1, <2>2, <2>4 DEF AmountsOK
  <2>. QED  BY <2>3, <2>4
<1>7. ASSUME Counted'
      PROVE  Working /\ Goes /\ CarriedOK /\ FamiliesOK /\ Balances /\ WorkIsOfLeaves
  <2>1. exact /\ status \in Active \union Ended  BY <1>1, <1>7 DEF Counted
  <2>2. j \in jobs /\ IsWork(j)  BY <1>1 DEF IsWork
  <2>3. status \notin Ended
    <3>. SUFFICES ASSUME status \in Ended PROVE FALSE  OBVIOUS
    <3>1. NothingLeft  BY <2>1 DEF IInv, FinishedIsDone
    <3>. QED  BY <1>1, <2>2, <3>1 DEF NothingLeft
  <2>4. status # "PAUSED"
    <3>. SUFFICES ASSUME status = "PAUSED" PROVE FALSE  OBVIOUS
    <3>1. UsesLlm(j) \/ j.kind = "batch"  BY <2>2 DEF IInv, PausedOK, UsesLlm
    <3>. QED  BY <1>1, <3>1 DEF UsesLlm
  <2>5. Working /\ status \in Active  BY <2>1, <2>3, <2>4 DEF Active, Working
  <2>6. Goes /\ Counted  BY <2>1, <2>5 DEF Goes, Counted
  <2>7. WorkIsOfLeaves  BY <2>1, <2>5 DEF IInv, TreeOK
  <2>. QED  BY <1>2, <2>5, <2>6, <2>7
<1>8. ASSUME Counted', NEW c \in Current, c.parent = j.parent, c # j
      PROVE  ~c.retires /\ c.back = 0
  <2>1. c \in Children /\ c.gen = gen /\ j \in Children /\ c \in QueuedJobs /\ c.kind = "child"
    BY <1>3 DEF Current, Children
  <2>2. ~c.retires
    <3>1. CASE j.retires  BY <1>8, <2>1, <3>1 DEF IInv, OneOfALine
    <3>2. CASE ~j.retires  BY <1>1, <1>8, <2>1, <3>2 DEF Launchable
    <3>. QED  BY <3>1, <3>2
  <2>. QED  BY <1>7, <1>8, <2>1, <2>2 DEF FamiliesOK
<1>9. ASSUME Counted', ~j.retires  PROVE j.back = 0 /\ j.parent \notin DOMAIN leaves
  <2>1. /\ j \in Children /\ j.back = 0
        /\ j.parent \in DOMAIN leaves => \E c \in Family(j.parent) : c.retires
    BY <1>1, <1>3, <1>7, <1>9 DEF FamiliesOK, Current
  <2>2. \A c \in Family(j.parent) : ~c.retires
    BY <1>1, <1>9 DEF Launchable, Family, Children
  <2>. QED  BY <2>1, <2>2
<1>10. ASSUME Counted', j.retires  PROVE j.parent \in DOMAIN leaves
  <2>1. IsWork(j) /\ j \in Children  BY <1>1, <1>3 DEF IsWork, Current
  <2>. QED  BY <1>1, <1>7, <1>10, <2>1 DEF WorkIsOfLeaves
<1>11. ASSUME Counted'  PROVE Balances'
  <2>1. CASE j.retires
    <3>1. j.parent \in DOMAIN leaves  BY <1>10, <1>11, <2>1
    <3>2. DOMAIN leaves' = (DOMAIN leaves \ {j.parent}) \union {j.b}
      BY <1>1, <1>7, <1>11, <2>1
    <3>. QED  BY <1>1, <1>2, <1>3, <1>5, <1>7, <1>11, <2>1, <3>1, <3>2, RetiringBalances
  <2>2. CASE ~j.retires
    <3>1. j.back = 0 /\ j.parent \notin DOMAIN leaves  BY <1>9, <1>11, <2>2
    <3>2. DOMAIN leaves' = DOMAIN leaves \union {j.b}  BY <1>1, <1>7, <1>11, <2>2
    <3>. QED  BY <1>1, <1>2, <1>3, <1>5, <1>7, <1>11, <2>2, <3>1, <3>2, FollowingBalances
  <2>. QED  BY <2>1, <2>2
<1>12. ASSUME Goes'  PROVE CarriedOK' /\ FamiliesOK'
  <2>1. Counted'  BY <1>12 DEF Goes, Counted
  <2>2. /\ CarriedOK /\ FamiliesOK /\ WorkIsOfLeaves
        /\ DOMAIN leaves' = (DOMAIN leaves \ R) \union {j.b}
        /\ \A x \in DOMAIN leaves' : leaves'[x] = IF x = j.b THEN j.share ELSE leaves[x]
    BY <1>1, <1>7, <2>1
  <2>3. CarriedOK'
    <3>1. ASSUME NEW m \in jobs', m.b \in DOMAIN leaves'  PROVE Bears(m, leaves'[m.b])
      <4>1. CASE ~IsWork(m) \/ m.kind = "child"  BY <4>1 DEF IsWork, Bears
      <4>2. CASE IsWork(m) /\ m.kind # "child"
        <5>1. m \in jobs \ {j} /\ m.b # j.b  BY <1>1, <1>3, <1>4, <4>2 DEF NoOther
        <5>2. Bears(m, leaves[m.b]) /\ leaves'[m.b] = leaves[m.b]
          BY <2>2, <3>1, <5>1, CarriesIs DEF CarriedOK
        <5>. QED  BY <5>2
      <4>. QED  BY <4>1, <4>2
    <3>2. \A m \in jobs' : Carries(m)'  BY <1>1, <3>1 DEF Carries, Bears
    <3>3. \A h \in held' : h.b \in DOMAIN leaves' => leaves'[h.b] >= 0
      BY <1>1, <1>3, <2>2 DEF CarriedOK
    <3>. QED  BY <3>2, <3>3 DEF CarriedOK
  <2>4. FamiliesOK'
    <3>1. \A x : Family(x)' = {c \in Current' : c.parent = x}  BY DEF Family, Current
    <3>2. ASSUME NEW c \in Current'
          PROVE  IF c.retires THEN leaves'[c.parent] = Shares(Family(c.parent)') + c.back
                 ELSE c.back = 0 /\ (c.parent \in DOMAIN leaves' => \E m \in Family(c.parent)' : m.retires)
      <4>1. c \in Current /\ c # j /\ c.parent # j.b  BY <1>3, <1>5
      <4>2. c \in Children /\ c.gen = gen /\ c \in jobs /\ IsWork(c)
        BY <4>1 DEF Current, Children, QueuedJobs, IsWork
      <4>3. IF c.retires THEN leaves[c.parent] = Shares(Family(c.parent)) + c.back
            ELSE c.back = 0 /\ (c.parent \in DOMAIN leaves => \E m \in Family(c.parent) : m.retires)
        BY <2>2, <4>2 DEF FamiliesOK
      <4>4. c.retires => c.parent \in DOMAIN leaves  BY <2>2, <4>2 DEF WorkIsOfLeaves
      <4>5. CASE c.parent = j.parent
        <5>1. ~c.retires /\ c.back = 0  BY <1>8, <2>1, <4>1, <4>5
        <5>2. c.parent \notin DOMAIN leaves'
          <6>1. CASE j.retires  BY <2>2, <4>1, <4>5, <6>1
          <6>2. CASE ~j.retires
            <7>1. j.parent \notin DOMAIN leaves  BY <1>9, <2>1, <6>2
            <7>. QED  BY <2>2, <4>1, <4>5, <6>2, <7>1
          <6>. QED  BY <6>1, <6>2
        <5>. QED  BY <5>1, <5>2
      <4>6. CASE c.parent # j.parent
        <5>1. Family(c.parent)' = Family(c.parent)
          <6>1. \A m : m \in Family(c.parent)' <=> m \in Family(c.parent)
            BY <1>5, <3>1, <4>6, FamilyIs
          <6>. QED  BY <6>1
        <5>2. c.parent \in DOMAIN leaves' <=> c.parent \in DOMAIN leaves  BY <2>2, <4>1, <4>6
        <5>3. c.parent \in DOMAIN leaves => leaves'[c.parent] = leaves[c.parent]
          BY <2>2, <4>1, <5>2
        <5>. QED  BY <4>3, <4>4, <5>1, <5>2, <5>3
      <4>. QED  BY <4>5, <4>6
    <3>. QED  BY <3>2 DEF FamiliesOK, Current
  <2>. QED  BY <2>3, <2>4
<1>13. AccountsOK' <=> AmountsOK' /\ (Goes' => CarriedOK' /\ FamiliesOK') /\ (Counted' => Balances')
  BY AccountsAre, PTL
<1>. QED  BY <1>6, <1>11, <1>12, <1>13

(***************************************************************************)
(* Branches end, rounds begin, the pool is spread                          *)
(***************************************************************************)

LEMMA TotalSame ==
    ASSUME NEW f, NEW g, Amounts(f), DOMAIN g = DOMAIN f, \A x \in DOMAIN f : g[x] = f[x]
    PROVE  Total(g) = Total(f)
<1>1. SumFunctionOnSet(g, DOMAIN f) = SumFunctionOnSet(f, DOMAIN f)
  BY SumSame DEF Amounts
<1>. QED  BY <1>1, TotalIsSum

\* A branch ends: its balance goes to the pool.
LEMMA FinalizeAccounts ==
    ASSUME AccountsOK, IInv, NEW j \in jobs, Finalize(j)
    PROVE  AccountsOK'
<1>. DEFINE b == j.b
            taken == j.gen = gen /\ (Working \/ status = "FINALIZING")
<1>1. /\ j.kind = "summary" /\ j \in ActiveJobs /\ j.why \in {"final", "edge"}
      /\ jobs' = jobs \ {j} /\ held' \in Opened(held, b[1], {})
      /\ exact' = (exact /\ ~(taken /\ j.why = "edge" /\ b \in DOMAIN leaves))
      /\ UNCHANGED <<gen, granted, spent>>
  BY DEF Finalize, Replaced
<1>2. AmountsOK /\ (Goes => CarriedOK /\ FamiliesOK) /\ (Counted => Balances)
  BY AccountsAre
<1>3. Current' = Current
  <2>1. \A c : c \in Current' <=> c \in Current
    BY <1>1 DEF Current, Children, QueuedJobs
  <2>. QED  BY <2>1
<1>4. \A h \in held' : \E i \in held : h.b = i.b /\ h.credits = i.credits
  <2>1. \A h \in held : HeldOK(h)  BY DEF IInv, TypeOK
  <2>. QED  BY <1>1, <2>1, OpenedCredits
<1>5. CASE ~(taken /\ b \in rows)
  <2>1. /\ UNCHANGED <<leaves, pool>>
        /\ exact' => exact
        /\ status' = status \/ status' = "FAILED"
    <3>1. CASE ~taken  BY <1>1, <3>1 DEF Finalize
    <3>2. CASE taken /\ b \notin rows
      <4>1. Settled(b)  BY <3>2 DEF Finalize
      <4>. QED  BY <1>1, <3>2, <4>1 DEF Settled
    <3>. QED  BY <1>5, <3>1, <3>2
  <2>2. (Goes' => Goes) /\ (Counted' => Counted)
        /\ (status' = "FORMALIZING" => status = "FORMALIZING")
    BY <2>1 DEF Goes, Counted, Active, Ended
  <2>3. Joined({}) /\ Waiting({})  BY <1>1, <1>4, FS_EmptySet DEF Joined, Waiting
  <2>. QED  BY <1>1, <1>3, <2>1, <2>2, <2>3, QuietAccounts
<1>6. CASE taken /\ b \in rows
  <2>1. /\ leaves' = Without(b)
        /\ pool' = pool + (IF b \in DOMAIN leaves THEN leaves[b] ELSE 0)
        /\ status' = status \/ (status' = "FINALIZING" /\ status = "RUNNING")
    <3>1. Settled(b)  BY <1>6 DEF Finalize
    <3>. QED  BY <1>6, <3>1 DEF Settled
  <2>2. /\ DOMAIN leaves' = DOMAIN leaves \ {b}
        /\ \A x \in DOMAIN leaves' : leaves'[x] = leaves[x]
    BY <2>1 DEF Without
  <2>3. status \in Active \union Ended /\ status' # "FORMALIZING"
        /\ (Counted' => Counted) /\ (Goes' => Goes)
    BY <1>1, <1>6, <2>1 DEF Counted, Goes, Active, Ended, Working
  <2>4. AmountsOK'
    <3>1. IsFiniteSet(jobs') /\ IsFiniteSet(DOMAIN leaves')
      BY <1>1, <1>2, <2>2, FS_RemoveElement DEF AmountsOK
    <3>2. \A h \in held' : h.credits \in Int  BY <1>2, <1>4 DEF AmountsOK
    <3>3. /\ pool' \in Int /\ \A x \in DOMAIN leaves' : leaves'[x] \in Int
          /\ \A m \in jobs' : AmountsOfJob(m)
      BY <1>1, <1>2, <2>1, <2>2 DEF AmountsOK
    <3>. QED  BY <1>1, <1>2, <2>3, <3>1, <3>2, <3>3 DEF AmountsOK
  <2>5. ASSUME exact', b \in DOMAIN leaves, NEW c \in Current  PROVE c.parent # b
    <3>1. IsWork(j)  BY <1>1, <1>6, <2>5 DEF IsWork
    <3>2. NoOther(b, {j})  BY <3>1, WorkAlone
    <3>3. c \in jobs \ {j} /\ IsWork(c) /\ c.kind = "child"
      BY <1>1 DEF Current, Children, QueuedJobs, IsWork
    <3>. QED  BY <3>2, <3>3 DEF NoOther
  <2>6. ASSUME Counted'  PROVE Balances'
    <3>1. exact' /\ Balances  BY <1>2, <2>3, <2>6 DEF Counted
    <3>2. OnTheirWay' = OnTheirWay
      <4>1. \A c : c \in OnTheirWay' <=> c \in OnTheirWay
        BY <1>3, <2>2, <2>5, <3>1 DEF OnTheirWay
      <4>. QED  BY <4>1
    <3>3. /\ Amounts(leaves) /\ Total(leaves) \in Int /\ Shares(OnTheirWay) \in Int
          /\ pool \in Int /\ granted \in Int /\ spent \in Int
      BY <1>2, CurrentShares
    <3>4. Total(leaves') + pool' = Total(leaves) + pool
      <4>1. CASE b \in DOMAIN leaves
        <5>1. Total(leaves') = Total(leaves) - leaves[b]  BY <2>2, <3>3, <4>1, TotalLess
        <5>2. leaves[b] \in Int  BY <1>2, <4>1 DEF AmountsOK
        <5>. QED  BY <2>1, <3>3, <4>1, <5>1, <5>2
      <4>2. CASE b \notin DOMAIN leaves
        <5>1. DOMAIN leaves' = DOMAIN leaves /\ \A x \in DOMAIN leaves : leaves'[x] = leaves[x]
          BY <2>2, <4>2
        <5>2. Total(leaves') = Total(leaves)  BY <3>3, <5>1, TotalSame
        <5>. QED  BY <2>1, <3>3, <4>2, <5>2
      <4>. QED  BY <4>1, <4>2
    <3>5. Total(leaves) + pool + Shares(OnTheirWay) = granted - spent  BY <3>1 DEF Balances
    <3>6. Total(leaves') + pool' + Shares(OnTheirWay') = granted' - spent'
      BY <1>1, <3>2, <3>4, <3>5
    <3>. QED  BY <3>6 DEF Balances
  <2>7. ASSUME Goes'  PROVE CarriedOK' /\ FamiliesOK'
    <3>1. exact' /\ Goes /\ CarriedOK /\ FamiliesOK  BY <1>2, <2>3, <2>7 DEF Goes
    <3>2. WorkIsOfLeaves  BY <3>1 DEF Goes, IInv, TreeOK
    <3>3. CarriedOK'
      <4>1. ASSUME NEW m \in jobs', m.b \in DOMAIN leaves'  PROVE Bears(m, leaves'[m.b])
        BY <1>1, <2>2, <3>1, <4>1, CarriesIs DEF CarriedOK
      <4>2. \A m \in jobs' : Carries(m)'  BY <1>1, <4>1 DEF Carries, Bears
      <4>3. \A h \in held' : h.b \in DOMAIN leaves' => leaves'[h.b] >= 0
        BY <1>4, <2>2, <3>1 DEF CarriedOK
      <4>. QED  BY <4>2, <4>3 DEF CarriedOK
    <3>4. FamiliesOK'
      <4>1. \A x : Family(x)' = Family(x)
        <5>1. \A x : Family(x)' = {c \in Current' : c.parent = x}  BY DEF Family, Current
        <5>. QED  BY <1>3, <5>1, FamilyIs
      <4>2. ASSUME NEW c \in Current'
            PROVE  IF c.retires THEN leaves'[c.parent] = Shares(Family(c.parent)') + c.back
                   ELSE c.back = 0 /\ (c.parent \in DOMAIN leaves' => \E m \in Family(c.parent)' : m.retires)
        <5>1. c \in Current  BY <1>3
        <5>2. c \in Children /\ c.gen = gen /\ c \in jobs /\ IsWork(c)
          BY <5>1 DEF Current, Children, QueuedJobs, IsWork
        <5>3. IF c.retires THEN leaves[c.parent] = Shares(Family(c.parent)) + c.back
              ELSE c.back = 0 /\ (c.parent \in DOMAIN leaves => \E m \in Family(c.parent) : m.retires)
          BY <3>1, <5>2 DEF FamiliesOK
        <5>4. c.retires => c.parent \in DOMAIN leaves  BY <3>2, <5>2 DEF WorkIsOfLeaves
        <5>5. c.parent \in DOMAIN leaves => c.parent \in DOMAIN leaves'
          BY <2>2, <2>5, <3>1, <5>1
        <5>. QED  BY <2>2, <4>1, <5>3, <5>4, <5>5
      <4>. QED  BY <4>2 DEF FamiliesOK, Current
    <3>. QED  BY <3>3, <3>4
  <2>8. AccountsOK' <=> AmountsOK' /\ (Goes' => CarriedOK' /\ FamiliesOK') /\ (Counted' => Balances')
    BY AccountsAre, PTL
  <2>. QED  BY <2>4, <2>6, <2>7, <2>8
<1>. QED  BY <1>5, <1>6

\* A round begins: its root has what the round is given.
LEMMA RoundAccounts ==
    ASSUME AmountsOK', NEW r, DOMAIN leaves' = {r}, leaves'[r] + pool' = granted' - spent',
           Current' = {},
           \A k \in jobs' : k.b = r => k.kind = "call" /\ k.stage = "queued" /\ k.fixes = 0,
           \A h \in held' : h.b # r
    PROVE  AccountsOK'
<1>. DEFINE none == [x \in {} |-> 0]
<1>1. Amounts(leaves') /\ leaves'[r] \in Int
  <2>1. \A x \in DOMAIN leaves' : leaves'[x] \in Int  BY DEF AmountsOK
  <2>2. IsFiniteSet(DOMAIN leaves')  BY FS_Singleton
  <2>. QED  BY <2>1, <2>2 DEF Amounts
<1>2. Total(leaves') = leaves'[r]
  <2>1. DOMAIN none = DOMAIN leaves' \ {r} /\ r \in DOMAIN leaves'
        /\ \A x \in DOMAIN none : none[x] = leaves'[x]
    OBVIOUS
  <2>. HIDE DEF none
  <2>2. Total(none) = Total(leaves') - leaves'[r] /\ Total(leaves') \in Int
    BY <1>1, <2>1, TotalLess
  <2>3. Total(none) = 0  BY <2>1, TotalOfNone
  <2>. QED  BY <1>1, <2>2, <2>3
<1>3. Balances'
  <2>1. OnTheirWay' = {}  BY DEF OnTheirWay
  <2>2. Shares(OnTheirWay') = 0  BY <2>1, SharesOfNone
  <2>3. pool' \in Int  BY DEF AmountsOK
  <2>. QED  BY <1>1, <1>2, <2>2, <2>3 DEF Balances
<1>4. CarriedOK'
  <2>1. \A k \in jobs' : Carries(k)'  BY DEF Carries
  <2>. QED  BY <2>1 DEF CarriedOK
<1>5. FamiliesOK'  BY DEF FamiliesOK, Current
<1>6. AccountsOK' <=> AmountsOK' /\ (Goes' => CarriedOK' /\ FamiliesOK') /\ (Counted' => Balances')
  BY AccountsAre, PTL
<1>. QED  BY <1>3, <1>4, <1>5, <1>6

LEMMA FormalizedAccounts ==
    ASSUME AccountsOK, IInv, Formalized
    PROVE  AccountsOK'
<1>1. AmountsOK  BY AccountsAre
<1>2. gen = 0 /\ jobs = {} /\ held = {} /\ pool = 0 /\ spent = 0 /\ granted \in Int
  BY <1>1 DEF Formalized, IInv, RoundOK, AmountsOK
<1>. DEFINE r == <<gen>>
            k == Call(r, 0, 0)
<1>3. /\ jobs' = {k} /\ DOMAIN leaves' = {r} /\ leaves'[r] = granted
      /\ status' = "RUNNING" /\ UNCHANGED <<gen, pool, held, granted, spent>>
  BY DEF Formalized, history
<1>4. /\ k.kind = "call" /\ k.stage = "queued" /\ k.fixes = 0
      /\ k.before = 0 /\ k.est = 0
  BY DEF Call
<1>. HIDE DEF r, k
<1>5. AmountsOK'
  <2>1. AmountsOfJob(k)  BY <1>4 DEF AmountsOfJob
  <2>2. IsFiniteSet(jobs') /\ IsFiniteSet(DOMAIN leaves')  BY <1>3, FS_Singleton
  <2>3. \A m \in jobs' : AmountsOfJob(m)  BY <1>3, <2>1
  <2>. QED  BY <1>2, <1>3, <2>2, <2>3 DEF AmountsOK
<1>6. Current' = {}  BY <1>3, <1>4 DEF Current, Children, QueuedJobs
<1>. QED  BY <1>2, <1>3, <1>4, <1>5, <1>6, RoundAccounts

\* A stop leaves the effects that are active, and the credits where they are.
LEMMA StopAccounts ==
    ASSUME AccountsOK, Stop
    PROVE  AccountsOK'
<1>1. AmountsOK  BY AccountsAre
<1>2. /\ jobs' \in SUBSET jobs /\ status' = "STOPPED"
      /\ UNCHANGED <<leaves, pool, granted, spent, held>>
  BY DEF Stop, ActiveJobs, account, history
<1>3. IsFiniteSet(jobs')  BY <1>1, <1>2, FS_Subset DEF AmountsOK
<1>4. AmountsOK'  BY <1>1, <1>2, <1>3 DEF AmountsOK
<1>5. ~Goes' /\ ~Counted'  BY <1>2 DEF Goes, Counted, Active, Ended
<1>6. AccountsOK' <=> AmountsOK' /\ (Goes' => CarriedOK' /\ FamiliesOK') /\ (Counted' => Balances')
  BY AccountsAre, PTL
<1>. QED  BY <1>4, <1>5, <1>6

\* A continue of a round that is over adds to the pool, or gives it to a new root.
LEMMA RestartAccounts ==
    ASSUME AccountsOK, IInv, NEW a \in Adjustments, Restart(a)
    PROVE  AccountsOK'
<1>1. AmountsOK /\ (Counted => Balances)  BY AccountsAre
<1>2. /\ status \notin Active /\ status # "FORMALIZING"
      /\ a \in Int /\ pool \in Int /\ granted \in Int /\ spent \in Int /\ held' = held
  BY <1>1, CreditsAssumption DEF Restart, Active, AmountsOK
<1>3. CASE pool + a < 0
  <2>1. /\ pool' = pool + a /\ granted' = granted + a
        /\ UNCHANGED <<status, gen, leaves, jobs, spent, exact>>
    BY <1>3 DEF Restart
  <2>2. AmountsOK'  BY <1>1, <1>2, <2>1 DEF AmountsOK
  <2>3. ~Goes'  BY <1>2, <2>1 DEF Goes
  <2>4. ASSUME Counted'  PROVE Balances'
    <3>1. Balances  BY <1>1, <2>1, <2>4 DEF Counted
    <3>2. OnTheirWay' = OnTheirWay
      BY <2>1 DEF OnTheirWay, Current, Children, QueuedJobs
    <3>3. Total(leaves) \in Int /\ Shares(OnTheirWay) \in Int  BY <1>1, CurrentShares
    <3>4. Shares(OnTheirWay') = Shares(OnTheirWay)  BY <3>2
    <3>. QED  BY <1>2, <2>1, <3>1, <3>3, <3>4 DEF Balances
  <2>5. AccountsOK' <=> AmountsOK' /\ (Goes' => CarriedOK' /\ FamiliesOK') /\ (Counted' => Balances')
    BY AccountsAre, PTL
  <2>. QED  BY <2>2, <2>3, <2>4, <2>5
<1>4. CASE ~(pool + a < 0)
  <2>. PICK g : g = gen + 1  OBVIOUS
  <2>. DEFINE r == <<g>>
              c == Call(r, 0, 0)
              k == [c EXCEPT !.gen = g]
  <2>1. /\ gen' = g /\ DOMAIN leaves' = {r} /\ leaves'[r] = pool + a
        /\ pool' = 0 /\ granted' = pool + a /\ spent' = 0 /\ status' = "RUNNING"
        /\ jobs' = jobs \union {k}
    BY <1>4 DEF Restart
  <2>2. /\ k.kind = "call" /\ k.stage = "queued" /\ k.fixes = 0
        /\ k.before = 0 /\ k.est = 0
    BY DEF Call
  <2>3. gen \in Nat /\ g > gen /\ r[1] = g  BY DEF IInv, TypeOK
  <2>. HIDE DEF r, k
  <2>4. AmountsOK'
    <3>1. AmountsOfJob(k)  BY <2>2 DEF AmountsOfJob
    <3>2. IsFiniteSet(jobs') /\ IsFiniteSet(DOMAIN leaves')
      <4>1. IsFiniteSet(jobs)  BY <1>1 DEF AmountsOK
      <4>2. IsFiniteSet(jobs \union {k})  BY <4>1, FS_AddElement
      <4>3. IsFiniteSet({r})  BY FS_Singleton
      <4>. QED  BY <2>1, <4>2, <4>3
    <3>3. \A m \in jobs' : AmountsOfJob(m)  BY <1>1, <2>1, <3>1 DEF AmountsOK
    <3>. QED  BY <1>1, <1>2, <2>1, <3>2, <3>3 DEF AmountsOK
  <2>5. \A m \in jobs : m.gen <= gen /\ m.gen \in Nat /\ m.b # r
    <3>. SUFFICES ASSUME NEW m \in jobs PROVE m.gen <= gen /\ m.gen \in Nat /\ m.b # r  OBVIOUS
    <3>1. TypeOK  BY DEF IInv
    <3>2. m.b \in Branches /\ m.b[1] <= gen /\ m.gen \in 0 .. gen  BY <3>1, BranchOfJob
    <3>3. m.b[1] \in Nat  BY <3>2, PrefixFacts
    <3>. QED  BY <2>3, <3>2, <3>3
  <2>6. \A h \in held : h.b # r
    <3>. SUFFICES ASSUME NEW h \in held PROVE h.b # r  OBVIOUS
    <3>1. h.b \in Branches /\ h.b[1] <= gen  BY DEF IInv, TypeOK, HeldOK
    <3>2. h.b[1] \in Nat  BY <3>1, PrefixFacts
    <3>. QED  BY <2>3, <3>1, <3>2
  <2>7. Current' = {}
    <3>1. \A m \in jobs : m.gen # g  BY <2>3, <2>5
    <3>2. \A m \in jobs' : m.kind = "child" => m.gen # gen'  BY <2>1, <2>2, <3>1
    <3>. QED  BY <3>2 DEF Current, Children, QueuedJobs
  <2>8. leaves'[r] + pool' = granted' - spent'  BY <1>2, <2>1
  <2>9. \A m \in jobs' : m.b = r => m.kind = "call" /\ m.stage = "queued" /\ m.fixes = 0
    BY <2>1, <2>2, <2>5
  <2>. QED  BY <1>2, <2>1, <2>4, <2>6, <2>7, <2>8, <2>9, RoundAccounts
<1>. QED  BY <1>3, <1>4

\* The order a finite set is spread in names its elements by their places.
LEMMA PlacesInOrder ==
    ASSUME NEW S, IsFiniteSet(S)
    PROVE  Renames(SetToSeq(S), 1 .. Cardinality(S), S) /\ Places(1 .. Cardinality(S))
<1>. DEFINE n == Cardinality(S)
            D == 1 .. n
            p == SetToSeq(S)
<1>1. n \in Nat /\ ExistsBijection(D, S)  BY FS_CardinalityType
<1>2. IsFiniteSet(D) /\ Cardinality(D) = n /\ D \subseteq Nat  BY <1>1, FS_Interval
<1>3. \E f \in [D -> S] : IsInjective(f)
  BY <1>1 DEF ExistsBijection, Bijection, Injection, IsInjective
<1>4. p \in [D -> S] /\ IsInjective(p)  BY <1>3 DEF SetToSeq
<1>. HIDE DEF p
<1>5. p \in Injection(D, S)  BY <1>4 DEF Injection
<1>. HIDE DEF D
<1>6. p \in Surjection(D, S)  BY <1>2, <1>5, FS_Injection
<1>7. Renames(p, D, S)  BY <1>4, <1>6 DEF Renames, IsInjective, Surjection
<1>8. Places(D)  BY <1>2 DEF Places
<1>. QED  BY <1>7, <1>8 DEF p, D

\* A continue spreads the pool over the leaves; what it then says of them is exact
\* if none is dropped and none has work that carries its balance.
LEMMA ContinuePausedAccounts ==
    ASSUME AccountsOK, IInv, NEW a \in Adjustments, ContinuePaused(a)
    PROVE  AccountsOK'
<1>. DEFINE order == SetToSeq(routed)
            before == [i \in DOMAIN order |-> leaves[order[i]]]
            at(b) == CHOOSE i \in DOMAIN order : order[i] = b
            solvent(s) == {b \in routed : s[at(b)] >= 0}
            frozen == {j \in jobs : j.kind = "batch" \/ (j.kind = "call" /\ j.fixes > 0)}
            D == 1 .. Cardinality(routed)
<1>1. /\ AmountsOK /\ (Counted => Balances)
      /\ TypeOK /\ RoundOK /\ LeavesHaveWork /\ PausedOK /\ TreeOK
  BY AccountsAre DEF IInv
<1>2. /\ status = "PAUSED" /\ routed # {} /\ status' = "RUNNING" /\ pool' = 0
      /\ granted' = granted + a /\ UNCHANGED <<gen, jobs, held, spent>>
  BY DEF ContinuePaused
<1>3. PICK s \in RedistributePool(pool + a, before) :
          /\ leaves' = [b \in solvent(s) |-> s[at(b)]]
          /\ exact' = (exact /\ solvent(s) = routed /\ frozen = {})
  BY DEF ContinuePaused
<1>4. routed \subseteq DOMAIN leaves /\ IsFiniteSet(routed)
  <2>1. routed \in SUBSET DOMAIN leaves  BY <1>1, <1>2 DEF RoundOK, Active
  <2>. QED  BY <1>1, <2>1, FS_Subset DEF AmountsOK
<1>5. Renames(order, D, routed) /\ Places(D)  BY <1>4, PlacesInOrder
<1>. HIDE DEF order
<1>6. /\ DOMAIN order = D /\ DOMAIN before = D /\ D # {}
      /\ \A i \in D : order[i] \in routed /\ before[i] = leaves[order[i]]
  BY <1>2, <1>5 DEF Renames
<1>7. /\ \A b \in routed : at(b) \in D /\ order[at(b)] = b
      /\ \A i \in D : at(order[i]) = i
  BY <1>5, <1>6 DEF Renames
<1>8. DOMAIN leaves' = solvent(s) /\ \A b \in solvent(s) : leaves'[b] = s[at(b)]  BY <1>3
<1>9. /\ solvent(s) \in SUBSET routed /\ \A b \in solvent(s) : s[at(b)] >= 0
      /\ \A b \in routed : leaves[b] \in Int
      /\ pool \in Int /\ a \in Int /\ pool + a \in Int /\ granted \in Int /\ spent \in Int
  BY <1>1, <1>4, CreditsAssumption DEF AmountsOK
<1>. HIDE DEF before, at, D
<1>10. \A i \in D : before[i] \in Int  BY <1>6, <1>9
<1>11. /\ DOMAIN s = D /\ \A i \in D : s[i] \in Int
       /\ Total(s) = Total(before) + (pool + a)
  BY <1>3, <1>5, <1>6, <1>9, <1>10, RedistributionKeeps
<1>. HIDE DEF solvent
<1>12. AmountsOK'
  <2>1. IsFiniteSet(DOMAIN leaves')  BY <1>4, <1>8, <1>9, FS_Subset
  <2>2. \A b \in DOMAIN leaves' : leaves'[b] \in Int  BY <1>7, <1>8, <1>9, <1>11
  <2>. QED  BY <1>1, <1>2, <1>9, <2>1, <2>2 DEF AmountsOK
<1>13. Current = {} /\ Current' = {} /\ OnTheirWay = {} /\ OnTheirWay' = {}
  <2>1. Current = {}  BY <1>1, <1>2 DEF PausedOK, UsesLlm, Current, Children, QueuedJobs
  <2>. QED  BY <1>2, <2>1 DEF OnTheirWay, Current, Children, QueuedJobs
<1>14. ASSUME exact'  PROVE CarriedOK' /\ FamiliesOK' /\ Balances'
  <2>1. exact /\ solvent(s) = routed /\ frozen = {}  BY <1>3, <1>14
  <2>2. routed = DOMAIN leaves
    <3>1. \A b \in DOMAIN leaves : b[1] = round
      BY <1>1, <1>2, <2>1 DEF TreeOK, WorkIsOfLeaves, Active
    <3>. QED  BY <1>1, <1>2, <1>4, <3>1 DEF LeavesHaveWork, Active
  <2>3. Total(before) = Total(leaves)
    <3>1. IsFiniteSet(D) /\ \A i \in D : leaves[order[i]] \in Int /\ before[i] = leaves[order[i]]
      BY <1>5, <1>6, <1>9 DEF Places
    <3>2. SumFunctionOnSet(leaves, routed) = SumFunctionOnSet(before, D)
      BY <1>5, <3>1, SumRenamed
    <3>. QED  BY <1>6, <2>2, <3>2, TotalIsSum
  <2>4. Total(leaves') = Total(s)
    <3>1. \A i \in D : leaves'[order[i]] \in Int /\ s[i] = leaves'[order[i]]
      BY <1>6, <1>7, <1>8, <1>11, <2>1
    <3>2. IsFiniteSet(D)  BY <1>5 DEF Places
    <3>3. SumFunctionOnSet(leaves', routed) = SumFunctionOnSet(s, D)
      BY <1>5, <3>1, <3>2, SumRenamed
    <3>. QED  BY <1>8, <1>11, <2>1, <3>3, TotalIsSum
  <2>5. Balances'
    <3>1. Balances  BY <1>1, <1>2, <2>1 DEF Counted, Active
    <3>2. Shares(OnTheirWay) = 0 /\ Shares(OnTheirWay') = 0  BY <1>13, SharesOfNone
    <3>3. Total(leaves) + pool = granted - spent /\ Total(leaves) \in Int
      BY <1>1, <1>9, <3>1, <3>2, CurrentShares DEF Balances
    <3>4. Total(leaves') = Total(leaves) + (pool + a)  BY <1>11, <2>3, <2>4
    <3>5. Total(leaves') + pool' + Shares(OnTheirWay') = granted' - spent'
      BY <1>2, <1>9, <3>2, <3>3, <3>4
    <3>. QED  BY <3>5 DEF Balances
  <2>6. CarriedOK'
    <3>1. \A m \in jobs : m.stage = "queued" /\ m.kind # "batch"
                          /\ ~(m.kind = "call" /\ m.fixes > 0)
      BY <1>1, <1>2, <2>1 DEF PausedOK, QueuedJobs
    <3>2. \A b \in DOMAIN leaves' : leaves'[b] >= 0  BY <1>8, <1>9
    <3>3. \A m \in jobs' : Carries(m)'  BY <1>2, <3>1, <3>2 DEF Carries
    <3>. QED  BY <3>2, <3>3 DEF CarriedOK
  <2>7. FamiliesOK'  BY <1>13 DEF FamiliesOK, Current
  <2>. QED  BY <2>5, <2>6, <2>7
<1>15. (Goes' => exact') /\ (Counted' => exact')  BY DEF Goes, Counted
<1>16. AccountsOK' <=> AmountsOK' /\ (Goes' => CarriedOK' /\ FamiliesOK') /\ (Counted' => Balances')
  BY AccountsAre, PTL
<1>. QED  BY <1>12, <1>14, <1>15, <1>16

(***************************************************************************)
(* The accounts of a task                                                  *)
(***************************************************************************)

LEMMA InitAccounts == Init => AccountsOK
<1>. SUFFICES ASSUME Init PROVE AccountsOK  OBVIOUS
<1>1. /\ status = "FORMALIZING" /\ pool = 0 /\ leaves = <<>> /\ jobs = {} /\ held = {}
      /\ granted \in Int /\ spent = 0
  BY CreditsAssumption DEF Init
<1>2. IsFiniteSet(DOMAIN leaves) /\ IsFiniteSet(jobs) /\ DOMAIN leaves = {}
  BY <1>1, FS_EmptySet
<1>3. AmountsOK  BY <1>1, <1>2 DEF AmountsOK
<1>4. ~Goes /\ ~Counted  BY <1>1 DEF Goes, Counted, Active, Ended
<1>. QED  BY <1>3, <1>4, AccountsAre

LEMMA WorkAccounts ==
    ASSUME AccountsOK, IInv, NEW j \in jobs, Work(j)
    PROVE  AccountsOK'
<1>. TypeOK  BY DEF IInv
<1>1. ASSUME NEW est \in Estimates, LaunchCall(j, est)  PROVE AccountsOK'
  BY <1>1, LaunchCallAccounts
<1>2. CASE \/ \E turn \in Turns, cost \in Costs : CallAnswers(j, turn, cost)
           \/ \E cost \in Costs, pinned \in BOOLEAN : CallIsBroken(j, cost, pinned)
           \/ \E cost \in Costs \union Estimates : CallFails(j, cost)
  BY <1>2, CallAccounts
<1>3. CASE \/ LaunchCallFails(j) \/ LaunchBatchFails(j) \/ LaunchBatch(j) \/ LaunchSummary(j)
           \/ DropLate(j) \/ DropChild(j) \/ WorkerRaises(j) \/ Clone(j)
           \/ \E live \in BOOLEAN : StartChild(j, live)
  BY <1>3, LaunchesAccounts
<1>4. ASSUME NEW charge \in Charges, FinishTurn(j, charge)  PROVE AccountsOK'
  BY <1>4, FinishTurnAccounts
<1>5. ASSUME NEW charge \in Charges, NEW live \in BOOLEAN, Delegate(j, charge, live)
      PROVE  AccountsOK'
  BY <1>5, DelegateAccounts
<1>6. CASE Materialize(j)  BY <1>6, MaterializeAccounts
<1>7. CASE Checkpoint(j)  BY <1>7, CheckpointAccounts
<1>8. CASE Finalize(j)  BY <1>8, FinalizeAccounts
<1>. QED  BY <1>1, <1>2, <1>3, <1>4, <1>5, <1>6, <1>7, <1>8 DEF Work

LEMMA NextAccounts == IInv /\ AccountsOK /\ [Next]_vars => AccountsOK'
<1>. SUFFICES ASSUME IInv, AccountsOK, [Next]_vars PROVE AccountsOK'  OBVIOUS
<1>. TypeOK  BY DEF IInv
<1>1. CASE UNCHANGED vars  BY <1>1, StutterAccounts
<1>2. ASSUME NEW h \in held, Release(h)  PROVE AccountsOK'  BY <1>2, ReleaseAccounts
<1>3. CASE Formalized  BY <1>3, FormalizedAccounts
<1>4. CASE Pause \/ MarkPaused \/ ExpirePause \/ FormalizationFails  BY <1>4, PauseAccounts
<1>5. ASSUME NEW j \in jobs, Work(j)  PROVE AccountsOK'  BY <1>5, WorkAccounts
<1>6. CASE Deadline  BY <1>6, DeadlineAccounts
<1>7. CASE IntermediateReport  BY <1>7, IntermediateReportAccounts
<1>8. ASSUME NEW r \in finals, FinalReport(r)  PROVE AccountsOK'  BY <1>8, FinalReportAccounts
<1>9. CASE Stop  BY <1>9, StopAccounts
<1>10. ASSUME NEW a \in Adjustments, ContinuePaused(a)  PROVE AccountsOK'
  BY <1>10, ContinuePausedAccounts
<1>11. ASSUME NEW a \in Adjustments, Restart(a)  PROVE AccountsOK'  BY <1>11, RestartAccounts
<1>12. CASE OtherTasks  BY <1>12, OtherTasksAccounts
<1>. QED
  BY <1>1, <1>2, <1>3, <1>4, <1>5, <1>6, <1>7, <1>8, <1>9, <1>10, <1>11, <1>12 DEF Next, User

\* The inductive invariant of the accounts: a piece of work that carries a balance
\* carries that of its leaf, and a parent has what its children will get.
THEOREM AccountsInvariant == Spec => []AccountsOK
<1>1. Init => AccountsOK  BY InitAccounts
<1>2. IInv /\ AccountsOK /\ [Next]_vars => AccountsOK'  BY NextAccounts
<1>. QED  BY <1>1, <1>2, Invariant, PTL DEF Spec

\* The credits of the leaves, of the pool and of the children on their way are what
\* the round was given less what was paid, for every tree, price and adjustment,
\* until a continue or a stale round breaks the accounts.
THEOREM CreditsAddUp == Spec => []CreditsAccounted
<1>1. AccountsOK => CreditsAccounted  BY DEF AccountsOK
<1>. QED  BY <1>1, AccountsInvariant, PTL
=============================================================================
