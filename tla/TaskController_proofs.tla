------------------------ MODULE TaskController_proofs ------------------------
(***************************************************************************)
(* Proofs about the controller, for any reducer, any set of callers, any   *)
(* number of store errors.                                                 *)
(***************************************************************************)
EXTENDS TaskController, FiniteSetTheorems, SequenceTheorems, TLAPS

\* What is left of a sequence without its i-th element.
LEMMA RemoveAtProperties ==
    ASSUME NEW S, NEW s \in Seq(S), NEW i \in 1 .. Len(s)
    PROVE  /\ RemoveAt(s, i) \in Seq(S)
           /\ Len(RemoveAt(s, i)) = Len(s) - 1
           /\ \A j \in 1 .. Len(s) - 1 :
                 RemoveAt(s, i)[j] = IF j < i THEN s[j] ELSE s[j + 1]
<1>. DEFINE a == SubSeq(s, 1, i - 1)
            b == SubSeq(s, i + 1, Len(s))
<1>1. /\ a \in Seq(S) /\ Len(a) = i - 1
      /\ \A j \in 1 .. i - 1 : a[j] = s[j]
  BY SubSeqProperties, SMTT(20)
<1>2. /\ b \in Seq(S) /\ Len(b) = Len(s) - i
      /\ \A j \in 1 .. Len(s) - i : b[j] = s[i + j]
  BY SubSeqProperties, SMTT(20)
<1>3. RemoveAt(s, i) = a \o b  BY DEF RemoveAt
<1>4. /\ a \o b \in Seq(S)
      /\ Len(a \o b) = Len(a) + Len(b)
      /\ \A j \in 1 .. Len(a) + Len(b) :
            (a \o b)[j] = IF j <= Len(a) THEN a[j] ELSE b[j - Len(a)]
  BY <1>1, <1>2, ConcatProperties
<1>5. Len(s) \in Nat  OBVIOUS
<1>. HIDE DEF a, b
<1>6. ASSUME NEW j \in 1 .. Len(s) - 1
      PROVE  (a \o b)[j] = IF j < i THEN s[j] ELSE s[j + 1]
  <2>1. CASE j < i  BY <1>1, <1>2, <1>4, <1>5, <2>1
  <2>2. CASE ~(j < i)
    <3>1. j - Len(a) \in 1 .. Len(s) - i /\ i + (j - Len(a)) = j + 1
      BY <1>1, <1>5, <2>2
    <3>2. (a \o b)[j] = b[j - Len(a)]  BY <1>1, <1>2, <1>4, <1>5, <2>2
    <3>. QED  BY <1>2, <2>2, <3>1, <3>2
  <2>. QED  BY <2>1, <2>2
<1>. QED  BY <1>1, <1>2, <1>3, <1>4, <1>5, <1>6

\* Moving the first element to the end keeps the elements distinct.
LEMMA RotatedInjective ==
    ASSUME NEW s, NEW t, NEW n \in Nat \ {0},
           \A i, j \in 1 .. n : s[i] = s[j] => i = j,
           \A j \in 1 .. n - 1 : t[j] = s[j + 1],
           t[n] = s[1]
    PROVE  \A j, k \in 1 .. n : t[j] = t[k] => j = k
<1>. SUFFICES ASSUME NEW j \in 1 .. n, NEW k \in 1 .. n, t[j] = t[k] PROVE j = k
  OBVIOUS
<1>1. CASE j = n /\ k # n
  <2>1. k \in 1 .. n - 1 /\ k + 1 \in 1 .. n  BY <1>1
  <2>2. s[1] = s[k + 1]  BY <1>1, <2>1
  <2>. QED  BY <2>1, <2>2
<1>2. CASE j # n /\ k = n
  <2>1. j \in 1 .. n - 1 /\ j + 1 \in 1 .. n  BY <1>2
  <2>2. s[1] = s[j + 1]  BY <1>2, <2>1
  <2>. QED  BY <2>1, <2>2
<1>3. CASE j # n /\ k # n
  <2>1. /\ j \in 1 .. n - 1 /\ j + 1 \in 1 .. n
        /\ k \in 1 .. n - 1 /\ k + 1 \in 1 .. n
    BY <1>3
  <2>2. s[j + 1] = s[k + 1]  BY <2>1
  <2>. QED  BY <2>1, <2>2
<1>. QED  BY <1>1, <1>2, <1>3

\* One more, or one less, application under way.
LEMMA CountOneMore ==
    ASSUME NEW c \in Callers, ~InApply(c), pc \in [Callers -> Places],
           pc' = [pc EXCEPT ![c] = "committing"]
    PROVE  Cardinality({d \in Callers : InApply(d)'})
             = Cardinality({d \in Callers : InApply(d)}) + 1
<1>. DEFINE A == {d \in Callers : InApply(d)}
            B == {d \in Callers : InApply(d)'}
<1>1. IsFiniteSet(A)  BY CallersAssumption, FS_Subset
<1>2. B = A \union {c} /\ c \notin A  BY DEF InApply, Places
<1>. QED  BY <1>1, <1>2, FS_AddElement

\* The same, less one: an application has ended.
LEMMA CountOneLess ==
    ASSUME NEW c \in Callers, InApply(c), pc \in [Callers -> Places],
           pc' = [pc EXCEPT ![c] = "idle"]
    PROVE  /\ Cardinality({d \in Callers : InApply(d)'})
                = Cardinality({d \in Callers : InApply(d)}) - 1
           /\ Cardinality({d \in Callers : InApply(d)}) \in Nat \ {0}
<1>. DEFINE A == {d \in Callers : InApply(d)}
            B == {d \in Callers : InApply(d)'}
<1>1. IsFiniteSet(A)  BY CallersAssumption, FS_Subset
<1>2. B = A \ {c} /\ c \in A  BY DEF InApply, Places
<1>3. Cardinality(B) = Cardinality(A) - 1  BY <1>1, <1>2, FS_RemoveElement
<1>4. Cardinality(A) \in Nat  BY <1>1, FS_CardinalityType
<1>5. Cardinality(A) # 0  BY <1>1, <1>2, FS_EmptySet
<1>. HIDE DEF A, B
<1>6. Cardinality(B) = Cardinality(A) - 1 /\ Cardinality(A) \in Nat \ {0}
  BY <1>3, <1>4, <1>5
<1>. QED  BY <1>6 DEF A, B

\* A step that keeps the set of applications keeps their number.
LEMMA CountSame ==
    ASSUME \A d \in Callers : InApply(d)' <=> InApply(d)
    PROVE  Cardinality({d \in Callers : InApply(d)'})
             = Cardinality({d \in Callers : InApply(d)})
<1>1. {d \in Callers : InApply(d)'} = {d \in Callers : InApply(d)}  OBVIOUS
<1>. QED  BY <1>1

-----------------------------------------------------------------------------
(***************************************************************************)
(* The parts of the inductive invariant, one lemma each.                   *)
(***************************************************************************)

\* The invariant holds before anything is called: no application, an empty queue.
LEMMA InitInvariant == Init => IInv
<1>. SUFFICES ASSUME Init PROVE IInv  OBVIOUS
<1>1. <<>> \in Seq(Callers) /\ <<>> \in Seq(Events)  BY EmptySeq
<1>0. clean \in BOOLEAN /\ stopped \in BOOLEAN  BY DEF Init
<1>4. TypeOK  BY <1>0, <1>1, FaultsAssumption DEF Init, TypeOK, Places
<1>2. {c \in Callers : InApply(c)} = {}  BY DEF Init, InApply
<1>3. Applications
  <2>1. Cardinality({c \in Callers : InApply(c)}) = 0  BY <1>2, FS_EmptySet
  <2>. HIDE DEF InApply
  <2>2. \A c \in Callers : ~InApply(c)  BY <1>2
  <2>. QED  BY <2>1, <2>2 DEF Init, Applications
<1>5. Range(log) = {}  BY DEF Init, Range
<1>6. Reported /\ Alone
  BY <1>5 DEF Init, Reported, Alone, InApply
<1>. QED  BY <1>3, <1>4, <1>6 DEF IInv

\* Types: the depth never falls below zero because it counts the applications.
LEMMA TypeStep == IInv /\ [Next]_vars => TypeOK'
<1>. SUFFICES ASSUME IInv, [Next]_vars PROVE TypeOK'  OBVIOUS
<1>. USE DEF IInv, TypeOK, Places, ctl, store
<1>1. ASSUME NEW c \in Callers, NEW e \in Events, AwaitLock(c, e) PROVE TypeOK'
  BY <1>1 DEF AwaitLock
<1>2. ASSUME NEW c \in Callers, NEW e \in Events, Reenter(c, e) PROVE TypeOK'
  <2>1. clean' \in BOOLEAN  BY <1>2 DEF Reenter
  <2>. QED  BY <1>2, <2>1 DEF Reenter, StartApply
<1>3. ASSUME NEW c \in Callers, Enter(c) PROVE TypeOK'
  BY <1>3 DEF Enter, Holds, StartApply
<1>4. ASSUME NEW c \in Callers, EnterForNothing(c) PROVE TypeOK'
  BY <1>4 DEF EnterForNothing, Return, Holds
<1>5. ASSUME NEW c \in Callers, Commit(c) PROVE TypeOK'
  BY <1>5 DEF Commit, Running, Applications, InApply
<1>6. ASSUME NEW c \in Callers, Rollback(c) PROVE TypeOK'
  BY <1>6, FaultsAssumption DEF Rollback, Running
<1>7. ASSUME NEW c \in Callers, InApply(c), depth' = depth - 1 PROVE depth' \in Nat
  <2>1. IsFiniteSet({d \in Callers : InApply(d)})  BY CallersAssumption, FS_Subset
  <2>2. c \in {d \in Callers : InApply(d)}  BY <1>7
  <2>3. depth # 0  BY <2>1, <2>2, FS_EmptySet DEF Applications
  <2>. QED  BY <1>7, <2>3
<1>8. ASSUME NEW c \in Callers, Assign(c) PROVE TypeOK'
  BY <1>7, <1>8 DEF Assign, Return, Holds, Running, InApply, Applications
<1>9. ASSUME NEW c \in Callers, FailInMemory(c) PROVE TypeOK'
  BY <1>9 DEF FailInMemory, Running
<1>10. ASSUME NEW c \in Callers, EndFallback(c) PROVE TypeOK'
  BY <1>7, <1>10 DEF EndFallback, Return, Holds, Running, InApply
<1>11. ASSUME NEW c \in Callers, CancelLocking(c) PROVE TypeOK'
  BY <1>11, RemoveAtProperties DEF CancelLocking
<1>12. ASSUME NEW c \in Callers, CancelCommitted(c) PROVE TypeOK'
  <2>1. clean' \in BOOLEAN  BY <1>12 DEF CancelCommitted
  <2>. QED  BY <1>7, <1>12, <2>1 DEF CancelCommitted, Return, Holds, Running, InApply
<1>13. ASSUME NEW c \in Callers, CancelQueued(c) PROVE TypeOK'
  <2>1. clean' \in BOOLEAN  BY <1>13 DEF CancelQueued
  <2>. QED  BY <1>7, <1>13, <2>1, RemoveAtProperties DEF CancelQueued, Return, Holds, InApply
<1>14. CASE UNCHANGED vars  BY <1>14 DEF vars
<1>. QED
  BY <1>1, <1>2, <1>3, <1>4, <1>5, <1>6, <1>8, <1>9, <1>10, <1>11, <1>12,
     <1>13, <1>14 DEF Next, Loop

\* The depth counts the applications under way; the store's queue holds each once.
LEMMA ApplicationsStep == IInv /\ [Next]_vars => Applications'
<1>. SUFFICES ASSUME IInv, [Next]_vars PROVE Applications'  OBVIOUS
<1>. USE DEF IInv, TypeOK, Applications, ctl, store
<1>1. ASSUME NEW c \in Callers, NEW e \in Events, AwaitLock(c, e) PROVE Applications'
  <2>1. \A d \in Callers : InApply(d)' <=> InApply(d)
    BY <1>1 DEF AwaitLock, InApply
  <2>. QED  BY <1>1, <2>1, CountSame DEF AwaitLock, Range
<1>2. ASSUME NEW c \in Callers, NEW e \in Events, ~InApply(c), StartApply(c, e),
             UNCHANGED outcome
      PROVE  Applications'
  <2>1. depth' = Cardinality({d \in Callers : InApply(d)'})
    BY <1>2, CountOneMore DEF StartApply
  <2>2. \A d \in Callers : InApply(d)' <=> InApply(d) \/ d = c
    BY <1>2 DEF StartApply, InApply
  <2>3. /\ DOMAIN storeq' = 1 .. Len(storeq) + 1 /\ DOMAIN storeq = 1 .. Len(storeq)
        /\ Len(storeq) \in Nat
        /\ \A i \in 1 .. Len(storeq) : storeq'[i] = storeq[i]
        /\ storeq'[Len(storeq) + 1] = c
        /\ storeq' \in Seq(Callers)
    BY <1>2 DEF StartApply
  <2>4. c \notin Range(storeq)  BY <1>2 DEF Range
  <2>5. (\A i \in DOMAIN storeq : InApply(storeq[i]))'
    BY <2>2, <2>3 DEF InApply
  <2>6. \A i, j \in DOMAIN storeq' : storeq'[i] = storeq'[j] => i = j
    BY <2>3, <2>4 DEF Range
  <2>7. ASSUME NEW d \in Callers, InApply(d)' PROVE d \in Range(storeq')
    <3>1. CASE d = c
      <4>1. Len(storeq) + 1 \in DOMAIN storeq'  BY <2>3
      <4>. QED  BY <2>3, <3>1, <4>1 DEF Range
    <3>2. CASE d # c
      <4>1. PICK k \in DOMAIN storeq : storeq[k] = d  BY <2>2, <2>7, <3>2 DEF Range
      <4>. QED  BY <2>3, <4>1 DEF Range
    <3>. QED  BY <3>1, <3>2
  <2>8. storeq' # <<>>  BY <2>3
  <2>9. \A d \in Callers : pc'[d] # "idle" => call'[d] \in Events
    BY <1>2 DEF StartApply
  <2>. QED  BY <2>1, <2>5, <2>6, <2>7, <2>8, <2>9
<1>3. ASSUME NEW c \in Callers, NEW e \in Events, Reenter(c, e) PROVE Applications'
  BY <1>2, <1>3 DEF Reenter, InApply
<1>4. ASSUME NEW c \in Callers, Enter(c) PROVE Applications'
  BY <1>2, <1>4 DEF Enter, Holds, InApply
<1>5. ASSUME NEW c \in Callers, EnterForNothing(c) PROVE Applications'
  <2>1. \A d \in Callers : InApply(d)' <=> InApply(d)
    BY <1>5 DEF EnterForNothing, Return, Holds, InApply
  <2>. QED  BY <1>5, <2>1, CountSame DEF EnterForNothing, Return, Range
<1>6. ASSUME NEW c \in Callers, Commit(c) \/ Rollback(c) PROVE Applications'
  <2>1. \A d \in Callers : InApply(d)' <=> InApply(d)
    BY <1>6 DEF Commit, Rollback, InApply
  <2>. QED  BY <1>6, <2>1, CountSame DEF Commit, Rollback, Running, Range
<1>7. ASSUME NEW c \in Callers, InApply(c), NEW i \in DOMAIN storeq, storeq[i] = c,
             DOMAIN storeq' = 1 .. Len(storeq) - 1, storeq' \in Seq(Callers),
             \A j \in 1 .. Len(storeq) - 1 :
                storeq'[j] = IF j < i THEN storeq[j] ELSE storeq[j + 1],
             depth' = depth - 1, Return(c), storeq' = <<>> => outcome' = "none"
      PROVE  Applications'
  <2>1. depth' = Cardinality({d \in Callers : InApply(d)'})
    BY <1>7, CountOneLess DEF Return
  <2>2. \A d \in Callers : InApply(d)' <=> InApply(d) /\ d # c
    BY <1>7 DEF Return, Holds, InApply
  <2>3. \A j \in DOMAIN storeq' :
           \E k \in DOMAIN storeq : k # i /\ storeq'[j] = storeq[k]
                                 /\ k = IF j < i THEN j ELSE j + 1
    BY <1>7
  <2>4. (\A j \in DOMAIN storeq : InApply(storeq[j]))'
    BY <1>7, <2>2, <2>3 DEF InApply
  <2>5. ASSUME NEW j \in DOMAIN storeq', NEW k \in DOMAIN storeq', storeq'[j] = storeq'[k]
        PROVE  j = k
    <3>1. PICK m \in DOMAIN storeq : /\ m # i /\ storeq'[j] = storeq[m]
                                     /\ m = IF j < i THEN j ELSE j + 1
      BY <2>3
    <3>2. PICK n \in DOMAIN storeq : /\ n # i /\ storeq'[k] = storeq[n]
                                     /\ n = IF k < i THEN k ELSE k + 1
      BY <2>3
    <3>3. m = n  BY <2>5, <3>1, <3>2
    <3>. QED  BY <1>7, <3>1, <3>2, <3>3
  <2>6. \A d \in Callers : InApply(d)' => d \in Range(storeq')
    <3>1. SUFFICES ASSUME NEW d \in Callers, InApply(d), d # c
                   PROVE  \E j \in DOMAIN storeq' : storeq'[j] = d
      BY <2>2 DEF Range
    <3>2. PICK k \in DOMAIN storeq : storeq[k] = d  BY <3>1 DEF Range
    <3>3. k # i  BY <1>7, <3>1, <3>2
    <3>4. CASE k < i
      <4>1. k \in 1 .. Len(storeq) - 1  BY <3>4
      <4>. QED  BY <1>7, <3>2, <3>4, <4>1
    <3>5. CASE k > i
      <4>1. k - 1 \in 1 .. Len(storeq) - 1 /\ ~(k - 1 < i) /\ (k - 1) + 1 = k
        BY <1>7, <3>5
      <4>. QED  BY <1>7, <3>2, <4>1
    <3>. QED  BY <3>3, <3>4, <3>5
  <2>7. \A d \in Callers : pc'[d] # "idle" => call'[d] \in Events
    BY <1>7 DEF Return
  <2>. QED  BY <1>7, <2>1, <2>4, <2>5, <2>6, <2>7
<1>8. ASSUME NEW c \in Callers, Assign(c) \/ EndFallback(c) \/ CancelCommitted(c)
      PROVE  Applications'
  <2>1. Running(c) /\ InApply(c) /\ storeq' = Tail(storeq) /\ depth' = depth - 1
        /\ Return(c) /\ outcome' = "none"
    BY <1>8 DEF Assign, EndFallback, CancelCommitted, InApply
  <2>2. 1 \in DOMAIN storeq /\ storeq[1] = c  BY <2>1 DEF Running
  <2>3. /\ DOMAIN storeq' = 1 .. Len(storeq) - 1 /\ storeq' \in Seq(Callers)
        /\ \A j \in 1 .. Len(storeq) - 1 :
              storeq'[j] = IF j < 1 THEN storeq[j] ELSE storeq[j + 1]
    BY <2>1 DEF Running
  <2>4. storeq' = <<>> => outcome' = "none"  BY <2>1
  <2>. HIDE DEF Applications
  <2>. QED  BY <1>7, <2>1, <2>2, <2>3, <2>4
<1>9. ASSUME NEW c \in Callers, FailInMemory(c) PROVE Applications'
  <2>1. \A d \in Callers : InApply(d)' <=> InApply(d)
    BY <1>9 DEF FailInMemory, InApply
  <2>2. /\ DOMAIN storeq' = 1 .. Len(storeq) /\ DOMAIN storeq = 1 .. Len(storeq)
        /\ Len(storeq) \in Nat /\ storeq' \in Seq(Callers)
        /\ \A j \in 1 .. Len(storeq) - 1 : storeq'[j] = storeq[j + 1]
        /\ storeq'[Len(storeq)] = c /\ storeq[1] = c /\ storeq # <<>>
    BY <1>9 DEF FailInMemory, Running
  <2>3. (\A j \in DOMAIN storeq : InApply(storeq[j]))'
    BY <1>9, <2>1, <2>2 DEF FailInMemory, InApply
  <2>4. \A j, k \in DOMAIN storeq' : storeq'[j] = storeq'[k] => j = k
    <3>1. Len(storeq) \in Nat \ {0}  BY <2>2
    <3>2. \A j, k \in 1 .. Len(storeq) : storeq[j] = storeq[k] => j = k
      BY <2>2
    <3>3. \A j \in 1 .. Len(storeq) - 1 : storeq'[j] = storeq[j + 1]
      BY <2>2
    <3>4. storeq'[Len(storeq)] = storeq[1]  BY <2>2
    <3>. HIDE DEF IInv, TypeOK, Applications
    <3>. QED  BY <2>2, <3>1, <3>2, <3>3, <3>4, RotatedInjective
  <2>5. \A d \in Callers : InApply(d)' => d \in Range(storeq')
    <3>1. SUFFICES ASSUME NEW d \in Callers, InApply(d)
                   PROVE  \E j \in DOMAIN storeq' : storeq'[j] = d
      BY <2>1 DEF Range
    <3>2. PICK k \in DOMAIN storeq : storeq[k] = d  BY <3>1 DEF Range
    <3>3. CASE k = 1  BY <2>2, <3>2, <3>3
    <3>4. CASE k # 1
      <4>1. k - 1 \in 1 .. Len(storeq) - 1 /\ (k - 1) + 1 = k  BY <3>4
      <4>. QED  BY <2>2, <3>2, <4>1
    <3>. QED  BY <3>3, <3>4
  <2>. QED
    BY <1>9, <2>1, <2>2, <2>3, <2>4, <2>5, CountSame DEF FailInMemory
<1>10. ASSUME NEW c \in Callers, CancelLocking(c) PROVE Applications'
  <2>1. \A d \in Callers : InApply(d)' <=> InApply(d)
    BY <1>10 DEF CancelLocking, InApply
  <2>. QED  BY <1>10, <2>1, CountSame DEF CancelLocking, Range
<1>11. ASSUME NEW c \in Callers, CancelQueued(c) PROVE Applications'
  <2>1. PICK i \in DOMAIN storeq : storeq[i] = c /\ storeq' = RemoveAt(storeq, i)
    BY <1>11 DEF CancelQueued
  <2>2. i # 1  BY <1>11, <2>1 DEF CancelQueued, Running
  <2>3. /\ DOMAIN storeq' = 1 .. Len(storeq) - 1 /\ storeq' \in Seq(Callers)
        /\ \A j \in 1 .. Len(storeq) - 1 :
              storeq'[j] = IF j < i THEN storeq[j] ELSE storeq[j + 1]
    <3>1. i \in 1 .. Len(storeq) /\ storeq \in Seq(Callers)  BY <2>1
    <3>2. Len(storeq') = Len(storeq) - 1 /\ storeq' \in Seq(Callers)
      BY <2>1, <3>1, RemoveAtProperties
    <3>3. \A j \in 1 .. Len(storeq) - 1 :
             storeq'[j] = IF j < i THEN storeq[j] ELSE storeq[j + 1]
      BY <2>1, <3>1, RemoveAtProperties
    <3>. QED  BY <3>2, <3>3
  <2>4. storeq' # <<>>  BY <2>2, <2>3
  <2>. QED  BY <1>7, <1>11, <2>1, <2>3, <2>4 DEF CancelQueued, InApply
<1>12. CASE UNCHANGED vars
  <2>1. \A d \in Callers : InApply(d)' <=> InApply(d)  BY <1>12 DEF vars, InApply
  <2>. QED  BY <1>12, <2>1, CountSame DEF vars, Range
<1>. QED
  BY <1>1, <1>3, <1>4, <1>5, <1>6, <1>8, <1>9, <1>10, <1>11, <1>12 DEF Next, Loop

\* A transaction reported as committed is committed, and so is every event
\* whose effects were launched.
LEMMA ReportedStep == IInv /\ [Next]_vars => Reported'
<1>. SUFFICES ASSUME IInv, [Next]_vars PROVE Reported'  OBVIOUS
<1>0. /\ storeq \in Seq(Callers) /\ pc \in [Callers -> Places]
      /\ call \in [Callers -> Events \union {NoEvent}]
      /\ \A i \in DOMAIN storeq : InApply(storeq[i])
      /\ storeq = <<>> => outcome = "none"
  BY DEF IInv, TypeOK, Applications
<1>. USE DEF Reported, ctl, store
<1>1. Reported  BY DEF IInv
<1>. HIDE DEF IInv
<1>2. storeq # <<>> =>
        /\ Head(storeq) = storeq[1] /\ 1 \in DOMAIN storeq /\ Head(storeq) \in Callers
        /\ InApply(Head(storeq))
  BY <1>0
\* The head of the queue stays, and so do its place and its event.
<1>3. ASSUME NEW c \in Callers, ~InApply(c),
             storeq' = storeq \/ storeq' = Append(storeq, c),
             \E p \in Places, e \in Events \union {NoEvent} :
                pc' = [pc EXCEPT ![c] = p] /\ call' = [call EXCEPT ![c] = e],
             UNCHANGED <<outcome, durable, launched>>
      PROVE  Reported'
  <2>1. CASE storeq = <<>>  BY <1>0, <1>1, <1>3, <2>1
  <2>2. CASE storeq # <<>>
    <3>1. Head(storeq') = Head(storeq) /\ Head(storeq) # c
      BY <1>0, <1>2, <1>3, <2>2
    <3>2. pc'[Head(storeq)] = pc[Head(storeq)] /\ call'[Head(storeq)] = call[Head(storeq)]
      BY <1>0, <1>2, <1>3, <2>2, <3>1
    <3>. QED  BY <1>1, <1>3, <3>1, <3>2
  <2>. QED  BY <2>1, <2>2
<1>4. ASSUME NEW c \in Callers, NEW e \in Events, AwaitLock(c, e) PROVE Reported'
  BY <1>3, <1>4 DEF AwaitLock, InApply, Places
<1>5. ASSUME NEW c \in Callers, NEW e \in Events, Reenter(c, e) PROVE Reported'
  BY <1>3, <1>5 DEF Reenter, StartApply, InApply, Places
<1>6. ASSUME NEW c \in Callers, Enter(c) PROVE Reported'
  BY <1>0, <1>3, <1>6 DEF Enter, Holds, StartApply, InApply, Places
<1>7. ASSUME NEW c \in Callers, EnterForNothing(c) PROVE Reported'
  BY <1>3, <1>7 DEF EnterForNothing, Return, Holds, InApply, Places
<1>8. ASSUME NEW c \in Callers, Commit(c) PROVE Reported'
  BY <1>0, <1>1, <1>2, <1>8 DEF Commit, Running, InApply
<1>9. ASSUME NEW c \in Callers, Rollback(c) PROVE Reported'
  BY <1>1, <1>9 DEF Rollback
<1>10. ASSUME NEW c \in Callers, Assign(c) PROVE Reported'
  BY <1>1, <1>10 DEF Assign, Running
<1>11. ASSUME NEW c \in Callers,
              FailInMemory(c) \/ EndFallback(c) \/ CancelCommitted(c)
       PROVE  Reported'
  BY <1>1, <1>11 DEF FailInMemory, EndFallback, CancelCommitted
<1>12. ASSUME NEW c \in Callers, CancelLocking(c) PROVE Reported'
  BY <1>3, <1>12 DEF CancelLocking, InApply, Places
<1>13. ASSUME NEW c \in Callers, CancelQueued(c) PROVE Reported'
  <2>1. PICK i \in DOMAIN storeq : storeq[i] = c /\ storeq' = RemoveAt(storeq, i)
    BY <1>13 DEF CancelQueued
  <2>2. i # 1 /\ storeq # <<>> /\ Head(storeq) # c
    BY <1>0, <1>2, <1>13, <2>1 DEF CancelQueued, Running
  <2>3. i \in 1 .. Len(storeq)  BY <1>0, <2>1
  <2>4. storeq' # <<>> /\ storeq' \in Seq(Callers) /\ storeq'[1] = storeq[1]
    <3>1. /\ storeq' \in Seq(Callers)
          /\ Len(storeq') = Len(storeq) - 1
          /\ \A j \in 1 .. Len(storeq) - 1 :
                storeq'[j] = IF j < i THEN storeq[j] ELSE storeq[j + 1]
      BY <1>0, <2>1, <2>3, RemoveAtProperties
    <3>2. Len(storeq) - 1 >= 1 /\ 1 < i  BY <1>0, <2>2, <2>3
    <3>. QED  BY <1>0, <3>1, <3>2
  <2>5. Head(storeq') = Head(storeq)  BY <1>0, <2>2, <2>4
  <2>6. pc'[Head(storeq)] = pc[Head(storeq)] /\ call'[Head(storeq)] = call[Head(storeq)]
    BY <1>0, <1>2, <1>13, <2>2 DEF CancelQueued, Return
  <2>. QED  BY <1>1, <1>13, <2>5, <2>6 DEF CancelQueued
<1>14. CASE UNCHANGED vars  BY <1>1, <1>14 DEF vars
<1>. QED
  BY <1>4, <1>5, <1>6, <1>7, <1>8, <1>9, <1>10, <1>11, <1>12, <1>13, <1>14
     DEF Next, Loop

\* Queueing behind others leaves the first where it is.
LEMMA HeadAppend ==
    ASSUME NEW S, NEW s \in Seq(S), s # <<>>, NEW e \in S
    PROVE  Append(s, e) # <<>> /\ Head(Append(s, e)) = Head(s)
OBVIOUS

\* What is in a queue after one more has joined it.
LEMMA RangeAppend ==
    ASSUME NEW S, NEW s \in Seq(S), NEW e \in S
    PROVE  Range(Append(s, e)) = Range(s) \union {e}
<1>. DEFINE t == Append(s, e)
<1>1. /\ DOMAIN t = 1 .. Len(s) + 1 /\ DOMAIN s = 1 .. Len(s)
      /\ \A i \in 1 .. Len(s) : t[i] = s[i]
      /\ t[Len(s) + 1] = e
      /\ Len(s) \in Nat
  OBVIOUS
<1>2. Range(t) = {t[i] : i \in DOMAIN t} /\ Range(s) = {s[i] : i \in DOMAIN s}
  BY DEF Range
<1>. HIDE DEF t
<1>3. Range(t) = Range(s) \union {e}
  <2>1. Range(s) \union {e} \subseteq Range(t)
    <3>1. Len(s) + 1 \in DOMAIN t /\ \A i \in DOMAIN s : i \in DOMAIN t /\ t[i] = s[i]
      BY <1>1
    <3>. QED  BY <1>1, <1>2, <3>1
  <2>2. Range(t) \subseteq Range(s) \union {e}
    <3>1. \A i \in DOMAIN t : i \in DOMAIN s \/ i = Len(s) + 1  BY <1>1
    <3>. QED  BY <1>1, <1>2, <3>1
  <2>. QED  BY <2>1, <2>2
<1>. QED  BY <1>3 DEF t

\* While nothing overlapped, an application holds the lock and is ahead of the
\* memory by its own event only.
LEMMA AloneStep == IInv /\ [Next]_vars => Alone'
<1>. DEFINE Ahead == {call[c] : c \in {d \in Callers : /\ pc[d] = "committing"
                                                       /\ outcome = "committed"}}
<1>. SUFFICES ASSUME IInv, [Next]_vars, clean' PROVE Alone'  BY DEF Alone
<1>0. /\ storeq \in Seq(Callers) /\ lockq \in Seq(Callers) /\ log \in Seq(Events)
      /\ pc \in [Callers -> Places]
      /\ call \in [Callers -> Events \union {NoEvent}] /\ DOMAIN next = Callers
      /\ \A i \in DOMAIN storeq : InApply(storeq[i])
      /\ storeq = <<>> => outcome = "none"
      /\ \A c \in Callers : pc[c] # "idle" => call[c] \in Events
  BY DEF IInv, TypeOK, Applications
<1>1. clean
  BY DEF Next, Loop, vars, AwaitLock, Reenter, Enter, EnterForNothing, Commit, Rollback,
         Assign, FailInMemory, EndFallback, CancelLocking, CancelCommitted, CancelQueued
<1>2. /\ \A c \in Callers : InApply(c) => lockq # <<>> /\ Head(lockq) = c
      /\ \A c \in Callers : pc[c] = "committing" =>
            Verdict(mem, call[c]) # "ignored" /\ next[c] = NextState(mem, call[c])
      /\ \A c \in Callers : InApply(c) => ~stopped
      /\ durable = Range(log) \union Ahead
  BY <1>1 DEF IInv, Alone, Holds
<1>. HIDE DEF IInv
<1>3. ASSUME \A d \in Callers : InApply(d)' => lockq' # <<>> /\ Head(lockq') = d,
             \A d \in Callers : pc'[d] = "committing" =>
                /\ Verdict(mem', call'[d]) # "ignored"
                /\ next'[d] = NextState(mem', call'[d]),
             \A d \in Callers : InApply(d)' => ~stopped',
             durable' = Range(log') \union Ahead'
      PROVE  Alone'
  BY <1>3 DEF Alone, Holds
<1>. USE DEF ctl, store
\* A step that starts or ends no application and leaves the memory alone.
<1>4. ASSUME NEW c \in Callers, ~InApply(c), ~InApply(c)',
             \A d \in Callers \ {c} : pc'[d] = pc[d] /\ call'[d] = call[d] /\ next'[d] = next[d],
             \A d \in Callers \ {c} : InApply(d) => lockq' # <<>> /\ Head(lockq') = d,
             UNCHANGED <<mem, log, stopped, durable, outcome>>
      PROVE  Alone'
  <2>1. \A d \in Callers : pc'[d] = "committing" <=> pc[d] = "committing"
    BY <1>0, <1>4 DEF InApply
  <2>2. \A d \in Callers : pc[d] = "committing" => call'[d] = call[d] /\ next'[d] = next[d]
    BY <1>0, <1>4 DEF InApply
  <2>3. Ahead' = Ahead  BY <1>4, <2>1, <2>2
  <2>. QED  BY <1>2, <1>3, <1>4, <2>1, <2>2, <2>3 DEF InApply
<1>5. ASSUME NEW c \in Callers, NEW e \in Events, AwaitLock(c, e) PROVE Alone'
  <2>1. lockq # <<>> => lockq' # <<>> /\ Head(lockq') = Head(lockq)
    BY <1>0, <1>5, HeadAppend DEF AwaitLock
  <2>. QED  BY <1>0, <1>2, <1>4, <1>5, <2>1 DEF AwaitLock, InApply, Places
<1>6. ASSUME NEW c \in Callers, EnterForNothing(c) PROVE Alone'
  BY <1>0, <1>2, <1>4, <1>6 DEF EnterForNothing, Return, Holds, InApply, Places
<1>7. ASSUME NEW c \in Callers, CancelLocking(c) PROVE Alone'
  <2>1. PICK i \in DOMAIN lockq : lockq[i] = c /\ lockq' = RemoveAt(lockq, i)
    BY <1>7 DEF CancelLocking
  <2>2. ASSUME NEW d \in Callers \ {c}, InApply(d)
        PROVE  lockq' # <<>> /\ Head(lockq') = d
    <3>1. i \in 1 .. Len(lockq) /\ i # 1  BY <1>0, <1>2, <2>1, <2>2
    <3>2. /\ lockq' \in Seq(Callers)
          /\ Len(lockq') = Len(lockq) - 1
          /\ \A j \in 1 .. Len(lockq) - 1 :
                lockq'[j] = IF j < i THEN lockq[j] ELSE lockq[j + 1]
      BY <1>0, <2>1, <3>1, RemoveAtProperties
    <3>3. Len(lockq) - 1 >= 1 /\ 1 < i  BY <1>0, <3>1
    <3>. QED  BY <1>0, <1>2, <2>2, <3>2, <3>3
  <2>. QED  BY <1>0, <1>4, <1>7, <2>2 DEF CancelLocking, InApply, Places
<1>8. ASSUME NEW c \in Callers, Enter(c) PROVE Alone'
  <2>1. \A d \in Callers : ~InApply(d)
    BY <1>0, <1>2, <1>8 DEF Enter, Holds, InApply
  <2>2. outcome = "none"  BY <1>0, <2>1
  <2>3. Ahead = {} /\ Ahead' = {}
    BY <2>2, <1>8 DEF Enter, Holds, StartApply
  <2>4. \A d \in Callers : InApply(d)' <=> d = c
    BY <1>0, <1>8, <2>1 DEF Enter, Holds, StartApply, InApply
  <2>5. call'[c] = call[c] /\ next'[c] = NextState(mem, call[c]) /\ mem' = mem
    BY <1>0, <1>8 DEF Enter, Holds, StartApply
  <2>. QED  BY <1>2, <1>3, <1>8, <2>3, <2>4, <2>5 DEF Enter, Holds, InApply
<1>9. ASSUME NEW c \in Callers, Running(c)
      PROVE  InApply(c) /\ \A d \in Callers : InApply(d) => d = c
  BY <1>0, <1>2, <1>9 DEF Running
<1>10. ASSUME NEW c \in Callers, Commit(c) PROVE Alone'
  <2>1. Running(c)  BY <1>10 DEF Commit
  <2>2. \A d \in Callers : pc[d] = "committing" => d = c  BY <1>9, <2>1 DEF InApply
  <2>3. Ahead = {}  BY <1>10 DEF Commit
  <2>4. Ahead' = IF pc[c] = "committing" THEN {call[c]} ELSE {}
    BY <1>10, <2>2 DEF Commit
  <2>5. durable' = durable \union Ahead'
    BY <1>9, <1>10, <2>1, <2>4 DEF Commit, InApply
  <2>. QED  BY <1>2, <1>3, <1>10, <2>3, <2>5 DEF Commit, InApply
<1>11. ASSUME NEW c \in Callers, Rollback(c) PROVE Alone'
  <2>1. Ahead = {} /\ Ahead' = {}  BY <1>11 DEF Rollback
  <2>. QED  BY <1>2, <1>3, <1>11, <2>1 DEF Rollback, InApply
<1>12. ASSUME NEW c \in Callers, Running(c), Return(c) PROVE \A d \in Callers : ~InApply(d)'
  BY <1>0, <1>9, <1>12 DEF Return, Holds, InApply
<1>13. ASSUME NEW c \in Callers, Assign(c) PROVE Alone'
  <2>1. \A d \in Callers : ~InApply(d)'  BY <1>12, <1>13 DEF Assign
  <2>2. Ahead = {call[c]}
    BY <1>9, <1>13 DEF Assign, InApply
  <2>3. Ahead' = {}  BY <1>13 DEF Assign
  <2>4. Range(log') = Range(log) \union {call[c]}
    <3>1. call[c] \in Events  BY <1>0, <1>13 DEF Assign
    <3>2. log' = Append(log, call[c])  BY <1>13 DEF Assign
    <3>. QED  BY <1>0, <3>1, <3>2, RangeAppend
  <2>. QED  BY <1>2, <1>3, <1>13, <2>1, <2>2, <2>3, <2>4 DEF Assign, InApply
<1>14. ASSUME NEW c \in Callers, FailInMemory(c) PROVE Alone'
  <2>1. \A d \in Callers : pc'[d] # "committing"
    BY <1>0, <1>9, <1>14 DEF FailInMemory, InApply
  <2>2. \A d \in Callers : InApply(d)' => InApply(d)
    BY <1>0, <1>14 DEF FailInMemory, InApply
  <2>3. Ahead = {} /\ Ahead' = {}  BY <1>14 DEF FailInMemory
  <2>. QED  BY <1>2, <1>3, <1>14, <2>1, <2>2, <2>3 DEF FailInMemory
<1>15. ASSUME NEW c \in Callers, EndFallback(c) PROVE Alone'
  <2>1. \A d \in Callers : ~InApply(d)'  BY <1>12, <1>15 DEF EndFallback
  <2>2. Ahead = {} /\ Ahead' = {}
    BY <1>9, <1>15 DEF EndFallback, InApply
  <2>. QED  BY <1>2, <1>3, <1>15, <2>1, <2>2 DEF EndFallback, InApply
<1>16. ASSUME NEW c \in Callers, CancelCommitted(c) \/ CancelQueued(c) PROVE Alone'
  BY <1>16 DEF CancelCommitted, CancelQueued
<1>17. ASSUME NEW c \in Callers, NEW e \in Events, Reenter(c, e) PROVE Alone'
  BY <1>17 DEF Reenter
<1>18. CASE UNCHANGED vars
  BY <1>2, <1>3, <1>18 DEF vars, InApply
<1>. QED
  BY <1>5, <1>6, <1>7, <1>8, <1>10, <1>11, <1>13, <1>14, <1>15, <1>16, <1>17, <1>18
     DEF Next, Loop

-----------------------------------------------------------------------------
(***************************************************************************)
(* The theorems.                                                           *)
(***************************************************************************)

\* The inductive invariant holds for every reducer and every set of callers.
THEOREM Invariant == Spec => []IInv
<1>1. Init => IInv  BY InitInvariant
<1>2. IInv /\ [Next]_vars => IInv'
  <2>1. SUFFICES ASSUME IInv, [Next]_vars PROVE IInv'  OBVIOUS
  <2>2. TypeOK'  BY <2>1, TypeStep
  <2>3. Applications'  BY <2>1, ApplicationsStep
  <2>4. Reported'  BY <2>1, ReportedStep
  <2>5. Alone'  BY <2>1, AloneStep
  <2>. QED  BY <2>2, <2>3, <2>4, <2>5 DEF IInv
<1>. QED  BY <1>1, <1>2, PTL DEF Spec

\* No effect of an event is launched before the event is committed, even when
\* apply() passes the lock, a commit fails or a caller is cancelled.
THEOREM CommitBeforeEffect == Spec => []EffectsAfterCommit
<1>1. IInv => EffectsAfterCommit  BY DEF IInv, Reported, EffectsAfterCommit
<1>. QED  BY <1>1, Invariant, PTL

\* Until an application overlaps another, a quiet store and the memory agree
\* on the events taken in.
THEOREM MemoryMatchesStore == Spec => []NothingForgotten
<1>1. IInv => NothingForgotten
  <2>1. SUFFICES ASSUME IInv, clean, storeq = <<>> PROVE durable = Range(log)
    BY DEF NothingForgotten
  <2>2. outcome = "none"  BY <2>1 DEF IInv, Applications
  <2>3. {d \in Callers : pc[d] = "committing" /\ outcome = "committed"} = {}  BY <2>2
  <2>. QED  BY <2>1, <2>3 DEF IInv, Alone
<1>. QED  BY <1>1, Invariant, PTL

\* The controller implements SerialTask: each step of it is a step of the
\* serial driver, leaves the serial driver's state alone, or is the overlap
\* after which nothing is promised.
THEOREM ImplementsSerialTask == Spec => Serial
<1>1. Init => Abs!Init  BY DEF Init, Abs!Init
<1>2. IInv /\ [Next]_vars => [Abs!Next]_Abs!vars
  <2>1. SUFFICES ASSUME IInv, [Next]_vars PROVE Abs!Next \/ UNCHANGED Abs!vars
    OBVIOUS
  <2>. USE DEF Abs!Next, Abs!Broken, Abs!vars, ctl, store
  <2>2. ASSUME NEW c \in Callers, NEW e \in Events, Reenter(c, e) PROVE Abs!Next
    BY <2>2 DEF Reenter
  <2>3. ASSUME NEW c \in Callers, CancelCommitted(c) \/ CancelQueued(c) PROVE Abs!Next
    BY <2>3 DEF CancelCommitted, CancelQueued
  <2>4. ASSUME NEW c \in Callers, Assign(c) PROVE Abs!Next
    <3>1. CASE ~clean  BY <2>4, <3>1 DEF Assign
    <3>2. CASE clean
      <4>1. pc[c] = "committing" /\ call[c] \in Events
        BY <2>1, <2>4 DEF Assign, IInv, Applications
      <4>2. Verdict(mem, call[c]) # "ignored" /\ next[c] = NextState(mem, call[c])
        BY <2>1, <3>2, <4>1 DEF IInv, Alone
      <4>3. Abs!Step(call[c])
        BY <2>4, <3>2, <4>2 DEF Assign, Abs!Step
      <4>. QED  BY <4>1, <4>3
    <3>. QED  BY <3>1, <3>2
  <2>5. ASSUME NEW c \in Callers, FailInMemory(c) PROVE Abs!Next
    <3>1. CASE ~clean  BY <2>5, <3>1 DEF FailInMemory
    <3>2. CASE clean
      <4>1. Abs!Fail  BY <2>5, <3>2 DEF FailInMemory, Abs!Fail
      <4>. QED  BY <4>1
    <3>. QED  BY <3>1, <3>2
  <2>6. ASSUME NEW c \in Callers,
               \/ \E e \in Events : AwaitLock(c, e)
               \/ Enter(c) \/ EnterForNothing(c) \/ Commit(c) \/ Rollback(c)
               \/ EndFallback(c) \/ CancelLocking(c)
        PROVE  UNCHANGED Abs!vars
    BY <2>6 DEF AwaitLock, Enter, EnterForNothing, Commit, Rollback, EndFallback,
                CancelLocking
  <2>7. CASE UNCHANGED vars  BY <2>7 DEF vars
  <2>. QED
    BY <2>1, <2>2, <2>3, <2>4, <2>5, <2>6, <2>7 DEF Next, Loop
<1>. QED  BY <1>1, <1>2, Invariant, PTL DEF Spec, Serial, Abs!Spec

\* A controller stopped by its store never moves again, as long as no
\* application overlapped another.
THEOREM StopIsFinal == Spec => StoppedIsFinal
<1>1. IInv /\ [Next]_vars => [stopped /\ clean => UNCHANGED <<mem, log>>]_vars
  <2>1. SUFFICES ASSUME IInv, [Next]_vars, stopped, clean PROVE UNCHANGED <<mem, log>>
    OBVIOUS
  <2>2. \A c \in Callers : ~InApply(c)  BY <2>1 DEF IInv, Alone
  <2>3. \A c \in Callers : ~Assign(c) /\ ~FailInMemory(c)
    BY <2>2 DEF InApply, Assign, FailInMemory
  <2>. QED
    BY <2>1, <2>3
       DEF Next, Loop, vars, ctl, store, AwaitLock, Reenter, Enter, EnterForNothing,
           Commit, Rollback, EndFallback, CancelLocking, CancelCommitted, CancelQueued
<1>. QED  BY <1>1, Invariant, PTL DEF Spec, StoppedIsFinal

=============================================================================
