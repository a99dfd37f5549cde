-------------------------- MODULE Procedures_proofs --------------------------
(***************************************************************************)
(* Proofs about a batch of procedure requests, for any batch, any catalog, *)
(* any budget and costs.                                                   *)
(***************************************************************************)
EXTENDS Procedures, FiniteSetTheorems, SequenceTheorems, TLAPS

\* A finite set of numbers has its maximum, or the smallest subset without one
\* would have a smaller one.
LEMMA MaxIsMost ==
    ASSUME NEW S \in SUBSET Nat, IsFiniteSet(S), NEW x \in S
    PROVE  Max(S) \in S /\ x <= Max(S)
<1>. DEFINE Bad == {T \in FiniteSubsetsOf(S) : T # {} /\ ~\E m \in T : \A y \in T : m >= y}
            Less == StrictSubsetOrdering(S)
<1>1. Bad = {}
  <2>1. SUFFICES ASSUME Bad # {} PROVE FALSE  OBVIOUS
  <2>2. IsWellFoundedOn(Less, FiniteSubsetsOf(S))  BY FS_StrictSubsetOrderingWellFounded
  <2>3. Bad \subseteq FiniteSubsetsOf(S)  OBVIOUS
  <2>. HIDE DEF Bad, Less
  <2>4. PICK T \in Bad : \A U \in Bad : <<U, T>> \notin Less
    BY <2>1, <2>2, <2>3, WFMin
  <2>. USE DEF Bad
  <2>5. PICK t \in T : TRUE  BY <2>4
  <2>6. T \ {t} \in FiniteSubsetsOf(S)
    BY <2>4, FS_RemoveElement DEF FiniteSubsetsOf
  <2>7. <<T \ {t}, T>> \in Less
    BY <2>4, <2>5, <2>6 DEF Less, StrictSubsetOrdering, FiniteSubsetsOf
  <2>8. T \ {t} \notin Bad  BY <2>4, <2>7
  <2>9. T \subseteq Nat  BY <2>4 DEF FiniteSubsetsOf
  <2>10. CASE T \ {t} = {}
    <3>1. T = {t}  BY <2>5, <2>10
    <3>. QED  BY <2>4, <2>9, <3>1
  <2>11. CASE T \ {t} # {}
    <3>1. PICK m \in T \ {t} : \A y \in T \ {t} : m >= y  BY <2>6, <2>8, <2>11
    <3>2. \E k \in T : \A y \in T : k >= y
      <4>1. CASE m >= t  BY <3>1, <4>1
      <4>2. CASE t > m  BY <2>5, <2>9, <3>1, <4>2
      <4>. QED  BY <2>9, <3>1, <4>1, <4>2
    <3>. QED  BY <2>4, <3>2
  <2>. QED  BY <2>10, <2>11
<1>2. S \in FiniteSubsetsOf(S)  BY DEF FiniteSubsetsOf
<1>3. \E m \in S : \A y \in S : m >= y  BY <1>1, <1>2
<1>4. Max(S) \in S /\ \A y \in S : Max(S) >= y  BY <1>3 DEF Max
<1>. QED  BY <1>4

\* The ordinary requests of a batch have places from 1 on.
LEMMA OrdinaryIsSeq ==
    ASSUME batch \in Batches
    PROVE  Len(Ordinary) \in Nat /\ Calls = 1 .. Len(Ordinary)
<1>. DEFINE I == {i \in DOMAIN batch : batch[i] \in STRING \ Controls}
            n == Cardinality(I)
            p == [j \in 1 .. n |-> batch[CHOOSE i \in I : Rank(I, i) = j]]
<1>1. n \in Nat
  <2>1. batch \in Seq(STRING) /\ DOMAIN batch = 1 .. Len(batch) /\ Len(batch) \in Nat
    BY ProcedureAssumption, LenProperties
  <2>2. IsFiniteSet(1 .. Len(batch))  BY <2>1, FS_Interval
  <2>3. IsFiniteSet(I)  BY <2>1, <2>2, FS_Subset
  <2>. QED  BY <2>3, FS_CardinalityType
<1>2. Ordinary = p  BY DEF Ordinary, Picked
<1>. HIDE DEF I, n
<1>3. DOMAIN p = 1 .. n /\ Len(p) = n  BY <1>1
<1>. QED  BY <1>1, <1>2, <1>3 DEF Calls

\* The largest cost of a call, and the longest list of nested requests.
LEMMA Bounds ==
    /\ Max(Costs) \in Nat /\ \A cost \in Costs : cost \in Nat /\ cost <= Max(Costs)
    /\ MostAsked \in Nat /\ 1 <= MostAsked
    /\ \A asks \in NestedAsks : asks \in Seq(STRING) /\ Len(asks) <= MostAsked
    /\ MostSpent \in Nat /\ Budget + Max(Costs) <= MostSpent
<1>1. /\ Max(Costs) \in Nat /\ \A cost \in Costs : cost \in Nat /\ cost <= Max(Costs)
  BY ProcedureAssumption, MaxIsMost
<1>. DEFINE Lens == {Len(asks) : asks \in NestedAsks}
            All == {1} \cup Lens
<1>2. \A asks \in NestedAsks : asks \in Seq(STRING) /\ Len(asks) \in Nat
  BY ProcedureAssumption, LenProperties
<1>3. All \in SUBSET Nat  BY <1>2
<1>4. IsFiniteSet(Lens)
  <2>. DEFINE f == [asks \in NestedAsks |-> Len(asks)]
  <2>1. f \in Surjection(NestedAsks, Lens)  BY DEF Surjection
  <2>. QED  BY <2>1, ProcedureAssumption, FS_Surjection
<1>5. IsFiniteSet(All)
  <2>1. All = Lens \cup {1}  OBVIOUS
  <2>. QED  BY <1>4, <2>1, FS_AddElement
<1>6. 1 \in All /\ \A asks \in NestedAsks : Len(asks) \in All  OBVIOUS
<1>7. MostAsked = Max(All)  BY DEF MostAsked
<1>. HIDE DEF All
<1>8. MostAsked \in Nat /\ \A x \in All : x <= MostAsked
  BY <1>3, <1>5, <1>6, <1>7, MaxIsMost
<1>9. MostSpent \in Nat /\ Budget + Max(Costs) <= MostSpent
  <2>1. \A m, k \in Nat : 1 <= k => m * k \in Nat /\ m <= m * k
    <3>. TAKE m, k \in Nat
    <3>. HAVE 1 <= k
    <3>1. k - 1 \in Nat /\ m * (k - 1) \in Nat /\ m * k = m * (k - 1) + m  OBVIOUS
    <3>. QED  BY <3>1
  <2>2. 1 <= MostAsked  BY <1>6, <1>8
  <2>. DEFINE most == Max(Costs) * MostAsked
  <2>3. most \in Nat /\ Max(Costs) <= most  BY <1>1, <1>8, <2>1, <2>2
  <2>4. MostSpent = Budget + most  BY DEF MostSpent
  <2>. HIDE DEF most
  <2>. QED  BY <1>1, <2>3, <2>4, ProcedureAssumption
<1>. QED  BY <1>1, <1>2, <1>6, <1>8, <1>9

-----------------------------------------------------------------------------
(***************************************************************************)
(* Init, and the steps that change one coroutine.                          *)
(***************************************************************************)

LEMMA InitInvariant == Init => IInv
<1>. SUFFICES ASSUME Init PROVE IInv  OBVIOUS
<1>1. batch \in Batches /\ phase = "calls" /\ results = <<>>  BY DEF Init
<1>a. Unsent \in Coroutine /\ Len(Unsent.answers) = 0
  <2>1. <<>> \in Seq(STRING) /\ <<>> \in Seq(Answers)
    BY EmptySeq
  <2>2. Len(<<>>) = 0  OBVIOUS
  <2>. QED  BY <2>1, <2>2 DEF Unsent, Coroutine, Hows
<1>. DEFINE M == [what : Whats, of : SUBSET Nat]
            s == <<Message("system", {}), Message("task", {}), Message("answer", {})>>
<1>2. history = s
  <2>1. \A a, b, c : <<a, b>> \o <<c>> = <<a, b, c>>
    <3>. TAKE a, b, c
    <3>1. <<a, b>> \in Seq({a, b, c}) /\ <<c>> \in Seq({a, b, c}) /\ <<a, b, c>> \in Seq({a, b, c})
      OBVIOUS
    <3>2. <<a, b>> \o <<c>> \in Seq({a, b, c}) /\ Len(<<a, b>> \o <<c>>) = 3
      BY <3>1, ConcatProperties
    <3>3. \A k \in 1 .. 3 : (<<a, b>> \o <<c>>)[k] = <<a, b, c>>[k]
      BY <3>1, ConcatProperties
    <3>. QED  BY <3>1, <3>2, <3>3, SeqEqual
  <2>. QED  BY <2>1 DEF Init, Prefix
<1>3. s \in Seq(M) /\ Len(s) = 3
  <2>1. \A what \in Whats : Message(what, {}) \in M  BY DEF Message
  <2>. HIDE DEF M
  <2>. QED  BY <2>1 DEF Whats
<1>4. TypeOK
  <2>. HIDE DEF s
  <2>1. <<>> \in Seq([of : Nat, how : STRING, charged : Nat])  BY EmptySeq
  <2>2. call \in [Calls -> Coroutine]  BY <1>a DEF Init
  <2>. QED  BY <1>1, <1>2, <1>3, <2>1, <2>2 DEF TypeOK
<1>5. FoldFollows
  <2>1. \A k \in DOMAIN s : s[k].of = {}  BY DEF Message
  <2>2. Held = {}
    <3>. HIDE DEF s
    <3>. QED  BY <1>2, <2>1 DEF Held
  <2>3. s[1] = Prefix[1] /\ s[2] = Prefix[2]  BY DEF Prefix
  <2>. HIDE DEF s
  <2>. QED  BY <1>1, <1>2, <1>3, <2>2, <2>3 DEF FoldFollows
<1>6. ASSUME NEW i \in Calls PROVE CallInv(Ordinary[i], call[i])
  <2>1. call[i] = Unsent  BY DEF Init
  <2>2. AttemptsFollow(Ordinary[i], Unsent) /\ MeterFollows(Unsent)
    BY DEF Unsent, AttemptsFollow, MeterFollows
  <2>4. TurnsAreFunded(Ordinary[i], Unsent)
    <3>1. Unsent.at = "new" /\ Unsent.how = "open" /\ Unsent.spent = 0  BY DEF Unsent
    <3>. QED  BY <3>1, Bounds DEF TurnsAreFunded
  <2>. QED  BY <1>a, <2>1, <2>2, <2>4 DEF CallInv
<1>. QED  BY <1>4, <1>5, <1>6 DEF IInv

\* A step of one coroutine keeps the invariant if it keeps that of the coroutine.
LEMMA OneCall ==
    ASSUME IInv, phase = "calls", NEW i \in Calls, NEW c, Become(i, c),
           CallInv(Ordinary[i], c)
    PROVE  IInv'
<1>. USE DEF IInv, TypeOK, Become
<1>1. Ordinary' = Ordinary /\ Calls' = Calls  BY DEF Ordinary, Calls
<1>2. c \in Coroutine  BY DEF CallInv
<1>3. TypeOK'  BY <1>1, <1>2
<1>4. FoldFollows'  BY DEF FoldFollows, Held
<1>5. ASSUME NEW j \in Calls PROVE CallInv(Ordinary[j], call[j])'
  <2>1. call'[j] = IF j = i THEN c ELSE call[j]  OBVIOUS
  <2>2. CallInv(Ordinary[j], call'[j])  BY <2>1
  <2>. QED  BY <1>1, <2>2 DEF CallInv, AttemptsFollow, MeterFollows, TurnsAreFunded
<1>. QED  BY <1>1, <1>3, <1>4, <1>5

\* A call that ends unpaid, since it has declared nothing or its outcome is unknown.
LEMMA EndKeeps ==
    ASSUME NEW p, NEW c, CallInv(p, c), c.at # "ended",
           NEW how \in Hows \ {"open", "returned"},
           c.spent = 0 \/ how \in {"raised", "procedure_timeout"}
    PROVE  CallInv(p, End(c, how))
<1>. DEFINE e == End(c, how)
<1>1. c \in Coroutine  BY DEF CallInv
<1>2. /\ e \in Coroutine /\ e.at = "ended" /\ e.how = how
      /\ e.answers = c.answers /\ e.spent = c.spent /\ e.charged = c.charged
  BY <1>1 DEF End, Coroutine
<1>3. c.charged = 0 /\ c.spent \in Nat  BY <1>1 DEF CallInv, MeterFollows, Coroutine
<1>4. p = Contractor => c.spent <= MostSpent  BY DEF CallInv, TurnsAreFunded
<1>. HIDE DEF e
<1>5. AttemptsFollow(p, e)
  <2>1. Len(c.answers) \in Nat  BY <1>1, LenProperties DEF Coroutine
  <2>. QED  BY <1>2, <2>1 DEF CallInv, AttemptsFollow
<1>6. MeterFollows(e)  BY <1>2, <1>3 DEF MeterFollows
<1>7. TurnsAreFunded(p, e)  BY <1>2, <1>4 DEF TurnsAreFunded
<1>. QED  BY <1>2, <1>5, <1>6, <1>7 DEF CallInv, e

\* A contractor that ends is charged all it has declared.
LEMMA BillKeeps ==
    ASSUME NEW p, NEW c \in Coroutine, c.answers = <<>>, c.spent <= MostSpent,
           NEW how \in Hows \ {"open"}, how = "returned" => ~c.unread
    PROVE  CallInv(p, Bill(c, how))
<1>. DEFINE b == Bill(c, how)
<1>1. /\ b \in Coroutine /\ b.at = "ended" /\ b.how = how
      /\ b.answers = <<>> /\ b.spent = c.spent /\ b.charged = c.spent
      /\ (b.unread <=> c.unread)
  BY DEF Bill, End, Coroutine
<1>2. c.spent \in Nat /\ Len(<<>>) = 0  BY DEF Coroutine
<1>. HIDE DEF b
<1>3. AttemptsFollow(p, b)  BY <1>1, <1>2 DEF AttemptsFollow
<1>4. MeterFollows(b)  BY <1>1, <1>2 DEF MeterFollows
<1>5. TurnsAreFunded(p, b)  BY <1>1 DEF TurnsAreFunded
<1>. QED  BY <1>1, <1>3, <1>4, <1>5 DEF CallInv, b

\* A request that is refused, or sent, or whose provider does not answer in time.
LEMMA SendStep ==
    ASSUME IInv, NEW i \in Calls, Refuse(i) \/ Send(i) \/ Expire(i)
    PROVE  IInv'
<1>. DEFINE c == call[i]
            p == Ordinary[i]
<1>1. c \in Coroutine /\ CallInv(p, c) /\ phase = "calls"
  BY DEF IInv, TypeOK, Refuse, Send, Expire, Goes
<1>2. CASE Refuse(i)
  <2>1. Refusal(p) \in {"procedure_not_allowed", "procedure_unavailable"} /\ c.at = "new"
    BY <1>2 DEF Refuse, Refusal, Goes
  <2>2. c.spent = 0  BY <1>1, <2>1 DEF CallInv, MeterFollows
  <2>3. CallInv(p, End(c, Refusal(p)))  BY <1>1, <2>1, <2>2, EndKeeps DEF Hows
  <2>. QED  BY <1>1, <1>2, <2>3, OneCall DEF Refuse
<1>3. CASE Send(i)
  <2>1. c.at = "new" /\ c.spent = 0 /\ c.answers = <<>>
    BY <1>1, <1>3 DEF Send, Goes, CallInv, MeterFollows, AttemptsFollow
  <2>2. CallInv(p, End(c, "invalid_arguments"))  BY <1>1, <2>1, EndKeeps DEF Hows
  <2>. DEFINE d == [c EXCEPT !.at = IF p = Contractor THEN "turn" ELSE "sent"]
  <2>3. /\ d \in Coroutine /\ d.at = IF p = Contractor THEN "turn" ELSE "sent"
        /\ d.answers = c.answers /\ d.spent = c.spent /\ d.charged = c.charged
        /\ d.how = c.how
    BY <1>1 DEF Coroutine
  <2>. HIDE DEF d
  <2>4. AttemptsFollow(p, d)  BY <2>1, <2>3 DEF AttemptsFollow
  <2>5. MeterFollows(d)  BY <1>1, <2>1, <2>3 DEF CallInv, MeterFollows
  <2>6. TurnsAreFunded(p, d)
    BY <1>1, <2>1, <2>3, Bounds, ProcedureAssumption DEF TurnsAreFunded, CallInv, MeterFollows
  <2>7. CallInv(p, d)  BY <2>3, <2>4, <2>5, <2>6 DEF CallInv
  <2>. QED  BY <1>1, <1>3, <2>2, <2>7, OneCall DEF Send, d
<1>4. CASE Expire(i)
  <2>1. CallInv(p, End(c, "procedure_timeout"))  BY <1>1, <1>4, EndKeeps DEF Expire, Goes, Hows
  <2>. QED  BY <1>1, <1>4, <2>1, OneCall DEF Expire
<1>. QED  BY <1>2, <1>3, <1>4

\* The provider answers: once more, if it did nothing and may, and else it is over.
LEMMA AnswerStep ==
    ASSUME IInv, NEW i \in Calls, Answer(i)
    PROVE  IInv'
<1>. DEFINE c == call[i]
            p == Ordinary[i]
<1>1. PICK how \in {"ok", "failed", "raised", "provider_contract_invalid"},
           answer \in Answers, cost \in Costs :
           Become(i, IF MayRetry(i, answer) THEN Answered(c, answer, cost)
                     ELSE Concluded(Answered(c, answer, cost), how, cost))
  BY DEF Answer
<1>. DEFINE d == Answered(c, answer, cost)
            e == Concluded(d, how, cost)
<1>2. phase = "calls" /\ c.at = "sent"  BY DEF Answer, Goes
<1>3. c \in Coroutine /\ CallInv(p, c)  BY DEF IInv, TypeOK
<1>4. cost \in Nat /\ c.spent \in Nat /\ c.answers \in Seq(Answers) 
  BY <1>3, Bounds DEF Coroutine
<1>5. /\ Len(c.answers) \in Nat /\ Len(c.answers) <= 1
      /\ Append(c.answers, answer) \in Seq(Answers)
      /\ Append(c.answers, answer) # <<>>
      /\ Len(Append(c.answers, answer)) = Len(c.answers) + 1
      /\ \A k \in 1 .. Len(c.answers) : Append(c.answers, answer)[k] = c.answers[k]
      /\ Append(c.answers, answer)[Len(c.answers) + 1] = answer
  <2>1. Len(c.answers) \in Nat /\ Len(c.answers) <= 1
    BY <1>2, <1>3, <1>4, LenProperties DEF CallInv, AttemptsFollow
  <2>. QED  BY <1>4, <2>1, AppendProperties
<1>6. /\ d \in Coroutine /\ d.at = "sent" /\ d.how = c.how /\ d.charged = c.charged
      /\ d.spent = c.spent + cost /\ d.answers = Append(c.answers, answer)
  <2>1. PICK n \in Nat : n = c.spent + cost  BY <1>4
  <2>2. PICK a \in Seq(Answers) : a = Append(c.answers, answer)  BY <1>5
  <2>3. d = [c EXCEPT !.answers = a, !.spent = n]  BY <2>1, <2>2 DEF Answered
  <2>. HIDE DEF d
  <2>. QED  BY <1>2, <1>3, <2>1, <2>2, <2>3 DEF Coroutine
<1>. HIDE DEF d
<1>7. /\ e \in Coroutine /\ e.at = "ended" /\ e.how = how /\ e.answers = d.answers
      /\ e.spent = d.spent /\ e.charged = IF how \in {"ok", "failed"} THEN cost ELSE 0
  BY <1>4, <1>6 DEF Coroutine, Concluded, End, Hows
<1>8. Len(c.answers) = 0 => c.answers = <<>>  BY <1>4, EmptySeq
<1>9. Len(c.answers) = 0 => c.spent = 0
  BY <1>2, <1>3, <1>8 DEF CallInv, MeterFollows
<1>10. p # Contractor  BY <1>2, <1>3 DEF CallInv, TurnsAreFunded
<1>11. CASE MayRetry(i, answer)
  <2>1. Len(c.answers) = 0 /\ p \in Idempotent /\ answer.retryable /\ ~answer.data
    BY <1>11 DEF MayRetry
  <2>2. d.answers[1] = answer /\ Len(d.answers) = 1 /\ d.answers # <<>>
    BY <1>5, <1>6, <2>1
  <2>3. c.how = "open" /\ c.charged = 0  BY <1>2, <1>3 DEF CallInv, MeterFollows
  <2>4. AttemptsFollow(p, d)  BY <1>6, <2>1, <2>2 DEF AttemptsFollow
  <2>5. MeterFollows(d)  BY <1>6, <2>2, <2>3 DEF MeterFollows
  <2>6. TurnsAreFunded(p, d)  BY <1>6, <1>10, <2>3 DEF TurnsAreFunded
  <2>7. CallInv(p, d)  BY <1>6, <2>4, <2>5, <2>6 DEF CallInv
  <2>8. Become(i, d)  BY <1>1, <1>11 DEF d
  <2>. QED  BY <1>2, <2>7, <2>8, OneCall
<1>12. CASE ~MayRetry(i, answer)
  <2>1. Len(c.answers) = 1 =>
           p \in Idempotent /\ c.answers[1].retryable /\ ~c.answers[1].data
    BY <1>2, <1>3 DEF CallInv, AttemptsFollow
  <2>2. Len(c.answers) = 1 => e.answers[1] = c.answers[1]  BY <1>5, <1>6, <1>7
  <2>3. Len(e.answers) = Len(c.answers) + 1  BY <1>5, <1>6, <1>7
  <2>4. Become(i, e)  BY <1>1, <1>12 DEF d
  <2>. HIDE DEF e
  <2>5. AttemptsFollow(p, e)
    <3>1. \A n, m \in Nat : n <= 1 /\ m = n + 1 => m <= 2 /\ (m > 1 => n = 1)  OBVIOUS
    <3>2. /\ Len(e.answers) \in Nat /\ Len(e.answers) <= 2
          /\ Len(e.answers) > 1 => Len(c.answers) = 1
      <4>1. Len(e.answers) \in Nat  BY <1>7, LenProperties DEF Coroutine
      <4>. QED  BY <1>5, <2>3, <3>1, <4>1
    <3>. QED  BY <1>7, <2>1, <2>2, <3>2 DEF AttemptsFollow
  <2>6. MeterFollows(e)
    <3>1. Len(e.answers) <= 1 => e.spent = cost  BY <1>4, <1>5, <1>6, <1>7, <1>9, <2>3
    <3>2. e.charged <= e.spent  BY <1>4, <1>6, <1>7
    <3>3. how \notin {"raised", "procedure_timeout", "provider_contract_invalid"} =>
             e.charged = cost
      BY <1>7
    <3>. QED  BY <1>7, <3>1, <3>2, <3>3 DEF MeterFollows
  <2>7. TurnsAreFunded(p, e)  BY <1>7, <1>10 DEF TurnsAreFunded
  <2>8. CallInv(p, e)  BY <1>7, <2>5, <2>6, <2>7 DEF CallInv
  <2>. QED  BY <1>2, <2>4, <2>8, OneCall
<1>. QED  BY <1>11, <1>12

-----------------------------------------------------------------------------
(***************************************************************************)
(* The steps of the contractor.                                            *)
(***************************************************************************)

\* Before its first turn, or after one, the contractor is out of time, or asks.
LEMMA TurnStep ==
    ASSUME IInv, NEW i \in Calls, Unready(i) \/ RunOut(i) \/ Ask(i) \/ Break(i)
    PROVE  IInv'
<1>. DEFINE c == call[i]
            p == Ordinary[i]
<1>1. c \in Coroutine /\ CallInv(p, c) /\ phase = "calls"
  BY DEF IInv, TypeOK, Unready, RunOut, Ask, Break, Goes
<1>2. c.spent \in Nat /\ c.turns \in Nat  BY <1>1 DEF Coroutine
<1>3. c.at = "turn" => c.spent <= Budget /\ p = Contractor /\ c.answers = <<>>
  BY <1>1 DEF CallInv, TurnsAreFunded, AttemptsFollow
<1>4. c.spent <= Budget => c.spent <= MostSpent  BY <1>2, Bounds, ProcedureAssumption
<1>5. CASE Unready(i)
  <2>1. c.at = "turn" /\ c.turns = 0  BY <1>5 DEF Unready, Goes
  <2>2. c.spent = 0  BY <1>1, <2>1 DEF CallInv, MeterFollows
  <2>3. CallInv(p, End(c, "failed"))  BY <1>1, <2>1, <2>2, EndKeeps DEF Hows
  <2>. QED  BY <1>1, <1>5, <2>3, OneCall DEF Unready
<1>6. CASE RunOut(i)
  <2>1. c.at = "turn"  BY <1>6 DEF RunOut, Goes
  <2>2. CallInv(p, Bill(c, "timeout"))  BY <1>1, <1>3, <1>4, <2>1, BillKeeps DEF Hows
  <2>. QED  BY <1>1, <1>6, <2>2, OneCall DEF RunOut
<1>7. CASE Ask(i)
  <2>. DEFINE d == [c EXCEPT !.at = "asked", !.turns = @ + 1, !.unread = FALSE]
  <2>1. c.at = "turn" /\ Become(i, d)  BY <1>7 DEF Ask, Goes
  <2>2. /\ d \in Coroutine /\ d.at = "asked" /\ d.how = c.how /\ d.charged = c.charged
        /\ d.spent = c.spent /\ d.answers = c.answers /\ ~d.unread /\ d.turns > 0
    <3>1. PICK n \in Nat : n = c.turns + 1 /\ n > 0  BY <1>2
    <3>2. d = [c EXCEPT !.at = "asked", !.turns = n, !.unread = FALSE]  BY <3>1
    <3>. HIDE DEF d
    <3>. QED  BY <1>1, <3>1, <3>2 DEF Coroutine
  <2>3. c.how = "open" /\ c.charged = 0  BY <1>1, <2>1 DEF CallInv, MeterFollows
  <2>4. Len(c.answers) = 0  BY <1>3, <2>1, EmptySeq
  <2>. HIDE DEF d
  <2>5. AttemptsFollow(p, d)  BY <1>3, <2>1, <2>2, <2>4 DEF AttemptsFollow
  <2>6. MeterFollows(d)  BY <2>2, <2>3 DEF MeterFollows
  <2>7. TurnsAreFunded(p, d)  BY <1>3, <1>4, <2>1, <2>2 DEF TurnsAreFunded
  <2>8. CallInv(p, d)  BY <2>2, <2>5, <2>6, <2>7 DEF CallInv
  <2>. QED  BY <1>1, <2>1, <2>8, OneCall
<1>8. CASE Break(i)
  <2>1. CallInv(p, End(c, "raised"))  BY <1>1, <1>8, EndKeeps DEF Break, Goes, Hows
  <2>. QED  BY <1>1, <1>8, <2>1, OneCall DEF Break
<1>. QED  BY <1>5, <1>6, <1>7, <1>8

\* The reply of the contractor's model: the end, or procedures to call.
LEMMA ReplyStep ==
    ASSUME IInv, NEW i \in Calls, Reply(i)
    PROVE  IInv'
<1>. DEFINE c == call[i]
            p == Ordinary[i]
<1>1. c \in Coroutine /\ CallInv(p, c) /\ phase = "calls" /\ c.at = "asked"
  BY DEF IInv, TypeOK, Reply, Goes
<1>2. PICK cost \in Costs, fails \in BOOLEAN, asks \in NestedAsks :
       LET e == [c EXCEPT !.spent = @ + cost]
       IN Become(i, IF fails THEN Bill(e, "failed")
                    ELSE IF Broke(e) THEN Bill(e, "insufficient_funds")
                    ELSE IF asks = <<>> THEN Bill(e, "returned")
                    ELSE [e EXCEPT !.at = "nested", !.todo = asks])
  BY DEF Reply
<1>. DEFINE e == [c EXCEPT !.spent = @ + cost]
            d == [e EXCEPT !.at = "nested", !.todo = asks]
<1>3. /\ c.spent \in Nat /\ c.spent <= Budget /\ p = Contractor /\ c.answers = <<>> /\ ~c.unread
      /\ c.how = "open" /\ c.charged = 0 /\ Len(c.answers) = 0 /\ c.turns > 0
  BY <1>1, EmptySeq DEF Coroutine, CallInv, TurnsAreFunded, AttemptsFollow, MeterFollows
<1>4. PICK n \in Nat : n = c.spent + cost  BY <1>3, Bounds
<1>5. n <= MostSpent
  BY <1>3, <1>4, Bounds, ProcedureAssumption
<1>6. /\ e \in Coroutine /\ e.at = "asked" /\ e.how = c.how /\ e.charged = c.charged
      /\ e.spent = n /\ e.answers = c.answers /\ (e.unread <=> c.unread)
      /\ e.turns = c.turns
  <2>1. e = [c EXCEPT !.spent = n]  BY <1>4
  <2>. HIDE DEF e
  <2>. QED  BY <1>1, <2>1 DEF Coroutine
<1>. HIDE DEF e
<1>7. /\ CallInv(p, Bill(e, "failed")) /\ CallInv(p, Bill(e, "insufficient_funds"))
      /\ CallInv(p, Bill(e, "returned"))
  BY <1>3, <1>5, <1>6, BillKeeps DEF Hows
<1>8. CASE ~Broke(e)
  <2>1. /\ d \in Coroutine /\ d.at = "nested" /\ d.how = "open" /\ d.charged = 0
        /\ d.spent = n /\ d.answers = <<>> /\ d.todo = asks /\ d.turns > 0
    BY <1>3, <1>6, Bounds DEF Coroutine
  <2>2. n <= Budget  BY <1>4, <1>6, <1>8, <1>3, ProcedureAssumption DEF Broke
  <2>3. Worst(d) <= MostSpent
    <3>1. \A m, k, l, s, b \in Nat : k <= l /\ s <= b => s + m * k <= b + m * l
      <4>. TAKE m, k, l, s, b \in Nat
      <4>. HAVE k <= l /\ s <= b
      <4>1. l - k \in Nat /\ m * (l - k) \in Nat /\ m * l = m * k + m * (l - k) /\ m * k \in Nat
        OBVIOUS
      <4>2. m * k <= m * l  BY <4>1
      <4>. DEFINE x == m * k
                  y == m * l
      <4>3. x \in Nat /\ y \in Nat /\ x <= y  BY <4>1, <4>2
      <4>. HIDE DEF x, y
      <4>4. s + x <= b + y  BY <4>3
      <4>. QED  BY <4>4 DEF x, y
    <3>2. Len(asks) \in Nat /\ Len(asks) <= MostAsked  BY Bounds, LenProperties
    <3>. QED  BY <2>1, <2>2, <3>1, <3>2, Bounds, ProcedureAssumption DEF Worst, MostSpent
  <2>. HIDE DEF d
  <2>4. AttemptsFollow(p, d)  BY <1>3, <2>1 DEF AttemptsFollow
  <2>5. MeterFollows(d)  BY <2>1 DEF MeterFollows
  <2>6. TurnsAreFunded(p, d)  BY <1>3, <1>5, <2>1, <2>3 DEF TurnsAreFunded
  <2>7. CallInv(p, d)  BY <2>1, <2>4, <2>5, <2>6 DEF CallInv
  <2>8. \/ Become(i, Bill(e, "failed")) \/ Become(i, Bill(e, "returned")) \/ Become(i, d)
    BY <1>2, <1>8 DEF e, d
  <2>. QED  BY <1>1, <1>7, <2>7, <2>8, OneCall
<1>9. CASE Broke(e)
  <2>. DEFINE b == IF fails THEN Bill(e, "failed") ELSE Bill(e, "insufficient_funds")
  <2>1. Become(i, b)  BY <1>2, <1>9 DEF e, Broke
  <2>2. b = Bill(e, "failed") \/ b = Bill(e, "insufficient_funds")  OBVIOUS
  <2>. HIDE DEF b
  <2>. QED  BY <1>1, <1>7, <2>1, <2>2, OneCall
<1>. QED  BY <1>8, <1>9

\* A procedure the contractor has asked for: one less to do, paid at its cost.
LEMMA NestedStep ==
    ASSUME IInv, NEW i \in Calls, Nested(i)
    PROVE  IInv'
<1>. DEFINE c == call[i]
            p == Ordinary[i]
<1>1. c \in Coroutine /\ CallInv(p, c) /\ phase = "calls" /\ c.at = "nested" /\ c.todo # <<>>
  BY DEF IInv, TypeOK, Nested, Goes
<1>2. PICK cost \in Costs \cup {0} :
         Become(i, [c EXCEPT !.todo = Tail(@), !.unread = TRUE,
                             !.spent = @ + Charges(Head(c.todo), cost)])
  BY DEF Nested
<1>3. PICK paid \in Nat : paid = Charges(Head(c.todo), cost) /\ paid <= Max(Costs)
  BY Bounds DEF Charges
<1>4. /\ c.spent \in Nat /\ p = Contractor /\ c.answers = <<>> /\ Len(c.answers) = 0
      /\ Worst(c) <= MostSpent /\ c.how = "open" /\ c.charged = 0 /\ c.turns > 0
  BY <1>1, EmptySeq DEF Coroutine, CallInv, TurnsAreFunded, AttemptsFollow, MeterFollows
<1>5. PICK n \in Nat : n = c.spent + paid  BY <1>3, <1>4
<1>6. PICK rest \in Seq(STRING) : rest = Tail(c.todo) /\ Len(rest) = Len(c.todo) - 1
  BY <1>1, HeadTailProperties DEF Coroutine
<1>7. Len(c.todo) \in Nat /\ Len(rest) \in Nat  BY <1>1, LenProperties DEF Coroutine
<1>. DEFINE d == [c EXCEPT !.todo = rest, !.unread = TRUE, !.spent = n]
<1>8. Become(i, d)  BY <1>2, <1>3, <1>5, <1>6
<1>9. /\ d \in Coroutine /\ d.at = "nested" /\ d.how = "open" /\ d.charged = 0
      /\ d.spent = n /\ d.answers = <<>> /\ d.todo = rest /\ d.turns > 0
  BY <1>1, <1>4 DEF Coroutine
<1>. HIDE DEF d
<1>10. Worst(d) <= MostSpent /\ n <= MostSpent
  <2>1. c.spent + Max(Costs) * Len(c.todo) <= MostSpent  BY <1>4 DEF Worst
  <2>2. PICK y \in Nat : y = Max(Costs) * Len(rest)
    <3>1. \A m, k \in Nat : m * k \in Nat  OBVIOUS
    <3>. QED  BY <1>7, <3>1, Bounds
  <2>3. Max(Costs) * Len(c.todo) = y + Max(Costs)
    <3>1. \A m, k, l \in Nat : k = l - 1 => m * l = m * k + m  OBVIOUS
    <3>. QED  BY <1>6, <1>7, <2>2, <3>1, Bounds
  <2>4. c.spent + (y + Max(Costs)) <= MostSpent  BY <2>1, <2>3
  <2>5. n + y <= MostSpent /\ n <= MostSpent
    <3>1. \A s, q, z, m, b \in Nat : q <= m /\ s + (z + m) <= b => (s + q) + z <= b /\ s + q <= b
      OBVIOUS
    <3>2. y \in Nat /\ MostSpent \in Nat /\ Max(Costs) \in Nat  BY <2>2, Bounds
    <3>3. (c.spent + paid) + y <= MostSpent /\ c.spent + paid <= MostSpent
      BY <1>3, <1>4, <2>4, <3>1, <3>2
    <3>. QED  BY <1>5, <3>3
  <2>. QED  BY <1>9, <2>2, <2>5 DEF Worst
<1>11. AttemptsFollow(p, d)  BY <1>4, <1>9 DEF AttemptsFollow
<1>12. MeterFollows(d)  BY <1>9 DEF MeterFollows
<1>13. TurnsAreFunded(p, d)  BY <1>4, <1>9, <1>10 DEF TurnsAreFunded
<1>14. CallInv(p, d)  BY <1>9, <1>11, <1>12, <1>13 DEF CallInv
<1>. QED  BY <1>1, <1>8, <1>14, OneCall

\* The nested calls are over: the contractor ends, or has the credits for a turn.
LEMMA SettleStep ==
    ASSUME IInv, NEW i \in Calls, Settle(i)
    PROVE  IInv'
<1>. DEFINE c == call[i]
            p == Ordinary[i]
            d == [c EXCEPT !.at = "turn"]
<1>1. c \in Coroutine /\ CallInv(p, c) /\ phase = "calls" /\ c.at = "nested"
  BY DEF IInv, TypeOK, Settle, Goes
<1>2. /\ c.spent \in Nat /\ p = Contractor /\ c.answers = <<>> /\ Len(c.answers) = 0
      /\ c.spent <= MostSpent /\ c.how = "open" /\ c.charged = 0 /\ c.turns \in Nat
  BY <1>1, EmptySeq DEF Coroutine, CallInv, TurnsAreFunded, AttemptsFollow, MeterFollows
<1>3. /\ CallInv(p, Bill(c, "timeout")) /\ CallInv(p, Bill(c, "insufficient_funds"))
      /\ CallInv(p, Bill(c, "max_turns"))
  BY <1>1, <1>2, BillKeeps DEF Hows
<1>4. CASE Become(i, d) /\ ~Broke(c)
  <2>1. /\ d \in Coroutine /\ d.at = "turn" /\ d.how = "open" /\ d.charged = 0
        /\ d.spent = c.spent /\ d.answers = <<>> /\ d.turns = c.turns
    BY <1>1, <1>2 DEF Coroutine
  <2>2. c.spent <= Budget  BY <1>2, <1>4, ProcedureAssumption DEF Broke
  <2>3. c.turns # 0  BY <1>1 DEF CallInv, TurnsAreFunded
  <2>. HIDE DEF d
  <2>4. AttemptsFollow(p, d)  BY <1>2, <2>1 DEF AttemptsFollow
  <2>5. MeterFollows(d)  BY <2>1, <2>3 DEF MeterFollows
  <2>6. TurnsAreFunded(p, d)  BY <1>2, <2>1, <2>2 DEF TurnsAreFunded
  <2>7. CallInv(p, d)  BY <2>1, <2>4, <2>5, <2>6 DEF CallInv
  <2>. QED  BY <1>1, <1>4, <2>7, OneCall
<1>5. \/ Become(i, Bill(c, "timeout")) \/ Become(i, Bill(c, "insufficient_funds"))
      \/ Become(i, Bill(c, "max_turns")) \/ (Become(i, d) /\ ~Broke(c))
  BY DEF Settle
<1>. QED  BY <1>1, <1>3, <1>4, <1>5, OneCall

-----------------------------------------------------------------------------
(***************************************************************************)
(* The steps of the batch.                                                 *)
(***************************************************************************)

\* A step of the batch that leaves its requests and their coroutines alone.
LEMMA BatchStep ==
    ASSUME IInv, UNCHANGED <<batch, call>>, FoldFollows',
           phase' \in {"calls", "compact", "completed", "cancelled"},
           results' \in Seq([of : Nat, how : Hows, charged : Nat]),
           history' \in Seq([what : Whats, of : SUBSET Nat])
    PROVE  IInv'
<1>1. Ordinary' = Ordinary /\ Calls' = Calls  BY DEF Ordinary, Calls
<1>2. TypeOK'  BY <1>1 DEF IInv, TypeOK
<1>3. ASSUME NEW j \in Calls PROVE CallInv(Ordinary[j], call[j])'
  <2>1. call'[j] = call[j] /\ CallInv(Ordinary[j], call[j])  BY DEF IInv
  <2>. QED  BY <1>1, <2>1 DEF CallInv, AttemptsFollow, MeterFollows, TurnsAreFunded
<1>. QED  BY <1>1, <1>2, <1>3 DEF IInv

\* The results are gathered at their places, and folded into the history.
LEMMA GatherStep == IInv /\ Gather => IInv'
<1>. SUFFICES ASSUME IInv, Gather PROVE IInv'  OBVIOUS
<1>. DEFINE M == [what : Whats, of : SUBSET Nat]
<1>1. batch \in Batches /\ call \in [Calls -> Coroutine] /\ history \in Seq(M)
  BY DEF IInv, TypeOK
<1>2. Len(Ordinary) \in Nat /\ Calls = 1 .. Len(Ordinary)  BY <1>1, OrdinaryIsSeq
<1>3. PICK report \in {<<>>, <<Message("report", {})>>} : history' = history \o report \o Folded
  BY DEF Gather
<1>4. results' = [i \in Calls |-> Result(i)] /\ results' \in Seq([of : Nat, how : Hows, charged : Nat])
  <2>1. \A i \in Calls : Result(i) \in [of : Nat, how : Hows, charged : Nat]
    BY <1>1, <1>2 DEF Result, Coroutine
  <2>. QED  BY <1>2, <2>1 DEF Gather
<1>5. report \in Seq(M) /\ \A k \in 1 .. Len(report) : report[k].of = {}
  <2>1. Message("report", {}) \in M /\ Message("report", {}).of = {}  BY DEF Message, Whats
  <2>2. CASE report = <<>>  BY <2>2, EmptySeq
  <2>3. CASE report = <<Message("report", {})>>
    <3>1. \A m \in M : <<m>> \in Seq(M) /\ Len(<<m>>) = 1 /\ <<m>>[1] = m  OBVIOUS
    <3>. HIDE DEF M
    <3>. QED  BY <2>1, <2>3, <3>1
  <2>. QED  BY <2>2, <2>3
<1>6. /\ Folded \in Seq(M) /\ Len(Folded) = Len(Ordinary)
      /\ \A k \in 1 .. Len(Ordinary) : Folded[k].of = {k}
  <2>1. \A k \in Calls : Message("result", {k}) \in M /\ Message("result", {k}).of = {k}
    BY <1>2 DEF Message, Whats
  <2>. QED  BY <1>2, <2>1 DEF Folded
<1>. HIDE DEF M
<1>7. /\ history' \in Seq(M)
      /\ Len(history') = Len(history) + Len(report) + Len(Ordinary)
      /\ \A k \in 1 .. Len(history) : history'[k] = history[k]
      /\ \A k \in 1 .. Len(report) : history'[Len(history) + k] = report[k]
      /\ \A k \in 1 .. Len(Ordinary) : history'[Len(history) + Len(report) + k] = Folded[k]
  <2>. DEFINE s == history \o report
  <2>1. /\ s \in Seq(M) /\ Len(s) = Len(history) + Len(report)
        /\ \A k \in 1 .. Len(history) + Len(report) :
              s[k] = IF k <= Len(history) THEN history[k] ELSE report[k - Len(history)]
    BY <1>1, <1>5, ConcatProperties
  <2>2. /\ Len(history) \in Nat /\ Len(report) \in Nat /\ Len(s) \in Nat
    BY <1>1, <1>5, <2>1, LenProperties
  <2>. HIDE DEF s
  <2>3. /\ s \o Folded \in Seq(M) /\ Len(s \o Folded) = Len(s) + Len(Folded)
        /\ \A k \in 1 .. Len(s) + Len(Folded) :
              (s \o Folded)[k] = IF k <= Len(s) THEN s[k] ELSE Folded[k - Len(s)]
    <3>1. s \in Seq(M) /\ Folded \in Seq(M)  BY <1>6, <2>1
    <3>. QED  BY <3>1, ConcatProperties, Zenon
  <2>4. history' = s \o Folded  BY <1>3 DEF s
  <2>5. \A k \in 1 .. Len(history) : s[k] = history[k]  BY <2>1, <2>2
  <2>6. \A k \in 1 .. Len(report) : s[Len(history) + k] = report[k]  BY <2>1, <2>2
  <2>7. \A k \in 1 .. Len(s) : history'[k] = s[k]  BY <1>2, <1>6, <2>2, <2>3, <2>4
  <2>8. \A k \in 1 .. Len(Ordinary) : history'[Len(s) + k] = Folded[k]
    BY <1>2, <1>6, <2>2, <2>3, <2>4
  <2>9. \A k \in 1 .. Len(history) : k \in 1 .. Len(s)  BY <2>1, <2>2
  <2>10. \A k \in 1 .. Len(report) : Len(history) + k \in 1 .. Len(s)  BY <2>1, <2>2
  <2>. QED  BY <1>2, <1>6, <2>1, <2>2, <2>3, <2>4, <2>5, <2>6, <2>7, <2>8, <2>9, <2>10
<1>8. Held = {} /\ Len(history) >= 2 /\ Len(history) \in Nat /\ Len(report) \in Nat
  BY <1>1, <1>5, LenProperties DEF IInv, FoldFollows, Gather
<1>9. Held' = Calls
  <2>1. DOMAIN history' = 1 .. Len(history')  BY <1>7, LenProperties
  <2>2. DOMAIN history = 1 .. Len(history)  BY <1>1, LenProperties
  <2>3. ASSUME NEW k \in DOMAIN history', NEW x \in history'[k].of PROVE x \in Calls
    <3>1. CASE k <= Len(history)
      <4>1. k \in DOMAIN history /\ x \in history[k].of  BY <1>7, <1>8, <2>1, <2>2, <2>3, <3>1
      <4>. QED  BY <1>8, <4>1 DEF Held
    <3>2. CASE k > Len(history) /\ k <= Len(history) + Len(report)
      <4>1. PICK j \in 1 .. Len(report) : k = Len(history) + j
        <5>1. k - Len(history) \in 1 .. Len(report) /\ k = Len(history) + (k - Len(history))
          BY <1>8, <2>1, <3>2
        <5>. QED  BY <5>1
      <4>. QED  BY <1>5, <1>7, <2>3, <4>1
    <3>3. CASE k > Len(history) + Len(report)
      <4>. DEFINE j == k - (Len(history) + Len(report))
      <4>1. j \in 1 .. Len(Ordinary) /\ k = Len(history) + Len(report) + j
        BY <1>2, <1>7, <1>8, <2>1, <3>3
      <4>. QED  BY <1>2, <1>6, <1>7, <2>3, <4>1
    <3>. QED  BY <1>7, <1>8, <2>1, <3>1, <3>2, <3>3
  <2>4. ASSUME NEW x \in Calls PROVE x \in Held'
    <3>1. Len(history) + Len(report) + x \in DOMAIN history'  BY <1>2, <1>7, <1>8, <2>1
    <3>2. history'[Len(history) + Len(report) + x].of = {x}  BY <1>2, <1>6, <1>7
    <3>. QED  BY <3>1, <3>2 DEF Held
  <2>. QED  BY <2>3, <2>4 DEF Held
<1>10. Len(results') = Len(Ordinary)  BY <1>2, <1>4
<1>11. FoldFollows'
  <2>1. Ordinary' = Ordinary /\ Calls' = Calls /\ Compacts' = Compacts
    BY DEF Gather, Ordinary, Calls, Compacts
  <2>2. Len(history') >= 2 /\ history'[1] = Prefix[1] /\ history'[2] = Prefix[2]
    BY <1>2, <1>7, <1>8 DEF IInv, FoldFollows
  <2>3. \A i \in Calls : call'[i].at = "ended" /\ results'[i] = Result(i)'
    BY <1>4 DEF Gather, Result
  <2>. QED  BY <1>9, <1>10, <2>1, <2>2, <2>3 DEF FoldFollows, Gather
<1>. QED  BY <1>4, <1>7, <1>11, BatchStep DEF Gather, M

\* A summary takes the place of what it holds.
LEMMA CompactionStep == IInv /\ Compaction => IInv'
<1>. SUFFICES ASSUME IInv, Compaction PROVE IInv'  OBVIOUS
<1>. DEFINE M == [what : Whats, of : SUBSET Nat]
            R == [of : Nat, how : Hows, charged : Nat]
<1>1. PICK made \in BOOLEAN, cost \in Costs :
         /\ results' = Append(results, Summarized(made, cost))
         /\ history' = IF made THEN Rewritten ELSE history
  BY DEF Compaction
<1>2. /\ batch \in Batches /\ results \in Seq(R) /\ history \in Seq(M) /\ Held = Calls
      /\ Len(results) = Len(Ordinary) /\ phase = "compact" /\ phase' = "completed"
      /\ Compacts /\ UNCHANGED <<batch, call>>
  BY DEF IInv, TypeOK, FoldFollows, Compaction
<1>3. Len(Ordinary) \in Nat /\ Calls = 1 .. Len(Ordinary)  BY <1>2, OrdinaryIsSeq
<1>4. /\ results' \in Seq(R) /\ Len(results') = Len(results) + 1
      /\ \A k \in 1 .. Len(results) : results'[k] = results[k]
  <2>1. Summarized(made, cost) \in R  BY Bounds DEF Summarized, Hows
  <2>. HIDE DEF R
  <2>. QED  BY <1>1, <1>2, <2>1, AppendProperties
<1>5. history' \in Seq(M) /\ Held' = Calls /\ Len(history') >= 2
      /\ history'[1] = Prefix[1] /\ history'[2] = Prefix[2]
  <2>1. CASE made
    <3>. DEFINE a == Message("system", {})
                b == Message("task", {})
                c == Message("summary", Held)
    <3>1. Rewritten = <<a, b>> \o <<c>>  BY DEF Rewritten, Prefix, Held
    <3>2. /\ a \in M /\ b \in M /\ c \in M
          /\ a.of = {} /\ b.of = {} /\ c.of = Calls
          /\ Prefix[1] = a /\ Prefix[2] = b
      BY <1>2, <1>3 DEF Message, Prefix, Whats
    <3>. HIDE DEF M, a, b, c
    <3>3. <<a, b>> \in Seq(M) /\ <<c>> \in Seq(M)  BY <3>2
    <3>4. /\ Rewritten \in Seq(M) /\ Len(Rewritten) = 3
          /\ Rewritten[1] = a /\ Rewritten[2] = b /\ Rewritten[3] = c
      BY <3>1, <3>3, ConcatProperties
    <3>5. history' = Rewritten /\ DOMAIN history' = 1 .. 3
      BY <1>1, <2>1, <3>4, LenProperties
    <3>6. \A k \in 1 .. 3 : k = 1 \/ k = 2 \/ k = 3  OBVIOUS
    <3>7. Held' = Calls  BY <3>2, <3>4, <3>5, <3>6 DEF Held
    <3>8. /\ Len(history') = 3 /\ history'[1] = a /\ history'[2] = b /\ history' \in Seq(M)
      BY <3>4, <3>5
    <3>. QED  BY <3>2, <3>7, <3>8
  <2>2. CASE ~made
    <3>1. history' = history  BY <1>1, <2>2
    <3>. QED  BY <1>2, <3>1 DEF Held, IInv, FoldFollows
  <2>. QED  BY <2>1, <2>2
<1>6. FoldFollows'
  <2>1. Ordinary' = Ordinary /\ Calls' = Calls /\ Compacts' = Compacts
    BY <1>2 DEF Ordinary, Calls, Compacts
  <2>2. \A i \in Calls : call'[i].at = "ended" /\ results'[i] = Result(i)'
    BY <1>2, <1>3, <1>4 DEF IInv, FoldFollows, Result
  <2>3. Len(results') = Len(Ordinary) + 1  BY <1>2, <1>4
  <2>. QED  BY <1>2, <1>5, <2>1, <2>2, <2>3 DEF FoldFollows
<1>. QED  BY <1>2, <1>4, <1>5, <1>6, BatchStep

-----------------------------------------------------------------------------
(***************************************************************************)
(* The theorems.                                                           *)
(***************************************************************************)

LEMMA NextStep == IInv /\ [Next]_vars => IInv'
<1>. SUFFICES ASSUME IInv, [Next]_vars PROVE IInv'  OBVIOUS
<1>1. ASSUME NEW i \in Calls, Goer(i) \/ Answer(i) \/ Unready(i) \/ Break(i) PROVE IInv'
  BY <1>1, SendStep, AnswerStep, TurnStep, ReplyStep, NestedStep, SettleStep DEF Goer
<1>2. CASE Gather  BY <1>2, GatherStep
<1>3. CASE Compaction  BY <1>3, CompactionStep
<1>4. CASE Cancel
  <2>1. FoldFollows'
    BY <1>4 DEF Cancel, IInv, FoldFollows, Held
  <2>. QED  BY <1>4, <2>1, BatchStep DEF Cancel, IInv, TypeOK
<1>5. CASE UNCHANGED vars
  <2>1. Ordinary' = Ordinary /\ Calls' = Calls /\ Compacts' = Compacts
    BY <1>5 DEF vars, Ordinary, Calls, Compacts
  <2>2. FoldFollows'  BY <1>5, <2>1 DEF vars, IInv, FoldFollows, Held, Result
  <2>. QED  BY <1>5, <2>2, BatchStep DEF vars, IInv, TypeOK
<1>. QED  BY <1>1, <1>2, <1>3, <1>4, <1>5 DEF Next, Over

\* The inductive invariant holds for any batch of requests.
THEOREM Invariant == Spec => []IInv
BY InitInvariant, NextStep, PTL DEF Spec

\* Whatever the providers answer and whenever they hang, a call is made again only
\* after an answer that said nothing was done, of an idempotent procedure, and once.
THEOREM RetriesAreSafe == Spec => []RepeatsAreSafe
<1>1. IInv => RepeatsAreSafe
  <2>. SUFFICES ASSUME IInv, NEW i \in Calls, 
                       Len(call[i].answers) + (IF call[i].at = "sent" THEN 1 ELSE 0) > 1
                PROVE  /\ Len(call[i].answers) <= 2 /\ Ordinary[i] \in Idempotent
                       /\ call[i].answers[1].retryable /\ ~call[i].answers[1].data
    BY DEF RepeatsAreSafe
  <2>1. Len(call[i].answers) \in Nat  BY LenProperties DEF IInv, CallInv, Coroutine
  <2>2. AttemptsFollow(Ordinary[i], call[i])  BY DEF IInv, CallInv
  <2>. QED  BY <2>1, <2>2 DEF AttemptsFollow
<1>. QED  BY <1>1, Invariant, PTL

\* However the calls interleave, a completed batch has the result of each request at
\* its place, and its history holds them all.
THEOREM BatchesAreWhole == Spec => []BatchIsWhole
<1>1. IInv => BatchIsWhole
  <2>. SUFFICES ASSUME IInv, phase = "completed" PROVE BatchIsWhole  BY DEF BatchIsWhole
  <2>1. ASSUME NEW i \in Calls PROVE results[i].of = i /\ results[i].how # "open"
    <3>1. call[i].at = "ended" /\ results[i] = Result(i)  BY DEF IInv, FoldFollows
    <3>2. call[i].how # "open"  BY <3>1 DEF IInv, CallInv, MeterFollows
    <3>. QED  BY <3>1, <3>2 DEF Result
  <2>2. SubSeq(history, 1, 2) = Prefix
    <3>. DEFINE S == {history[1], history[2]}
    <3>1. Len(history) \in Nat /\ history \in Seq([what : Whats, of : SUBSET Nat])
      BY LenProperties DEF IInv, TypeOK
    <3>2. /\ SubSeq(history, 1, 2) \in Seq(S) /\ Len(SubSeq(history, 1, 2)) = 2
          /\ \A k \in 1 .. 2 : SubSeq(history, 1, 2)[k] = history[k]
      <4>1. \A k \in 1 .. 2 : history[k] \in S
        <5>1. \A k \in 1 .. 2 : k = 1 \/ k = 2  OBVIOUS
        <5>. QED  BY <5>1
      <4>. HIDE DEF S
      <4>2. /\ SubSeq(history, 1, 2) \in Seq(S) /\ Len(SubSeq(history, 1, 2)) = 2 - 1 + 1
            /\ \A k \in 1 .. 2 - 1 + 1 : SubSeq(history, 1, 2)[k] = history[1 + k - 1]
        BY <4>1, SubSeqProperties
      <4>. QED  BY <4>2
    <3>3. history[1] = Prefix[1] /\ history[2] = Prefix[2]  BY DEF IInv, FoldFollows
    <3>4. Prefix = <<history[1], history[2]>>  BY <3>3 DEF Prefix
    <3>5. Prefix \in Seq(S) /\ Len(Prefix) = 2
      <4>1. \A x, y : <<x, y>> \in Seq({x, y}) /\ Len(<<x, y>>) = 2  OBVIOUS
      <4>. QED  BY <3>4, <4>1
    <3>6. \A k \in 1 .. 2 : SubSeq(history, 1, 2)[k] = Prefix[k]
      <4>1. \A k \in 1 .. 2 : k = 1 \/ k = 2  BY <3>2
      <4>. QED  BY <3>2, <3>3, <4>1
    <3>. HIDE DEF S
    <3>. QED  BY <3>2, <3>5, <3>6, SeqEqual
  <2>3. Held = Calls /\ Len(results) = Len(Ordinary) + (IF Compacts THEN 1 ELSE 0)
    BY DEF IInv, FoldFollows
  <2>. QED  BY <2>1, <2>2, <2>3 DEF BatchIsWhole, Held
<1>. QED  BY <1>1, Invariant, PTL

\* A completed batch charges what its calls have declared, never more, and less only
\* for a call that was repeated or whose outcome is unknown.
THEOREM ChargesAreSpent == Spec => []ChargedIsSpent
<1>1. IInv => ChargedIsSpent
  <2>. SUFFICES ASSUME IInv, phase = "completed", NEW i \in Calls
                PROVE  LET c == call[i] IN
                       /\ results[i].charged <= c.spent
                       /\ c.how \notin {"raised", "procedure_timeout", "provider_contract_invalid"}
                            /\ Len(c.answers) <= 1 => results[i].charged = c.spent
    BY DEF ChargedIsSpent
  <2>1. call[i].at = "ended" /\ results[i].charged = call[i].charged
    <3>1. call[i].at = "ended" /\ results[i] = Result(i)  BY DEF IInv, FoldFollows
    <3>. QED  BY <3>1 DEF Result
  <2>2. MeterFollows(call[i])  BY DEF IInv, CallInv
  <2>. QED  BY <2>1, <2>2 DEF MeterFollows
<1>. QED  BY <1>1, Invariant, PTL

\* A contractor, however it is stopped, has spent at most one turn, or the procedures
\* of one turn, beyond its budget, and returns nothing it has not read.
THEOREM ContractorIsBounded == Spec => []ContractorBound
<1>1. IInv => ContractorBound
  BY DEF IInv, ContractorBound, OverspendIsOneStep, CutOffIsSaid, CallInv, TurnsAreFunded,
         MostSpent, MostAsked
<1>. QED  BY <1>1, Invariant, PTL

-----------------------------------------------------------------------------
(***************************************************************************)
(* Every call comes to an end.                                             *)
(***************************************************************************)

\* A call that ends, billed or not, is nearer to its end.
LEMMA EndIsNearer ==
    ASSUME NEW c \in Coroutine, c.at # "ended", Counted(c), Len(c.answers) <= 1 \/ c.at # "sent",
           NEW d \in Coroutine, d.at = "ended", d.turns = c.turns
    PROVE  Nearer(c, d) /\ Counted(d)
<1>1. /\ Len(c.todo) \in Nat /\ Len(c.answers) \in Nat /\ c.turns \in Nat
      /\ c.at \in {"new", "sent", "turn", "asked", "nested"}
  BY LenProperties DEF Coroutine
<1>2. MostAsked \in Nat  BY Bounds
<1>3. StepsLeft(d) = 0 /\ StepsLeft(c) > 0  BY <1>1, <1>2 DEF StepsLeft
<1>. QED  BY <1>1, <1>3 DEF Nearer, Counted

\* Ending a call leaves its turns.
LEMMA EndedIs ==
    ASSUME NEW c \in Coroutine, NEW how \in Hows
    PROVE  /\ End(c, how) \in Coroutine /\ End(c, how).at = "ended" /\ End(c, how).turns = c.turns
           /\ Bill(c, how) \in Coroutine /\ Bill(c, how).at = "ended" /\ Bill(c, how).turns = c.turns
BY DEF End, Bill, Coroutine

LEMMA CallIsNearer ==
    ASSUME IInv, NEW i \in Calls, Counted(call[i]),
           Goer(i) \/ Answer(i) \/ Unready(i) \/ Break(i)
    PROVE  \E d : Become(i, d) /\ Nearer(call[i], d) /\ Counted(d)
<1>. DEFINE c == call[i]
            p == Ordinary[i]
<1>1. c \in Coroutine /\ CallInv(p, c)  BY DEF IInv, TypeOK
<1>2. c.turns \in Nat /\ Len(c.answers) \in Nat /\ Len(c.todo) \in Nat
  BY <1>1, LenProperties DEF Coroutine
<1>3. Len(c.answers) <= 1 \/ c.at # "sent"  BY <1>1 DEF CallInv, AttemptsFollow
<1>4. c.turns <= MaxTurns /\ (c.at \in {"new", "turn"} => c.turns < MaxTurns)  BY DEF Counted
<1>5. ASSUME NEW e \in Coroutine, c.at # "ended", NEW how \in Hows, e.turns = c.turns
      PROVE  /\ Nearer(c, End(e, how)) /\ Counted(End(e, how))
             /\ Nearer(c, Bill(e, how)) /\ Counted(Bill(e, how))
  <2>1. /\ End(e, how) \in Coroutine /\ End(e, how).at = "ended" /\ End(e, how).turns = c.turns
        /\ Bill(e, how) \in Coroutine /\ Bill(e, how).at = "ended" /\ Bill(e, how).turns = c.turns
    BY <1>5, EndedIs
  <2>. QED  BY <1>1, <1>3, <1>5, <2>1, EndIsNearer
<1>6. ASSUME c.at # "ended", NEW how \in Hows, Become(i, End(c, how)) \/ Become(i, Bill(c, how))
      PROVE  \E d : Become(i, d) /\ Nearer(c, d) /\ Counted(d)
  BY <1>1, <1>5, <1>6
<1>7. CASE Refuse(i)
  <2>1. c.at = "new" /\ Refusal(p) \in Hows /\ Become(i, End(c, Refusal(p)))
    BY <1>7 DEF Refuse, Refusal, Goes, Hows
  <2>. QED  BY <1>6, <2>1
<1>8. CASE Send(i)
  <2>. DEFINE at == IF p = Contractor THEN "turn" ELSE "sent"
              d == [c EXCEPT !.at = at]
  <2>1. c.at = "new" /\ (Become(i, End(c, "invalid_arguments")) \/ Become(i, d))
    BY <1>8 DEF Send, Goes
  <2>2. /\ d.at \in {"turn", "sent"} /\ d.answers = c.answers /\ d.turns = c.turns
    BY <1>1 DEF Coroutine
  <2>3. "invalid_arguments" \in Hows  BY DEF Hows
  <2>. HIDE DEF d
  <2>4. StepsLeft(c) = 3  BY <2>1 DEF StepsLeft
  <2>5. StepsLeft(d) \in Nat /\ StepsLeft(d) < 3
    <3>1. c.answers = <<>>  BY <1>1, <2>1 DEF CallInv, AttemptsFollow
    <3>2. Len(c.answers) = 0  BY <3>1, EmptySeq
    <3>. QED  BY <2>2, <3>2 DEF StepsLeft
  <2>6. Nearer(c, d) /\ Counted(d)  BY <1>2, <1>4, <2>1, <2>2, <2>4, <2>5 DEF Nearer, Counted
  <2>. QED  BY <1>6, <2>1, <2>3, <2>6
<1>9. CASE Expire(i)
  <2>1. c.at = "sent" /\ Become(i, End(c, "procedure_timeout"))  BY <1>9 DEF Expire, Goes
  <2>. QED  BY <1>6, <2>1 DEF Hows
<1>10. CASE RunOut(i)
  <2>1. c.at = "turn" /\ Become(i, Bill(c, "timeout"))  BY <1>10 DEF RunOut, Goes
  <2>. QED  BY <1>6, <2>1 DEF Hows
<1>11. CASE Ask(i)
  <2>. DEFINE d == [c EXCEPT !.at = "asked", !.turns = @ + 1, !.unread = FALSE]
  <2>1. c.at = "turn" /\ Become(i, d)  BY <1>11 DEF Ask, Goes
  <2>2. d.at = "asked" /\ d.turns = c.turns + 1  BY <1>1 DEF Coroutine
  <2>. HIDE DEF d
  <2>3. c.turns + 1 <= MaxTurns  BY <1>2, <1>4, <2>1, ProcedureAssumption
  <2>. QED  BY <2>1, <2>2, <2>3 DEF Nearer, Counted
<1>12. CASE Reply(i)
  <2>1. PICK cost \in Costs, fails \in BOOLEAN, asks \in NestedAsks :
         LET e == [c EXCEPT !.spent = @ + cost]
         IN Become(i, IF fails THEN Bill(e, "failed")
                      ELSE IF Broke(e) THEN Bill(e, "insufficient_funds")
                      ELSE IF asks = <<>> THEN Bill(e, "returned")
                      ELSE [e EXCEPT !.at = "nested", !.todo = asks])
    BY <1>12 DEF Reply
  <2>. DEFINE e == [c EXCEPT !.spent = @ + cost]
              d == [e EXCEPT !.at = "nested", !.todo = asks]
  <2>2. c.at = "asked"  BY <1>12 DEF Reply, Goes
  <2>3. e \in Coroutine /\ e.turns = c.turns
    <3>1. PICK n \in Nat : n = c.spent + cost  BY <1>1, Bounds DEF Coroutine
    <3>2. e = [c EXCEPT !.spent = n]  BY <3>1
    <3>. HIDE DEF e
    <3>. QED  BY <1>1, <3>2 DEF Coroutine
  <2>. HIDE DEF e
  <2>4. d.at = "nested" /\ d.todo = asks /\ d.turns = c.turns  BY <2>3 DEF Coroutine
  <2>. HIDE DEF d
  <2>5. \/ Become(i, Bill(e, "failed")) \/ Become(i, Bill(e, "insufficient_funds"))
        \/ Become(i, Bill(e, "returned")) \/ Become(i, d)
    BY <2>1 DEF e, d
  <2>6. Len(asks) \in Nat /\ Len(asks) <= MostAsked /\ MostAsked \in Nat
    BY Bounds, LenProperties
  <2>7. StepsLeft(c) = MostAsked + 3 /\ StepsLeft(d) = 2 + Len(asks)
    BY <2>2, <2>4 DEF StepsLeft
  <2>8. Nearer(c, d) /\ Counted(d)  BY <1>2, <1>4, <2>4, <2>6, <2>7 DEF Nearer, Counted
  <2>9. /\ Nearer(c, Bill(e, "failed")) /\ Counted(Bill(e, "failed"))
        /\ Nearer(c, Bill(e, "insufficient_funds")) /\ Counted(Bill(e, "insufficient_funds"))
        /\ Nearer(c, Bill(e, "returned")) /\ Counted(Bill(e, "returned"))
    <3>1. {"failed", "insufficient_funds", "returned"} \subseteq Hows  BY DEF Hows
    <3>. QED  BY <1>5, <2>2, <2>3, <3>1
  <2>. QED  BY <2>5, <2>8, <2>9
<1>13. CASE Break(i)
  <2>1. c.at = "asked" /\ Become(i, End(c, "raised"))  BY <1>13 DEF Break, Goes
  <2>. QED  BY <1>6, <2>1 DEF Hows
<1>14. CASE Nested(i)
  <2>1. c.at = "nested" /\ c.todo # <<>>  BY <1>14 DEF Nested, Goes
  <2>2. PICK spent : Become(i, [c EXCEPT !.todo = Tail(c.todo), !.unread = TRUE, !.spent = spent])
    BY <1>14 DEF Nested
  <2>. DEFINE d == [c EXCEPT !.todo = Tail(c.todo), !.unread = TRUE, !.spent = spent]
  <2>3. d.at = c.at /\ d.todo = Tail(c.todo) /\ d.turns = c.turns  BY <1>1 DEF Coroutine
  <2>. HIDE DEF d
  <2>4. Len(Tail(c.todo)) = Len(c.todo) - 1 /\ Len(Tail(c.todo)) \in Nat
    BY <1>1, <2>1, HeadTailProperties, LenProperties DEF Coroutine
  <2>5. StepsLeft(c) = 2 + Len(c.todo) /\ StepsLeft(d) = 2 + Len(Tail(c.todo))
    BY <2>1, <2>3 DEF StepsLeft
  <2>6. Nearer(c, d) /\ Counted(d)  BY <1>2, <1>4, <2>1, <2>3, <2>4, <2>5 DEF Nearer, Counted
  <2>. QED  BY <2>2, <2>6 DEF d
<1>15. CASE Settle(i)
  <2>. DEFINE d == [c EXCEPT !.at = "turn"]
  <2>1. /\ c.at = "nested"
        /\ \/ Become(i, Bill(c, "insufficient_funds")) \/ Become(i, Bill(c, "timeout"))
           \/ Become(i, Bill(c, "max_turns")) \/ (c.turns # MaxTurns /\ Become(i, d))
    BY <1>15 DEF Settle, Goes
  <2>2. d.at = "turn" /\ d.turns = c.turns  BY <1>1 DEF Coroutine
  <2>3. {"insufficient_funds", "timeout", "max_turns"} \subseteq Hows  BY DEF Hows
  <2>. HIDE DEF d
  <2>4. CASE c.turns # MaxTurns /\ Become(i, d)
    <3>1. StepsLeft(c) = 2 + Len(c.todo) /\ StepsLeft(d) = 1  BY <2>1, <2>2 DEF StepsLeft
    <3>2. Nearer(c, d) /\ Counted(d)
      BY <1>2, <1>4, <2>2, <2>4, <3>1, ProcedureAssumption DEF Nearer, Counted
    <3>. QED  BY <2>4, <3>2
  <2>. QED  BY <1>6, <2>1, <2>3, <2>4
<1>16. CASE Unready(i)
  <2>1. c.at = "turn" /\ Become(i, End(c, "failed"))  BY <1>16 DEF Unready, Goes
  <2>. QED  BY <1>6, <2>1 DEF Hows
<1>17. CASE Answer(i)
  <2>1. c.at = "sent"  BY <1>17 DEF Answer, Goes
  <2>2. PICK how \in {"ok", "failed", "raised", "provider_contract_invalid"},
             answer \in Answers, cost \in Costs :
             Become(i, IF MayRetry(i, answer) THEN Answered(c, answer, cost)
                       ELSE Concluded(Answered(c, answer, cost), how, cost))
    BY <1>17 DEF Answer
  <2>. DEFINE d == Answered(c, answer, cost)
              e == Concluded(d, how, cost)
  <2>3. /\ d \in Coroutine /\ d.at = "sent" /\ d.turns = c.turns
        /\ Len(d.answers) = Len(c.answers) + 1
    <3>1. PICK n \in Nat : n = c.spent + cost  BY <1>1, Bounds DEF Coroutine
    <3>2. c.answers \in Seq(Answers) /\ answer \in Answers  BY <1>1 DEF Coroutine
    <3>3. /\ Append(c.answers, answer) \in Seq(Answers)
          /\ Len(Append(c.answers, answer)) = Len(c.answers) + 1
      BY <3>2, AppendProperties
    <3>4. PICK more \in Seq(Answers) : more = Append(c.answers, answer) /\ Len(more) = Len(c.answers) + 1
      BY <3>3
    <3>5. d = [c EXCEPT !.answers = more, !.spent = n]  BY <3>1, <3>4 DEF Answered
    <3>. HIDE DEF d
    <3>. QED  BY <1>1, <2>1, <3>4, <3>5 DEF Coroutine
  <2>. HIDE DEF d
  <2>4. e \in Coroutine /\ e.at = "ended" /\ e.turns = c.turns
    <3>1. how \in Hows /\ cost \in Nat  BY Bounds DEF Hows
    <3>2. PICK k \in Nat : e = [End(d, how) EXCEPT !.charged = k]  BY <3>1 DEF Concluded
    <3>3. End(d, how) \in Coroutine /\ End(d, how).at = "ended" /\ End(d, how).turns = d.turns
      BY <2>3, <3>1, EndedIs
    <3>. HIDE DEF e
    <3>. QED  BY <2>3, <3>2, <3>3 DEF Coroutine
  <2>5. Nearer(c, e) /\ Counted(e)
    <3>. HIDE DEF e
    <3>. QED  BY <1>1, <1>3, <2>1, <2>4, EndIsNearer
  <2>6. CASE MayRetry(i, answer)
    <3>1. Len(c.answers) = 0  BY <2>6 DEF MayRetry
    <3>2. StepsLeft(c) = 2 /\ StepsLeft(d) = 1  BY <2>1, <2>3, <3>1 DEF StepsLeft
    <3>3. Nearer(c, d) /\ Counted(d)  BY <1>2, <1>4, <2>1, <2>3, <3>2 DEF Nearer, Counted
    <3>4. Become(i, d)  BY <2>2, <2>6 DEF d
    <3>. QED  BY <3>3, <3>4
  <2>7. CASE ~MayRetry(i, answer)
    <3>1. Become(i, e)  BY <2>2, <2>7 DEF d
    <3>. HIDE DEF e
    <3>. QED  BY <2>5, <3>1
  <2>. QED  BY <2>6, <2>7
<1>. QED
  BY <1>7, <1>8, <1>9, <1>10, <1>11, <1>12, <1>13, <1>14, <1>15, <1>16, <1>17 DEF Goer

LEMMA StepIsNearer ==
    IInv /\ TurnsAreCounted /\ [Next]_vars =>
        /\ TurnsAreCounted'
        /\ \A i \in Calls : call'[i] # call[i] => Nearer(call[i], call'[i])
<1>. SUFFICES ASSUME IInv, TurnsAreCounted, [Next]_vars
              PROVE  /\ TurnsAreCounted'
                     /\ \A i \in Calls : call'[i] # call[i] => Nearer(call[i], call'[i])
  OBVIOUS
<1>1. ASSUME NEW i \in Calls, Goer(i) \/ Answer(i) \/ Unready(i) \/ Break(i)
      PROVE  /\ TurnsAreCounted'
             /\ \A j \in Calls : call'[j] # call[j] => Nearer(call[j], call'[j])
  <2>1. PICK d : Become(i, d) /\ Nearer(call[i], d) /\ Counted(d)
    BY <1>1, CallIsNearer DEF TurnsAreCounted
  <2>2. Calls' = Calls  BY <2>1 DEF Become, Calls, Ordinary
  <2>3. \A j \in Calls : call'[j] = IF j = i THEN d ELSE call[j]
    BY <2>1 DEF Become, IInv, TypeOK
  <2>4. \A j \in Calls' : Counted(call'[j])  BY <2>1, <2>2, <2>3 DEF TurnsAreCounted
  <2>5. TurnsAreCounted'  BY <2>4 DEF TurnsAreCounted, Counted
  <2>. QED  BY <2>1, <2>3, <2>5
<1>2. ASSUME batch' = batch, call' = call
      PROVE  /\ TurnsAreCounted'
             /\ \A j \in Calls : call'[j] # call[j] => Nearer(call[j], call'[j])
  <2>1. Calls' = Calls  BY <1>2 DEF Calls, Ordinary
  <2>. QED  BY <1>2, <2>1 DEF TurnsAreCounted, Counted
<1>3. (Gather \/ Compaction \/ Cancel \/ Over \/ UNCHANGED vars) => batch' = batch /\ call' = call
  BY DEF Gather, Compaction, Cancel, Over, vars
<1>. QED  BY <1>1, <1>2, <1>3 DEF Next

\* Whatever providers and models answer, each step of a call brings it nearer to its
\* end: a contractor has MaxTurns turns, a turn what it asked for, a call two attempts.
THEOREM CallsFinish == Spec => CallsComeToAnEnd
<1>1. Init => TurnsAreCounted
  BY ProcedureAssumption DEF Init, Unsent, TurnsAreCounted, Counted
<1>2. Spec => []TurnsAreCounted
  BY <1>1, StepIsNearer, Invariant, PTL DEF Spec
<1>. QED  BY <1>2, StepIsNearer, Invariant, PTL DEF Spec, CallsComeToAnEnd
=============================================================================
