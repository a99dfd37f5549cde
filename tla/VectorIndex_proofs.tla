-------------------------- MODULE VectorIndex_proofs --------------------------
(***************************************************************************)
(* Proofs about the vector index, for any lessons, commands and models and *)
(* any number of failing calls and restarts.                               *)
(***************************************************************************)
EXTENDS VectorIndex, FiniteSetTheorems, TLAPS

\* The names of the callers are distinct, and there is no generation 0.
LEMMA Names ==
    /\ Task \in Callers /\ Opening \in Callers /\ Lessons \subseteq Callers
    /\ Commands \subseteq Callers /\ Lessons \subseteq Sources
    /\ Task \notin Lessons /\ Opening \notin Lessons /\ Task # Opening
    /\ Task \notin Commands /\ Opening \notin Commands /\ Lessons \cap Commands = {}
    /\ 0 \notin Gens /\ Fresh \in Locals /\ {} \in SUBSET Sources
<1>1. 0 \notin Gens
  <2>1. Cardinality(Lessons) \in Nat /\ Cardinality(Commands) \in Nat
    BY VectorAssumption, FS_CardinalityType
  <2>. QED  BY <2>1, VectorAssumption DEF Gens
<1>. QED  BY <1>1, VectorAssumption DEF Callers, Task, Opening, Sources, Fresh, Locals

\* Active is the active generation, if there is one.
LEMMA ActiveIs ==
    /\ Active = 0 <=> With("active") = {}
    /\ Active # 0 => Active \in With("active") /\ Active \in Gens
<1>1. With("active") \subseteq Gens /\ 0 \notin Gens  BY Names DEF With
<1>2. CASE With("active") = {}  BY <1>2 DEF Active
<1>3. CASE With("active") # {}
  <2>1. Active = CHOOSE g \in With("active") : TRUE  BY <1>3 DEF Active
  <2>2. Active \in With("active")  BY <1>3, <2>1
  <2>. QED  BY <1>1, <1>3, <2>2
<1>. QED  BY <1>2, <1>3

-----------------------------------------------------------------------------
(***************************************************************************)
(* What a step does to the callers that do not take it.                    *)
(***************************************************************************)

\* What was activated once is not built again, and keeps its table as long as
\* it is active.
Keeps == /\ stored \subseteq stored'
         /\ Served => Served'
         /\ \A g \in Gens : gen[g] \notin {"none", "building"} =>
               /\ gen'[g] \notin {"none", "building"}
               /\ gen'[g] = "active" => gen[g] = "active" /\ table[g] \subseteq table'[g]
\* The candidate of caller q stays one, with its table, or is failed.
KeepsOf(q) == pc[q] \in Candidate =>
                 /\ gen'[cx[q].gen] \in {gen[cx[q].gen], "failed"}
                 /\ gen'[cx[q].gen] = "building" => table'[cx[q].gen] = table[cx[q].gen]
Rests(q) == pc'[q] = pc[q] /\ cx'[q] = cx[q]

LEMMA CallerKeeps ==
    ASSUME IInv, NEW q \in Callers, Rests(q), Keeps, KeepsOf(q)
    PROVE  CallerOK(q)'
<1>. DEFINE g == cx[q].gen
<1>1. CallerOK(q) /\ pc'[q] = pc[q] /\ cx'[q] = cx[q]  BY DEF IInv, Rests
<1>2. pc[q] \in Candidate => g \in Gens /\ gen'[g] \in {"building", "failed"}
  BY <1>1 DEF CallerOK, KeepsOf
<1>3. pc[q] = "activate" /\ gen'[g] = "building" => table'[g] = cx[q].list
  BY <1>1, <1>2 DEF CallerOK, KeepsOf, Candidate
<1>4. pc[q] \in Appending => g \in Gens /\ gen'[g] \notin {"none", "building"}
  BY <1>1 DEF CallerOK, Keeps
<1>5. pc[q] \in {"document", "complete"} /\ gen'[g] = "active" => q \in table'[g]
  BY <1>1 DEF CallerOK, Keeps, Appending
<1>6. (Served => Served') /\ stored \subseteq stored'  BY DEF Keeps
<1>. QED  BY <1>1, <1>2, <1>3, <1>4, <1>5, <1>6 DEF CallerOK

\* A step of one caller keeps the invariant of the others.
LEMMA StepKeeps ==
    ASSUME IInv, NEW p \in Callers, TypeOK', GensOK', Keeps,
           \A q \in Callers \ {p} : Rests(q) /\ KeepsOf(q),
           CallerOK(p)',
           pc'[p] \in Candidate => \/ pc[p] \in Candidate /\ cx'[p].gen = cx[p].gen
                                   \/ gen[cx'[p].gen] = "none",
           \A s \in Lessons : job'[s] = "done" => job[s] = "done" \/ (Served' /\ s \in stored'),
           NothingIsMissed'
    PROVE  IInv'
<1>1. \A q \in Callers : CallerOK(q)'
  <2>. TAKE q \in Callers
  <2>1. CASE q = p  BY <2>1
  <2>2. CASE q # p  BY <2>2, CallerKeeps
  <2>. QED  BY <2>1, <2>2
<1>2. OwnersOK'
  <2>. SUFFICES ASSUME NEW q \in Callers, NEW r \in Callers, q # r,
                       pc'[q] \in Candidate, pc'[r] \in Candidate
                PROVE  cx'[q].gen # cx'[r].gen
    BY DEF OwnersOK
  <2>1. \A c \in Callers : pc[c] \in Candidate => gen[cx[c].gen] \in {"building", "failed"}
    BY DEF IInv, CallerOK
  <2>2. \A c, d \in Callers : c # d /\ pc[c] \in Candidate /\ pc[d] \in Candidate
                                 => cx[c].gen # cx[d].gen
    BY DEF IInv, OwnersOK
  <2>3. \A c \in Callers \ {p} : pc'[c] = pc[c] /\ cx'[c] = cx[c]  BY DEF Rests
  <2>4. CASE q = p
    <3>1. pc[r] \in Candidate /\ cx'[r] = cx[r]  BY <2>3, <2>4
    <3>. QED  BY <2>1, <2>2, <2>4, <3>1
  <2>5. CASE r = p
    <3>1. pc[q] \in Candidate /\ cx'[q] = cx[q]  BY <2>3, <2>5
    <3>. QED  BY <2>1, <2>2, <2>5, <3>1
  <2>6. CASE q # p /\ r # p  BY <2>2, <2>3, <2>6
  <2>. QED  BY <2>4, <2>5, <2>6
<1>3. DoneOK'  BY DEF IInv, DoneOK, Keeps
<1>. QED  BY <1>1, <1>2, <1>3 DEF IInv

\* A step that leaves the generations alone.
LEMMA SameRows ==
    ASSUME IInv, UNCHANGED <<gen, table, docs>>, stored \subseteq stored'
    PROVE  /\ GensOK' /\ Keeps /\ \A q \in Callers : KeepsOf(q)
           /\ Served' = Served /\ With("active")' = With("active")
BY DEF IInv, GensOK, Keeps, KeepsOf, Served, With

\* Generations are failed, whichever, and retired ones purged.
LEMMA DropKeeps ==
    ASSUME IInv, NEW F, NEW D \in SUBSET With("retired"), Drop(F, D), UNCHANGED <<docs, stored>>
    PROVE  /\ GensOK' /\ Keeps /\ \A q \in Callers : KeepsOf(q)
           /\ With("active")' \subseteq With("active")
           /\ Served => Served'
           /\ gen' \in [Gens -> {"none", "building", "active", "retired", "failed", "purged"}]
           /\ table' \in [Gens -> SUBSET Sources] /\ made' = made /\ retired' = retired
<1>1. \A g \in Gens : /\ gen'[g] = IF g \in F THEN "failed" ELSE IF g \in D THEN "purged" ELSE gen[g]
                      /\ table'[g] = IF g \in F \cup D THEN {} ELSE table[g]
  BY DEF Drop
<1>2. \A g \in D : g \in Gens /\ gen[g] = "retired"  BY DEF With
<1>3. /\ gen' \in [Gens -> {"none", "building", "active", "retired", "failed", "purged"}]
      /\ table' \in [Gens -> SUBSET Sources]
  BY Names DEF IInv, TypeOK, Drop
<1>4. \A g \in Gens : gen'[g] = "active" => gen[g] = "active" /\ table'[g] = table[g]  BY <1>1
<1>5. With("active")' \subseteq With("active")  BY <1>4 DEF With
<1>6. Served => Served'
  <2>. SUFFICES ASSUME NEW g \in Gens, gen[g] \in {"active", "failed"} PROVE Served'
    BY DEF Served, With
  <2>1. gen'[g] \in {"active", "failed"}  BY <1>1, <1>2
  <2>. QED  BY <2>1 DEF Served, With
<1>7. \A g \in Gens : gen'[g] \in {"none", "building"} => gen[g] = gen'[g] /\ table'[g] = table[g]
  BY <1>1
<1>8. GensOK'  BY <1>4, <1>5, <1>7 DEF IInv, GensOK, With
<1>9. Keeps  BY <1>4, <1>6, <1>7 DEF Keeps
<1>10. ASSUME NEW q \in Callers PROVE KeepsOf(q)
  <2>. SUFFICES ASSUME pc[q] \in Candidate
                PROVE  /\ gen'[cx[q].gen] \in {gen[cx[q].gen], "failed"}
                       /\ gen'[cx[q].gen] = "building" => table'[cx[q].gen] = table[cx[q].gen]
    BY DEF KeepsOf
  <2>1. cx[q].gen \in Gens /\ gen[cx[q].gen] \in {"building", "failed"}  BY DEF IInv, CallerOK
  <2>. QED  BY <1>1, <1>2, <2>1
<1>. QED  BY <1>3, <1>5, <1>6, <1>8, <1>9, <1>10 DEF Drop

\* A step of p that appends nothing, lists nothing and activates nothing misses
\* nothing, when the flag stays set, or nobody is left who needs it.
LEMMA NothingMissed ==
    ASSUME IInv, NEW p \in Callers,
           \A q \in Callers \ {p} : Rests(q),
           ~overlapped' => ~overlapped,
           \A g \in With("active")' : g \in With("active") /\ docs[g] \subseteq docs'[g],
           \A s \in Lessons : job'[s] = "done" => Claimed(s),
           p \in Lessons => /\ (pc'[p] \in {"complete", "cleanup"} \/ cx'[p].ok) => Claimed(p)
                            /\ pc'[p] \in Appending => pc[p] \in Appending /\ cx'[p].gen = cx[p].gen,
           pc'[p] \in Window => pc[p] \in Window /\ cx'[p].list = cx[p].list,
           pc'[Task] = "list" => pc[Task] = "list",
           \/ flag => flag'
           \/ ~overlapped' => \A q \in Callers : pc'[q] \notin Window \cup {"list"}
    PROVE  NothingIsMissed'
<1>. SUFFICES ASSUME ~overlapped' PROVE NothingIsMissed'  BY DEF NothingIsMissed
<1>. DEFINE Held(s) == Claimed(s) \/ pc[s] \in Appending
<1>1. \A q \in Callers \ {p} : pc'[q] = pc[q] /\ cx'[q] = cx[q]  BY DEF Rests
<1>2. /\ pc[Task] = "list" => flag
      /\ \A q \in Callers : pc[q] \in Window => flag /\ \A s \in Lessons : Held(s) => s \in cx[q].list
      /\ \A s \in Lessons :
            /\ Claimed(s) => Found(s)
            /\ pc[s] \in Appending => \A g \in With("active") : g = cx[s].gen \/ s \in docs[g]
  BY DEF IInv, NothingIsMissed
<1>3. ASSUME NEW s \in Lessons
      PROVE  /\ Claimed(s)' => Claimed(s)
             /\ pc'[s] \in Appending => pc[s] \in Appending /\ cx'[s].gen = cx[s].gen
  <2>1. s \in Callers  BY Names
  <2>2. CASE s = p  BY <2>2 DEF Claimed
  <2>3. CASE s # p  BY <1>1, <2>1, <2>3 DEF Claimed
  <2>. QED  BY <2>2, <2>3
<1>4. pc'[Task] = "list" => flag'  BY <1>2, Names
<1>5. ASSUME NEW q \in Callers, pc'[q] \in Window
      PROVE  flag' /\ \A s \in Lessons : (Claimed(s)' \/ pc'[s] \in Appending) => s \in cx'[q].list
  <2>1. pc[q] \in Window /\ cx'[q].list = cx[q].list  BY <1>1, <1>5
  <2>. QED  BY <1>2, <1>3, <1>5, <2>1
<1>6. ASSUME NEW s \in Lessons
      PROVE  /\ Claimed(s)' => Found(s)'
             /\ pc'[s] \in Appending => \A g \in With("active")' : g = cx'[s].gen \/ s \in docs'[g]
  BY <1>2, <1>3 DEF Found
<1>. QED  BY <1>4, <1>5, <1>6 DEF NothingIsMissed

\* The rows of the generations stay, or some are dropped.
RowsStep == /\ UNCHANGED docs
            /\ \/ UNCHANGED <<rows, table>> /\ stored \subseteq stored'
               \/ UNCHANGED stored /\ \E F : \E D \in SUBSET With("retired") : Drop(F, D)

LEMMA RowsKeep ==
    ASSUME IInv, RowsStep
    PROVE  /\ GensOK' /\ Keeps /\ \A q \in Callers : KeepsOf(q)
           /\ With("active")' \subseteq With("active")
           /\ Served => Served'
           /\ gen' \in [Gens -> {"none", "building", "active", "retired", "failed", "purged"}]
           /\ table' \in [Gens -> SUBSET Sources]
           /\ made' = made /\ retired' = retired /\ docs' = docs /\ stored \subseteq stored'
<1>1. CASE UNCHANGED <<rows, table, docs>> /\ stored \subseteq stored'
  <2>1. UNCHANGED <<gen, made, retired, table, docs>>  BY <1>1 DEF rows
  <2>2. /\ gen \in [Gens -> {"none", "building", "active", "retired", "failed", "purged"}]
        /\ table \in [Gens -> SUBSET Sources]
    BY DEF IInv, TypeOK
  <2>3. /\ GensOK' /\ Keeps /\ \A q \in Callers : KeepsOf(q)
        /\ Served' = Served /\ With("active")' = With("active")
    BY <1>1, <2>1, SameRows
  <2>. QED  BY <1>1, <2>1, <2>2, <2>3
<1>2. CASE UNCHANGED <<docs, stored>> /\ \E F : \E D \in SUBSET With("retired") : Drop(F, D)
  <2>1. PICK F : \E D \in SUBSET With("retired") : Drop(F, D)  BY <1>2
  <2>2. PICK D \in SUBSET With("retired") : Drop(F, D)  BY <2>1
  <2>. QED  BY <1>2, <2>2, DropKeeps
<1>. QED  BY <1>1, <1>2 DEF RowsStep

\* A step of p that appends nothing, lists nothing, makes no candidate and activates
\* nothing.
LEMMA PlainStep ==
    ASSUME IInv, NEW p \in Callers, TypeOK', RowsStep, CallerOK(p)',
           \A q \in Callers \ {p} : Rests(q),
           ~overlapped' => ~overlapped,
           \A s \in Lessons : job'[s] = "done" => Claimed(s),
           p \in Lessons => /\ (pc'[p] \in {"complete", "cleanup"} \/ cx'[p].ok) => Claimed(p)
                            /\ pc'[p] \in Appending => pc[p] \in Appending /\ cx'[p].gen = cx[p].gen,
           pc'[p] \in Candidate => pc[p] \in Candidate /\ cx'[p].gen = cx[p].gen,
           pc'[p] \in Window => pc[p] \in Window /\ cx'[p].list = cx[p].list,
           pc'[Task] = "list" => pc[Task] = "list",
           \/ flag => flag'
           \/ ~overlapped' => \A q \in Callers : pc'[q] \notin Window \cup {"list"}
    PROVE  IInv'
<1>1. /\ GensOK' /\ Keeps /\ \A q \in Callers : KeepsOf(q)
      /\ With("active")' \subseteq With("active") /\ docs' = docs /\ (Served => Served')
      /\ stored \subseteq stored'
  BY RowsKeep
<1>2. \A g \in With("active")' : g \in With("active") /\ docs[g] \subseteq docs'[g]  BY <1>1
<1>3. NothingIsMissed'  BY <1>2, NothingMissed
<1>4. \A s \in Lessons : Claimed(s) => Served' /\ s \in stored'
  <2>. TAKE s \in Lessons
  <2>1. s \in Callers /\ CallerOK(s)  BY Names DEF IInv
  <2>2. job[s] = "done" => Served /\ s \in stored  BY DEF IInv, DoneOK
  <2>. QED  BY <1>1, <2>1, <2>2 DEF Claimed, CallerOK, Appending
<1>. QED  BY <1>1, <1>3, <1>4, StepKeeps

-----------------------------------------------------------------------------
(***************************************************************************)
(* The steps of an enqueue.                                                *)
(***************************************************************************)

LEMMA Types ==
    ASSUME IInv, RowsStep, UNCHANGED <<stored, model, up>>, \/ Smooth \/ Fault,
           job' \in [Lessons -> {"none", "pending", "done", "failed"}],
           flag' \in BOOLEAN, overlapped' \in BOOLEAN, lock' \in Lessons \cup {Free},
           pc' \in [Callers -> Places], cx' \in [Callers -> Locals]
    PROVE  TypeOK'
<1>1. /\ gen' \in [Gens -> {"none", "building", "active", "retired", "failed", "purged"}]
      /\ table' \in [Gens -> SUBSET Sources]
      /\ made' = made /\ retired' = retired /\ docs' = docs
  BY RowsKeep
<1>2. changes' \in Nat /\ troubles' \in Nat
  <2>1. changes \in Nat /\ troubles \in Nat  BY DEF IInv, TypeOK
  <2>. QED  BY <2>1 DEF Smooth, Fault, bounds
<1>. QED  BY <1>1, <1>2 DEF IInv, TypeOK

LEMMA EnqueueStep ==
    ASSUME IInv, NEW s \in Lessons, Enqueue(s)  PROVE IInv'
<1>1. s \in Callers /\ s # Task /\ pc[s] = "idle"  BY Names DEF Enqueue
<1>2. /\ pc'[s] \in {"ended", "list", "single"} /\ (pc'[s] # "ended" => s \in stored)
      /\ cx' = cx /\ \A q \in Callers \ {s} : pc'[q] = pc[q]
      /\ flag => flag'
      /\ \A r \in Lessons : job'[r] = "done" => job[r] = "done"
  BY <1>1 DEF Enqueue, FailJob, Goto, Resolved, IInv, TypeOK
<1>3. RowsStep  BY DEF Enqueue, RowsStep
<1>4. TypeOK'
  <2>1. pc' \in [Callers -> Places]  BY DEF Enqueue, Goto, IInv, TypeOK, Places
  <2>2. flag' \in BOOLEAN /\ job' \in [Lessons -> {"none", "pending", "done", "failed"}]
    BY DEF Enqueue, FailJob, IInv, TypeOK
  <2>3. Smooth /\ UNCHANGED <<stored, model, up, cx, lock, overlapped>>  BY DEF Enqueue, Smooth
  <2>. QED  BY <1>3, <2>1, <2>2, <2>3, Types DEF IInv, TypeOK
<1>5. CallerOK(s)'
  <2>1. CallerOK(s) /\ ~cx[s].ok  BY <1>1 DEF IInv, CallerOK
  <2>2. stored' = stored  BY DEF Enqueue
  <2>. QED  BY <1>1, <1>2, <2>1, <2>2 DEF CallerOK, Window, Candidate, Appending
<1>6. /\ overlapped' = overlapped /\ \A q \in Callers \ {s} : Rests(q)
      /\ \A r \in Lessons : job'[r] = "done" => Claimed(r)
      /\ cx'[s].ok => Claimed(s)
      /\ pc'[Task] = "list" => pc[Task] = "list"
  BY <1>1, <1>2, Names DEF Rests, Claimed, Enqueue
<1>. QED  BY <1>1, <1>2, <1>3, <1>4, <1>5, <1>6, PlainStep DEF Window, Candidate, Appending

LEMMA EmbedLessonStep ==
    ASSUME IInv, NEW s \in Lessons, EmbedLesson(s)  PROVE IInv'
<1>1. s \in Callers /\ s # Task /\ pc[s] = "single" /\ s \in stored /\ ~cx[s].ok
  BY Names DEF EmbedLesson, IInv, CallerOK
<1>2. /\ pc'[s] \in {"after", "ended"} /\ ~cx'[s].ok /\ \A q \in Callers \ {s} : Rests(q)
      /\ pc' \in [Callers -> Places] /\ cx' \in [Callers -> Locals]
      /\ job' \in [Lessons -> {"none", "pending", "done", "failed"}]
      /\ \A r \in Lessons : job'[r] = "done" => job[r] = "done"
  <2>1. CASE Smooth /\ Goto(s, "after") /\ Set(s, "model", model) /\ UNCHANGED job
    <3>1. pc \in [Callers -> Places] /\ cx \in [Callers -> Locals] /\ model \in Models
      BY DEF IInv, TypeOK
    <3>2. pc' = [pc EXCEPT ![s] = "after"] /\ cx' = [cx EXCEPT ![s].model = model]
      BY <2>1 DEF Goto, Set
    <3>3. pc' \in [Callers -> Places] /\ pc'[s] = "after"  BY <1>1, <3>1, <3>2 DEF Places
    <3>4. cx' \in [Callers -> Locals] /\ cx'[s].ok = cx[s].ok
      BY <1>1, <3>1, <3>2 DEF Locals
    <3>5. \A q \in Callers \ {s} : Rests(q)  BY <1>1, <3>1, <3>2 DEF Rests
    <3>. QED  BY <1>1, <2>1, <3>3, <3>4, <3>5 DEF IInv, TypeOK
  <2>2. CASE Return(s, "ended") /\ (FailJob(s) \/ UNCHANGED job)
    BY <1>1, <2>2, Names DEF Return, Goto, Fresh, FailJob, Rests, IInv, TypeOK, Places
  <2>. QED  BY <2>1, <2>2 DEF EmbedLesson
<1>3. RowsStep  BY DEF EmbedLesson, RowsStep
<1>4. TypeOK'  BY <1>2, <1>3, Types DEF EmbedLesson, IInv, TypeOK
<1>5. CallerOK(s)'
  BY <1>1, <1>2 DEF EmbedLesson, CallerOK, Window, Candidate, Appending
<1>6. /\ overlapped' = overlapped /\ flag' = flag
      /\ \A r \in Lessons : job'[r] = "done" => Claimed(r)
      /\ pc'[Task] = "list" => pc[Task] = "list"
  BY <1>1, <1>2, Names DEF Rests, Claimed, EmbedLesson
<1>. QED  BY <1>1, <1>2, <1>3, <1>4, <1>5, <1>6, PlainStep DEF Window, Candidate, Appending

LEMMA CompleteStep ==
    ASSUME IInv, NEW s \in Lessons, Complete(s)  PROVE IInv'
<1>1. s \in Callers /\ s # Task /\ pc[s] = "complete" /\ s \in stored
  BY Names DEF Complete, IInv, CallerOK
<1>2. /\ pc'[s] = "ended" /\ ~cx'[s].ok /\ \A q \in Callers \ {s} : Rests(q)
      /\ pc' \in [Callers -> Places] /\ cx' \in [Callers -> Locals]
      /\ job' \in [Lessons -> {"none", "pending", "done", "failed"}]
      /\ \A r \in Lessons : job'[r] = "done" => job[r] = "done" \/ r = s
  BY <1>1, Names DEF Complete, Return, Goto, Fresh, Rests, IInv, TypeOK, Places
<1>3. RowsStep  BY DEF Complete, RowsStep
<1>4. TypeOK'  BY <1>2, <1>3, Types DEF Complete, IInv, TypeOK, Smooth
<1>5. CallerOK(s)'
  BY <1>1, <1>2 DEF Complete, CallerOK, Window, Candidate, Appending
<1>6. /\ overlapped' = overlapped /\ flag' = flag
      /\ \A r \in Lessons : job'[r] = "done" => Claimed(r)
      /\ pc'[Task] = "list" => pc[Task] = "list"
  BY <1>1, <1>2, Names DEF Rests, Claimed, Complete
<1>. QED  BY <1>1, <1>2, <1>3, <1>4, <1>5, <1>6, PlainStep DEF Window, Candidate, Appending

\* A step that leaves the candidates to their owners, whoever else it moves.
LEMMA ManyKeep ==
    ASSUME IInv, TypeOK', GensOK', Keeps,
           \A q \in Callers : \/ Rests(q) /\ KeepsOf(q)
                              \/ CallerOK(q)' /\ pc'[q] \notin Candidate,
           \A s \in Lessons : job'[s] = "done" => job[s] = "done" \/ (Served' /\ s \in stored'),
           NothingIsMissed'
    PROVE  IInv'
<1>1. \A q \in Callers : CallerOK(q)'  BY CallerKeeps
<1>2. OwnersOK'
  <2>. SUFFICES ASSUME NEW q \in Callers, NEW r \in Callers, q # r,
                       pc'[q] \in Candidate, pc'[r] \in Candidate
                PROVE  cx'[q].gen # cx'[r].gen
    BY DEF OwnersOK
  <2>1. pc'[q] = pc[q] /\ cx'[q] = cx[q] /\ pc'[r] = pc[r] /\ cx'[r] = cx[r]  BY DEF Rests
  <2>. QED  BY <2>1 DEF IInv, OwnersOK
<1>3. DoneOK'  BY DEF IInv, DoneOK, Keeps
<1>. QED  BY <1>1, <1>2, <1>3 DEF IInv

\* What is decided under the lock with no rebuild under way: nobody has listed.
LEMMA NobodyLists ==
    ASSUME IInv, ~Rebuilding, ~overlapped  PROVE \A q \in Callers : pc[q] \notin Window
BY DEF IInv, NothingIsMissed, Rebuilding

LEMMA ScheduleStep ==
    ASSUME IInv, NEW s \in Lessons, pc[s] = "after", ~Rebuilding, FailJob(s), Schedule(s),
           UNCHANGED <<stored, model, rows, table, docs, up, bounds, overlapped, lock>>
    PROVE  IInv'
<1>1. s \in Callers /\ s # Task /\ Task \in Callers /\ s \in stored  BY Names DEF IInv, CallerOK
<1>2. /\ pc \in [Callers -> Places] /\ cx \in [Callers -> Locals]
      /\ job \in [Lessons -> {"none", "pending", "done", "failed"}]
  BY DEF IInv, TypeOK
<1>3. /\ pc' \in [Callers -> Places] /\ cx' \in [Callers -> Locals]
      /\ pc'[s] = "ended" /\ ~cx'[s].ok /\ \A q \in Callers \ {s, Task} : Rests(q)
      /\ \/ Rests(Task)
         \/ pc[Task] = "idle" /\ pc'[Task] = "list" /\ cx'[Task] = [Fresh EXCEPT !.job = s]
  <2>1. CASE pc[Task] = "idle"
    <3>1. /\ pc' = [pc EXCEPT ![s] = "ended", ![Task] = "list"]
          /\ cx' = [cx EXCEPT ![s] = Fresh, ![Task] = [Fresh EXCEPT !.job = s]]
      BY <2>1 DEF Schedule
    <3>2. Fresh \in Locals /\ ~Fresh.ok /\ [Fresh EXCEPT !.job = s] \in Locals
      BY Names DEF Fresh, Locals
    <3>3. "ended" \in Places /\ "list" \in Places  BY DEF Places
    <3>. HIDE DEF Fresh, Places, Locals
    <3>. QED  BY <1>1, <1>2, <2>1, <3>1, <3>2, <3>3 DEF Rests
  <2>2. CASE pc[Task] # "idle"
    <3>1. pc' = [pc EXCEPT ![s] = "ended"] /\ cx' = [cx EXCEPT ![s] = Fresh]
      BY <2>2 DEF Schedule, Return, Goto
    <3>2. Fresh \in Locals /\ ~Fresh.ok  BY Names DEF Fresh
    <3>3. "ended" \in Places  BY DEF Places
    <3>. QED  BY <1>1, <1>2, <3>1, <3>2, <3>3 DEF Rests
  <2>. QED  BY <2>1, <2>2
<1>4. job' \in [Lessons -> {"none", "pending", "done", "failed"}]
      /\ \A r \in Lessons : job'[r] = "done" => job[r] = "done"
  BY <1>2 DEF FailJob
<1>5. RowsStep  BY DEF RowsStep
<1>6. flag' = TRUE  BY DEF Schedule
<1>7. TypeOK'  BY <1>3, <1>4, <1>5, <1>6, Types DEF Smooth, IInv, TypeOK
<1>8. GensOK' /\ Keeps /\ (\A q \in Callers : KeepsOf(q))
      /\ With("active")' \subseteq With("active") /\ docs' = docs
  BY <1>5, RowsKeep
<1>9. CallerOK(s)' /\ pc'[s] \notin Candidate
  BY <1>1, <1>3 DEF CallerOK, Window, Candidate, Appending
<1>10. Rests(Task) \/ (CallerOK(Task)' /\ pc'[Task] \notin Candidate)
  <2>. SUFFICES ASSUME pc'[Task] = "list", cx'[Task] = [Fresh EXCEPT !.job = s]
                PROVE  CallerOK(Task)' /\ pc'[Task] \notin Candidate
    BY <1>3
  <2>1. ~cx'[Task].ok /\ cx'[Task].job = s  BY DEF Fresh
  <2>. QED  BY <1>1, <2>1, Names DEF CallerOK, Window, Candidate, Appending
<1>11. NothingIsMissed'
  <2>. SUFFICES ASSUME ~overlapped' PROVE NothingIsMissed'  BY DEF NothingIsMissed
  <2>1. ~overlapped /\ \A q \in Callers : pc[q] \notin Window  BY NobodyLists
  <2>2. \A q \in Callers : pc'[q] \notin Window
    BY <1>3, <2>1 DEF Rests, Window
  <2>3. ASSUME NEW r \in Lessons
        PROVE  /\ Claimed(r)' => Claimed(r)
               /\ pc'[r] \in Appending => pc[r] \in Appending /\ cx'[r].gen = cx[r].gen
    <3>1. r \in Callers /\ r # Task  BY Names
    <3>2. CASE r = s  BY <1>3, <1>4, <3>2 DEF Claimed, Appending
    <3>3. CASE r # s  BY <1>3, <1>4, <3>1, <3>3 DEF Claimed, Rests
    <3>. QED  BY <3>2, <3>3
  <2>4. \A r \in Lessons :
            /\ Claimed(r) => Found(r)
            /\ pc[r] \in Appending => \A g \in With("active") : g = cx[r].gen \/ r \in docs[g]
    BY <2>1 DEF IInv, NothingIsMissed
  <2>5. \A r \in Lessons :
            /\ Claimed(r)' => Found(r)'
            /\ pc'[r] \in Appending => \A g \in With("active")' : g = cx'[r].gen \/ r \in docs'[g]
    BY <1>8, <2>3, <2>4 DEF Found
  <2>. QED  BY <1>6, <2>2, <2>5 DEF NothingIsMissed
<1>. QED  BY <1>3, <1>4, <1>7, <1>8, <1>9, <1>10, <1>11, ManyKeep

LEMMA DecideStep ==
    ASSUME IInv, NEW s \in Lessons, Decide(s)  PROVE IInv'
<1>1. s \in Callers /\ s # Task /\ pc[s] = "after" /\ s \in stored /\ ~cx[s].ok
  BY Names DEF Decide, IInv, CallerOK
<1>2. /\ pc \in [Callers -> Places] /\ cx \in [Callers -> Locals]
      /\ job \in [Lessons -> {"none", "pending", "done", "failed"}]
  BY DEF IInv, TypeOK
<1>3. CASE FailJob(s) /\ ~Rebuilding /\ Schedule(s) /\ UNCHANGED lock
  BY <1>1, <1>3, ScheduleStep DEF Decide
<1>4. CASE FailJob(s) /\ Return(s, "ended") /\ UNCHANGED <<flag, lock>>
  <2>1. /\ pc'[s] = "ended" /\ ~cx'[s].ok /\ \A q \in Callers \ {s} : Rests(q)
        /\ pc' \in [Callers -> Places] /\ cx' \in [Callers -> Locals]
        /\ job' \in [Lessons -> {"none", "pending", "done", "failed"}]
        /\ \A r \in Lessons : job'[r] = "done" => job[r] = "done"
    BY <1>1, <1>2, <1>4, Names DEF Return, Goto, Fresh, FailJob, Rests, Places
  <2>2. RowsStep  BY DEF Decide, RowsStep
  <2>3. TypeOK'  BY <1>4, <2>1, <2>2, Types DEF Decide, IInv, TypeOK, Smooth
  <2>4. CallerOK(s)'
    BY <1>1, <2>1 DEF Decide, CallerOK, Window, Candidate, Appending
  <2>5. /\ overlapped' = overlapped /\ flag' = flag
        /\ \A r \in Lessons : job'[r] = "done" => Claimed(r)
        /\ pc'[Task] = "list" => pc[Task] = "list"
    BY <1>1, <1>4, <2>1, Names DEF Rests, Claimed, Decide
  <2>. QED  BY <1>1, <2>1, <2>2, <2>3, <2>4, <2>5, PlainStep DEF Window, Candidate, Appending
<1>5. CASE /\ ~Rebuilding /\ Active # 0
           /\ lock' = s /\ Goto(s, "upsert") /\ Set(s, "gen", Active) /\ UNCHANGED <<flag, job>>
  <2>1. Active \in With("active") /\ Active \in Gens  BY <1>5, ActiveIs
  <2>2. pc' = [pc EXCEPT ![s] = "upsert"] /\ cx' = [cx EXCEPT ![s].gen = Active]
    BY <1>5 DEF Goto, Set
  <2>3. pc' \in [Callers -> Places] /\ pc'[s] = "upsert"  BY <1>1, <1>2, <2>2 DEF Places, Appending
  <2>4. cx' \in [Callers -> Locals] /\ cx'[s].ok = cx[s].ok /\ cx'[s].gen = Active
    BY <1>1, <1>2, <2>1, <2>2 DEF Locals
  <2>5. \A q \in Callers \ {s} : Rests(q)  BY <1>1, <1>2, <2>2 DEF Rests
  <2>6. RowsStep  BY DEF Decide, RowsStep
  <2>7. TypeOK'
    <3>1. Smooth /\ UNCHANGED <<stored, model, up, job, flag, overlapped>> /\ lock' \in Lessons \cup {Free}
      BY <1>5 DEF Decide, Smooth
    <3>. QED  BY <2>3, <2>4, <2>6, <3>1, Types DEF IInv, TypeOK
  <2>8. UNCHANGED <<gen, table, docs, stored, overlapped>>  BY DEF Decide, rows
  <2>9. GensOK' /\ Keeps /\ (\A q \in Callers : KeepsOf(q))
        /\ With("active")' = With("active") /\ Served' = Served
    BY <2>8, SameRows
  <2>10. CallerOK(s)'
    <3>1. gen'[Active] = "active" /\ Served'  BY <2>1, <2>8, <2>9 DEF With, Served
    <3>. QED  BY <1>1, <2>1, <2>3, <2>4, <2>8, <3>1 DEF CallerOK, Window, Candidate, Appending
  <2>11. NothingIsMissed'
    <3>. SUFFICES ASSUME ~overlapped' PROVE NothingIsMissed'  BY DEF NothingIsMissed
    <3>1. ~overlapped /\ \A q \in Callers : pc[q] \notin Window  BY <1>5, <2>8, NobodyLists
    <3>2. \A q \in Callers : pc'[q] \notin Window
      BY <2>3, <2>5, <3>1 DEF Rests, Window
    <3>3. ASSUME NEW r \in Lessons
          PROVE  /\ Claimed(r)' => Found(r)'
                 /\ pc'[r] \in Appending =>
                       \A g \in With("active")' : g = cx'[r].gen \/ r \in docs'[g]
      <4>1. /\ Claimed(r) => Found(r)
            /\ pc[r] \in Appending => \A g \in With("active") : g = cx[r].gen \/ r \in docs[g]
        BY <3>1 DEF IInv, NothingIsMissed
      <4>2. r \in Callers  BY Names
      <4>3. CASE r = s
        <5>1. Claimed(r)' => Claimed(r)  BY <1>1, <1>5, <2>3, <2>4, <4>3 DEF Claimed
        <5>2. \A g \in With("active") : g = Active  BY <2>1 DEF IInv, GensOK
        <5>. QED  BY <2>4, <2>8, <2>9, <4>1, <4>3, <5>1, <5>2 DEF Found
      <4>4. CASE r # s
        <5>1. pc'[r] = pc[r] /\ cx'[r] = cx[r]  BY <2>5, <4>2, <4>4 DEF Rests
        <5>2. Claimed(r)' => Claimed(r)  BY <1>5, <5>1 DEF Claimed
        <5>. QED  BY <2>8, <2>9, <4>1, <5>1, <5>2 DEF Found
      <4>. QED  BY <4>3, <4>4
    <3>4. pc'[Task] = "list" => flag'
      <4>1. pc'[Task] = pc[Task] /\ flag' = flag  BY <1>1, <1>5, <2>5, Names DEF Rests
      <4>. QED  BY <3>1, <4>1 DEF IInv, NothingIsMissed
    <3>. QED  BY <3>2, <3>3, <3>4 DEF NothingIsMissed
  <2>12. pc'[s] \notin Candidate /\ job' = job  BY <1>5, <2>3 DEF Candidate
  <2>. QED  BY <1>1, <2>5, <2>7, <2>9, <2>10, <2>11, <2>12, StepKeeps
<1>. QED  BY <1>3, <1>4, <1>5 DEF Decide

\* An append that fails releases the lock.
LEMMA GivesUp ==
    ASSUME IInv, NEW s \in Lessons, pc[s] \in Appending, \/ Smooth \/ Fault, Return(s, "ended"),
           job' \in [Lessons -> {"none", "pending", "done", "failed"}],
           \A r \in Lessons : job'[r] = "done" => job[r] = "done",
           lock' = Free, UNCHANGED <<stored, model, rows, table, docs, up, flag, overlapped>>
    PROVE  IInv'
<1>1. s \in Callers /\ s # Task /\ s \in stored  BY Names DEF IInv, CallerOK, Appending
<1>2. /\ pc'[s] = "ended" /\ ~cx'[s].ok /\ \A q \in Callers \ {s} : Rests(q)
      /\ pc' \in [Callers -> Places] /\ cx' \in [Callers -> Locals]
  BY <1>1, Names DEF Return, Goto, Fresh, Rests, IInv, TypeOK, Places
<1>3. RowsStep  BY DEF RowsStep
<1>4. TypeOK'  BY <1>2, <1>3, Types DEF IInv, TypeOK
<1>5. CallerOK(s)'
  BY <1>1, <1>2 DEF CallerOK, Window, Candidate, Appending
<1>6. /\ \A r \in Lessons : job'[r] = "done" => Claimed(r)
      /\ pc'[Task] = "list" => pc[Task] = "list"
  BY <1>1, <1>2, Names DEF Rests, Claimed
<1>. QED  BY <1>1, <1>2, <1>3, <1>4, <1>5, <1>6, PlainStep DEF Window, Candidate, Appending

LEMMA UpsertStep ==
    ASSUME IInv, NEW s \in Lessons, Upsert(s)  PROVE IInv'
<1>. DEFINE g == cx[s].gen
<1>1. /\ s \in Callers /\ s # Task /\ pc[s] = "upsert" /\ s \in stored /\ s \in Sources
      /\ g \in Gens /\ gen[g] \notin {"none", "building"} /\ Served /\ ~cx[s].ok
  BY Names DEF Upsert, IInv, CallerOK, Appending
<1>2. CASE /\ \/ Fault
              \/ Smooth /\ table[g] = {}
           /\ FailJob(s) /\ lock' = Free /\ Return(s, "ended") /\ UNCHANGED table
  <2>1. /\ job' \in [Lessons -> {"none", "pending", "done", "failed"}]
        /\ \A r \in Lessons : job'[r] = "done" => job[r] = "done"
    BY <1>2 DEF FailJob, IInv, TypeOK
  <2>. QED  BY <1>1, <1>2, <2>1, GivesUp DEF Upsert, Appending
<1>3. CASE /\ Smooth /\ table[g] # {} /\ table' = [table EXCEPT ![g] = @ \cup {s}]
           /\ Goto(s, "document") /\ UNCHANGED <<lock, cx, job>>
  <2>1. /\ pc' \in [Callers -> Places] /\ pc'[s] = "document" /\ cx' = cx
        /\ \A q \in Callers \ {s} : Rests(q)
    BY <1>1, <1>3 DEF Goto, Rests, IInv, TypeOK, Places, Appending
  <2>2. UNCHANGED <<stored, model, gen, made, retired, docs, job, up, flag, lock, overlapped>>
    BY <1>3 DEF Upsert, rows
  <2>3. /\ table' \in [Gens -> SUBSET Sources]
        /\ \A h \in Gens : table[h] \subseteq table'[h] /\ (h # g => table'[h] = table[h])
        /\ s \in table'[g]
    BY <1>1, <1>3 DEF IInv, TypeOK
  <2>4. TypeOK'  BY <1>3, <2>1, <2>2, <2>3 DEF IInv, TypeOK, Smooth, bounds
  <2>5. With("active")' = With("active") /\ Served' = Served  BY <2>2 DEF With, Served
  <2>6. GensOK'
    <3>1. \A h \in With("active") : table[h] # {} /\ docs[h] \subseteq table[h] /\ h \in Gens
      BY DEF IInv, GensOK, With
    <3>2. \A h \in With("active") : table'[h] # {} /\ docs[h] \subseteq table'[h]
      BY <2>3, <3>1
    <3>. QED  BY <2>2, <2>5, <3>2 DEF IInv, GensOK
  <2>7. Keeps  BY <2>2, <2>3, <2>5 DEF Keeps
  <2>8. \A q \in Callers : KeepsOf(q)
    <3>. SUFFICES ASSUME NEW q \in Callers, pc[q] \in Candidate PROVE KeepsOf(q)
      BY DEF KeepsOf
    <3>1. cx[q].gen \in Gens  BY DEF IInv, CallerOK
    <3>2. gen[cx[q].gen] = "building" => cx[q].gen # g  BY <1>1
    <3>. QED  BY <2>2, <2>3, <3>1, <3>2 DEF KeepsOf
  <2>9. CallerOK(s)'
    <3>1. CallerOK(s)  BY <1>1 DEF IInv
    <3>. QED
      BY <1>1, <2>1, <2>2, <2>3, <2>5, <3>1 DEF CallerOK, Window, Candidate, Appending
  <2>10. NothingIsMissed'
    <3>1. \A h \in With("active")' : h \in With("active") /\ docs[h] \subseteq docs'[h]
      BY <2>2, <2>5
    <3>2. \A r \in Lessons : job'[r] = "done" => Claimed(r)  BY <2>2 DEF Claimed
    <3>3. pc'[Task] = pc[Task]  BY <1>1, <2>1, Names DEF Rests
    <3>. QED
      BY <1>1, <2>1, <2>2, <3>1, <3>2, <3>3, NothingMissed DEF Window, Appending
  <2>. QED  BY <1>1, <2>1, <2>2, <2>4, <2>6, <2>7, <2>8, <2>9, <2>10, StepKeeps DEF Candidate
<1>. QED  BY <1>2, <1>3 DEF Upsert

LEMMA DocumentStep ==
    ASSUME IInv, NEW s \in Lessons, Document(s)  PROVE IInv'
<1>. DEFINE g == cx[s].gen
<1>1. /\ s \in Callers /\ s # Task /\ pc[s] = "document" /\ s \in stored /\ s \in Sources
      /\ g \in Gens /\ gen[g] \notin {"none", "building"} /\ Served /\ ~cx[s].ok
      /\ gen[g] = "active" => s \in table[g]
  BY Names DEF Document, IInv, CallerOK, Appending
<1>2. CASE Fault /\ lock' = Free /\ Return(s, "ended") /\ UNCHANGED docs
  <2>1. /\ job' \in [Lessons -> {"none", "pending", "done", "failed"}]
        /\ \A r \in Lessons : job'[r] = "done" => job[r] = "done"
    BY DEF Document, IInv, TypeOK
  <2>. QED  BY <1>1, <1>2, <2>1, GivesUp DEF Document, Appending
<1>3. CASE /\ Smooth /\ docs' = [docs EXCEPT ![g] = @ \cup {s}]
           /\ Goto(s, "complete") /\ UNCHANGED <<lock, cx>>
  <2>1. /\ pc' \in [Callers -> Places] /\ pc'[s] = "complete" /\ cx' = cx
        /\ \A q \in Callers \ {s} : Rests(q)
    BY <1>1, <1>3 DEF Goto, Rests, IInv, TypeOK, Places, Appending
  <2>2. UNCHANGED <<stored, model, gen, made, retired, table, job, up, flag, lock, overlapped>>
    BY <1>3 DEF Document, rows
  <2>3. /\ docs' \in [Gens -> SUBSET Sources]
        /\ \A h \in Gens : docs[h] \subseteq docs'[h] /\ (h # g => docs'[h] = docs[h])
        /\ docs'[g] = docs[g] \cup {s}
    BY <1>1, <1>3 DEF IInv, TypeOK
  <2>4. TypeOK'  BY <1>3, <2>1, <2>2, <2>3 DEF IInv, TypeOK, Smooth, bounds
  <2>5. With("active")' = With("active") /\ Served' = Served  BY <2>2 DEF With, Served
  <2>6. GensOK'
    <3>1. \A h \in With("active") :
             table[h] # {} /\ docs[h] \subseteq table[h] /\ h \in Gens /\ gen[h] = "active"
      BY DEF IInv, GensOK, With
    <3>2. \A h \in With("active") : docs'[h] \subseteq table[h]
      <4>. TAKE h \in With("active")
      <4>1. CASE h = g  BY <1>1, <2>3, <3>1, <4>1
      <4>2. CASE h # g  BY <2>3, <3>1, <4>2
      <4>. QED  BY <4>1, <4>2
    <3>3. \A h \in Gens : gen[h] \in {"none", "building"} => docs'[h] = {}
      BY <1>1, <2>3 DEF IInv, GensOK
    <3>. QED  BY <2>2, <2>5, <3>1, <3>2, <3>3 DEF IInv, GensOK
  <2>7. Keeps /\ \A q \in Callers : KeepsOf(q)  BY <2>2, <2>5 DEF Keeps, KeepsOf
  <2>8. CallerOK(s)'
    <3>1. CallerOK(s)  BY <1>1 DEF IInv
    <3>. QED
      BY <1>1, <2>1, <2>2, <2>5, <3>1 DEF CallerOK, Window, Candidate, Appending
  <2>9. NothingIsMissed'
    <3>. SUFFICES ASSUME ~overlapped' PROVE NothingIsMissed'  BY DEF NothingIsMissed
    <3>1. /\ pc[Task] = "list" => flag
          /\ \A q \in Callers : pc[q] \in Window =>
                /\ flag
                /\ \A r \in Lessons : Claimed(r) \/ pc[r] \in Appending => r \in cx[q].list
          /\ \A r \in Lessons :
                /\ Claimed(r) => Found(r)
                /\ pc[r] \in Appending => \A h \in With("active") : h = cx[r].gen \/ r \in docs[h]
      BY <2>2 DEF IInv, NothingIsMissed
    <3>2. pc'[Task] = "list" => flag'  BY <1>1, <2>1, <2>2, <3>1, Names DEF Rests
    <3>3. ASSUME NEW r \in Lessons
          PROVE  /\ Claimed(r)' \/ pc'[r] \in Appending => Claimed(r) \/ pc[r] \in Appending
                 /\ r # s => (Claimed(r)' => Claimed(r)) /\ pc'[r] = pc[r]
      <4>1. r \in Callers  BY Names
      <4>2. CASE r = s  BY <1>1, <4>2 DEF Appending
      <4>3. CASE r # s  BY <2>1, <2>2, <4>1, <4>3 DEF Claimed, Rests
      <4>. QED  BY <4>2, <4>3
    <3>4. ASSUME NEW q \in Callers, pc'[q] \in Window
          PROVE  flag' /\ \A r \in Lessons : Claimed(r)' \/ pc'[r] \in Appending => r \in cx'[q].list
      <4>1. pc[q] \in Window
        <5>1. q # s  BY <2>1, <3>4 DEF Window
        <5>. QED  BY <2>1, <3>4, <5>1 DEF Rests
      <4>. QED  BY <2>1, <2>2, <3>1, <3>3, <4>1
    <3>5. ASSUME NEW r \in Lessons, Claimed(r)' \/ pc'[r] \in Appending
          PROVE  /\ Claimed(r)' => Found(r)'
                 /\ pc'[r] \in Appending => \A h \in With("active") : h = cx[r].gen \/ r \in docs'[h]
      <4>0. \A h \in With("active") : h \in Gens  BY DEF With
      <4>1. CASE r = s
        <5>1. \A h \in With("active") : s \in docs'[h]
          <6>. TAKE h \in With("active")
          <6>1. h = g \/ s \in docs[h]  BY <1>1, <3>1 DEF Appending
          <6>. QED  BY <2>3, <4>0, <6>1
        <5>. QED  BY <2>5, <4>1, <5>1 DEF Found
      <4>2. CASE r # s
        <5>1. \A h \in With("active") : r \in docs[h] => r \in docs'[h]  BY <2>3, <4>0
        <5>2. Claimed(r)' => Found(r)'  BY <2>5, <3>1, <3>3, <4>2, <5>1 DEF Found
        <5>. QED  BY <3>1, <3>3, <4>2, <5>1, <5>2
      <4>. QED  BY <4>1, <4>2
    <3>. QED  BY <2>1, <2>5, <3>2, <3>4, <3>5 DEF NothingIsMissed
  <2>. QED  BY <1>1, <2>1, <2>2, <2>4, <2>6, <2>7, <2>8, <2>9, StepKeeps DEF Candidate
<1>. QED  BY <1>2, <1>3 DEF Document

-----------------------------------------------------------------------------
(***************************************************************************)
(* The steps of a rebuild.                                                 *)
(***************************************************************************)

LEMMA GotoIs ==
    ASSUME IInv, NEW p \in Callers, NEW l \in Places, Goto(p, l)
    PROVE  /\ pc' \in [Callers -> Places] /\ pc'[p] = l
           /\ \A q \in Callers \ {p} : pc'[q] = pc[q]
BY DEF IInv, TypeOK, Goto

LEMMA ReturnIs ==
    ASSUME IInv, NEW p \in Callers, NEW l \in Places, Return(p, l)
    PROVE  /\ pc' \in [Callers -> Places] /\ cx' \in [Callers -> Locals]
           /\ pc'[p] = l /\ ~cx'[p].ok
           /\ \A q \in Callers \ {p} : Rests(q)
<1>1. Fresh \in Locals /\ ~Fresh.ok  BY Names DEF Fresh
<1>2. cx' = [cx EXCEPT ![p] = Fresh] /\ Goto(p, l)  BY DEF Return
<1>3. cx \in [Callers -> Locals]  BY DEF IInv, TypeOK
<1>. QED  BY <1>1, <1>2, <1>3, GotoIs DEF Rests

\* Who clears the flag with nothing lost leaves nobody behind who needs it.
LEMMA ClearedAlone ==
    ASSUME NEW p \in Callers, NEW v \in BOOLEAN, Clear(p, v), ~overlapped',
           \A q \in Callers \ {p} : Rests(q)
    PROVE  ~overlapped /\ \A q \in Callers \ {p} : pc'[q] \notin Window \cup {"list"}
BY DEF Clear, Others, Window, Rests

\* A step of a rebuild that leaves it outside of its window.
LEMMA OutsideStep ==
    ASSUME IInv, NEW p \in Callers, pc[p] \notin {"idle", "ended"} \/ p \in Commands, RowsStep,
           UNCHANGED <<stored, model, up, lock>>, \/ Smooth \/ Fault,
           \A q \in Callers \ {p} : Rests(q),
           pc' \in [Callers -> Places], cx' \in [Callers -> Locals],
           pc'[p] \notin Window \cup Appending \cup {"cleanup"},
           p = Task => /\ pc'[p] \notin {"list", "claim", "probe", "probed"}
                       /\ pc'[p] \in {"idle", "ended"} \/ cx'[p].job = cx[p].job,
           cx'[p].ok => pc'[p] = "settle" /\ (p \in Lessons => pc[p] = "cleanup"),
           job' \in [Lessons -> {"none", "pending", "done", "failed"}],
           \A s \in Lessons : job'[s] = "done" => Claimed(s),
           \/ UNCHANGED <<flag, overlapped>>
           \/ flag' = TRUE /\ overlapped' = overlapped
           \/ \E v \in BOOLEAN : Clear(p, v) /\ pc'[p] # "list"
    PROVE  IInv'
<1>1. CallerOK(p) /\ {flag, overlapped} \subseteq BOOLEAN  BY DEF IInv, TypeOK
<1>2. flag' \in BOOLEAN /\ overlapped' \in BOOLEAN /\ (~overlapped' => ~overlapped)
  <2>1. CASE \E v \in BOOLEAN : Clear(p, v)
    <3>1. PICK v \in BOOLEAN : flag' = v /\ overlapped' = (overlapped \/ Others(p) # {})
      BY <2>1 DEF Clear
    <3>. QED  BY <1>1, <3>1
  <2>2. CASE overlapped' = overlapped /\ flag' \in {flag, TRUE}  BY <1>1, <2>2
  <2>. QED  BY <2>1, <2>2
<1>3. \/ flag => flag'
      \/ ~overlapped' => \A q \in Callers : pc'[q] \notin Window \cup {"list"}
  <2>1. CASE \E v \in BOOLEAN : Clear(p, v) /\ pc'[p] # "list"
    <3>1. ~overlapped' => \A q \in Callers \ {p} : pc'[q] \notin Window \cup {"list"}
      BY <2>1, ClearedAlone
    <3>. QED  BY <2>1, <3>1
  <2>. QED  BY <2>1
<1>4. TypeOK'
  <2>1. lock' \in Lessons \cup {Free}  BY DEF IInv, TypeOK
  <2>. QED  BY <1>2, <2>1, Types
<1>5. CallerOK(p)'
  <2>1. Served => Served'  BY RowsKeep
  <2>2. cx'[p].ok => pc'[p] = "settle" /\ (p \in Lessons => Served')
    BY <1>1, <2>1 DEF CallerOK
  <2>3. p \in Lessons => p \in stored'  BY <1>1, Names DEF CallerOK
  <2>4. p = Task /\ pc'[p] \notin {"idle", "ended"} => cx'[p].job \in stored'
    BY <1>1, Names DEF CallerOK
  <2>. QED  BY <2>2, <2>3, <2>4 DEF CallerOK, Window, Candidate, Appending
<1>6. p \in Lessons => /\ (pc'[p] \in {"complete", "cleanup"} \/ cx'[p].ok) => Claimed(p)
                       /\ pc'[p] \notin Appending
  BY DEF Claimed, Appending
<1>7. pc'[Task] = "list" => pc[Task] = "list"  BY Names DEF Rests
<1>8. pc'[p] \notin Candidate  BY DEF Window, Candidate
<1>. QED  BY <1>2, <1>3, <1>4, <1>5, <1>6, <1>7, <1>8, PlainStep

LEMMA FailStrandedIs == FailStranded /\ UNCHANGED <<docs, stored>> => RowsStep
<1>1. {} \in SUBSET With("retired")  OBVIOUS
<1>. QED  BY <1>1 DEF FailStranded, RowsStep

LEMMA ClaimStep == ASSUME IInv, NEW p \in Callers, Claim(p)  PROVE IInv'
<1>1. pc[p] = "claim" /\ p # Task  BY DEF Claim, IInv, CallerOK
<1>2. PICK l \in {"list", "probe"} : Return(p, l)  BY DEF Claim
<1>3. l \in Places  BY DEF Places
<1>4. /\ pc' \in [Callers -> Places] /\ cx' \in [Callers -> Locals]
      /\ pc'[p] = l /\ ~cx'[p].ok /\ \A q \in Callers \ {p} : Rests(q)
  BY <1>2, <1>3, ReturnIs
<1>5. RowsStep /\ Smooth /\ UNCHANGED <<stored, model, up, lock, job, overlapped>> /\ flag' = TRUE
  BY DEF Claim, RowsStep, Smooth
<1>6. /\ job' \in [Lessons -> {"none", "pending", "done", "failed"}]
      /\ \A s \in Lessons : job'[s] = "done" => Claimed(s)
  BY <1>5 DEF IInv, TypeOK, Claimed
<1>. QED  BY <1>1, <1>4, <1>5, <1>6, OutsideStep DEF Window, Appending

LEMMA ProbeStep == ASSUME IInv, NEW p \in Callers, Probe(p)  PROVE IInv'
<1>1. pc[p] = "probe" /\ p # Task /\ ~cx[p].ok  BY DEF Probe, IInv, CallerOK
<1>2. /\ UNCHANGED <<stored, model, up, lock, job, docs>> /\ Smooth
      /\ job' \in [Lessons -> {"none", "pending", "done", "failed"}]
      /\ \A s \in Lessons : job'[s] = "done" => Claimed(s)
  BY DEF Probe, Smooth, IInv, TypeOK, Claimed
<1>3. {"release", "probed", "list"} \subseteq Places  BY DEF Places
<1>4. CASE /\ Return(p, "release")
           /\ IF Building # {} THEN FailStranded /\ Clear(p, FALSE)
              ELSE UNCHANGED <<rows, table, flag, overlapped>>
  <2>1. RowsStep  BY <1>2, <1>4, FailStrandedIs DEF RowsStep
  <2>2. UNCHANGED <<flag, overlapped>> \/ Clear(p, FALSE)  BY <1>4
  <2>3. /\ pc' \in [Callers -> Places] /\ cx' \in [Callers -> Locals]
        /\ pc'[p] = "release" /\ ~cx'[p].ok /\ \A q \in Callers \ {p} : Rests(q)
    BY <1>3, <1>4, ReturnIs
  <2>. QED  BY <1>1, <1>2, <2>1, <2>2, <2>3, OutsideStep DEF Window, Appending
<1>5. CASE /\ Active # 0 /\ Goto(p, "probed")
           /\ cx' = [cx EXCEPT ![p] = [Fresh EXCEPT !.gen = Active, !.strand = Building # {}]]
           /\ UNCHANGED <<rows, table, flag, overlapped>>
  <2>1. RowsStep  BY <1>2, <1>5 DEF RowsStep
  <2>2. pc' \in [Callers -> Places] /\ pc'[p] = "probed" /\ \A q \in Callers \ {p} : pc'[q] = pc[q]
    BY <1>3, <1>5, GotoIs
  <2>3. cx' \in [Callers -> Locals] /\ ~cx'[p].ok
    <3>1. Active \in Gens \cup {0} /\ cx \in [Callers -> Locals]  BY <1>5, ActiveIs DEF IInv, TypeOK
    <3>. DEFINE b == Building # {}
                c == [Fresh EXCEPT !.gen = Active, !.strand = b]
    <3>2. b \in BOOLEAN  OBVIOUS
    <3>3. cx' = [cx EXCEPT ![p] = c]  BY <1>5
    <3>. HIDE DEF b
    <3>4. c \in Locals /\ ~c.ok  BY <3>1, <3>2, Names DEF Locals, Fresh
    <3>. HIDE DEF c
    <3>. QED  BY <3>1, <3>3, <3>4
  <2>4. \A q \in Callers \ {p} : Rests(q)
    <3>1. \A q \in Callers \ {p} : cx'[q] = cx[q]  BY <1>5 DEF IInv, TypeOK
    <3>. QED  BY <2>2, <3>1 DEF Rests
  <2>. QED  BY <1>1, <1>2, <1>5, <2>1, <2>2, <2>3, <2>4, OutsideStep DEF Window, Appending
<1>6. CASE Goto(p, "list") /\ UNCHANGED <<rows, table, flag, cx, overlapped>>
  <2>1. RowsStep  BY <1>2, <1>6 DEF RowsStep
  <2>2. pc' \in [Callers -> Places] /\ pc'[p] = "list" /\ \A q \in Callers \ {p} : pc'[q] = pc[q]
    BY <1>3, <1>6, GotoIs
  <2>3. cx' \in [Callers -> Locals] /\ cx' = cx  BY <1>6 DEF IInv, TypeOK
  <2>4. \A q \in Callers \ {p} : Rests(q)  BY <2>2, <2>3 DEF Rests
  <2>. QED  BY <1>1, <1>2, <1>6, <2>1, <2>2, <2>3, <2>4, OutsideStep DEF Window, Appending
<1>. QED  BY <1>4, <1>5, <1>6 DEF Probe

LEMMA ProbedStep == ASSUME IInv, NEW p \in Callers, Probed(p)  PROVE IInv'
<1>1. pc[p] = "probed" /\ p # Task  BY DEF Probed, IInv, CallerOK
<1>2. /\ UNCHANGED <<stored, model, up, lock, job, docs>> /\ (Smooth \/ Fault)
      /\ job' \in [Lessons -> {"none", "pending", "done", "failed"}]
      /\ \A s \in Lessons : job'[s] = "done" => Claimed(s)
  BY DEF Probed, IInv, TypeOK, Claimed
<1>3. {"release", "list"} \subseteq Places  BY DEF Places
<1>4. \E l \in {"release", "list"} :
         /\ Return(p, l)
         /\ \/ l = "release" /\ FailStranded /\ Clear(p, FALSE)
            \/ UNCHANGED <<rows, table, flag, overlapped>>
  BY DEF Probed
<1>5. PICK l \in {"release", "list"} :
         /\ Return(p, l)
         /\ \/ l = "release" /\ FailStranded /\ Clear(p, FALSE)
            \/ UNCHANGED <<rows, table, flag, overlapped>>
  BY <1>4
<1>6. RowsStep  BY <1>2, <1>5, FailStrandedIs DEF RowsStep
<1>7. UNCHANGED <<flag, overlapped>> \/ (l = "release" /\ Clear(p, FALSE))  BY <1>5
<1>8. /\ pc' \in [Callers -> Places] /\ cx' \in [Callers -> Locals]
      /\ pc'[p] = l /\ ~cx'[p].ok /\ \A q \in Callers \ {p} : Rests(q)
  BY <1>3, <1>5, ReturnIs
<1>. QED  BY <1>1, <1>2, <1>6, <1>7, <1>8, OutsideStep DEF Window, Appending

\* Where the jobs do not change.
LEMMA JobsStay ==
    ASSUME IInv, UNCHANGED job
    PROVE  /\ job' \in [Lessons -> {"none", "pending", "done", "failed"}]
           /\ \A s \in Lessons : job'[s] = "done" => Claimed(s)
BY DEF IInv, TypeOK, Claimed

LEMMA CommandStep == ASSUME IInv, NEW c \in Commands, Command(c)  PROVE IInv'
<1>1. c \in Callers /\ c # Task /\ c \notin Lessons /\ pc[c] = "idle"  BY Names DEF Command
<1>2. PICK force \in BOOLEAN : cx' = [cx EXCEPT ![c].force = force]  BY DEF Command, Set
<1>3. "claim" \in Places  BY DEF Places
<1>4. pc' \in [Callers -> Places] /\ pc'[c] = "claim" /\ \A q \in Callers \ {c} : pc'[q] = pc[q]
  BY <1>1, <1>3, GotoIs DEF Command
<1>5. cx' \in [Callers -> Locals] /\ cx'[c].ok = cx[c].ok /\ \A q \in Callers \ {c} : cx'[q] = cx[q]
  <2>1. cx \in [Callers -> Locals]  BY DEF IInv, TypeOK
  <2>. QED  BY <1>1, <1>2, <2>1 DEF Locals
<1>6. ~cx[c].ok  BY <1>1 DEF IInv, CallerOK
<1>7. /\ RowsStep /\ Smooth /\ UNCHANGED <<stored, model, up, lock, job, flag, overlapped>>
      /\ \A q \in Callers \ {c} : Rests(q)
  BY <1>4, <1>5 DEF Command, RowsStep, Smooth, Rests
<1>8. /\ job' \in [Lessons -> {"none", "pending", "done", "failed"}]
      /\ \A s \in Lessons : job'[s] = "done" => Claimed(s)
  BY <1>7, JobsStay
<1>. QED  BY <1>1, <1>4, <1>5, <1>6, <1>7, <1>8, OutsideStep DEF Window, Appending

\* A step within the window that makes no candidate and fills no table.
LEMMA WindowStep ==
    ASSUME IInv, NEW p \in Callers, pc[p] \in Window, pc'[p] \in Window \ {"activate"}, RowsStep,
           UNCHANGED <<stored, model, up, lock, job, flag, overlapped>>, \/ Smooth \/ Fault,
           \A q \in Callers \ {p} : Rests(q),
           pc' \in [Callers -> Places], cx' \in [Callers -> Locals],
           \A f \in {"gen", "list", "ok", "job"} : cx'[p][f] = cx[p][f],
           pc'[p] \in Candidate => pc[p] \in Candidate
    PROVE  IInv'
<1>1. CallerOK(p)  BY DEF IInv
<1>2. /\ cx'[p].gen = cx[p].gen /\ cx'[p].list = cx[p].list
      /\ cx'[p].ok = cx[p].ok /\ cx'[p].job = cx[p].job
  OBVIOUS
<1>3. TypeOK'  BY Types DEF IInv, TypeOK
<1>4. CallerOK(p)'
  <2>1. pc'[p] \in Candidate => /\ cx[p].gen \in Gens
                                /\ gen'[cx[p].gen] \in {"building", "failed"}
    <3>1. KeepsOf(p)  BY RowsKeep
    <3>. QED  BY <1>1, <3>1 DEF KeepsOf, CallerOK
  <2>2. ~cx[p].ok  BY <1>1 DEF CallerOK, Window
  <2>. QED  BY <1>1, <1>2, <2>1, <2>2 DEF CallerOK, Window, Candidate, Appending
<1>5. \A s \in Lessons : job'[s] = "done" => Claimed(s)  BY JobsStay
<1>6. ~cx'[p].ok /\ pc'[p] \notin {"complete", "cleanup"} \cup Appending
  BY <1>1, <1>2 DEF CallerOK, Window, Appending
<1>7. pc'[Task] = "list" => pc[Task] = "list"  BY Names DEF Rests, Window
<1>. QED  BY <1>2, <1>3, <1>4, <1>5, <1>6, <1>7, PlainStep

LEMMA PrepareStep == ASSUME IInv, NEW p \in Callers, Prepare(p)  PROVE IInv'
<1>1. pc[p] = "prepare" /\ "insert" \in Places  BY DEF Prepare, Places, Window
<1>2. pc' \in [Callers -> Places] /\ pc'[p] = "insert" /\ \A q \in Callers \ {p} : pc'[q] = pc[q]
  BY <1>1, GotoIs DEF Prepare
<1>3. /\ RowsStep /\ Smooth /\ cx' = cx
      /\ UNCHANGED <<stored, model, up, lock, job, flag, overlapped>>
      /\ \A q \in Callers \ {p} : Rests(q)
  BY <1>2, FailStrandedIs DEF Prepare, Smooth, Rests
<1>4. cx' \in [Callers -> Locals]  BY <1>3 DEF IInv, TypeOK
<1>. QED  BY <1>1, <1>2, <1>3, <1>4, WindowStep DEF Window, Candidate

\* A call that fails: the candidate is given up.
LEMMA FailsStep ==
    ASSUME IInv, NEW p \in Callers, pc[p] \in {"embed", "write", "activate", "cleanup"},
           Goto(p, "failing"), \/ Smooth \/ Fault,
           UNCHANGED <<stored, model, rows, table, docs, up, lock, job, flag, cx, overlapped>>
    PROVE  IInv'
<1>1. "failing" \in Places /\ ~cx[p].ok  BY DEF Places, IInv, CallerOK
<1>2. pc' \in [Callers -> Places] /\ pc'[p] = "failing" /\ \A q \in Callers \ {p} : pc'[q] = pc[q]
  BY <1>1, GotoIs
<1>3. RowsStep /\ cx' \in [Callers -> Locals] /\ \A q \in Callers \ {p} : Rests(q)
  BY <1>2 DEF RowsStep, IInv, TypeOK, Rests
<1>4. /\ job' \in [Lessons -> {"none", "pending", "done", "failed"}]
      /\ \A s \in Lessons : job'[s] = "done" => Claimed(s)
  BY JobsStay
<1>. QED  BY <1>1, <1>2, <1>3, <1>4, OutsideStep DEF Window, Appending

LEMMA EmbedStep == ASSUME IInv, NEW p \in Callers, Embed(p)  PROVE IInv'
<1>1. pc[p] = "embed" /\ "write" \in Places  BY DEF Embed, Places, Window
<1>2. CASE Fault /\ Goto(p, "failing") /\ UNCHANGED cx
  BY <1>1, <1>2, FailsStep DEF Embed
<1>3. CASE Smooth /\ Set(p, "model", model) /\ Goto(p, "write")
  <2>1. pc' \in [Callers -> Places] /\ pc'[p] = "write" /\ \A q \in Callers \ {p} : pc'[q] = pc[q]
    BY <1>1, <1>3, GotoIs
  <2>2. /\ cx' \in [Callers -> Locals] /\ \A q \in Callers \ {p} : cx'[q] = cx[q]
        /\ cx'[p].gen = cx[p].gen /\ cx'[p].list = cx[p].list
        /\ cx'[p].ok = cx[p].ok /\ cx'[p].job = cx[p].job
    <3>1. cx \in [Callers -> Locals] /\ model \in Models  BY DEF IInv, TypeOK
    <3>2. cx' = [cx EXCEPT ![p].model = model]  BY <1>3 DEF Set
    <3>. QED  BY <3>1, <3>2 DEF Locals
  <2>3. \A f \in {"gen", "list", "ok", "job"} : cx'[p][f] = cx[p][f]  BY <2>2
  <2>4. RowsStep /\ UNCHANGED <<stored, model, up, lock, job, flag, overlapped>>
    BY DEF Embed, RowsStep
  <2>5. \A q \in Callers \ {p} : Rests(q)  BY <2>1, <2>2 DEF Rests
  <2>. QED  BY <1>1, <1>3, <2>1, <2>2, <2>3, <2>4, <2>5, WindowStep DEF Window, Candidate
<1>. QED  BY <1>2, <1>3 DEF Embed

LEMMA ReleaseStep == ASSUME IInv, NEW p \in Callers, Release(p)  PROVE IInv'
<1>. DEFINE b == Building # {}
<1>1. pc[p] = "release" /\ Clear(p, b) /\ b \in BOOLEAN  BY DEF Release
<1>2. PICK l \in {"idle", "ended"} : Return(p, l)  BY DEF Release
<1>3. l \in Places  BY DEF Places
<1>4. /\ pc' \in [Callers -> Places] /\ cx' \in [Callers -> Locals]
      /\ pc'[p] = l /\ ~cx'[p].ok /\ \A q \in Callers \ {p} : Rests(q)
  BY <1>2, <1>3, ReturnIs
<1>5. RowsStep /\ Smooth /\ UNCHANGED <<stored, model, up, lock, job>>
  BY DEF Release, RowsStep, Smooth
<1>6. /\ job' \in [Lessons -> {"none", "pending", "done", "failed"}]
      /\ \A s \in Lessons : job'[s] = "done" => Claimed(s)
  BY <1>5, JobsStay
<1>. HIDE DEF b
<1>7. \E v \in BOOLEAN : Clear(p, v) /\ pc'[p] # "list"  BY <1>1, <1>4
<1>. QED  BY <1>1, <1>4, <1>5, <1>6, <1>7, OutsideStep DEF Window, Appending

LEMMA FailingStep == ASSUME IInv, NEW p \in Callers, Failing(p)  PROVE IInv'
<1>1. pc[p] = "failing" /\ "settle" \in Places /\ ~cx[p].ok
  BY DEF Failing, Places, IInv, CallerOK
<1>2. pc' \in [Callers -> Places] /\ pc'[p] = "settle" /\ \A q \in Callers \ {p} : pc'[q] = pc[q]
  BY <1>1, GotoIs DEF Failing
<1>3. RowsStep
  <2>1. Drop({cx[p].gen}, {}) /\ {} \in SUBSET With("retired")  BY DEF Failing
  <2>2. UNCHANGED <<docs, stored>>  BY DEF Failing
  <2>. QED  BY <2>1, <2>2 DEF RowsStep
<1>4. /\ UNCHANGED <<stored, model, up, lock, job, cx, flag, overlapped>> /\ Smooth
      /\ cx' \in [Callers -> Locals] /\ \A q \in Callers \ {p} : Rests(q)
  BY <1>2 DEF Failing, Smooth, IInv, TypeOK, Rests
<1>5. /\ job' \in [Lessons -> {"none", "pending", "done", "failed"}]
      /\ \A s \in Lessons : job'[s] = "done" => Claimed(s)
  BY <1>4, JobsStay
<1>. QED  BY <1>1, <1>2, <1>3, <1>4, <1>5, OutsideStep DEF Window, Appending

LEMMA CleanupStep == ASSUME IInv, NEW p \in Callers, Cleanup(p)  PROVE IInv'
<1>1. pc[p] = "cleanup" /\ "settle" \in Places  BY DEF Cleanup, Places
<1>2. CASE Fault /\ Goto(p, "failing") /\ UNCHANGED <<rows, table, cx>>
  BY <1>1, <1>2, FailsStep DEF Cleanup
<1>3. CASE /\ Smooth /\ \E D \in SUBSET Droppable : Drop({}, D)
           /\ Goto(p, "settle") /\ Set(p, "ok", TRUE)
  <2>1. pc' \in [Callers -> Places] /\ pc'[p] = "settle" /\ \A q \in Callers \ {p} : pc'[q] = pc[q]
    BY <1>1, <1>3, GotoIs
  <2>2. /\ cx' \in [Callers -> Locals] /\ \A q \in Callers \ {p} : cx'[q] = cx[q]
        /\ cx'[p].job = cx[p].job
    <3>1. cx \in [Callers -> Locals]  BY DEF IInv, TypeOK
    <3>2. cx' = [cx EXCEPT ![p].ok = TRUE]  BY <1>3 DEF Set
    <3>. QED  BY <3>1, <3>2 DEF Locals
  <2>3. UNCHANGED <<stored, model, up, lock, job, docs, flag, overlapped>>  BY DEF Cleanup
  <2>4. RowsStep
    <3>1. PICK D \in SUBSET Droppable : Drop({}, D)  BY <1>3
    <3>2. D \in SUBSET With("retired")  BY DEF Droppable
    <3>. QED  BY <2>3, <3>1, <3>2 DEF RowsStep
  <2>5. \A q \in Callers \ {p} : Rests(q)  BY <2>1, <2>2 DEF Rests
  <2>6. /\ job' \in [Lessons -> {"none", "pending", "done", "failed"}]
        /\ \A s \in Lessons : job'[s] = "done" => Claimed(s)
    BY <2>3, JobsStay
  <2>. QED  BY <1>1, <1>3, <2>1, <2>2, <2>3, <2>4, <2>5, <2>6, OutsideStep DEF Window, Appending
<1>. QED  BY <1>2, <1>3 DEF Cleanup

\* What a rebuild lists holds every lesson that was indexed or is being appended.
LEMMA ListStep == ASSUME IInv, NEW p \in Callers, List(p)  PROVE IInv'
<1>1. /\ pc[p] = "list" /\ {"settle", "prepare"} \subseteq Places /\ CallerOK(p) /\ ~cx[p].ok
      /\ cx \in [Callers -> Locals] /\ stored \in SUBSET Sources
  BY DEF List, Places, Window, IInv, TypeOK, CallerOK
<1>2. Smooth /\ UNCHANGED <<stored, model, up, lock, job, docs>>  BY DEF List, Smooth
<1>3. /\ job' \in [Lessons -> {"none", "pending", "done", "failed"}]
      /\ \A s \in Lessons : job'[s] = "done" => Claimed(s)
  BY <1>2, JobsStay
<1>4. CASE /\ stored = {} /\ FailStranded /\ Clear(p, FALSE)
           /\ Goto(p, "settle") /\ Set(p, "ok", TRUE)
  <2>1. pc' \in [Callers -> Places] /\ pc'[p] = "settle" /\ \A q \in Callers \ {p} : pc'[q] = pc[q]
    BY <1>1, <1>4, GotoIs
  <2>2. /\ cx' \in [Callers -> Locals] /\ \A q \in Callers \ {p} : cx'[q] = cx[q]
        /\ cx'[p].job = cx[p].job
    <3>1. cx' = [cx EXCEPT ![p].ok = TRUE]  BY <1>4 DEF Set
    <3>. QED  BY <1>1, <3>1 DEF Locals
  <2>3. RowsStep /\ \A q \in Callers \ {p} : Rests(q)
    BY <1>2, <1>4, <2>1, <2>2, FailStrandedIs DEF Rests
  <2>4. p \notin Lessons  BY <1>1, <1>4 DEF CallerOK
  <2>5. \E v \in BOOLEAN : Clear(p, v) /\ pc'[p] # "list"  BY <1>4, <2>1
  <2>. QED  BY <1>1, <1>2, <1>3, <2>1, <2>2, <2>3, <2>4, <2>5, OutsideStep DEF Window, Appending
<1>5. CASE /\ stored # {} /\ flag' = (flag \/ p # Task) /\ Goto(p, "prepare")
           /\ Set(p, "list", stored) /\ UNCHANGED <<rows, table, overlapped>>
  <2>1. pc' \in [Callers -> Places] /\ pc'[p] = "prepare" /\ \A q \in Callers \ {p} : pc'[q] = pc[q]
    BY <1>1, <1>5, GotoIs
  <2>2. /\ cx' \in [Callers -> Locals] /\ \A q \in Callers \ {p} : cx'[q] = cx[q]
        /\ cx'[p].list = stored /\ cx'[p].job = cx[p].job /\ cx'[p].ok = cx[p].ok
    <3>1. cx' = [cx EXCEPT ![p].list = stored]  BY <1>5 DEF Set
    <3>. QED  BY <1>1, <3>1 DEF Locals
  <2>3. \A q \in Callers \ {p} : Rests(q)  BY <2>1, <2>2 DEF Rests
  <2>4. UNCHANGED <<gen, table, docs, stored, overlapped>>  BY <1>2, <1>5 DEF rows
  <2>5. GensOK' /\ Keeps /\ (\A q \in Callers : KeepsOf(q))
        /\ With("active")' = With("active") /\ Served' = Served
    BY <2>4, SameRows
  <2>6. TypeOK'
    <3>1. flag' \in BOOLEAN /\ overlapped' \in BOOLEAN /\ lock' \in Lessons \cup {Free}
      BY <1>2, <1>5 DEF IInv, TypeOK
    <3>2. RowsStep  BY <1>2, <1>5 DEF RowsStep
    <3>. QED  BY <1>2, <1>3, <2>1, <2>2, <3>1, <3>2, Types
  <2>7. CallerOK(p)'
    BY <1>1, <1>2, <1>5, <2>1, <2>2 DEF CallerOK, Window, Candidate, Appending
  <2>8. NothingIsMissed'
    <3>. SUFFICES ASSUME ~overlapped' PROVE NothingIsMissed'  BY DEF NothingIsMissed
    <3>1. /\ pc[Task] = "list" => flag
          /\ \A q \in Callers : pc[q] \in Window =>
                /\ flag
                /\ \A s \in Lessons : Claimed(s) \/ pc[s] \in Appending => s \in cx[q].list
          /\ \A s \in Lessons :
                /\ Claimed(s) => Found(s)
                /\ pc[s] \in Appending => \A g \in With("active") : g = cx[s].gen \/ s \in docs[g]
      BY <2>4 DEF IInv, NothingIsMissed
    <3>2. flag'
      <4>1. CASE p = Task  BY <1>1, <1>5, <3>1, <4>1
      <4>2. CASE p # Task  BY <1>5, <4>2
      <4>. QED  BY <4>1, <4>2
    <3>3. ASSUME NEW s \in Lessons
          PROVE  /\ Claimed(s)' => Claimed(s)
                 /\ pc'[s] \in Appending => pc[s] \in Appending /\ cx'[s].gen = cx[s].gen
                 /\ Claimed(s) \/ pc[s] \in Appending => s \in stored
      <4>1. s \in Callers /\ CallerOK(s)  BY Names DEF IInv
      <4>2. job[s] = "done" => s \in stored  BY DEF IInv, DoneOK
      <4>3. Claimed(s) \/ pc[s] \in Appending => s \in stored
        BY <4>1, <4>2 DEF Claimed, CallerOK, Appending
      <4>4. CASE s = p  BY <1>1, <1>2, <2>1, <2>2, <4>3, <4>4 DEF Claimed, Appending
      <4>5. CASE s # p  BY <1>2, <2>3, <4>1, <4>3, <4>5 DEF Claimed, Rests
      <4>. QED  BY <4>4, <4>5
    <3>4. ASSUME NEW q \in Callers, pc'[q] \in Window, NEW s \in Lessons,
                 Claimed(s)' \/ pc'[s] \in Appending
          PROVE  s \in cx'[q].list
      <4>1. CASE q = p  BY <2>2, <3>3, <3>4, <4>1
      <4>2. CASE q # p
        <5>1. pc[q] \in Window /\ cx'[q].list = cx[q].list  BY <2>3, <3>4, <4>2 DEF Rests
        <5>. QED  BY <3>1, <3>3, <3>4, <5>1
      <4>. QED  BY <4>1, <4>2
    <3>5. ASSUME NEW s \in Lessons
          PROVE  /\ Claimed(s)' => Found(s)'
                 /\ pc'[s] \in Appending => \A g \in With("active")' : g = cx'[s].gen \/ s \in docs'[g]
      BY <2>4, <2>5, <3>1, <3>3 DEF Found
    <3>. QED  BY <3>2, <3>4, <3>5 DEF NothingIsMissed
  <2>. QED  BY <1>2, <2>1, <2>3, <2>5, <2>6, <2>7, <2>8, StepKeeps DEF Candidate
<1>. QED  BY <1>4, <1>5 DEF List

LEMMA InsertStep == ASSUME IInv, NEW p \in Callers, Insert(p)  PROVE IInv'
<1>1. /\ pc[p] = "insert" /\ "embed" \in Places /\ CallerOK(p) /\ ~cx[p].ok
      /\ cx \in [Callers -> Locals]
  BY DEF Insert, Places, Window, IInv, TypeOK, CallerOK
<1>2. PICK g \in Gens : /\ gen[g] = "none" /\ gen' = [gen EXCEPT ![g] = "building"]
                        /\ cx' = [cx EXCEPT ![p].gen = g]
  BY DEF Insert, Set
<1>3. pc' \in [Callers -> Places] /\ pc'[p] = "embed" /\ \A q \in Callers \ {p} : pc'[q] = pc[q]
  BY <1>1, GotoIs DEF Insert
<1>4. /\ cx' \in [Callers -> Locals] /\ \A q \in Callers \ {p} : cx'[q] = cx[q]
      /\ cx'[p].gen = g /\ cx'[p].list = cx[p].list /\ cx'[p].ok = cx[p].ok
      /\ cx'[p].job = cx[p].job
  BY <1>1, <1>2 DEF Locals
<1>5. \A q \in Callers \ {p} : Rests(q)  BY <1>3, <1>4 DEF Rests
<1>6. UNCHANGED <<stored, model, made, retired, table, docs, job, up, flag, lock, bounds, overlapped>>
  BY DEF Insert
<1>7. /\ gen' \in [Gens -> {"none", "building", "active", "retired", "failed", "purged"}]
      /\ gen'[g] = "building" /\ \A h \in Gens \ {g} : gen'[h] = gen[h]
  BY <1>2 DEF IInv, TypeOK
<1>8. TypeOK'  BY <1>3, <1>4, <1>6, <1>7 DEF IInv, TypeOK, bounds
<1>9. With("active")' = With("active") /\ Served' = Served
  BY <1>2, <1>7 DEF With, Served
<1>10. GensOK'  BY <1>2, <1>6, <1>7, <1>9 DEF IInv, GensOK
<1>11. Keeps  BY <1>2, <1>6, <1>7, <1>9 DEF Keeps
<1>12. \A q \in Callers : KeepsOf(q)
  <2>. SUFFICES ASSUME NEW q \in Callers, pc[q] \in Candidate PROVE KeepsOf(q)  BY DEF KeepsOf
  <2>1. cx[q].gen \in Gens \ {g}  BY <1>2 DEF IInv, CallerOK
  <2>. QED  BY <1>6, <1>7, <2>1 DEF KeepsOf
<1>13. CallerOK(p)'
  BY <1>1, <1>3, <1>4, <1>6, <1>7 DEF CallerOK, Window, Candidate, Appending
<1>14. NothingIsMissed'
  <2>1. \A h \in With("active")' : h \in With("active") /\ docs[h] \subseteq docs'[h]
    BY <1>6, <1>9
  <2>2. \A s \in Lessons : job'[s] = "done" => Claimed(s)  BY <1>6, JobsStay
  <2>3. pc'[Task] = "list" => pc[Task] = "list"  BY <1>3, Names
  <2>. QED
    BY <1>1, <1>3, <1>4, <1>5, <1>6, <2>1, <2>2, <2>3, NothingMissed DEF Window, Appending
<1>. QED  BY <1>2, <1>4, <1>5, <1>6, <1>8, <1>10, <1>11, <1>12, <1>13, <1>14, StepKeeps

LEMMA WriteStep == ASSUME IInv, NEW p \in Callers, Write(p)  PROVE IInv'
<1>. DEFINE g == cx[p].gen
<1>1. /\ pc[p] = "write" /\ "activate" \in Places /\ CallerOK(p) /\ ~cx[p].ok
      /\ cx \in [Callers -> Locals] /\ g \in Gens /\ gen[g] \in {"building", "failed"}
      /\ cx[p].list \in SUBSET Sources
  BY DEF Write, Places, Window, Candidate, IInv, TypeOK, CallerOK, Locals
<1>2. CASE Fault /\ Goto(p, "failing") /\ UNCHANGED table
  BY <1>1, <1>2, FailsStep DEF Write
<1>3. CASE Smooth /\ table' = [table EXCEPT ![g] = cx[p].list] /\ Goto(p, "activate")
  <2>1. pc' \in [Callers -> Places] /\ pc'[p] = "activate" /\ \A q \in Callers \ {p} : pc'[q] = pc[q]
    BY <1>1, <1>3, GotoIs
  <2>2. /\ UNCHANGED <<stored, model, gen, made, retired, docs, job, up, flag, lock, cx, overlapped>>
        /\ \A q \in Callers \ {p} : Rests(q)
    BY <2>1 DEF Write, rows, Rests
  <2>3. /\ table' \in [Gens -> SUBSET Sources] /\ table'[g] = cx[p].list
        /\ \A h \in Gens \ {g} : table'[h] = table[h]
    BY <1>1, <1>3 DEF IInv, TypeOK
  <2>4. TypeOK'  BY <1>3, <2>1, <2>2, <2>3 DEF IInv, TypeOK, Smooth, bounds
  <2>5. With("active")' = With("active") /\ Served' = Served  BY <2>2 DEF With, Served
  <2>6. \A h \in With("active") : h \in Gens \ {g}  BY <1>1 DEF With
  <2>7. GensOK'  BY <2>2, <2>3, <2>5, <2>6 DEF IInv, GensOK
  <2>8. Keeps
    <3>1. \A h \in Gens : gen[h] = "active" => table'[h] = table[h]  BY <1>1, <2>3
    <3>. QED  BY <2>2, <2>5, <3>1 DEF Keeps
  <2>9. \A q \in Callers \ {p} : KeepsOf(q)
    <3>. SUFFICES ASSUME NEW q \in Callers \ {p}, pc[q] \in Candidate PROVE KeepsOf(q)
      BY DEF KeepsOf
    <3>1. cx[q].gen \in Gens  BY DEF IInv, CallerOK
    <3>2. cx[q].gen # g  BY <1>1 DEF IInv, OwnersOK, Candidate
    <3>. QED  BY <2>2, <2>3, <3>1, <3>2 DEF KeepsOf
  <2>10. CallerOK(p)'
    BY <1>1, <2>1, <2>2, <2>3 DEF CallerOK, Window, Candidate, Appending
  <2>11. NothingIsMissed'
    <3>1. \A h \in With("active")' : h \in With("active") /\ docs[h] \subseteq docs'[h]
      BY <2>2, <2>5
    <3>2. \A s \in Lessons : job'[s] = "done" => Claimed(s)  BY <2>2, JobsStay
    <3>3. pc'[Task] = "list" => pc[Task] = "list"  BY <2>1, Names
    <3>. QED
      BY <1>1, <2>1, <2>2, <3>1, <3>2, <3>3, NothingMissed DEF Window, Appending
  <2>. QED
    BY <1>1, <2>2, <2>4, <2>7, <2>8, <2>9, <2>10, <2>11, StepKeeps DEF Candidate
<1>. QED  BY <1>2, <1>3 DEF Write

\* The candidate that takes the place of the active generation is whole, and lists
\* every lesson the other one held.
LEMMA ActivateStep == ASSUME IInv, NEW p \in Callers, Activate(p)  PROVE IInv'
<1>. DEFINE g == cx[p].gen
            list == cx[p].list
<1>1. /\ pc[p] = "activate" /\ "cleanup" \in Places /\ CallerOK(p) /\ ~cx[p].ok
      /\ cx \in [Callers -> Locals] /\ g \in Gens /\ list \in SUBSET Sources /\ list # {}
      /\ cx[p].model \in Models \cup {""} /\ (p \in Lessons => p \in list /\ p \in stored)
  BY DEF Activate, Places, Window, Candidate, IInv, TypeOK, CallerOK, Locals
<1>2. CASE /\ \/ Fault
              \/ Smooth /\ gen[g] # "building"
           /\ Goto(p, "failing") /\ UNCHANGED <<rows, docs, flag, cx, overlapped>>
  BY <1>1, <1>2, FailsStep DEF Activate
<1>3. CASE /\ Smooth /\ gen[g] = "building" /\ Switch(g, cx[p].model, list)
           /\ Clear(p, FALSE) /\ Goto(p, "cleanup")
           /\ cx' = [cx EXCEPT ![p] = [Fresh EXCEPT !.gen = cx[p].gen, !.job = cx[p].job]]
  <2>1. pc' \in [Callers -> Places] /\ pc'[p] = "cleanup" /\ \A q \in Callers \ {p} : pc'[q] = pc[q]
    BY <1>1, <1>3, GotoIs
  <2>2. /\ cx' \in [Callers -> Locals] /\ \A q \in Callers \ {p} : cx'[q] = cx[q]
        /\ ~cx'[p].ok /\ cx'[p].job = cx[p].job
    <3>. DEFINE c == [Fresh EXCEPT !.gen = cx[p].gen, !.job = cx[p].job]
    <3>1. c \in Locals /\ ~c.ok /\ c.job = cx[p].job
      <4>1. cx[p].job \in Lessons \cup {""}  BY <1>1 DEF Locals
      <4>. QED  BY <1>1, <4>1 DEF Fresh, Locals
    <3>2. cx' = [cx EXCEPT ![p] = c]  BY <1>3
    <3>. HIDE DEF c
    <3>. QED  BY <1>1, <3>1, <3>2
  <2>3. \A q \in Callers \ {p} : Rests(q)  BY <2>1, <2>2 DEF Rests
  <2>4. /\ UNCHANGED <<stored, model, table, job, up, lock>> /\ Smooth
        /\ flag' = FALSE /\ overlapped' = (overlapped \/ Others(p) # {})
    BY <1>3 DEF Activate, Clear
  <2>5. /\ \A h \in Gens : gen'[h] = IF h = g THEN "active"
                                      ELSE IF gen[h] = "active" THEN "retired" ELSE gen[h]
        /\ gen' \in [Gens -> {"none", "building", "active", "retired", "failed", "purged"}]
    BY <1>3 DEF Switch, IInv, TypeOK
  <2>6. made' \in [Gens -> Models \cup {""}]  BY <1>1, <1>3 DEF Switch, IInv, TypeOK
  <2>7. retired' \in [Gens -> Nat]
    <3>. DEFINE n == Cardinality({k \in Gens : retired[k] # 0})
    <3>1. n \in Nat
      <4>1. Cardinality(Lessons) \in Nat /\ Cardinality(Commands) \in Nat /\ MaxTroubles \in Nat
        BY VectorAssumption, FS_CardinalityType
      <4>2. IsFiniteSet(Gens)  BY <4>1, FS_Interval DEF Gens
      <4>3. IsFiniteSet({k \in Gens : retired[k] # 0})  BY <4>2, FS_Subset
      <4>. QED  BY <4>3, FS_CardinalityType
    <3>2. retired' = [h \in Gens |-> IF gen[h] = "active" THEN n + 1 ELSE retired[h]]
      BY <1>3 DEF Switch
    <3>. HIDE DEF n
    <3>3. retired \in [Gens -> Nat]  BY DEF IInv, TypeOK
    <3>4. n + 1 \in Nat  BY <3>1
    <3>5. \A h \in Gens : (IF gen[h] = "active" THEN n + 1 ELSE retired[h]) \in Nat  BY <3>3, <3>4
    <3>. QED  BY <3>2, <3>5
  <2>8. docs[g] = {}  BY <1>1, <1>3 DEF IInv, GensOK
  <2>9. /\ docs' \in [Gens -> SUBSET Sources] /\ docs'[g] = list
        /\ \A h \in Gens \ {g} : docs'[h] = docs[h]
    <3>1. docs' = [docs EXCEPT ![g] = @ \cup list]  BY <1>3 DEF Switch
    <3>. QED  BY <1>1, <2>8, <3>1 DEF IInv, TypeOK
  <2>10. TypeOK'
    <3>1. flag' \in BOOLEAN /\ overlapped' \in BOOLEAN  BY <2>4 DEF IInv, TypeOK
    <3>. QED  BY <2>1, <2>2, <2>4, <2>5, <2>6, <2>7, <2>9, <3>1 DEF IInv, TypeOK, Smooth, bounds
  <2>11. With("active")' = {g}  BY <1>1, <2>5 DEF With
  <2>12. Served'  BY <2>11 DEF Served
  <2>13. table[g] = list  BY <1>1, <1>3 DEF CallerOK
  <2>14. GensOK'
    <3>1. \A h \in Gens : gen'[h] \in {"none", "building"} => h # g /\ gen[h] = gen'[h]
      BY <2>5
    <3>2. \A h \in Gens : gen'[h] \in {"none", "building"} => docs'[h] = {}
      BY <2>9, <3>1 DEF IInv, GensOK
    <3>. QED  BY <1>1, <2>4, <2>9, <2>11, <2>13, <3>2 DEF GensOK
  <2>15. Keeps
    <3>1. \A h \in Gens : gen[h] \notin {"none", "building"} => gen'[h] \notin {"none", "building", "active"}
      BY <1>3, <2>5
    <3>. QED  BY <2>4, <2>12, <3>1 DEF Keeps
  <2>16. \A q \in Callers \ {p} : KeepsOf(q)
    <3>. SUFFICES ASSUME NEW q \in Callers \ {p}, pc[q] \in Candidate PROVE KeepsOf(q)
      BY DEF KeepsOf
    <3>1. cx[q].gen \in Gens /\ gen[cx[q].gen] \in {"building", "failed"}  BY DEF IInv, CallerOK
    <3>2. cx[q].gen # g  BY <1>1 DEF IInv, OwnersOK, Candidate
    <3>. QED  BY <2>4, <2>5, <3>1, <3>2 DEF KeepsOf
  <2>17. CallerOK(p)'
    BY <1>1, <2>1, <2>2, <2>4, <2>12 DEF CallerOK, Window, Candidate, Appending
  <2>18. NothingIsMissed'
    <3>. SUFFICES ASSUME ~overlapped' PROVE NothingIsMissed'  BY DEF NothingIsMissed
    <3>1. ~overlapped /\ \A q \in Callers \ {p} : pc'[q] \notin Window \cup {"list"}
      BY <1>3, <2>3, ClearedAlone
    <3>2. \A q \in Callers : pc'[q] \notin Window \cup {"list"}  BY <2>1, <3>1 DEF Window
    <3>3. \A s \in Lessons : Claimed(s) \/ pc[s] \in Appending => s \in list
      BY <1>1, <3>1 DEF IInv, NothingIsMissed, Window
    <3>4. ASSUME NEW s \in Lessons, Claimed(s)' \/ pc'[s] \in Appending
          PROVE  s \in list
      <4>1. s \in Callers  BY Names
      <4>2. CASE s = p  BY <1>1, <4>2
      <4>3. CASE s # p
        <5>1. Claimed(s) \/ pc[s] \in Appending
          BY <2>3, <2>4, <3>4, <4>1, <4>3 DEF Claimed, Rests
        <5>. QED  BY <3>3, <5>1
      <4>. QED  BY <4>2, <4>3
    <3>5. \A s \in Lessons : Claimed(s)' \/ pc'[s] \in Appending =>
                                \A h \in With("active")' : s \in docs'[h]
      BY <2>9, <2>11, <3>4
    <3>. QED  BY <3>2, <3>5, Names DEF NothingIsMissed, Found
  <2>19. pc'[p] \notin Candidate /\ job' = job  BY <2>1, <2>4 DEF Candidate
  <2>. QED  BY <2>3, <2>10, <2>14, <2>15, <2>16, <2>17, <2>18, <2>19, StepKeeps
<1>. QED  BY <1>2, <1>3 DEF Activate

\* A rebuild in the background settles the job that asked for it if it finds it in the
\* index.
LEMMA SettleStep == ASSUME IInv, NEW p \in Callers, Settle(p)  PROVE IInv'
<1>. DEFINE b == Building # {}
            r == cx[p].job
<1>1. /\ pc[p] = "settle" /\ Clear(p, b) /\ b \in BOOLEAN /\ CallerOK(p)
      /\ RowsStep /\ Smooth /\ UNCHANGED <<stored, model, rows, table, docs, up, lock>>
      /\ {"idle", "release"} \subseteq Places
      /\ job \in [Lessons -> {"none", "pending", "done", "failed"}]
  BY DEF Settle, RowsStep, Smooth, Places, IInv, TypeOK
<1>. HIDE DEF b
<1>2. CASE p # Task
  <2>1. Return(p, "release") /\ job' = IF p \in Lessons
                                       THEN [job EXCEPT ![p] = IF cx[p].ok THEN "done" ELSE "failed"]
                                       ELSE job
    BY <1>2 DEF Settle
  <2>2. /\ pc' \in [Callers -> Places] /\ cx' \in [Callers -> Locals]
        /\ pc'[p] = "release" /\ ~cx'[p].ok /\ \A q \in Callers \ {p} : Rests(q)
    BY <1>1, <2>1, ReturnIs
  <2>3. /\ job' \in [Lessons -> {"none", "pending", "done", "failed"}]
        /\ \A s \in Lessons : job'[s] = "done" => Claimed(s)
    BY <1>1, <2>1 DEF Claimed
  <2>4. \E v \in BOOLEAN : Clear(p, v) /\ pc'[p] # "list"  BY <1>1, <2>2
  <2>. QED  BY <1>1, <1>2, <2>2, <2>3, <2>4, OutsideStep DEF Window, Appending
<1>3. CASE p = Task
  <2>1. Return(p, "idle") /\ job' = IF cx[p].ok /\ Indexed(r)
                                    THEN [job EXCEPT ![r] = "done"] ELSE job
    BY <1>3 DEF Settle
  <2>2. /\ pc' \in [Callers -> Places] /\ cx' \in [Callers -> Locals]
        /\ pc'[p] = "idle" /\ ~cx'[p].ok /\ \A q \in Callers \ {p} : Rests(q)
    BY <1>1, <2>1, ReturnIs
  <2>3. /\ job' \in [Lessons -> {"none", "pending", "done", "failed"}]
        /\ \A s \in Lessons : job'[s] = "done" => job[s] = "done" \/ (s = r /\ Indexed(r))
    BY <1>1, <2>1
  <2>4. /\ GensOK' /\ Keeps /\ \A q \in Callers : KeepsOf(q)
        /\ With("active")' = With("active") /\ docs' = docs /\ Served' = Served
    BY <1>1, SameRows DEF rows
  <2>5. TypeOK'
    <3>1. flag' \in BOOLEAN /\ overlapped' \in BOOLEAN /\ lock' \in Lessons \cup {Free}
      BY <1>1 DEF Clear, IInv, TypeOK
    <3>. QED  BY <1>1, <2>2, <2>3, <3>1, Types
  <2>6. CallerOK(p)'
    BY <1>3, <2>2, Names DEF CallerOK, Window, Candidate, Appending
  <2>7. Indexed(r) => /\ \A g \in With("active") : r \in docs[g]
                      /\ Served'
    <3>. SUFFICES ASSUME Indexed(r) PROVE (\A g \in With("active") : r \in docs[g]) /\ Served'
      OBVIOUS
    <3>1. Active \in With("active") /\ r \in docs[Active]  BY ActiveIs DEF Indexed
    <3>2. \A g \in With("active") : g = Active  BY <3>1 DEF IInv, GensOK
    <3>. QED  BY <2>4, <3>1, <3>2 DEF Served
  <2>8. r \in stored'  BY <1>1, <1>3 DEF CallerOK
  <2>9. NothingIsMissed'
    <3>. SUFFICES ASSUME ~overlapped' PROVE NothingIsMissed'  BY DEF NothingIsMissed
    <3>1. ~overlapped /\ \A q \in Callers \ {p} : pc'[q] \notin Window \cup {"list"}
      BY <1>1, <2>2, ClearedAlone
    <3>2. \A q \in Callers : pc'[q] \notin Window \cup {"list"}  BY <2>2, <3>1 DEF Window
    <3>3. ASSUME NEW s \in Lessons
          PROVE  /\ Claimed(s)' => Found(s)'
                 /\ pc'[s] \in Appending => \A g \in With("active")' : g = cx'[s].gen \/ s \in docs'[g]
      <4>1. s \in Callers /\ s # p  BY <1>3, Names
      <4>2. pc'[s] = pc[s] /\ cx'[s] = cx[s]  BY <2>2, <4>1 DEF Rests
      <4>3. Claimed(s)' => Claimed(s) \/ (s = r /\ Indexed(r))  BY <2>3, <4>2 DEF Claimed
      <4>4. /\ Claimed(s) => Found(s)
            /\ pc[s] \in Appending => \A g \in With("active") : g = cx[s].gen \/ s \in docs[g]
        BY <3>1 DEF IInv, NothingIsMissed
      <4>. QED  BY <2>4, <2>7, <4>2, <4>3, <4>4 DEF Found
    <3>. QED  BY <3>2, <3>3, Names DEF NothingIsMissed
  <2>10. \A s \in Lessons : job'[s] = "done" => job[s] = "done" \/ (Served' /\ s \in stored')
    BY <2>3, <2>7, <2>8
  <2>11. pc'[p] \notin Candidate  BY <2>2 DEF Candidate
  <2>. QED  BY <2>2, <2>4, <2>5, <2>6, <2>9, <2>10, <2>11, StepKeeps
<1>. QED  BY <1>2, <1>3

-----------------------------------------------------------------------------
(***************************************************************************)
(* The rest of the system, restarts, and the theorems.                     *)
(***************************************************************************)

\* A step that moves no caller.
LEMMA AllRest ==
    ASSUME IInv, TypeOK', RowsStep, UNCHANGED <<job, flag, pc, cx, overlapped>>
    PROVE  IInv'
<1>1. \A q \in Callers : Rests(q)  BY DEF Rests
<1>2. CallerOK(Task)'
  <2>1. Keeps /\ KeepsOf(Task)  BY Names, RowsKeep
  <2>. QED  BY <1>1, <2>1, Names, CallerKeeps
<1>3. \A s \in Lessons : job'[s] = "done" => Claimed(s)  BY JobsStay
<1>4. Task \in Callers /\ Task \notin Lessons  BY Names
<1>. QED  BY <1>1, <1>2, <1>3, <1>4, PlainStep

LEMMA StoreStep == ASSUME IInv, NEW s \in Sources, Store(s)  PROVE IInv'
<1>1. RowsStep  BY DEF Store, RowsStep
<1>2. TypeOK'  BY DEF Store, IInv, TypeOK, rows, bounds
<1>. QED  BY <1>1, <1>2, AllRest DEF Store

LEMMA ChangeStep == IInv /\ Change => IInv'
<1>. SUFFICES ASSUME IInv, Change PROVE IInv'  OBVIOUS
<1>1. RowsStep  BY DEF Change, RowsStep
<1>2. changes' \in Nat /\ model' \in Models
  <2>1. changes \in Nat  BY DEF IInv, TypeOK
  <2>. QED  BY <2>1 DEF Change
<1>3. TypeOK'  BY <1>2 DEF Change, IInv, TypeOK, rows
<1>. QED  BY <1>1, <1>3, AllRest DEF Change

LEMMA StutterStep == IInv /\ UNCHANGED vars => IInv'
<1>. SUFFICES ASSUME IInv, UNCHANGED vars PROVE IInv'  OBVIOUS
<1>1. UNCHANGED <<stored, model, rows, table, docs, job, up, flag, lock, pc, cx, bounds, overlapped>>
  BY DEF vars
<1>2. RowsStep  BY <1>1 DEF RowsStep
<1>3. TypeOK'  BY <1>1 DEF IInv, TypeOK, rows, bounds
<1>. QED  BY <1>1, <1>2, <1>3, AllRest

LEMMA StopStep == IInv /\ Stop => IInv'
<1>. SUFFICES ASSUME IInv, Stop PROVE IInv'  OBVIOUS
<1>1. /\ pc' \in [Callers -> Places] /\ \A q \in Callers : pc'[q] \in {"idle", "ended"}
      /\ cx' \in [Callers -> Locals] /\ \A q \in Callers : ~cx'[q].ok
  <2>1. {"idle", "ended"} \subseteq Places /\ Fresh \in Locals /\ ~Fresh.ok
    BY Names DEF Places, Fresh
  <2>. HIDE DEF Fresh, Places, Locals
  <2>. QED  BY <2>1 DEF Stop
<1>2. UNCHANGED <<stored, model, gen, made, retired, table, docs, job, overlapped>>
  BY DEF Stop, rows
<1>3. TypeOK'
  <2>1. changes' \in Nat /\ troubles' \in Nat
    <3>1. changes \in Nat /\ troubles \in Nat  BY DEF IInv, TypeOK
    <3>. QED  BY <3>1 DEF Stop, Fault
  <2>2. up' = FALSE /\ flag' = FALSE /\ lock' = Free  BY DEF Stop
  <2>. QED  BY <1>1, <1>2, <2>1, <2>2 DEF IInv, TypeOK
<1>4. GensOK' /\ Keeps /\ With("active")' = With("active")  BY <1>2, SameRows
<1>5. \A q \in Callers : CallerOK(q)' /\ pc'[q] \notin Candidate
  BY <1>1 DEF CallerOK, Window, Candidate, Appending
<1>6. NothingIsMissed'
  <2>1. \A s \in Lessons : Claimed(s)' => job[s] = "done"
    BY <1>1, <1>2, Names DEF Claimed
  <2>2. ~overlapped => \A s \in Lessons : job[s] = "done" => Found(s)
    BY DEF IInv, NothingIsMissed, Claimed
  <2>. QED
    BY <1>1, <1>2, <1>4, <2>1, <2>2, Names DEF NothingIsMissed, Found, Window, Appending
<1>7. \A s \in Lessons : job'[s] = "done" => job[s] = "done"  BY <1>2
<1>. QED  BY <1>3, <1>4, <1>5, <1>6, <1>7, ManyKeep

LEMMA StartStep == IInv /\ AtRest /\ Start => IInv'
<1>. SUFFICES ASSUME IInv, AtRest, Start PROVE IInv'  OBVIOUS
<1>1. Opening \in Callers /\ Opening \notin Lessons /\ Opening # Task /\ "probe" \in Places
  BY Names DEF Places
<1>2. ~cx[Opening].ok  BY <1>1 DEF Start, AtRest, IInv, CallerOK
<1>3. pc' \in [Callers -> Places] /\ pc'[Opening] = "probe"
      /\ \A q \in Callers \ {Opening} : pc'[q] = pc[q]
  BY <1>1, GotoIs DEF Start
<1>4. /\ UNCHANGED <<stored, model, docs, job, lock, cx, bounds, overlapped>>
      /\ flag' = TRUE /\ up' = TRUE
      /\ \A q \in Callers \ {Opening} : Rests(q)
  BY <1>3 DEF Start, Rests
<1>5. RowsStep
  <2>1. PICK D \in SUBSET Droppable : Drop(Building, D)  BY DEF Start
  <2>2. D \in SUBSET With("retired")  BY DEF Droppable
  <2>. QED  BY <1>4, <2>1, <2>2 DEF RowsStep
<1>6. TypeOK'
  <2>1. /\ gen' \in [Gens -> {"none", "building", "active", "retired", "failed", "purged"}]
        /\ table' \in [Gens -> SUBSET Sources] /\ made' = made /\ retired' = retired
    BY <1>5, RowsKeep
  <2>. QED  BY <1>3, <1>4, <2>1 DEF IInv, TypeOK, bounds
<1>7. CallerOK(Opening)'
  BY <1>1, <1>2, <1>3, <1>4 DEF CallerOK, Window, Candidate, Appending
<1>8. \A s \in Lessons : job'[s] = "done" => Claimed(s)  BY <1>4, JobsStay
<1>9. pc'[Task] = "list" => pc[Task] = "list"  BY <1>1, <1>3, Names
<1>10. pc'[Opening] \notin Window /\ pc'[Opening] \notin Candidate
  BY <1>3 DEF Window, Candidate
<1>. QED  BY <1>1, <1>4, <1>5, <1>6, <1>7, <1>8, <1>9, <1>10, PlainStep

LEMMA InitInvariant == Init => IInv /\ AtRest
<1>. SUFFICES ASSUME Init PROVE IInv /\ AtRest  OBVIOUS
<1>1. /\ \A g \in Gens : gen[g] = "none" /\ docs[g] = {}
      /\ \A p \in Callers : pc[p] = "idle" /\ ~cx[p].ok
      /\ \A s \in Lessons : job[s] = "none"
  BY DEF Init, Fresh
<1>2. TypeOK
  <2>1. model \in Models  BY VectorAssumption DEF Init
  <2>2. "idle" \in Places /\ Fresh \in Locals /\ 0 \in Nat  BY Names DEF Places
  <2>. HIDE DEF Fresh, Places, Locals
  <2>. QED  BY <2>1, <2>2 DEF Init, TypeOK
<1>3. GensOK  BY <1>1 DEF GensOK, With
<1>4. \A p \in Callers : CallerOK(p)  BY <1>1 DEF CallerOK, Window, Candidate, Appending
<1>5. OwnersOK  BY <1>1 DEF OwnersOK, Candidate
<1>6. DoneOK  BY <1>1 DEF DoneOK
<1>7. NothingIsMissed  BY <1>1, Names DEF NothingIsMissed, Claimed, Window, Appending
<1>. QED  BY <1>1, <1>2, <1>3, <1>4, <1>5, <1>6, <1>7 DEF IInv, AtRest

LEMMA AtRestStep == AtRest /\ [Next]_vars => AtRest'
<1>. SUFFICES ASSUME AtRest, [Next]_vars PROVE AtRest'  OBVIOUS
<1>1. CASE UNCHANGED vars  BY <1>1 DEF AtRest, vars
<1>2. ASSUME NEW s \in Lessons, Enqueue(s) PROVE AtRest'  BY <1>2 DEF Enqueue, AtRest
<1>3. ASSUME NEW s \in Lessons, Finish(s) PROVE AtRest'
  <2>1. up /\ up' = up
    BY <1>3, Names DEF Finish, EmbedLesson, Decide, Upsert, Document, Complete, AtRest
  <2>. QED  BY <2>1 DEF AtRest
<1>4. ASSUME NEW c \in Commands, Command(c) PROVE AtRest'  BY <1>4 DEF Command, AtRest
<1>5. ASSUME NEW p \in Callers, Step(p) PROVE AtRest'
  <2>1. pc[p] \notin {"idle", "ended"} /\ up' = up
    BY <1>5 DEF Step, Claim, Probe, Probed, List, Prepare, Insert, Embed, Write, Activate,
                Cleanup, Failing, Settle, Release
  <2>. QED  BY <2>1 DEF AtRest
<1>6. ASSUME NEW s \in Sources, Store(s) PROVE AtRest'  BY <1>6 DEF Store, AtRest
<1>7. CASE Change  BY <1>7 DEF Change, AtRest
<1>8. CASE Stop  BY <1>8 DEF Stop, AtRest
<1>9. CASE Start  BY <1>9 DEF Start, AtRest
<1>. QED  BY <1>1, <1>2, <1>3, <1>4, <1>5, <1>6, <1>7, <1>8, <1>9 DEF Next

LEMMA NextStep == IInv /\ AtRest /\ [Next]_vars => IInv'
<1>. SUFFICES ASSUME IInv, AtRest, [Next]_vars PROVE IInv'  OBVIOUS
<1>1. CASE UNCHANGED vars  BY <1>1, StutterStep
<1>2. ASSUME NEW s \in Lessons, Enqueue(s) \/ Finish(s) PROVE IInv'
  BY <1>2, EnqueueStep, EmbedLessonStep, DecideStep, UpsertStep, DocumentStep, CompleteStep DEF Finish
<1>3. ASSUME NEW c \in Commands, Command(c) PROVE IInv'  BY <1>3, CommandStep
<1>4. ASSUME NEW p \in Callers, Step(p) PROVE IInv'
  BY <1>4, ClaimStep, ProbeStep, ProbedStep, ListStep, PrepareStep, InsertStep, EmbedStep,
     WriteStep, ActivateStep, CleanupStep, FailingStep, SettleStep, ReleaseStep DEF Step
<1>5. ASSUME NEW s \in Sources, Store(s) PROVE IInv'  BY <1>5, StoreStep
<1>6. CASE Change  BY <1>6, ChangeStep
<1>7. CASE Stop  BY <1>7, StopStep
<1>8. CASE Start  BY <1>8, StartStep
<1>. QED  BY <1>1, <1>2, <1>3, <1>4, <1>5, <1>6, <1>7, <1>8 DEF Next

\* Whatever is enqueued, whoever rebuilds beside whom, and wherever a call fails or the
\* process ends, the inductive invariant holds.
THEOREM Invariant == Spec => [](IInv /\ AtRest)
BY InitInvariant, NextStep, AtRestStep, PTL DEF Spec

\* However rebuilds and appends interleave and fail, at most one generation is served,
\* it has its table with all the documents it lists, and the search says that there is
\* nothing only while nothing was indexed.
THEOREM ServedIsWhole == Spec => []ServedInv
<1>1. IInv => ServedInv
  <2>. SUFFICES ASSUME IInv PROVE ServedInv  OBVIOUS
  <2>1. Cardinality(With("active")) <= 1
    <3>1. CASE With("active") = {}  BY <3>1, FS_EmptySet
    <3>2. CASE With("active") # {}
      <4>1. PICK g : With("active") = {g}  BY <3>2 DEF IInv, GensOK
      <4>2. Cardinality({g}) = 1  BY FS_Singleton
      <4>. QED  BY <4>1, <4>2
    <3>. QED  BY <3>1, <3>2
  <2>2. EmptyIsHonest
    <3>. SUFFICES ASSUME Answer(Active) = "empty", NEW s \in Lessons, job[s] = "done" PROVE FALSE
      BY DEF EmptyIsHonest
    <3>1. Active = 0 /\ With("failed") = {}  BY DEF Answer
    <3>2. With("active") = {}  BY <3>1, ActiveIs
    <3>. QED  BY <3>1, <3>2 DEF IInv, DoneOK, Served
  <2>. QED  BY <2>1, <2>2 DEF ServedInv, ServingIsWhole, IInv, GensOK
<1>. QED  BY <1>1, Invariant, PTL

\* As long as no rebuild clears the flag of another, a lesson whose job is done is in
\* the generation that is served, whichever took its place since.
THEOREM DoneIsFound == Spec => []DoneStaysIndexed
<1>1. IInv => DoneStaysIndexed
  <2>. SUFFICES ASSUME IInv, NEW s \in Lessons, job[s] = "done", ~overlapped, Active # 0
                PROVE  Indexed(s)
    BY DEF DoneStaysIndexed
  <2>1. Found(s)  BY DEF IInv, NothingIsMissed, Claimed
  <2>2. Active \in With("active")  BY ActiveIs
  <2>. QED  BY <2>1, <2>2 DEF Found, Indexed
<1>. QED  BY <1>1, Invariant, PTL
=============================================================================
