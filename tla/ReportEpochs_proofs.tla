------------------------- MODULE ReportEpochs_proofs -------------------------
(***************************************************************************)
(* Proofs about the reports of a round, for any number of branches, turns, *)
(* deadlines, faults and pauses, and whatever epochs went before.          *)
(***************************************************************************)
EXTENDS ReportEpochs, FiniteSetTheorems, SequenceTheorems, TLAPS

\* Every set of numbers that is not empty has a least one.
LEMMA LeastExists ==
    ASSUME NEW S \in SUBSET Nat, S # {}
    PROVE  \E m \in S : \A x \in S : m <= x
<1>1. IsWellFoundedOn(OpToRel(<, Nat), Nat)  BY NatLessThanWellFounded
<1>2. PICK m \in S : \A x \in S : <<x, m>> \notin OpToRel(<, Nat)  BY <1>1, WFMin
<1>3. \A x \in S : ~(x < m) /\ x \in Nat /\ m \in Nat  BY <1>2 DEF OpToRel
<1>. QED  BY <1>3

\* A coordinator as the round leaves it between two steps.
Sound(c) ==
    /\ c \in Coordinators
    /\ c.epoch.ready \subseteq c.epoch.frontier /\ c.epoch.ends \subseteq c.ended
    /\ c.epoch.finished /\ c.epoch.id # 0 => c.epoch.started
    /\ c.epoch.id = 0 => c.epoch = NoEpoch

\* A ready frontier has been begun, or its attempts are used up.
Begun(c) == ~c.epoch.finished /\ AllReady(c) => c.epoch.started \/ c.epoch.tries = MaxTries

\* What an operator of the coordinator may do to the synthesis of the epoch:
\* leave it, begin one that covers what there is, or open an epoch that waits.
Stays(c, d) == /\ d.epoch.id = c.epoch.id /\ d.epoch.tries = c.epoch.tries
               /\ d.epoch.started = c.epoch.started /\ d.epoch.kind = c.epoch.kind
               /\ d.epoch.ends = c.epoch.ends /\ d.epoch.drafts = c.epoch.drafts
Arms(c, d) == /\ d.epoch.started /\ ~d.epoch.finished
              /\ <<d.epoch.id, d.epoch.tries>> # <<c.epoch.id, c.epoch.tries>>
              /\ d.epoch.ends = d.ended
              /\ d.epoch.kind = "FINAL" => d.epoch.drafts = {}
Waits(d) == ~d.epoch.started /\ ~d.epoch.finished

-----------------------------------------------------------------------------
(***************************************************************************)
(* The operators of the coordinator                                        *)
(***************************************************************************)

\* The first epoch is none.
LEMMA NoEpochIs ==
    /\ NoEpoch \in Epochs /\ NoEpoch.finished /\ NoEpoch.id = 0 /\ ~NoEpoch.started
    /\ NoEpoch.ends = {} /\ NoEpoch.frontier = {}
BY DEF NoEpoch, Epochs, MaxTries

\* An epoch that is armed.
LEMMA ArmedIs ==
    ASSUME NEW c, Sound(c), c.epoch.tries < MaxTries, ~c.epoch.finished, c.epoch.id # 0
    PROVE  /\ Sound(Armed(c)) /\ Arms(c, Armed(c))
           /\ Armed(c).life = c.life /\ Armed(c).held = c.held
           /\ Armed(c).drafted = c.drafted /\ Armed(c).ended = c.ended
           /\ Armed(c).epoch.id = c.epoch.id /\ Armed(c).epoch.n = c.epoch.n
           /\ Armed(c).epoch.frontier = c.epoch.frontier /\ Armed(c).epoch.ready = c.epoch.ready
           /\ ~Armed(c).epoch.finished
<1>. DEFINE e == c.epoch
            kind == IF ActiveBranches(c) = {} THEN "FINAL" ELSE "INTERMEDIATE"
            drafts == c.drafted \cap ActiveBranches(c)
            f == [e EXCEPT !.started = TRUE, !.tries = e.tries + 1, !.ends = c.ended,
                           !.drafts = drafts, !.kind = kind]
            d == [c EXCEPT !.epoch = f]
<1>1. c \in Coordinators /\ e \in Epochs  BY DEF Sound, Coordinators
<1>2. Armed(c) = d  BY DEF Armed
<1>3. /\ kind \in {"INTERMEDIATE", "FINAL"} /\ drafts \in SUBSET Branches
      /\ c.ended \in SUBSET Branches /\ e.tries + 1 \in 0 .. MaxTries
      /\ kind = "FINAL" => drafts = {}
  BY <1>1 DEF Coordinators, Epochs, MaxTries
<1>. HIDE DEF kind, drafts
<1>4. /\ f \in Epochs /\ f.started /\ f.tries = e.tries + 1 /\ f.ends = c.ended
      /\ f.drafts = drafts /\ f.kind = kind /\ f.id = e.id /\ f.n = e.n
      /\ f.frontier = e.frontier /\ f.ready = e.ready /\ f.finished = e.finished
  BY <1>1, <1>3 DEF Epochs
<1>. HIDE DEF f
<1>5. /\ d \in Coordinators /\ d.life = c.life /\ d.held = c.held /\ d.drafted = c.drafted
      /\ d.ended = c.ended /\ d.epoch = f
  BY <1>1, <1>4 DEF Coordinators
<1>. HIDE DEF d
<1>6. Sound(d)  BY <1>1, <1>4, <1>5 DEF Sound
<1>7. Arms(c, d)
  <2>1. e.tries \in Nat  BY <1>1 DEF Epochs, MaxTries
  <2>. QED  BY <1>3, <1>4, <1>5, <2>1 DEF Arms
<1>. QED  BY <1>2, <1>4, <1>5, <1>6, <1>7

\* _maybe_start_synthesis leaves a sound coordinator, and no ready frontier idle.
LEMMA ConsideredIs ==
    ASSUME NEW c, Sound(c), c.epoch.id # 0
    PROVE  /\ Sound(Considered(c)) /\ Begun(Considered(c))
           /\ Arms(c, Considered(c)) \/ Considered(c) = c
           /\ Considered(c).life = c.life /\ Considered(c).held = c.held
           /\ Considered(c).drafted = c.drafted /\ Considered(c).ended = c.ended
           /\ Considered(c).epoch.id = c.epoch.id /\ Considered(c).epoch.finished = c.epoch.finished
           /\ c.epoch.started => Considered(c) = c
<1>. DEFINE d == Armed(c)
<1>1. c \in Coordinators /\ c.epoch \in Epochs /\ c.epoch.tries \in 0 .. MaxTries
  BY DEF Sound, Coordinators, Epochs
<1>2. CASE c.epoch.started \/ c.epoch.tries >= MaxTries \/ ~AllReady(c)
  <2>1. Considered(c) = c  BY <1>2 DEF Considered
  <2>2. Begun(c)  BY <1>1, <1>2 DEF Begun, MaxTries
  <2>. QED  BY <2>1, <2>2
<1>3. CASE ~(c.epoch.started \/ c.epoch.tries >= MaxTries \/ ~AllReady(c))
  <2>1. Considered(c) = d  BY <1>3 DEF Considered
  <2>2. ~c.epoch.finished /\ c.epoch.tries < MaxTries
    BY <1>1, <1>3 DEF Sound, MaxTries
  <2>3. c.epoch.finished = FALSE  BY <1>1, <2>2 DEF Epochs
  <2>4. /\ Sound(d) /\ Arms(c, d) /\ d.life = c.life /\ d.held = c.held
        /\ d.drafted = c.drafted /\ d.ended = c.ended /\ d.epoch.id = c.epoch.id
        /\ ~d.epoch.finished
    BY <2>2, ArmedIs
  <2>. HIDE DEF d
  <2>5. d.epoch.finished = FALSE  BY <2>4 DEF Sound, Coordinators, Epochs
  <2>6. Begun(d)  BY <2>4 DEF Begun, Arms
  <2>. QED  BY <1>3, <2>1, <2>3, <2>4, <2>5, <2>6
<1>. QED  BY <1>2, <1>3

\* Branches that are released stay active, and the epoch is as it was.
LEMMA ReleasedIs ==
    ASSUME NEW c, Sound(c), NEW bs \in SUBSET Branches
    PROVE  /\ Sound(Released(c, bs)) /\ Released(c, bs).epoch = c.epoch
           /\ Released(c, bs).drafted = c.drafted /\ Released(c, bs).ended = c.ended
           /\ Released(c, bs).held = c.held \ bs
           /\ ActiveBranches(Released(c, bs)) = ActiveBranches(c)
<1>. DEFINE life == [b \in Branches |-> IF b \in bs /\ c.life[b] = "waiting" THEN "active" ELSE c.life[b]]
            d == [c EXCEPT !.held = c.held \ bs, !.life = life]
<1>1. c \in Coordinators /\ c.life \in [Branches -> {"absent", "active", "waiting", "finalized"}]
  BY DEF Sound, Coordinators
<1>2. Released(c, bs) = d  BY DEF Released
<1>3. /\ life \in [Branches -> {"absent", "active", "waiting", "finalized"}]
      /\ \A b \in Branches : life[b] \in {"active", "waiting"} <=> c.life[b] \in {"active", "waiting"}
  BY <1>1
<1>. HIDE DEF life
<1>4. /\ d \in Coordinators /\ d.life = life /\ d.held = c.held \ bs /\ d.drafted = c.drafted
      /\ d.ended = c.ended /\ d.epoch = c.epoch
  BY <1>1, <1>3 DEF Coordinators
<1>. HIDE DEF d
<1>5. Sound(d)  BY <1>4 DEF Sound
<1>6. ActiveBranches(d) = ActiveBranches(c)  BY <1>3, <1>4 DEF ActiveBranches
<1>. QED  BY <1>2, <1>4, <1>5, <1>6

\* open_epoch after one that is finished: all that was held is released.
LEMMA OpenedIs ==
    ASSUME NEW c, Sound(c), c.epoch.finished, NEW n \in Nat
    PROVE  /\ Sound(Opened(c, n)) /\ Begun(Opened(c, n))
           /\ Arms(c, Opened(c, n)) \/ Waits(Opened(c, n))
           /\ Opened(c, n).held = {} /\ Opened(c, n).ended = c.ended
           /\ ActiveBranches(Opened(c, n)) = ActiveBranches(c)
           /\ Opened(c, n).epoch.id # 0
<1>. DEFINE active == ActiveBranches(c)
            k == c.epoch.id + 1
            ready == active \cap c.drafted
            fresh == [NoEpoch EXCEPT !.id = k, !.n = n, !.frontier = active,
                                     !.ready = ready, !.finished = FALSE]
            opened == [c EXCEPT !.epoch = fresh]
            d == Released(opened, c.held)
<1>1. /\ c \in Coordinators /\ c.epoch \in Epochs /\ c.epoch.id \in Nat /\ c.held \in SUBSET Branches
      /\ c.ended \in SUBSET Branches
  BY DEF Sound, Coordinators, Epochs
<1>2. Opened(c, n) = Considered(d)  BY DEF Opened
<1>3. /\ active \in SUBSET Branches /\ ready \in SUBSET Branches /\ ready \subseteq active
      /\ k \in Nat /\ k # c.epoch.id /\ k # 0
  BY <1>1 DEF ActiveBranches
<1>. HIDE DEF active, ready, k
<1>4. /\ fresh \in Epochs /\ fresh.id = k /\ fresh.frontier = active /\ fresh.ready = ready
      /\ ~fresh.finished /\ ~fresh.started /\ fresh.ends = {}
  BY <1>3, NoEpochIs DEF Epochs
<1>. HIDE DEF fresh
<1>5. /\ opened \in Coordinators /\ opened.epoch = fresh /\ opened.held = c.held
      /\ opened.ended = c.ended /\ opened.life = c.life
  BY <1>1, <1>4 DEF Coordinators
<1>. HIDE DEF opened
<1>6. Sound(opened)  BY <1>3, <1>4, <1>5 DEF Sound
<1>7. ActiveBranches(opened) = active  BY <1>5 DEF ActiveBranches, active
<1>8. /\ Sound(d) /\ d.epoch = fresh /\ d.ended = c.ended /\ d.held = {}
      /\ ActiveBranches(d) = active
  BY <1>1, <1>5, <1>6, <1>7, ReleasedIs
<1>. HIDE DEF d
<1>9. d.epoch.id # 0  BY <1>3, <1>4, <1>8
<1>. DEFINE e == Considered(d)
<1>10. /\ Sound(e) /\ Begun(e)
       /\ Arms(d, e) \/ e = d
       /\ e.life = d.life /\ e.held = d.held /\ e.ended = d.ended /\ e.epoch.id = d.epoch.id
  BY <1>8, <1>9, ConsideredIs
<1>13. Opened(c, n) = e  BY <1>2
<1>. HIDE DEF e
<1>11. Arms(c, e) \/ Waits(e)
  BY <1>3, <1>4, <1>8, <1>10 DEF Arms, Waits
<1>12. ActiveBranches(e) = active  BY <1>8, <1>10 DEF ActiveBranches
<1>14. e.epoch.id # 0 /\ e.held = {} /\ e.ended = c.ended  BY <1>8, <1>9, <1>10
<1>. QED  BY <1>10, <1>11, <1>12, <1>13, <1>14 DEF active

\* The entry of a branch becomes ready: of this epoch, or of none.
LEMMA EntryReadyIs ==
    ASSUME NEW c, Sound(c), NEW b \in Branches, NEW id
    PROVE  /\ Sound(EntryReady(c, b, id)) /\ Stays(c, EntryReady(c, b, id))
           /\ EntryReady(c, b, id).epoch.finished = c.epoch.finished
           /\ EntryReady(c, b, id).life = c.life /\ EntryReady(c, b, id).held = c.held
           /\ EntryReady(c, b, id).ended = c.ended /\ EntryReady(c, b, id).drafted = c.drafted
           /\ ~InFrontier(c, b) /\ Begun(c) => Begun(EntryReady(c, b, id))
<1>. DEFINE ready == c.epoch.ready \cup {b}
            f == [c.epoch EXCEPT !.ready = ready]
            d == [c EXCEPT !.epoch = f]
<1>1. /\ c \in Coordinators /\ c.epoch \in Epochs /\ c.epoch.ready \in SUBSET Branches
      /\ c.epoch.finished \in BOOLEAN
  BY DEF Sound, Coordinators, Epochs
<1>2. CASE ~(id = c.epoch.id /\ b \in c.epoch.frontier)
  <2>1. EntryReady(c, b, id) = c  BY <1>2 DEF EntryReady
  <2>. QED  BY <2>1 DEF Stays
<1>3. CASE id = c.epoch.id /\ b \in c.epoch.frontier
  <2>1. EntryReady(c, b, id) = d  BY <1>3 DEF EntryReady
  <2>2. ready \in SUBSET Branches  BY <1>1
  <2>. HIDE DEF ready
  <2>3. /\ f \in Epochs /\ f.ready = ready /\ f.id = c.epoch.id /\ f.n = c.epoch.n
        /\ f.frontier = c.epoch.frontier /\ f.started = c.epoch.started
        /\ f.finished = c.epoch.finished /\ f.tries = c.epoch.tries /\ f.kind = c.epoch.kind
        /\ f.ends = c.epoch.ends /\ f.drafts = c.epoch.drafts
    BY <1>1, <2>2 DEF Epochs
  <2>. HIDE DEF f
  <2>4. /\ d \in Coordinators /\ d.epoch = f /\ d.life = c.life /\ d.held = c.held
        /\ d.ended = c.ended /\ d.drafted = c.drafted
    BY <1>1, <2>3 DEF Coordinators
  <2>. HIDE DEF d
  <2>5. c.epoch.id # 0  BY <1>3 DEF Sound, NoEpoch
  <2>6. Sound(d)  BY <1>3, <2>3, <2>4, <2>5 DEF Sound, ready
  <2>7. Stays(c, d)  BY <2>3, <2>4 DEF Stays
  <2>8. ~InFrontier(c, b) => Begun(d)  BY <1>3, <2>3, <2>4 DEF InFrontier, Begun
  <2>. QED  BY <2>1, <2>3, <2>4, <2>6, <2>7, <2>8
<1>. QED  BY <1>2, <1>3

\* A checkpoint summary is noted.
LEMMA DraftedIs ==
    ASSUME NEW c, Sound(c), NEW b \in Branches, NEW success
    PROVE  /\ Sound(Drafted(c, b, success)) /\ Drafted(c, b, success).epoch = c.epoch
           /\ Drafted(c, b, success).life = c.life /\ Drafted(c, b, success).held = c.held
           /\ Drafted(c, b, success).ended = c.ended
<1>. DEFINE drafted == c.drafted \cup {b}
            d == [c EXCEPT !.drafted = drafted]
<1>1. c \in Coordinators /\ drafted \in SUBSET Branches  BY DEF Sound, Coordinators
<1>2. Drafted(c, b, success) = IF success THEN d ELSE c  BY DEF Drafted
<1>. HIDE DEF drafted
<1>3. d \in Coordinators /\ d.epoch = c.epoch /\ d.life = c.life /\ d.held = c.held /\ d.ended = c.ended
  BY <1>1 DEF Coordinators
<1>. HIDE DEF d
<1>4. Sound(d)  BY <1>3 DEF Sound
<1>. QED  BY <1>2, <1>3, <1>4

\* A branch that an epoch awaits is summarized.
LEMMA SummarizedIs ==
    ASSUME NEW c, Sound(c), c.epoch.id # 0, NEW b \in Branches, NEW success, NEW id, NEW d,
           d = Considered(EntryReady(Drafted(c, b, success), b, id))
    PROVE  /\ Sound(d) /\ Begun(d)
           /\ Arms(c, d) \/ Stays(c, d)
           /\ d.epoch.finished = c.epoch.finished
           /\ d.life = c.life /\ d.held = c.held /\ d.ended = c.ended /\ d.epoch.id = c.epoch.id
<1>. DEFINE x == Drafted(c, b, success)
            y == EntryReady(x, b, id)
<1>3. d = Considered(y)  OBVIOUS
<1>1. /\ Sound(x) /\ x.epoch = c.epoch /\ x.life = c.life /\ x.held = c.held /\ x.ended = c.ended
  BY DraftedIs
<1>. HIDE DEF x
<1>2. /\ Sound(y) /\ Stays(x, y) /\ y.epoch.finished = x.epoch.finished
      /\ y.life = x.life /\ y.held = x.held /\ y.ended = x.ended
  BY <1>1, EntryReadyIs
<1>. HIDE DEF y
<1>4. y.epoch.id # 0  BY <1>1, <1>2 DEF Stays
<1>5. /\ Sound(d) /\ Begun(d)
      /\ Arms(y, d) \/ d = y
      /\ d.life = y.life /\ d.held = y.held /\ d.ended = y.ended
      /\ d.epoch.id = y.epoch.id /\ d.epoch.finished = y.epoch.finished
  BY <1>2, <1>3, <1>4, ConsideredIs
<1>6. Arms(c, d) \/ Stays(c, d)  BY <1>1, <1>2, <1>5 DEF Arms, Stays
<1>. QED  BY <1>1, <1>2, <1>5, <1>6 DEF Stays

\* OpenedNext of a finished epoch, or of an unfinished one, which it leaves.
LEMMA OpenedNextIs ==
    ASSUME NEW c, Sound(c), NEW n \in Nat, NEW d, d = Opened(c, n), Begun(c)
    PROVE  /\ Sound(d) /\ Begun(d)
           /\ Arms(c, d) \/ (c.epoch.finished /\ Waits(d)) \/ d = c
           /\ d.held \subseteq c.held /\ d.ended = c.ended
           /\ ActiveBranches(d) = ActiveBranches(c)
           /\ c.epoch.id # 0 => d.epoch.id # 0
<1>1. CASE c.epoch.finished
  <2>. HIDE DEF Sound, Begun
  <2>1. /\ Sound(Opened(c, n)) /\ Begun(Opened(c, n))
        /\ Arms(c, Opened(c, n)) \/ Waits(Opened(c, n))
        /\ Opened(c, n).held = {} /\ Opened(c, n).ended = c.ended
        /\ ActiveBranches(Opened(c, n)) = ActiveBranches(c)
        /\ Opened(c, n).epoch.id # 0
    BY <1>1, OpenedIs
  <2>. QED  BY <1>1, <2>1
<1>2. CASE ~c.epoch.finished
  <2>1. d = c  BY <1>2 DEF Opened
  <2>. QED  BY <2>1
<1>. QED  BY <1>1, <1>2

\* The number of the next epoch is one.
LEMMA NextNumber == ASSUME NEW c, Sound(c) PROVE c.epoch.n + 1 \in Nat
BY DEF Sound, Coordinators, Epochs

\* The terminal summary of b: it is no longer active, and nothing is left ready
\* that is not begun.
LEMMA TerminatedIs ==
    ASSUME NEW c, Sound(c), Begun(c), NEW b \in Branches, NEW success \in BOOLEAN, NEW d,
           d = Terminated(c, b, success)
    PROVE  /\ Sound(d) /\ Begun(d)
           /\ \/ Arms(c, d) \/ (c.epoch.finished /\ Waits(d))
              \/ (Stays(c, d) /\ d.epoch.finished = c.epoch.finished)
           /\ d.held \subseteq c.held
           /\ ActiveBranches(d) = ActiveBranches(c) \ {b}
           /\ c.epoch.id # 0 => d.epoch.id # 0
<1>. DEFINE sum == IF success THEN c.ended \cup {b} ELSE c.ended
            x == [c EXCEPT !.life[b] = "finalized", !.ended = sum]
            y == EntryReady(x, b, x.epoch.id)
<1>1. /\ c \in Coordinators /\ c.life \in [Branches -> {"absent", "active", "waiting", "finalized"}]
      /\ sum \in SUBSET Branches /\ c.ended \subseteq sum
  BY DEF Sound, Coordinators
<1>2. d = IF c.epoch.id = 0 \/ (c.epoch.finished /\ ActiveBranches(x) = {}) THEN OpenedNext(y)
          ELSE IF InFrontier(c, b) THEN Considered(y) ELSE y
  BY DEF Terminated
<1>. HIDE DEF sum
<1>3. /\ x \in Coordinators /\ x.epoch = c.epoch /\ x.held = c.held /\ x.ended = sum
      /\ x.life = [c.life EXCEPT ![b] = "finalized"]
  BY <1>1 DEF Coordinators
<1>. HIDE DEF x
<1>4. Sound(x)  BY <1>1, <1>3 DEF Sound
<1>5. ActiveBranches(x) = ActiveBranches(c) \ {b}  BY <1>1, <1>3 DEF ActiveBranches
<1>6. Begun(x)  BY <1>3 DEF Begun, AllReady
<1>7. /\ Sound(y) /\ Stays(x, y) /\ y.epoch.finished = x.epoch.finished
      /\ y.life = x.life /\ y.held = x.held /\ y.ended = x.ended
      /\ ~InFrontier(x, b) => Begun(y)
  BY <1>4, <1>6, EntryReadyIs
<1>. HIDE DEF y
<1>8. ActiveBranches(y) = ActiveBranches(x)  BY <1>7 DEF ActiveBranches
<1>9. c.epoch.id = 0 => c.epoch.finished  BY NoEpochIs DEF Sound
<1>10. CASE c.epoch.id = 0 \/ (c.epoch.finished /\ ActiveBranches(x) = {})
  <2>2. d = Opened(y, y.epoch.n + 1)  BY <1>2, <1>10 DEF OpenedNext
  <2>3. y.epoch.n + 1 \in Nat  BY <1>7, NextNumber
  <2>4. y.epoch.finished /\ c.epoch.finished  BY <1>3, <1>7, <1>9, <1>10
  <2>5. /\ Sound(d) /\ Begun(d)
        /\ Arms(y, d) \/ Waits(d)
        /\ d.held = {} /\ d.epoch.id # 0
        /\ ActiveBranches(d) = ActiveBranches(y)
    BY <1>7, <2>2, <2>3, <2>4, OpenedIs
  <2>6. Arms(c, d) \/ Waits(d)  BY <1>3, <1>7, <2>5 DEF Arms, Stays
  <2>. QED  BY <1>5, <1>8, <2>4, <2>5, <2>6
<1>11. CASE ~(c.epoch.id = 0) /\ ~(c.epoch.finished /\ ActiveBranches(x) = {}) /\ InFrontier(c, b)
  <2>1. d = Considered(y)  BY <1>2, <1>11
  <2>2. y.epoch.id # 0  BY <1>3, <1>7, <1>11 DEF Stays
  <2>3. /\ Sound(d) /\ Begun(d)
        /\ Arms(y, d) \/ d = y
        /\ d.life = y.life /\ d.held = y.held /\ d.epoch.id = y.epoch.id
    BY <1>7, <2>1, <2>2, ConsideredIs
  <2>4. Arms(c, d) \/ (Stays(c, d) /\ d.epoch.finished = c.epoch.finished)
    BY <1>3, <1>7, <2>3 DEF Arms, Stays
  <2>5. ActiveBranches(d) = ActiveBranches(y)  BY <2>3 DEF ActiveBranches
  <2>. QED  BY <1>3, <1>5, <1>7, <1>8, <2>2, <2>3, <2>4, <2>5
<1>12. CASE ~(c.epoch.id = 0) /\ ~(c.epoch.finished /\ ActiveBranches(x) = {}) /\ ~InFrontier(c, b)
  <2>1. d = y  BY <1>2, <1>12
  <2>2. ~InFrontier(x, b)  BY <1>3, <1>12 DEF InFrontier
  <2>3. Stays(c, d) /\ d.epoch.finished = c.epoch.finished /\ d.epoch.id # 0
    BY <1>3, <1>7, <1>12, <2>1 DEF Stays
  <2>. QED  BY <1>3, <1>5, <1>7, <1>8, <2>1, <2>2, <2>3
<1>. QED  BY <1>10, <1>11, <1>12

\* The checkpoint of b: it is held, or what it held is released at once.
LEMMA CheckpointedIs ==
    ASSUME NEW c, Sound(c), Begun(c), NEW b \in Branches, NEW success, NEW id \in Nat,
           id # 0 => c.epoch.id # 0, NEW d, d = Checkpointed(c, b, success, id)
    PROVE  /\ Sound(d) /\ Begun(d)
           /\ \/ Arms(c, d) \/ (c.epoch.finished /\ Waits(d))
              \/ (Stays(c, d) /\ d.epoch.finished = c.epoch.finished)
           /\ d.held \subseteq c.held \cup {b} /\ d.ended = c.ended
           /\ ActiveBranches(d) = ActiveBranches(c) \cup {b}
           /\ c.epoch.id # 0 => d.epoch.id # 0
<1>. DEFINE a == Drafted(c, b, success)
            both == a.held \cup {b}
            x == [a EXCEPT !.life[b] = "waiting", !.held = both]
            y == EntryReady(x, b, id)
            z == Considered(y)
<1>1. d = IF id # 0 THEN Released(z, {b})
          ELSE IF ActiveBranches(x) \subseteq x.drafted THEN OpenedNext(x) ELSE x
  BY DEF Checkpointed
<1>2. /\ Sound(a) /\ a.epoch = c.epoch /\ a.life = c.life /\ a.held = c.held /\ a.ended = c.ended
  BY DraftedIs
<1>. HIDE DEF a
<1>3. /\ a \in Coordinators /\ a.life \in [Branches -> {"absent", "active", "waiting", "finalized"}]
      /\ both \in SUBSET Branches
  BY <1>2 DEF Sound, Coordinators
<1>4. both = c.held \cup {b}  BY <1>2
<1>. HIDE DEF both
<1>5. /\ x \in Coordinators /\ x.epoch = a.epoch /\ x.held = both /\ x.ended = a.ended
      /\ x.life = [a.life EXCEPT ![b] = "waiting"]
  BY <1>3 DEF Coordinators
<1>. HIDE DEF x
<1>6. Sound(x)  BY <1>2, <1>5 DEF Sound
<1>7. ActiveBranches(x) = ActiveBranches(c) \cup {b}  BY <1>2, <1>3, <1>5 DEF ActiveBranches
<1>8. Begun(x)  BY <1>2, <1>5 DEF Begun, AllReady
<1>9. CASE id # 0
  <2>1. /\ Sound(y) /\ Stays(x, y) /\ y.epoch.finished = x.epoch.finished
        /\ y.life = x.life /\ y.held = x.held /\ y.ended = x.ended
    BY <1>6, EntryReadyIs
  <2>. HIDE DEF y
  <2>2. y.epoch.id # 0  BY <1>2, <1>5, <1>9, <2>1 DEF Stays
  <2>3. /\ Sound(z) /\ Begun(z)
        /\ Arms(y, z) \/ z = y
        /\ z.life = y.life /\ z.held = y.held /\ z.ended = y.ended /\ z.epoch.id = y.epoch.id
    BY <2>1, <2>2, ConsideredIs
  <2>. HIDE DEF z
  <2>4. d = Released(z, {b})  BY <1>1, <1>9
  <2>5. /\ Sound(d) /\ d.epoch = z.epoch /\ d.ended = z.ended /\ d.held = z.held \ {b}
        /\ ActiveBranches(d) = ActiveBranches(z)
    BY <2>3, <2>4, ReleasedIs
  <2>6. ActiveBranches(z) = ActiveBranches(x)  BY <2>1, <2>3 DEF ActiveBranches
  <2>7. Begun(d)  BY <2>3, <2>5 DEF Begun, AllReady
  <2>8. Arms(c, d) \/ (Stays(c, d) /\ d.epoch.finished = c.epoch.finished)
    BY <1>2, <1>5, <2>1, <2>3, <2>5 DEF Arms, Stays
  <2>. QED  BY <1>2, <1>4, <1>5, <1>7, <2>1, <2>2, <2>3, <2>5, <2>6, <2>7, <2>8
<1>10. CASE id = 0 /\ ActiveBranches(x) \subseteq x.drafted
  <2>1. d = Opened(x, x.epoch.n + 1)  BY <1>1, <1>10 DEF OpenedNext
  <2>2. x.epoch.n + 1 \in Nat  BY <1>6, NextNumber
  <2>3. /\ Sound(d) /\ Begun(d)
        /\ Arms(x, d) \/ (x.epoch.finished /\ Waits(d)) \/ d = x
        /\ d.held \subseteq x.held /\ d.ended = x.ended
        /\ ActiveBranches(d) = ActiveBranches(x)
        /\ x.epoch.id # 0 => d.epoch.id # 0
    BY <1>6, <1>8, <2>1, <2>2, OpenedNextIs
  <2>4. \/ Arms(c, d) \/ (c.epoch.finished /\ Waits(d))
        \/ (Stays(c, d) /\ d.epoch.finished = c.epoch.finished)
    BY <1>2, <1>5, <2>3 DEF Arms, Stays
  <2>. QED  BY <1>2, <1>4, <1>5, <1>7, <2>3, <2>4
<1>11. CASE id = 0 /\ ~(ActiveBranches(x) \subseteq x.drafted)
  <2>1. d = x  BY <1>1, <1>11
  <2>2. Stays(c, d) /\ d.epoch.finished = c.epoch.finished  BY <1>2, <1>5, <2>1 DEF Stays
  <2>. QED  BY <1>2, <1>4, <1>5, <1>6, <1>7, <1>8, <2>1, <2>2
<1>. QED  BY <1>9, <1>10, <1>11

\* Every leaf is active after the coordinator has looked at them.
LEMMA SyncedIs ==
    ASSUME NEW c, Sound(c), leaves \subseteq Branches
    PROVE  /\ Sound(Synced(c)) /\ Synced(c).epoch = c.epoch
           /\ Synced(c).held = c.held /\ Synced(c).ended = c.ended
           /\ ActiveBranches(Synced(c)) = ActiveBranches(c) \cup leaves
<1>. DEFINE life == [b \in Branches |->
                       IF b \in leaves /\ c.life[b] \in {"absent", "finalized"} THEN "active" ELSE c.life[b]]
            d == [c EXCEPT !.life = life]
<1>1. c \in Coordinators /\ c.life \in [Branches -> {"absent", "active", "waiting", "finalized"}]
  BY DEF Sound, Coordinators
<1>2. Synced(c) = d  BY DEF Synced
<1>3. /\ life \in [Branches -> {"absent", "active", "waiting", "finalized"}]
      /\ \A b \in Branches : life[b] \in {"active", "waiting"} <=>
                                b \in leaves \/ c.life[b] \in {"active", "waiting"}
  BY <1>1
<1>. HIDE DEF life
<1>4. d \in Coordinators /\ d.epoch = c.epoch /\ d.held = c.held /\ d.ended = c.ended /\ d.life = life
  BY <1>1, <1>3 DEF Coordinators
<1>. HIDE DEF d
<1>5. Sound(d)  BY <1>4 DEF Sound
<1>6. ActiveBranches(d) = ActiveBranches(c) \cup leaves  BY <1>3, <1>4 DEF ActiveBranches
<1>. QED  BY <1>2, <1>4, <1>5, <1>6

\* An epoch whose record is dealt with is finished, and a FINAL one is the last.
LEMMA FinishedIs ==
    ASSUME NEW c, Sound(c), c.epoch.started, NEW d, d = Finished(c)
    PROVE  /\ Sound(d) /\ Begun(d)
           /\ Arms(c, d) \/ Waits(d) \/ (Stays(c, d) /\ d.epoch.finished)
           /\ d.held \subseteq c.held /\ d.ended = c.ended
           /\ ActiveBranches(d) = ActiveBranches(c)
           /\ c.epoch.id # 0 => d.epoch.id # 0
           /\ c.epoch.kind = "FINAL" => Stays(c, d) /\ d.epoch.finished
<1>. DEFINE f == [c.epoch EXCEPT !.finished = TRUE]
            x == [c EXCEPT !.epoch = f]
<1>1. c \in Coordinators /\ c.epoch \in Epochs  BY DEF Sound, Coordinators
<1>2. d = IF f.kind = "INTERMEDIATE" /\ ActiveBranches(x) = {} THEN OpenedNext(x) ELSE x
  BY <1>1 DEF Finished, Coordinators
<1>3. /\ f \in Epochs /\ f.ready = c.epoch.ready /\ f.id = c.epoch.id /\ f.n = c.epoch.n
      /\ f.frontier = c.epoch.frontier /\ f.started = c.epoch.started /\ f.finished
      /\ f.tries = c.epoch.tries /\ f.kind = c.epoch.kind
      /\ f.ends = c.epoch.ends /\ f.drafts = c.epoch.drafts
  BY <1>1 DEF Epochs
<1>. HIDE DEF f
<1>4. /\ x \in Coordinators /\ x.epoch = f /\ x.life = c.life /\ x.held = c.held /\ x.ended = c.ended
  BY <1>1, <1>3 DEF Coordinators
<1>. HIDE DEF x
<1>5. c.epoch.id # 0  BY NoEpochIs DEF Sound
<1>6. Sound(x)  BY <1>3, <1>4, <1>5 DEF Sound
<1>7. ActiveBranches(x) = ActiveBranches(c)  BY <1>4 DEF ActiveBranches
<1>8. Begun(x)  BY <1>3, <1>4 DEF Begun
<1>9. Stays(c, x)  BY <1>3, <1>4 DEF Stays
<1>10. CASE f.kind = "INTERMEDIATE" /\ ActiveBranches(x) = {}
  <2>1. d = Opened(x, x.epoch.n + 1)  BY <1>2, <1>10 DEF OpenedNext
  <2>2. x.epoch.n + 1 \in Nat  BY <1>6, NextNumber
  <2>3. /\ Sound(d) /\ Begun(d)
        /\ Arms(x, d) \/ Waits(d)
        /\ d.held = {} /\ d.ended = x.ended
        /\ ActiveBranches(d) = ActiveBranches(x)
        /\ d.epoch.id # 0
    BY <1>3, <1>4, <1>6, <2>1, <2>2, OpenedIs
  <2>4. Arms(c, d) \/ Waits(d)  BY <1>9, <2>3 DEF Arms, Stays
  <2>5. c.epoch.kind # "FINAL"  BY <1>3, <1>10
  <2>. QED  BY <1>4, <1>7, <2>3, <2>4, <2>5
<1>11. CASE ~(f.kind = "INTERMEDIATE" /\ ActiveBranches(x) = {})
  <2>1. d = x  BY <1>2, <1>11
  <2>. QED  BY <1>3, <1>4, <1>5, <1>6, <1>7, <1>8, <1>9, <2>1
<1>. QED  BY <1>10, <1>11

\* The life of one branch is set.
LEMMA LivesIs ==
    ASSUME NEW c, Sound(c), NEW b \in Branches, NEW v \in {"absent", "active", "waiting", "finalized"},
           NEW d, d = [c EXCEPT !.life[b] = v]
    PROVE  /\ Sound(d) /\ d.epoch = c.epoch /\ d.held = c.held /\ d.ended = c.ended
           /\ v \in {"active", "waiting"} => ActiveBranches(d) = ActiveBranches(c) \cup {b}
           /\ v \notin {"active", "waiting"} => ActiveBranches(d) = ActiveBranches(c) \ {b}
<1>1. c \in Coordinators /\ c.life \in [Branches -> {"absent", "active", "waiting", "finalized"}]
  BY DEF Sound, Coordinators
<1>2. /\ d \in Coordinators /\ d.epoch = c.epoch /\ d.held = c.held /\ d.ended = c.ended
      /\ d.life = [c.life EXCEPT ![b] = v]
  BY <1>1 DEF Coordinators
<1>3. Sound(d)  BY <1>2 DEF Sound
<1>4. \A x \in Branches : d.life[x] = IF x = b THEN v ELSE c.life[x]  BY <1>1, <1>2
<1>. QED  BY <1>2, <1>3, <1>4 DEF ActiveBranches

-----------------------------------------------------------------------------
(***************************************************************************)
(* A step of the coordinator                                               *)
(***************************************************************************)

\* Between two steps the coordinator is sound.
LEMMA CoordinatorIsSound == IInv => Sound(co) /\ Begun(co)
<1>. SUFFICES ASSUME IInv PROVE Sound(co) /\ Begun(co)  OBVIOUS
<1>1. Sound(co)  BY DEF IInv, TypeOK, SynthesisFollows, Sound
<1>2. Begun(co)  BY DEF IInv, ReadyIsBegun, Begun
<1>. QED  BY <1>1, <1>2

\* What may become of the epoch and its synthesis: it begins anew, waits, goes
\* on, or is over.
Moves(d, rest) == \/ Arms(co, d)
                  \/ Waits(d) /\ rest = "none"
                  \/ Stays(co, d) /\ d.epoch.finished = co.epoch.finished /\ rest = synthesis
                  \/ Stays(co, d) /\ d.epoch.finished /\ rest = "none"

\* Kin, with w for the work.
KinOf(w) == \A b \in Branches : /\ parent[b] # Nobody => /\ w[parent[b]] \in {"delegated", "none"}
                                                         /\ parent[b] \notin Unused
                                /\ b \in Unused => w[b] = "none"
                                /\ w[b] \in {"queued", "registering"} => parent[b] # Nobody

\* The coordinator becomes d and the work w, save for what d releases.
Proper(d, w, rest, noted) ==
    /\ Sound(d) /\ Begun(d) /\ Moves(d, rest)
    /\ w \in [Branches -> Works] /\ KinOf(w) /\ parent' = parent
    /\ leaves' = {b \in Branches : w[b] \notin {"none", "queued"}}
    /\ \A b \in leaves' : w[b] \in {"registering", "ended"} \/ b \in ActiveBranches(d)
    /\ \A b \in ActiveBranches(d) : (b \in leaves' /\ w[b] # "ended") \/ "revived" \in mishaps \cup noted
    /\ \A b \in Branches : w[b] = "held" <=> b \in co.held \cup d.held
    /\ d.ended = co.ended \/ \E b \in leaves : work[b] # "ended"
    /\ d.epoch.id = 0 => /\ visiting' = {}
                         /\ \A b \in Branches : /\ captured'[b] = 0 /\ clone'[b] # "cloning"
                                                /\ w[b] # "registering"
    /\ status' \in {"COMPLETED", "COMPLETED_WITH_ERRORS"} =>
          d.epoch.started /\ d.epoch.kind = "FINAL" /\ Stays(co, d) /\ rest = "none"

\* Such a step keeps the invariant but for the types of what it leaves alone.
LEMMA Changed ==
    ASSUME IInv, NEW d, NEW w, NEW rest, NEW noted, Changes(d, w, rest, noted), Proper(d, w, rest, noted)
    PROVE  /\ co' \in Coordinators /\ co'.epoch.ready \subseteq co'.epoch.frontier
           /\ co'.epoch.ends \subseteq co'.ended
           /\ work' \in [Branches -> Works]
           /\ synthesis' \in {"none", "writing", "accepting", "ending", "returning"}
           /\ Mates' /\ Kin' /\ SynthesisFollows' /\ ReadyIsBegun' /\ FinalHolds'
<1>1. /\ co' = d
      /\ work' = [b \in Branches |-> IF b \in co.held \ d.held THEN "released" ELSE w[b]]
      /\ synthesis' = IF d.epoch.started /\ <<d.epoch.id, d.epoch.tries>> # <<co.epoch.id, co.epoch.tries>>
                      THEN "writing" ELSE rest
      /\ mishaps \cup noted \subseteq mishaps'
      /\ d.epoch.started /\ d.epoch.kind = "FINAL" /\ (\E b \in leaves' : work'[b] # "ended")
            => "orphan" \in mishaps'
  BY DEF Changes
<1>2. \A b \in Branches : \/ work'[b] = w[b] /\ (b \in d.held <=> work'[b] = "held")
                          \/ w[b] = "held" /\ work'[b] = "released" /\ b \notin d.held
  BY <1>1 DEF Proper
<1>3. work' \in [Branches -> Works]  BY <1>1 DEF Proper, Works
<1>4. d \in Coordinators /\ d.held \subseteq Branches
  BY DEF Proper, Sound, Coordinators
<1>5. Mates'
  <2>1. leaves' = {b \in Branches : work'[b] \notin {"none", "queued"}}
    BY <1>2 DEF Proper
  <2>2. \A b \in leaves' : work'[b] \in {"registering", "ended"} \/ b \in ActiveBranches(d)
    BY <1>2 DEF Proper
  <2>3. \A b \in ActiveBranches(d) : (b \in leaves' /\ work'[b] # "ended") \/ "revived" \in mishaps'
    BY <1>1, <1>2 DEF Proper, ActiveBranches
  <2>4. d.held = {b \in Branches : work'[b] = "held"}
    BY <1>2, <1>4
  <2>5. ActiveBranches(co') = ActiveBranches(d)  BY <1>1
  <2>. QED  BY <1>1, <2>1, <2>2, <2>3, <2>4, <2>5 DEF Mates
<1>6. Kin'
  <2>1. parent' = parent /\ Unused' = Unused /\ KinOf(w)  BY DEF Proper, Unused
  <2>2. parent \in [Branches -> Branches \cup {Nobody}]  BY DEF IInv, TypeOK
  <2>. QED  BY <1>2, <2>1, <2>2 DEF Kin, KinOf
<1>7. /\ synthesis' \in {"none", "writing", "accepting", "ending", "returning"}
      /\ synthesis' # "none" <=> d.epoch.started /\ ~d.epoch.finished
      /\ synthesis' \in {"accepting", "ending"} => d.epoch.kind = "FINAL"
      /\ Stays(co, d) /\ rest = "none" => synthesis' = "none"
  <2>1. Moves(d, rest)  BY DEF Proper
  <2>2. /\ synthesis \in {"none", "writing", "accepting", "ending", "returning"}
        /\ synthesis # "none" <=> co.epoch.started /\ ~co.epoch.finished
        /\ synthesis \in {"accepting", "ending"} => co.epoch.kind = "FINAL"
    BY DEF IInv, TypeOK, SynthesisFollows
  <2>3. CASE Arms(co, d)
    <3>1. synthesis' = "writing"  BY <1>1, <2>3 DEF Arms
    <3>2. ~Stays(co, d)  BY <2>3 DEF Arms, Stays
    <3>. QED  BY <2>3, <3>1, <3>2 DEF Arms
  <2>4. CASE Waits(d) /\ rest = "none"
    <3>1. synthesis' = "none"  BY <1>1, <2>4 DEF Waits
    <3>. QED  BY <2>4, <3>1 DEF Waits
  <2>5. CASE Stays(co, d) /\ d.epoch.finished = co.epoch.finished /\ rest = synthesis
    <3>1. synthesis' = synthesis  BY <1>1, <2>5 DEF Stays
    <3>. QED  BY <2>2, <2>5, <3>1 DEF Stays
  <2>6. CASE Stays(co, d) /\ d.epoch.finished /\ rest = "none"
    <3>1. synthesis' = "none"  BY <1>1, <2>6 DEF Stays
    <3>. QED  BY <2>6, <3>1 DEF Stays
  <2>. QED  BY <2>1, <2>3, <2>4, <2>5, <2>6 DEF Moves
<1>8. SynthesisFollows'
  <2>1. d.epoch.finished /\ d.epoch.id # 0 => d.epoch.started  BY DEF Proper, Sound
  <2>2. d.epoch.id = 0 => d.epoch = NoEpoch  BY DEF Proper, Sound
  <2>3. d.epoch.id = 0 => /\ visiting' = {}
                          /\ \A b \in Branches : /\ captured'[b] = 0 /\ clone'[b] # "cloning"
                                                 /\ work'[b] # "registering"
    BY <1>2 DEF Proper
  <2>. QED  BY <1>1, <1>7, <2>1, <2>2, <2>3 DEF SynthesisFollows
<1>9. ReadyIsBegun'
  <2>1. Begun(d)  BY DEF Proper
  <2>2. AllReady(co') <=> AllReady(d)  BY <1>1
  <2>. QED  BY <1>1, <1>7, <2>1, <2>2 DEF ReadyIsBegun, Begun
<1>10. FinalHolds'
  <2>1. ASSUME d.epoch.started, d.epoch.kind = "FINAL", "orphan" \notin mishaps'
        PROVE  /\ \A b \in leaves' : work'[b] = "ended"
               /\ d.epoch.ends = d.ended /\ d.epoch.drafts = {}
    <3>1. \A b \in leaves' : work'[b] = "ended"  BY <1>1, <2>1
    <3>2. CASE Arms(co, d)  BY <2>1, <3>1, <3>2 DEF Arms
    <3>3. CASE Stays(co, d)
      <4>1. co.epoch.started /\ co.epoch.kind = "FINAL" /\ "orphan" \notin mishaps
        BY <1>1, <2>1, <3>3 DEF Stays
      <4>2. /\ \A b \in leaves : work[b] = "ended"
            /\ co.epoch.ends = co.ended /\ co.epoch.drafts = {}
        BY <4>1 DEF IInv, FinalHolds
      <4>3. d.ended = co.ended  BY <4>2 DEF Proper
      <4>. QED  BY <3>1, <3>3, <4>2, <4>3 DEF Stays
    <3>4. ~Waits(d)  BY <2>1 DEF Waits
    <3>. QED  BY <3>2, <3>3, <3>4 DEF Proper, Moves
  <2>2. status' \in {"COMPLETED", "COMPLETED_WITH_ERRORS"} =>
           synthesis' = "none" /\ d.epoch.started /\ d.epoch.kind = "FINAL"
    BY <1>7 DEF Proper
  <2>. QED  BY <1>1, <2>1, <2>2 DEF FinalHolds
<1>11. /\ co' \in Coordinators /\ co'.epoch.ready \subseteq co'.epoch.frontier
       /\ co'.epoch.ends \subseteq co'.ended
  BY <1>1 DEF Proper, Sound
<1>. QED  BY <1>3, <1>5, <1>6, <1>7, <1>8, <1>9, <1>10, <1>11

-----------------------------------------------------------------------------
(***************************************************************************)
(* The invariant: one lemma per kind of step                               *)
(***************************************************************************)

\* The invariant holds when a round begins.
LEMMA InitInvariant == Init => IInv
<1>. SUFFICES ASSUME Init PROVE IInv  OBVIOUS
<1>. USE BoundsAssumption, InitialEpochsAssumption, NoEpochIs
<1>1. Root \in Branches /\ Nobody \notin Branches  BY DEF Root, Nobody, Branches
<1>2. co.epoch = NoEpoch /\ co.held = {} /\ co.drafted = {} /\ co.ended = {}  BY DEF Init
<1>3. co.life = [b \in Branches |-> IF b = Root THEN "active" ELSE "absent"]  BY DEF Init
<1>4. co \in Coordinators  BY <1>1 DEF Init, Coordinators
<1>5. TypeOK
  <2>1. /\ co.epoch.ready \subseteq co.epoch.frontier /\ co.epoch.ends \subseteq co.ended
    BY <1>2 DEF NoEpoch
  <2>2. /\ work \in [Branches -> Works] /\ parent \in [Branches -> Branches \cup {Nobody}]
        /\ clone \in [Branches -> {"none", "queued", "cloning"}]
        /\ captured \in [Branches -> Nat] /\ cloneOf \in [Branches -> Nat]
    BY DEF Init, Works
  <2>3. status \in Running  BY DEF Init, Running, Live
  <2>4. reportEpoch \in Nat /\ leaves \subseteq Branches  BY <1>1 DEF Init
  <2>. QED  BY <1>4, <2>1, <2>2, <2>3, <2>4 DEF Init, TypeOK
<1>6. ActiveBranches(co) = {Root}  BY <1>1, <1>3 DEF ActiveBranches
<1>7. Mates  BY <1>1, <1>2, <1>6 DEF Init, Mates
<1>8. Kin  BY <1>1 DEF Init, Kin, Unused
<1>9. SynthesisFollows  BY <1>2 DEF Init, SynthesisFollows
<1>10. ReadyIsBegun  BY <1>2 DEF ReadyIsBegun
<1>11. FinalHolds  BY <1>2 DEF Init, FinalHolds
<1>. QED  BY <1>5, <1>7, <1>8, <1>9, <1>10, <1>11 DEF IInv

\* Turns that end, hold back or are called again.
LEMMA TurnSteps ==
    ASSUME IInv, NEW b \in Branches, TurnEnds(b) \/ TurnCheckpoints(b) \/ TurnAgain(b)
    PROVE  IInv'
<1>. USE DEF IInv, TypeOK, controller, bounds, timers
<1>1. ASSUME NEW v \in {"turn", "ending", "checkpoint"}, work[b] = "turn",
             work' = [work EXCEPT ![b] = v],
             clone' \in [Branches -> {"none", "queued", "cloning"}],
             \A x \in Branches : clone'[x] = "cloning" => clone[x] = "cloning",
             UNCHANGED <<status, reportEpoch, leaves, parent, captured, cloneOf, co, synthesis, written,
                         grace, visiting, visited, mishaps>>
      PROVE  IInv'
  <2>1. TypeOK'  BY <1>1 DEF Works
  <2>2. Mates'  BY <1>1 DEF Mates, ActiveBranches
  <2>3. Kin'  BY <1>1 DEF Kin, Unused
  <2>4. SynthesisFollows'  BY <1>1 DEF SynthesisFollows
  <2>5. ReadyIsBegun'  BY <1>1 DEF ReadyIsBegun, AllReady
  <2>6. FinalHolds'  BY <1>1 DEF FinalHolds, Mates
  <2>. QED  BY <2>1, <2>2, <2>3, <2>4, <2>5, <2>6
<1>2. CASE TurnEnds(b)  BY <1>1, <1>2 DEF TurnEnds, MayEnd
<1>3. CASE TurnCheckpoints(b)  BY <1>1, <1>3 DEF TurnCheckpoints, MayEnd
<1>4. CASE TurnAgain(b)
  <2>1. work[b] = "turn" /\ work' = [work EXCEPT ![b] = "turn"]
    BY <1>4 DEF TurnAgain, MayEnd
  <2>. QED  BY <1>1, <1>4, <2>1 DEF TurnAgain
<1>. QED  BY <1>2, <1>3, <1>4

\* Children are planned, by a turn or a release.
LEMMA PlanSteps ==
    ASSUME IInv, NEW b \in Branches, TurnDelegates(b) \/ ReleasedPlans(b)
    PROVE  IInv'
<1>. USE DEF IInv, TypeOK, controller, bounds, timers
<1>0. Nobody \notin Branches  BY DEF Nobody, Branches
<1>1. ASSUME NEW kids \in SUBSET Branches, NEW from, Plan(b, kids, from), work[b] \in {"turn", "released"},
             UNCHANGED <<controller, captured, cloneOf, co, synthesis, written, timers, mishaps>>
      PROVE  IInv'
  <2>1. /\ kids \subseteq Unused /\ b \notin kids
        /\ work' = [c \in Branches |-> IF c = b THEN "delegated" ELSE IF c \in kids THEN "queued" ELSE work[c]]
        /\ parent' = [c \in Branches |-> IF c \in kids THEN b ELSE parent[c]]
        /\ clone' = clone \/ clone' = [clone EXCEPT ![b] = "queued"]
    <3>1. kids \subseteq Unused  BY <1>1 DEF Plan
    <3>2. b \notin kids  BY <1>1, <3>1 DEF Kin
    <3>3. work' = [c \in Branches |-> IF c = b THEN "delegated" ELSE IF c \in kids THEN "queued" ELSE work[c]]
      BY <1>1, <3>2 DEF Plan
    <3>. QED  BY <1>1, <3>1, <3>2, <3>3 DEF Plan
  <2>2. TypeOK'
    <3>1. work' \in [Branches -> Works]  BY <2>1 DEF Works
    <3>2. parent' \in [Branches -> Branches \cup {Nobody}]  BY <2>1
    <3>3. clone' \in [Branches -> {"none", "queued", "cloning"}]  BY <2>1
    <3>. QED  BY <1>1, <3>1, <3>2, <3>3
  <2>3. Mates'
    <3>1. \A c \in kids : work[c] = "none"  BY <2>1 DEF Kin
    <3>2. \A c \in Branches : /\ work'[c] \in {"none", "queued"} <=> work[c] \in {"none", "queued"}
                              /\ work'[c] \in {"registering", "ended"} <=> work[c] \in {"registering", "ended"}
                              /\ work'[c] = "ended" <=> work[c] = "ended"
                              /\ work'[c] = "held" <=> work[c] = "held"
      BY <1>1, <2>1, <3>1
    <3>3. leaves' = leaves /\ co' = co /\ mishaps' = mishaps  BY <1>1
    <3>. QED  BY <3>2, <3>3 DEF Mates, ActiveBranches
  <2>4. Kin'
    <3>. SUFFICES ASSUME NEW x \in Branches
                  PROVE  /\ parent'[x] # Nobody => /\ work'[parent'[x]] \in {"delegated", "none"}
                                                   /\ parent'[x] \notin Unused'
                         /\ x \in Unused' => work'[x] = "none"
                         /\ work'[x] \in {"queued", "registering"} => parent'[x] # Nobody
      BY DEF Kin
    <3>1. Unused' \subseteq Unused  BY <1>0, <2>1 DEF Unused
    <3>2. b \notin Unused  BY <1>1 DEF Kin
    <3>3. CASE x \in kids
      <4>1. parent'[x] = b /\ work'[b] = "delegated"  BY <2>1, <3>3
      <4>2. x \notin Unused'  BY <1>0, <3>3, <4>1 DEF Unused
      <4>. QED  BY <1>0, <3>1, <3>2, <4>1, <4>2
    <3>4. CASE x \notin kids
      <4>1. parent'[x] = parent[x]  BY <2>1, <3>4
      <4>2. ASSUME parent[x] # Nobody
            PROVE  work'[parent[x]] \in {"delegated", "none"} /\ parent[x] \notin Unused'
        <5>1. /\ parent[x] \in Branches /\ parent[x] \notin Unused
              /\ work[parent[x]] \in {"delegated", "none"}
          BY <4>2 DEF Kin
        <5>. QED  BY <2>1, <3>1, <5>1
      <4>3. x \in Unused' => work'[x] = "none"  BY <2>1, <3>1, <3>2, <3>4 DEF Kin
      <4>4. work'[x] \in {"queued", "registering"} => parent[x] # Nobody  BY <2>1, <3>4 DEF Kin
      <4>. QED  BY <4>1, <4>2, <4>3, <4>4
    <3>. QED  BY <3>3, <3>4
  <2>5. SynthesisFollows'
    <3>1. \A x \in Branches : clone'[x] = "cloning" => clone[x] = "cloning"  BY <2>1
    <3>2. \A x \in Branches : work'[x] = "registering" => work[x] = "registering"  BY <2>1
    <3>. QED  BY <1>1, <3>1, <3>2 DEF SynthesisFollows
  <2>6. ReadyIsBegun'  BY <1>1 DEF ReadyIsBegun, AllReady
  <2>7. FinalHolds'
    <3>1. b \in leaves /\ work[b] # "ended"  BY <1>1 DEF Mates
    <3>. QED  BY <1>1, <3>1 DEF FinalHolds
  <2>. QED  BY <2>2, <2>3, <2>4, <2>5, <2>6, <2>7
<1>2. CASE TurnDelegates(b)  BY <1>1, <1>2 DEF TurnDelegates, MayEnd
<1>3. ASSUME ReleasedPlans(b), NEW w \in {"turn", "ending"}, work' = [work EXCEPT ![b] = w],
             UNCHANGED <<parent, clone>>
      PROVE  IInv'
  <2>0. work[b] = "released"  BY <1>3 DEF ReleasedPlans
  <2>1. TypeOK'  BY <1>3 DEF Works, ReleasedPlans
  <2>2. Mates'  BY <1>3, <2>0 DEF Mates, ActiveBranches, ReleasedPlans
  <2>3. Kin'  BY <1>3, <2>0 DEF Kin, Unused
  <2>4. SynthesisFollows'  BY <1>3 DEF SynthesisFollows, ReleasedPlans
  <2>5. ReadyIsBegun'  BY <1>3 DEF ReadyIsBegun, AllReady, ReleasedPlans
  <2>6. FinalHolds'  BY <1>3, <2>0 DEF FinalHolds, Mates, ReleasedPlans
  <2>. QED  BY <2>1, <2>2, <2>3, <2>4, <2>5, <2>6
<1>4. CASE ReleasedPlans(b)  BY <1>1, <1>3, <1>4 DEF ReleasedPlans
<1>. QED  BY <1>2, <1>4

\* Starts of summaries, the end of a branch, grace and pause.
LEMMA QuietSteps ==
    ASSUME IInv,
           \/ \E b \in Branches : CheckpointStarts(b) \/ CloneStarts(b) \/ BranchFinalized(b)
           \/ GraceFires \/ Pause \/ MarkPaused \/ Resume \/ UNCHANGED vars
    PROVE  IInv'
<1>. USE DEF IInv, TypeOK, controller, bounds, timers, branches
<1>1. co.epoch \in Epochs /\ co.epoch.id \in Nat /\ co.epoch.frontier \subseteq Branches
  BY DEF Coordinators, Epochs
<1>2. ASSUME NEW b \in Branches  PROVE IdFor(co, b) \in Nat /\ (co.epoch.id = 0 => ~InFrontier(co, b))
  BY <1>1, NoEpochIs DEF IdFor, InFrontier, SynthesisFollows
<1>3. ASSUME NEW b \in Branches, CheckpointStarts(b)  PROVE IInv'
  <2>. USE <1>3 DEF CheckpointStarts
  <2>1. TypeOK'  BY <1>2 DEF Works
  <2>2. Mates'  BY DEF Mates, ActiveBranches
  <2>3. Kin'  BY DEF Kin, Unused
  <2>4. SynthesisFollows'  BY <1>2 DEF SynthesisFollows, IdFor
  <2>5. ReadyIsBegun'  BY DEF ReadyIsBegun, AllReady
  <2>6. FinalHolds'  BY DEF FinalHolds, Mates
  <2>. QED  BY <2>1, <2>2, <2>3, <2>4, <2>5, <2>6
<1>4. ASSUME NEW b \in Branches, CloneStarts(b)  PROVE IInv'
  <2>. USE <1>4 DEF CloneStarts
  <2>1. TypeOK'  BY <1>2
  <2>2. Mates'  BY DEF Mates, ActiveBranches
  <2>3. Kin'  BY DEF Kin, Unused
  <2>4. SynthesisFollows'  BY <1>2 DEF SynthesisFollows
  <2>5. ReadyIsBegun'  BY DEF ReadyIsBegun, AllReady
  <2>6. FinalHolds'  BY DEF FinalHolds, Mates
  <2>. QED  BY <2>1, <2>2, <2>3, <2>4, <2>5, <2>6
<1>5. ASSUME NEW b \in Branches, BranchFinalized(b)  PROVE IInv'
  <2>. USE <1>5 DEF BranchFinalized
  <2>1. TypeOK'  BY DEF Works, Running, Live
  <2>2. Mates'  BY DEF Mates, ActiveBranches
  <2>3. Kin'  BY DEF Kin, Unused
  <2>4. SynthesisFollows'  BY DEF SynthesisFollows
  <2>5. ReadyIsBegun'  BY DEF ReadyIsBegun, AllReady
  <2>6. FinalHolds'  BY DEF FinalHolds, Mates, Running, Live
  <2>. QED  BY <2>1, <2>2, <2>3, <2>4, <2>5, <2>6
<1>6. CASE GraceFires
  <2>. USE <1>6 DEF GraceFires
  <2>1. visiting' \subseteq Branches /\ visited' \in Nat /\ (co.epoch.id = 0 => visiting' = {})
    BY <1>1, NoEpochIs DEF SynthesisFollows
  <2>2. "orphan" \in mishaps' <=> "orphan" \in mishaps  OBVIOUS
  <2>3. "revived" \in mishaps => "revived" \in mishaps'  OBVIOUS
  <2>4. /\ grace' \in Nat
        /\ UNCHANGED <<status, reportEpoch, leaves, work, parent, clone, captured, cloneOf, co, synthesis, written>>
    OBVIOUS
  <2>5. TypeOK'  BY <2>1, <2>4
  <2>6. Mates'  BY <2>3, <2>4 DEF Mates, ActiveBranches
  <2>7. Kin'  BY <2>4 DEF Kin, Unused
  <2>8. SynthesisFollows'  BY <2>1, <2>4 DEF SynthesisFollows
  <2>9. ReadyIsBegun'  BY <2>4 DEF ReadyIsBegun, AllReady
  <2>10. FinalHolds'  BY <2>2, <2>4 DEF FinalHolds
  <2>. QED  BY <2>5, <2>6, <2>7, <2>8, <2>9, <2>10
<1>7. ASSUME status' \in Running \cup {"PAUSED", "EXPIRED"} \/ status' = status,
             "orphan" \in mishaps' <=> "orphan" \in mishaps,
             "revived" \in mishaps => "revived" \in mishaps',
             UNCHANGED <<reportEpoch, leaves, branches, co, synthesis, written, timers>>
      PROVE  IInv'
  <2>1. TypeOK'  BY <1>7 DEF Over
  <2>2. Mates'  BY <1>7 DEF Mates, ActiveBranches
  <2>3. Kin'  BY <1>7 DEF Kin, Unused
  <2>4. SynthesisFollows'  BY <1>7 DEF SynthesisFollows
  <2>5. ReadyIsBegun'  BY <1>7 DEF ReadyIsBegun, AllReady
  <2>6. FinalHolds'  BY <1>7 DEF FinalHolds, Running, Live
  <2>. QED  BY <2>1, <2>2, <2>3, <2>4, <2>5, <2>6
<1>8. CASE Pause  BY <1>7, <1>8 DEF Pause, Running, Live
<1>9. CASE MarkPaused  BY <1>7, <1>9 DEF MarkPaused
<1>10. CASE Resume  BY <1>7, <1>10 DEF Resume, Running, Live
<1>11. CASE UNCHANGED vars  BY <1>7, <1>11 DEF vars
<1>. QED  BY <1>3, <1>4, <1>5, <1>6, <1>8, <1>9, <1>10, <1>11

\* What an operator makes of the epoch, while the synthesis goes on.
LEMMA GoesOn ==
    ASSUME IInv, NEW d, NEW rest, rest = synthesis,
           \/ Arms(co, d) \/ (co.epoch.finished /\ Waits(d))
           \/ (Stays(co, d) /\ d.epoch.finished = co.epoch.finished)
    PROVE  Moves(d, rest)
<1>1. co.epoch.finished => synthesis = "none"
  BY DEF IInv, TypeOK, Coordinators, Epochs, SynthesisFollows
<1>. QED  BY <1>1 DEF Moves

\* Work that changes for a branch with work of its own changes no kinship.
LEMMA KinStays ==
    ASSUME IInv, NEW b \in Branches, NEW w, NEW v, v \notin {"queued", "registering"},
           work[b] \notin {"none", "delegated"},
           \A x \in Branches : w[x] = IF x = b THEN v ELSE work[x]
    PROVE  KinOf(w)
<1>. SUFFICES ASSUME NEW x \in Branches
              PROVE  /\ parent[x] # Nobody => /\ w[parent[x]] \in {"delegated", "none"}
                                              /\ parent[x] \notin Unused
                     /\ x \in Unused => w[x] = "none"
                     /\ w[x] \in {"queued", "registering"} => parent[x] # Nobody
  BY DEF KinOf
<1>1. parent[x] \in Branches \cup {Nobody}  BY DEF IInv, TypeOK
<1>2. /\ parent[x] # Nobody => /\ work[parent[x]] \in {"delegated", "none"}
                               /\ parent[x] \notin Unused
      /\ x \in Unused => work[x] = "none"
      /\ work[x] \in {"queued", "registering"} => parent[x] # Nobody
  BY DEF IInv, Kin
<1>3. parent[x] # Nobody => w[parent[x]] = work[parent[x]]  BY <1>1, <1>2
<1>. QED  BY <1>2, <1>3

\* A step of the coordinator keeps the invariant, if what it does not tell keeps
\* its type.
LEMMA Kept ==
    ASSUME IInv, NEW d, NEW w, NEW rest, NEW noted, Changes(d, w, rest, noted), Proper(d, w, rest, noted),
           status' \in Running \cup Over \cup {"PAUSED"}, reportEpoch' \in Nat,
           clone' \in [Branches -> {"none", "queued", "cloning"}],
           captured' \in [Branches -> Nat], cloneOf' \in [Branches -> Nat],
           written' \subseteq Nat, grace' \in Nat, visiting' \subseteq Branches, visited' \in Nat
    PROVE  IInv'
<1>1. /\ co' \in Coordinators /\ co'.epoch.ready \subseteq co'.epoch.frontier
      /\ co'.epoch.ends \subseteq co'.ended
      /\ work' \in [Branches -> Works]
      /\ synthesis' \in {"none", "writing", "accepting", "ending", "returning"}
      /\ Mates' /\ Kin' /\ SynthesisFollows' /\ ReadyIsBegun' /\ FinalHolds'
  BY Changed
<1>2. parent' \in [Branches -> Branches \cup {Nobody}]  BY DEF Proper, IInv, TypeOK
<1>3. leaves' \subseteq Branches  BY <1>1 DEF Mates
<1>4. TypeOK'  BY <1>1, <1>2, <1>3 DEF TypeOK
<1>. QED  BY <1>1, <1>4 DEF IInv

\* A step of the coordinator that leaves the work as it is.
LEMMA ProperSame ==
    ASSUME IInv, NEW d, NEW w, NEW rest, NEW noted, w = work,
           Sound(d), Begun(d), Moves(d, rest), UNCHANGED <<leaves, parent>>,
           d.held \subseteq co.held, d.ended = co.ended,
           ActiveBranches(d) = ActiveBranches(co),
           d.epoch.id = 0 => /\ visiting' = {}
                             /\ \A b \in Branches : captured'[b] = 0 /\ clone'[b] # "cloning",
           co.epoch.id # 0 => d.epoch.id # 0,
           status' \in {"COMPLETED", "COMPLETED_WITH_ERRORS"} =>
              d.epoch.started /\ d.epoch.kind = "FINAL" /\ Stays(co, d) /\ rest = "none"
    PROVE  Proper(d, w, rest, noted)
<1>1. w \in [Branches -> Works]  BY DEF IInv, TypeOK
<1>2. KinOf(w)  BY DEF IInv, Kin, KinOf
<1>3. leaves' = {b \in Branches : w[b] \notin {"none", "queued"}}  BY DEF IInv, Mates
<1>4. \A b \in leaves' : w[b] \in {"registering", "ended"} \/ b \in ActiveBranches(d)
  BY DEF IInv, Mates
<1>5. \A b \in ActiveBranches(d) : (b \in leaves' /\ w[b] # "ended") \/ "revived" \in mishaps \cup noted
  BY DEF IInv, Mates
<1>6. \A b \in Branches : w[b] = "held" <=> b \in co.held \cup d.held  BY DEF IInv, Mates
<1>7. d.epoch.id = 0 => \A b \in Branches : w[b] # "registering"  BY DEF IInv, SynthesisFollows
<1>. QED  BY <1>1, <1>2, <1>3, <1>4, <1>5, <1>6, <1>7 DEF Proper

\* The terminal summary of a branch.
LEMMA SummaryStep ==
    ASSUME IInv, NEW b \in Branches, NEW success \in BOOLEAN, SummaryEnds(b, success)
    PROVE  IInv'
<1>1. PICK c, w, r : /\ c = Terminated(co, b, success) /\ w = [work EXCEPT ![b] = "ended"]
                     /\ r = synthesis /\ Changes(c, w, r, {})
  BY DEF SummaryEnds, Becomes
<1>2. /\ work[b] = "ending" /\ status \in Running
      /\ UNCHANGED <<leaves, status, reportEpoch, parent, clone, captured, cloneOf, written, timers>>
  BY DEF SummaryEnds
<1>3. Sound(co) /\ Begun(co)  BY CoordinatorIsSound
<1>4. /\ Sound(c) /\ Begun(c)
      /\ \/ Arms(co, c) \/ (co.epoch.finished /\ Waits(c))
         \/ (Stays(co, c) /\ c.epoch.finished = co.epoch.finished)
      /\ c.held \subseteq co.held
      /\ ActiveBranches(c) = ActiveBranches(co) \ {b}
      /\ co.epoch.id # 0 => c.epoch.id # 0
  BY <1>1, <1>3, TerminatedIs
<1>5. Moves(c, r)  BY <1>1, <1>4, GoesOn
<1>6. /\ work \in [Branches -> Works] /\ w \in [Branches -> Works]
      /\ \A x \in Branches : w[x] = IF x = b THEN "ended" ELSE work[x]
  BY <1>1 DEF IInv, TypeOK, Works
<1>7. Proper(c, w, r, {})
  <2>1. KinOf(w)  BY <1>2, <1>6, KinStays
  <2>2. leaves' = {x \in Branches : w[x] \notin {"none", "queued"}}  BY <1>2, <1>6 DEF IInv, Mates
  <2>3. \A x \in leaves' : w[x] \in {"registering", "ended"} \/ x \in ActiveBranches(c)
    BY <1>2, <1>4, <1>6 DEF IInv, Mates
  <2>4. \A x \in ActiveBranches(c) : (x \in leaves' /\ w[x] # "ended") \/ "revived" \in mishaps \cup {}
    BY <1>2, <1>4, <1>6 DEF IInv, Mates, ActiveBranches
  <2>5. \A x \in Branches : w[x] = "held" <=> x \in co.held \cup c.held
    BY <1>2, <1>4, <1>6 DEF IInv, Mates
  <2>6. b \in leaves /\ work[b] # "ended"  BY <1>2 DEF IInv, Mates
  <2>7. c.epoch.id = 0 => /\ visiting' = {}
                          /\ \A x \in Branches : /\ captured'[x] = 0 /\ clone'[x] # "cloning"
                                                 /\ w[x] # "registering"
    BY <1>2, <1>4, <1>6 DEF IInv, SynthesisFollows, timers
  <2>8. status' \notin {"COMPLETED", "COMPLETED_WITH_ERRORS"}  BY <1>2 DEF Running, Live
  <2>. QED  BY <1>2, <1>4, <1>5, <1>6, <2>1, <2>2, <2>3, <2>4, <2>5, <2>6, <2>7, <2>8 DEF Proper
<1>. QED  BY <1>1, <1>2, <1>7, Kept DEF IInv, TypeOK, timers

\* The checkpoint of a branch.
LEMMA CheckpointStep ==
    ASSUME IInv, NEW b \in Branches, NEW success \in BOOLEAN, CheckpointEnds(b, success)
    PROVE  IInv'
<1>1. PICK c, w, r : /\ c = Checkpointed(co, b, success, captured[b])
                     /\ w = [work EXCEPT ![b] = IF b \in c.held THEN "held" ELSE "released"]
                     /\ r = synthesis /\ Changes(c, w, r, {})
  BY DEF CheckpointEnds, Becomes
<1>2. /\ work[b] = "checkpointing" /\ status \in Running /\ captured' = [captured EXCEPT ![b] = 0]
      /\ UNCHANGED <<leaves, status, reportEpoch, parent, clone, cloneOf, written, timers>>
  BY DEF CheckpointEnds
<1>3. Sound(co) /\ Begun(co)  BY CoordinatorIsSound
<1>. DEFINE id == captured[b]
<1>4. id \in Nat /\ (id # 0 => co.epoch.id # 0)  BY DEF IInv, TypeOK, SynthesisFollows
<1>. HIDE DEF id
<1>5. c = Checkpointed(co, b, success, id)  BY <1>1 DEF id
<1>6. /\ Sound(c) /\ Begun(c)
      /\ \/ Arms(co, c) \/ (co.epoch.finished /\ Waits(c))
         \/ (Stays(co, c) /\ c.epoch.finished = co.epoch.finished)
      /\ c.held \subseteq co.held \cup {b} /\ c.ended = co.ended
      /\ ActiveBranches(c) = ActiveBranches(co) \cup {b}
      /\ co.epoch.id # 0 => c.epoch.id # 0
  BY <1>3, <1>4, <1>5, CheckpointedIs
<1>7. Moves(c, r)  BY <1>1, <1>6, GoesOn
<1>. DEFINE v == IF b \in c.held THEN "held" ELSE "released"
<1>8. /\ work \in [Branches -> Works] /\ w \in [Branches -> Works]
      /\ \A x \in Branches : w[x] = IF x = b THEN v ELSE work[x]
  BY <1>1 DEF IInv, TypeOK, Works
<1>9. v \in {"held", "released"} /\ (v = "held" <=> b \in c.held)  OBVIOUS
<1>. HIDE DEF v
<1>10. Proper(c, w, r, {})
  <2>1. KinOf(w)  BY <1>2, <1>8, <1>9, KinStays
  <2>2. leaves' = {x \in Branches : w[x] \notin {"none", "queued"}}
    BY <1>2, <1>8, <1>9 DEF IInv, Mates
  <2>3. \A x \in leaves' : w[x] \in {"registering", "ended"} \/ x \in ActiveBranches(c)
    BY <1>2, <1>6, <1>8, <1>9 DEF IInv, Mates
  <2>4. \A x \in ActiveBranches(c) : (x \in leaves' /\ w[x] # "ended") \/ "revived" \in mishaps \cup {}
    BY <1>2, <1>6, <1>8, <1>9 DEF IInv, Mates, ActiveBranches
  <2>5. \A x \in Branches : w[x] = "held" <=> x \in co.held \cup c.held
    BY <1>2, <1>6, <1>8, <1>9 DEF IInv, Mates
  <2>6. c.epoch.id = 0 => /\ visiting' = {}
                          /\ \A x \in Branches : /\ captured'[x] = 0 /\ clone'[x] # "cloning"
                                                 /\ w[x] # "registering"
    BY <1>2, <1>6, <1>8, <1>9 DEF IInv, TypeOK, SynthesisFollows, timers
  <2>7. status' \notin {"COMPLETED", "COMPLETED_WITH_ERRORS"}  BY <1>2 DEF Running, Live
  <2>. QED  BY <1>2, <1>6, <1>7, <1>8, <2>1, <2>2, <2>3, <2>4, <2>5, <2>6, <2>7 DEF Proper
<1>11. captured' \in [Branches -> Nat]  BY <1>2 DEF IInv, TypeOK
<1>. QED  BY <1>1, <1>2, <1>10, <1>11, Kept DEF IInv, TypeOK, timers

\* The clone of a branch, for an epoch or for the grace.
LEMMA CloneStep ==
    ASSUME IInv, NEW b \in Branches, NEW success \in BOOLEAN,
           CloneEnds(b, success) \/ GraceClones(b, success)
    PROVE  IInv'
<1>1. PICK c, w, r, id : /\ c = Considered(EntryReady(Drafted(co, b, success), b, id))
                         /\ w = work /\ r = synthesis /\ Changes(c, w, r, {})
  BY DEF CloneEnds, GraceClones, Becomes
<1>2. /\ status \notin Over /\ UNCHANGED <<leaves, status, reportEpoch, parent, captured, written, grace>>
  BY DEF CloneEnds, GraceClones, Running, Live, Over, timers
<1>3. Sound(co) /\ Begun(co)  BY CoordinatorIsSound
<1>4. co.epoch.id # 0
  BY DEF CloneEnds, GraceClones, IInv, SynthesisFollows
<1>5. /\ Sound(c) /\ Begun(c)
      /\ Arms(co, c) \/ Stays(co, c)
      /\ c.epoch.finished = co.epoch.finished
      /\ c.life = co.life /\ c.held = co.held /\ c.ended = co.ended /\ c.epoch.id = co.epoch.id
  BY <1>1, <1>3, <1>4, SummarizedIs
<1>6. Moves(c, r)  BY <1>1, <1>5, GoesOn
<1>7. ActiveBranches(c) = ActiveBranches(co)  BY <1>5 DEF ActiveBranches
<1>8. status' \notin {"COMPLETED", "COMPLETED_WITH_ERRORS"}  BY <1>2 DEF Over
<1>9. Proper(c, w, r, {})
  BY <1>1, <1>2, <1>4, <1>5, <1>6, <1>7, <1>8, ProperSame
<1>10. /\ clone' \in [Branches -> {"none", "queued", "cloning"}]
       /\ cloneOf' \in [Branches -> Nat] /\ visiting' \subseteq Branches /\ visited' \in Nat
  <2>1. CASE CloneEnds(b, success)  BY <2>1 DEF CloneEnds, IInv, TypeOK, timers
  <2>2. CASE GraceClones(b, success)  BY <2>2 DEF GraceClones, IInv, TypeOK
  <2>. QED  BY <2>1, <2>2
<1>. QED  BY <1>1, <1>2, <1>9, <1>10, Kept DEF IInv, TypeOK

\* A parent that retired has been summarized, and its child becomes a branch.
LEMMA ParentStep ==
    ASSUME IInv, NEW k \in Branches, NEW success \in BOOLEAN, ParentIsSummarized(k, success)
    PROVE  IInv'
<1>1. PICK c, w, r, b, id, s :
         /\ b = parent[k] /\ id = captured[k]
         /\ s = Considered(EntryReady(Drafted(co, b, success), b, id))
         /\ c = [s EXCEPT !.life[k] = "active"]
         /\ w = [work EXCEPT ![k] = "turn"] /\ r = synthesis /\ Changes(c, w, r, {})
  BY DEF ParentIsSummarized, Becomes
<1>2. /\ work[k] = "registering" /\ status \notin Over /\ captured' = [captured EXCEPT ![k] = 0]
      /\ UNCHANGED <<leaves, status, reportEpoch, parent, clone, cloneOf, written, timers>>
  BY DEF ParentIsSummarized
<1>3. Sound(co) /\ Begun(co)  BY CoordinatorIsSound
<1>4. b \in Branches /\ co.epoch.id # 0
  BY <1>1, <1>2 DEF IInv, TypeOK, Kin, SynthesisFollows
<1>5. /\ Sound(s) /\ Begun(s)
      /\ Arms(co, s) \/ Stays(co, s)
      /\ s.epoch.finished = co.epoch.finished
      /\ s.life = co.life /\ s.held = co.held /\ s.ended = co.ended /\ s.epoch.id = co.epoch.id
  BY <1>1, <1>3, <1>4, SummarizedIs
<1>6. /\ Sound(c) /\ c.epoch = s.epoch /\ c.held = s.held /\ c.ended = s.ended
      /\ ActiveBranches(c) = ActiveBranches(s) \cup {k}
  BY <1>1, <1>5, LivesIs
<1>7. ActiveBranches(s) = ActiveBranches(co)  BY <1>5 DEF ActiveBranches
<1>8. Begun(c)  BY <1>5, <1>6 DEF Begun, AllReady
<1>9. Arms(co, c) \/ (Stays(co, c) /\ c.epoch.finished = co.epoch.finished)
  BY <1>5, <1>6 DEF Arms, Stays
<1>10. Moves(c, r)  BY <1>1, <1>9, GoesOn
<1>11. /\ work \in [Branches -> Works] /\ w \in [Branches -> Works]
       /\ \A x \in Branches : w[x] = IF x = k THEN "turn" ELSE work[x]
  BY <1>1 DEF IInv, TypeOK, Works
<1>12. Proper(c, w, r, {})
  <2>1. KinOf(w)  BY <1>2, <1>11, KinStays
  <2>2. leaves' = {x \in Branches : w[x] \notin {"none", "queued"}}  BY <1>2, <1>11 DEF IInv, Mates
  <2>3. \A x \in leaves' : w[x] \in {"registering", "ended"} \/ x \in ActiveBranches(c)
    BY <1>2, <1>6, <1>7, <1>11 DEF IInv, Mates
  <2>4. \A x \in ActiveBranches(c) : (x \in leaves' /\ w[x] # "ended") \/ "revived" \in mishaps \cup {}
    BY <1>2, <1>6, <1>7, <1>11 DEF IInv, Mates, ActiveBranches
  <2>5. \A x \in Branches : w[x] = "held" <=> x \in co.held \cup c.held
    BY <1>2, <1>5, <1>6, <1>11 DEF IInv, Mates
  <2>6. c.epoch.id # 0  BY <1>4, <1>5, <1>6
  <2>7. status' \notin {"COMPLETED", "COMPLETED_WITH_ERRORS"}  BY <1>2 DEF Over
  <2>. QED  BY <1>2, <1>5, <1>6, <1>8, <1>10, <1>11, <2>1, <2>2, <2>3, <2>4, <2>5, <2>6, <2>7 DEF Proper
<1>13. captured' \in [Branches -> Nat]  BY <1>2 DEF IInv, TypeOK
<1>. QED  BY <1>1, <1>2, <1>12, <1>13, Kept DEF IInv, TypeOK, timers

\* A child becomes a leaf; with the first one, its parent is none any more.
LEMMA MaterializeStep ==
    ASSUME IInv, NEW b \in Branches, Materialize(b)
    PROVE  IInv'
<1>. DEFINE retires == b \in leaves
            retired == IF retires THEN [co EXCEPT !.life[b] = "finalized"] ELSE co
            awaited == retires /\ InFrontier(co, b) /\ b \notin co.epoch.ready
<1>1. PICK c, w, r, k, d :
         /\ k = Min(Queued(b)) /\ d = retired
         /\ c = IF awaited THEN d ELSE [d EXCEPT !.life[k] = "active"]
         /\ w = [work EXCEPT ![k] = IF awaited THEN "registering" ELSE "turn",
                             ![b] = IF retires THEN "none" ELSE @]
         /\ r = synthesis /\ Changes(c, w, r, {})
  BY DEF Materialize, Becomes
<1>2. /\ Queued(b) # {} /\ status \in Live
      /\ leaves' = (IF retires THEN leaves \ {b} ELSE leaves) \cup {k}
      /\ captured' = IF awaited THEN [captured EXCEPT ![k] = co.epoch.id] ELSE captured
      /\ UNCHANGED <<status, reportEpoch, parent, clone, cloneOf, written, timers>>
  BY <1>1 DEF Materialize, bounds
<1>3. k \in Branches /\ parent[k] = b /\ work[k] = "queued"
  <2>1. Queued(b) \in SUBSET Nat  BY BoundsAssumption DEF Queued, Children, Branches
  <2>2. \E m \in Queued(b) : \A x \in Queued(b) : m <= x  BY <1>2, <2>1, LeastExists
  <2>3. k \in Queued(b)  BY <1>1, <2>2 DEF Min
  <2>. QED  BY <2>3 DEF Queued, Children
<1>4. /\ work[b] \in {"delegated", "none"} /\ b \notin Unused /\ k # b /\ k \notin leaves
      /\ b # Nobody
  <2>1. b # Nobody  BY DEF Branches, Nobody
  <2>2. work[b] \in {"delegated", "none"} /\ b \notin Unused  BY <1>3, <2>1 DEF IInv, Kin
  <2>. QED  BY <1>3, <2>1, <2>2 DEF IInv, Mates
<1>5. Sound(co) /\ Begun(co)  BY CoordinatorIsSound
<1>6. /\ Sound(d) /\ d.epoch = co.epoch /\ d.held = co.held /\ d.ended = co.ended
      /\ ActiveBranches(d) = IF retires THEN ActiveBranches(co) \ {b} ELSE ActiveBranches(co)
  <2>1. CASE retires
    <3>1. d = [co EXCEPT !.life[b] = "finalized"]  BY <1>1, <2>1
    <3>. QED  BY <1>5, <2>1, <3>1, LivesIs
  <2>2. CASE ~retires  BY <1>1, <1>5, <2>2
  <2>. QED  BY <2>1, <2>2
<1>7. awaited => co.epoch.id # 0  BY NoEpochIs DEF InFrontier, IInv, SynthesisFollows
<1>8. awaited => retires  OBVIOUS
<1>9. /\ w \in [Branches -> Works]
      /\ w[k] = IF awaited THEN "registering" ELSE "turn"
      /\ w[b] = IF retires THEN "none" ELSE work[b]
      /\ \A x \in Branches \ {k, b} : w[x] = work[x]
  <2>. HIDE DEF awaited, retires
  <2>. QED  BY <1>1, <1>3, <1>4 DEF IInv, TypeOK, Works
<1>10. /\ Sound(c) /\ c.epoch = co.epoch /\ c.held = co.held /\ c.ended = co.ended
       /\ awaited => ActiveBranches(c) = ActiveBranches(d)
       /\ ~awaited => ActiveBranches(c) = ActiveBranches(d) \cup {k}
  <2>. HIDE DEF awaited, retires
  <2>1. CASE awaited
    <3>1. c = d  BY <1>1, <2>1
    <3>. QED  BY <1>6, <2>1, <3>1
  <2>2. CASE ~awaited
    <3>1. c = [d EXCEPT !.life[k] = "active"]  BY <1>1, <2>2
    <3>2. /\ Sound(c) /\ c.epoch = d.epoch /\ c.held = d.held /\ c.ended = d.ended
          /\ ActiveBranches(c) = ActiveBranches(d) \cup {k}
      BY <1>3, <1>6, <3>1, LivesIs
    <3>. QED  BY <1>6, <2>2, <3>2
  <2>. QED  BY <2>1, <2>2
<1>11. captured' \in [Branches -> Nat] /\ (co.epoch.id = 0 => captured' = captured)
  <2>1. co.epoch.id \in Nat  BY DEF IInv, TypeOK, Coordinators, Epochs
  <2>. HIDE DEF awaited, retires
  <2>. QED  BY <1>2, <1>7, <2>1 DEF IInv, TypeOK
<1>12. Begun(c)  BY <1>5, <1>10 DEF Begun, AllReady
<1>13. Stays(co, c) /\ c.epoch.finished = co.epoch.finished  BY <1>10 DEF Stays
<1>14. Moves(c, r)  BY <1>1, <1>13, GoesOn
<1>15. retires <=> b \in leaves  OBVIOUS
<1>. HIDE DEF awaited, retires
<1>16. Proper(c, w, r, {})
  <2>1. KinOf(w)
    <3>. SUFFICES ASSUME NEW x \in Branches
                  PROVE  /\ parent[x] # Nobody => /\ w[parent[x]] \in {"delegated", "none"}
                                                  /\ parent[x] \notin Unused
                         /\ x \in Unused => w[x] = "none"
                         /\ w[x] \in {"queued", "registering"} => parent[x] # Nobody
      BY DEF KinOf
    <3>1. parent[x] \in Branches \cup {Nobody}  BY DEF IInv, TypeOK
    <3>2. /\ parent[x] # Nobody => /\ work[parent[x]] \in {"delegated", "none"}
                                   /\ parent[x] \notin Unused
          /\ x \in Unused => work[x] = "none"
          /\ work[x] \in {"queued", "registering"} => parent[x] # Nobody
      BY DEF IInv, Kin
    <3>3. parent[x] # Nobody => w[parent[x]] \in {"delegated", "none"}
      BY <1>3, <1>4, <1>9, <3>1, <3>2
    <3>4. x \in Unused => w[x] = "none"  BY <1>3, <1>4, <1>9, <3>2 DEF Unused
    <3>5. w[x] \in {"queued", "registering"} => parent[x] # Nobody
      BY <1>3, <1>4, <1>9, <3>2
    <3>. QED  BY <3>2, <3>3, <3>4, <3>5
  <2>2. leaves' = {x \in Branches : w[x] \notin {"none", "queued"}}
    <3>1. leaves = {x \in Branches : work[x] \notin {"none", "queued"}}  BY DEF IInv, Mates
    <3>2. w[k] \notin {"none", "queued"}  BY <1>9
    <3>3. CASE retires
      <4>1. leaves' = (leaves \ {b}) \cup {k}  BY <1>2, <3>3
      <4>2. w[b] = "none"  BY <1>9, <3>3
      <4>. QED  BY <1>3, <1>4, <1>9, <3>1, <3>2, <4>1, <4>2
    <3>4. CASE ~retires
      <4>1. leaves' = leaves \cup {k}  BY <1>2, <3>4
      <4>2. w[b] = work[b]  BY <1>9, <3>4
      <4>. QED  BY <1>3, <1>9, <3>1, <3>2, <4>1, <4>2
    <3>. QED  BY <3>3, <3>4
  <2>3. \A x \in leaves' : w[x] \in {"registering", "ended"} \/ x \in ActiveBranches(c)
    BY <1>2, <1>3, <1>6, <1>8, <1>9, <1>10, <1>15 DEF IInv, Mates
  <2>4. \A x \in ActiveBranches(c) : (x \in leaves' /\ w[x] # "ended") \/ "revived" \in mishaps \cup {}
    <3>. SUFFICES ASSUME NEW x \in ActiveBranches(c), "revived" \notin mishaps
                  PROVE  x \in leaves' /\ w[x] # "ended"
      OBVIOUS
    <3>0. x \in Branches  BY DEF ActiveBranches
    <3>1. CASE x = k
      <4>1. w[k] # "ended"  BY <1>9
      <4>. QED  BY <1>2, <3>1, <4>1
    <3>2. CASE x # k
      <4>1. x \in ActiveBranches(co) /\ ~(retires /\ x = b)  BY <1>6, <1>10, <3>2
      <4>2. x \in leaves /\ work[x] # "ended"  BY <4>1 DEF IInv, Mates
      <4>3. w[x] = work[x] /\ x \in leaves'  BY <1>2, <1>9, <1>15, <3>0, <3>2, <4>1, <4>2
      <4>. QED  BY <4>2, <4>3
    <3>. QED  BY <3>1, <3>2
  <2>5. \A x \in Branches : w[x] = "held" <=> x \in co.held \cup c.held
    BY <1>3, <1>4, <1>9, <1>10 DEF IInv, Mates
  <2>6. c.epoch.id = 0 => /\ visiting' = {}
                          /\ \A x \in Branches : /\ captured'[x] = 0 /\ clone'[x] # "cloning"
                                                 /\ w[x] # "registering"
    BY <1>2, <1>4, <1>7, <1>9, <1>10, <1>11 DEF IInv, SynthesisFollows, timers
  <2>7. status' \notin {"COMPLETED", "COMPLETED_WITH_ERRORS"}  BY <1>2 DEF Live
  <2>. QED  BY <1>2, <1>9, <1>10, <1>12, <1>14, <2>1, <2>2, <2>3, <2>4, <2>5, <2>6, <2>7 DEF Proper
<1>. QED  BY <1>1, <1>2, <1>11, <1>16, Kept DEF IInv, TypeOK, timers

\* The callback of a synthesis is over.
LEMMA ClosesKeeps ==
    ASSUME IInv, NEW noted, Closes(noted), synthesis # "none",
           UNCHANGED <<leaves, parent, clone, captured, cloneOf, timers>>,
           status' \in Running \cup Over \cup {"PAUSED"}, reportEpoch' \in Nat, written' \subseteq Nat,
           status' \in {"COMPLETED", "COMPLETED_WITH_ERRORS"} => co.epoch.kind = "FINAL"
    PROVE  IInv'
<1>1. PICK c, w, r : c = Finished(co) /\ w = work /\ r = "none" /\ Changes(c, w, r, noted)
  BY DEF Closes
<1>2. Sound(co) /\ co.epoch.started  BY CoordinatorIsSound DEF IInv, SynthesisFollows
<1>3. /\ Sound(c) /\ Begun(c)
      /\ Arms(co, c) \/ Waits(c) \/ (Stays(co, c) /\ c.epoch.finished)
      /\ c.held \subseteq co.held /\ c.ended = co.ended
      /\ ActiveBranches(c) = ActiveBranches(co)
      /\ co.epoch.id # 0 => c.epoch.id # 0
      /\ co.epoch.kind = "FINAL" => Stays(co, c) /\ c.epoch.finished
  BY <1>1, <1>2, FinishedIs
<1>4. Moves(c, r)  BY <1>1, <1>3 DEF Moves
<1>5. co.epoch.id # 0  BY <1>2, NoEpochIs DEF Sound
<1>6. status' \in {"COMPLETED", "COMPLETED_WITH_ERRORS"} =>
         c.epoch.started /\ c.epoch.kind = "FINAL" /\ Stays(co, c) /\ r = "none"
  BY <1>1, <1>2, <1>3 DEF Stays
<1>7. Proper(c, w, r, noted)  BY <1>1, <1>3, <1>4, <1>5, <1>6, ProperSame
<1>. QED  BY <1>1, <1>7, Kept DEF IInv, TypeOK, timers

\* A synthesis that is written, fails, is submitted or is dropped.
LEMMA SynthesisStep == ASSUME IInv, SynthesisSteps PROVE IInv'
<1>1. co.epoch \in Epochs /\ co.epoch.n \in Nat  BY DEF IInv, TypeOK, Coordinators, Epochs
<1>2. synthesis # "none" => /\ status \notin {"COMPLETED", "COMPLETED_WITH_ERRORS"}
                            /\ co.epoch.started /\ ~co.epoch.finished /\ co.epoch.id # 0
  BY NoEpochIs DEF IInv, FinalHolds, SynthesisFollows
<1>3. ASSUME co' = co, work' = work, mishaps' = mishaps, leaves' = leaves, parent' = parent,
             captured' = captured, clone' = clone, cloneOf' = cloneOf, UNCHANGED timers,
             synthesis # "none", synthesis' \in {"accepting", "ending", "returning"},
             synthesis' \in {"accepting", "ending"} => co.epoch.kind = "FINAL",
             status' \in Running \cup Over \cup {"PAUSED"},
             status' \notin {"COMPLETED", "COMPLETED_WITH_ERRORS"},
             reportEpoch' \in Nat, written' \subseteq Nat
      PROVE  IInv'
  <2>. USE <1>3 DEF IInv, timers
  <2>1. TypeOK'  BY DEF TypeOK
  <2>2. Mates'  BY DEF Mates, ActiveBranches
  <2>3. Kin'  BY DEF Kin, Unused
  <2>4. SynthesisFollows'  BY DEF SynthesisFollows
  <2>5. ReadyIsBegun'  BY DEF ReadyIsBegun, AllReady
  <2>6. FinalHolds'  BY DEF FinalHolds
  <2>. QED  BY <2>1, <2>2, <2>3, <2>4, <2>5, <2>6
<1>4. CASE ReportIsWritten
  <2>1. /\ synthesis = "writing" /\ written' = written \cup {co.epoch.n}
        /\ UNCHANGED <<controller, parent, clone, captured, cloneOf, timers>>
        /\ \/ /\ synthesis' = IF co.epoch.kind = "FINAL" THEN "accepting" ELSE "returning"
              /\ UNCHANGED <<work, co, mishaps>>
           \/ Closes({"dropped"})
    BY <1>4 DEF ReportIsWritten
  <2>2. written' \subseteq Nat  BY <1>1, <2>1 DEF IInv, TypeOK
  <2>3. CASE Closes({"dropped"})
    BY <1>2, <2>1, <2>2, <2>3, ClosesKeeps DEF IInv, TypeOK, controller
  <2>4. CASE /\ synthesis' = IF co.epoch.kind = "FINAL" THEN "accepting" ELSE "returning"
             /\ UNCHANGED <<work, co, mishaps>>
    BY <1>2, <1>3, <2>1, <2>2, <2>4 DEF IInv, TypeOK, controller
  <2>. QED  BY <2>1, <2>3, <2>4
<1>5. CASE SynthesisFails
  <2>1. PICK c, w, r, x, noted :
           /\ x = [co EXCEPT !.epoch.started = FALSE] /\ c = Considered(x)
           /\ w = work /\ r = "none" /\ Changes(c, w, r, noted)
    BY <1>5 DEF SynthesisFails
  <2>2. /\ synthesis = "writing"
        /\ UNCHANGED <<leaves, status, reportEpoch, parent, clone, captured, cloneOf, written, timers>>
    BY <1>5 DEF SynthesisFails
  <2>3. Sound(co)  BY CoordinatorIsSound
  <2>. DEFINE f == [co.epoch EXCEPT !.started = FALSE]
              y == [co EXCEPT !.epoch = f]
  <2>4. x = y  BY <2>1, <2>3 DEF Sound, Coordinators
  <2>5. /\ f \in Epochs /\ ~f.started /\ f.id = co.epoch.id /\ f.n = co.epoch.n
        /\ f.frontier = co.epoch.frontier /\ f.ready = co.epoch.ready
        /\ f.finished = co.epoch.finished /\ f.tries = co.epoch.tries
        /\ f.kind = co.epoch.kind /\ f.ends = co.epoch.ends /\ f.drafts = co.epoch.drafts
    BY <1>1 DEF Epochs
  <2>. HIDE DEF f
  <2>6. /\ y \in Coordinators /\ y.epoch = f /\ y.life = co.life /\ y.held = co.held /\ y.ended = co.ended
    BY <2>3, <2>5 DEF Sound, Coordinators
  <2>. HIDE DEF y
  <2>7. Sound(x)  BY <1>2, <2>2, <2>3, <2>4, <2>5, <2>6 DEF Sound
  <2>8. /\ Sound(c) /\ Begun(c)
        /\ Arms(x, c) \/ c = x
        /\ c.life = x.life /\ c.held = x.held /\ c.ended = x.ended /\ c.epoch.id = x.epoch.id
    BY <1>2, <2>1, <2>2, <2>4, <2>5, <2>6, <2>7, ConsideredIs
  <2>9. Arms(co, c) \/ Waits(c)
    BY <1>2, <2>2, <2>4, <2>5, <2>6, <2>8 DEF Arms, Waits
  <2>10. Moves(c, r)  BY <2>1, <2>9 DEF Moves
  <2>11. ActiveBranches(c) = ActiveBranches(co)  BY <2>4, <2>6, <2>8 DEF ActiveBranches
  <2>12. c.epoch.id # 0 /\ c.held = co.held /\ c.ended = co.ended
    BY <1>2, <2>2, <2>4, <2>5, <2>6, <2>8
  <2>13. status' \notin {"COMPLETED", "COMPLETED_WITH_ERRORS"}  BY <1>2, <2>2
  <2>14. Proper(c, w, r, noted)
    BY <2>1, <2>2, <2>8, <2>10, <2>11, <2>12, <2>13, ProperSame
  <2>. QED  BY <2>1, <2>2, <2>14, Kept DEF IInv, TypeOK, timers
<1>6. CASE FinalEpochCommitted
  <2>1. /\ synthesis = "accepting"
        /\ status' \in {"FINALIZING", status} /\ reportEpoch' \in {co.epoch.n, reportEpoch}
        /\ UNCHANGED <<leaves, parent, clone, captured, cloneOf, written, timers>>
        /\ \/ synthesis' = "ending" /\ UNCHANGED <<work, co, mishaps>>
           \/ Closes({"dropped"})
    BY <1>6 DEF FinalEpochCommitted
  <2>2. /\ status' \in Running \cup Over \cup {"PAUSED"} /\ reportEpoch' \in Nat
        /\ status' \notin {"COMPLETED", "COMPLETED_WITH_ERRORS"}
    BY <1>1, <1>2, <2>1 DEF IInv, TypeOK, Running
  <2>3. CASE Closes({"dropped"})
    BY <1>2, <2>1, <2>2, <2>3, ClosesKeeps DEF IInv, TypeOK
  <2>4. CASE synthesis' = "ending" /\ UNCHANGED <<work, co, mishaps>>
    <3>1. co.epoch.kind = "FINAL"  BY <2>1 DEF IInv, SynthesisFollows
    <3>. QED  BY <1>2, <1>3, <2>1, <2>2, <2>4, <3>1 DEF IInv, TypeOK
  <2>. QED  BY <2>1, <2>3, <2>4
<1>7. ASSUME NEW succeeded \in BOOLEAN, FinalReportEnds(succeeded)  PROVE IInv'
  <2>1. /\ synthesis = "ending" /\ Closes({})
        /\ status' \in {status, "COMPLETED", "COMPLETED_WITH_ERRORS"}
        /\ UNCHANGED <<reportEpoch, leaves, parent, clone, captured, cloneOf, written, timers>>
    BY <1>7 DEF FinalReportEnds
  <2>2. status' \in Running \cup Over \cup {"PAUSED"}  BY <2>1 DEF IInv, TypeOK, Over
  <2>3. co.epoch.kind = "FINAL"  BY <2>1 DEF IInv, SynthesisFollows
  <2>. QED  BY <2>1, <2>2, <2>3, ClosesKeeps DEF IInv, TypeOK
<1>8. CASE ReportCompletes
  <2>1. /\ synthesis = "returning" /\ \E noted : Closes(noted)
        /\ status' \in {status, "FINALIZING", "RUNNING"}
        /\ UNCHANGED <<reportEpoch, leaves, parent, clone, captured, cloneOf, written, timers>>
    BY <1>8 DEF ReportCompletes
  <2>2. /\ status' \in Running \cup Over \cup {"PAUSED"}
        /\ status' \notin {"COMPLETED", "COMPLETED_WITH_ERRORS"}
    BY <1>2, <2>1 DEF IInv, TypeOK, Running, Live
  <2>. QED  BY <2>1, <2>2, ClosesKeeps DEF IInv, TypeOK
<1>. QED  BY <1>4, <1>5, <1>6, <1>7, <1>8 DEF SynthesisSteps

\* The deadline opens an epoch, or joins the one that has its number.
LEMMA DeadlineStep == ASSUME IInv, Deadline PROVE IInv'
<1>1. PICK c, w, r, n, noted :
         /\ n = reportEpoch + 1
         /\ c = co \/ c = Opened(Synced(co), n)
         /\ w = work /\ r = synthesis /\ Changes(c, w, r, noted)
         /\ (\E b \in leaves : work[b] = "ended" /\ b \in ActiveBranches(c)) => "revived" \in noted
         /\ grace' \in {grace, c.epoch.n} /\ visiting' \in {visiting, {}} /\ visited' \in {visited, 0}
  BY DEF Deadline
<1>2. /\ status' = "REPORTING" /\ reportEpoch' = reportEpoch + 1
      /\ UNCHANGED <<leaves, parent, clone, captured, cloneOf, written>>
  BY DEF Deadline
<1>3. Sound(co) /\ Begun(co) /\ n \in Nat /\ leaves \subseteq Branches
  BY <1>1, CoordinatorIsSound DEF IInv, TypeOK
<1>4. /\ Sound(c) /\ Begun(c)
      /\ \/ Arms(co, c) \/ (co.epoch.finished /\ Waits(c))
         \/ (Stays(co, c) /\ c.epoch.finished = co.epoch.finished)
      /\ c.held \subseteq co.held /\ c.ended = co.ended
      /\ ActiveBranches(c) \in {ActiveBranches(co), ActiveBranches(co) \cup leaves}
      /\ co.epoch.id # 0 => c.epoch.id # 0
  <2>1. CASE c = co  BY <1>3, <2>1 DEF Stays
  <2>2. CASE c = Opened(Synced(co), n)
    <3>. DEFINE x == Synced(co)
    <3>1. /\ Sound(x) /\ x.epoch = co.epoch /\ x.held = co.held /\ x.ended = co.ended
          /\ ActiveBranches(x) = ActiveBranches(co) \cup leaves
      BY <1>3, SyncedIs
    <3>. HIDE DEF x
    <3>2. Begun(x)  BY <1>3, <3>1 DEF Begun, AllReady
    <3>3. c = Opened(x, n)  BY <2>2 DEF x
    <3>4. /\ Sound(c) /\ Begun(c)
          /\ Arms(x, c) \/ (x.epoch.finished /\ Waits(c)) \/ c = x
          /\ c.held \subseteq x.held /\ c.ended = x.ended
          /\ ActiveBranches(c) = ActiveBranches(x)
          /\ x.epoch.id # 0 => c.epoch.id # 0
      BY <1>3, <3>1, <3>2, <3>3, OpenedNextIs
    <3>5. \/ Arms(co, c) \/ (co.epoch.finished /\ Waits(c))
          \/ (Stays(co, c) /\ c.epoch.finished = co.epoch.finished)
      BY <3>1, <3>4 DEF Arms, Stays
    <3>. QED  BY <3>1, <3>4, <3>5
  <2>. QED  BY <1>1, <2>1, <2>2
<1>5. Moves(c, r)  BY <1>1, <1>4, GoesOn
<1>6. Proper(c, w, r, noted)
  <2>1. w \in [Branches -> Works] /\ KinOf(w)  BY <1>1 DEF IInv, TypeOK, Kin, KinOf
  <2>2. leaves' = {b \in Branches : w[b] \notin {"none", "queued"}}  BY <1>1, <1>2 DEF IInv, Mates
  <2>3. \A b \in leaves' : w[b] \in {"registering", "ended"} \/ b \in ActiveBranches(c)
    BY <1>1, <1>2, <1>4 DEF IInv, Mates
  <2>4. \A b \in ActiveBranches(c) : (b \in leaves' /\ w[b] # "ended") \/ "revived" \in mishaps \cup noted
    <3>. SUFFICES ASSUME NEW b \in ActiveBranches(c), "revived" \notin mishaps \cup noted
                  PROVE  b \in leaves' /\ w[b] # "ended"
      OBVIOUS
    <3>1. b \in leaves  BY <1>4 DEF IInv, Mates
    <3>2. work[b] # "ended"  BY <1>1, <3>1
    <3>. QED  BY <1>1, <1>2, <3>1, <3>2
  <2>5. \A b \in Branches : w[b] = "held" <=> b \in co.held \cup c.held
    BY <1>1, <1>4 DEF IInv, Mates
  <2>6. c.epoch.id = 0 => /\ visiting' = {}
                          /\ \A b \in Branches : /\ captured'[b] = 0 /\ clone'[b] # "cloning"
                                                 /\ w[b] # "registering"
    BY <1>1, <1>2, <1>4 DEF IInv, SynthesisFollows
  <2>. QED  BY <1>2, <1>4, <1>5, <2>1, <2>2, <2>3, <2>4, <2>5, <2>6 DEF Proper
<1>7. /\ status' \in Running \cup Over \cup {"PAUSED"} /\ reportEpoch' \in Nat
      /\ grace' \in Nat /\ visiting' \subseteq Branches /\ visited' \in Nat
  <2>1. c.epoch.n \in Nat  BY <1>4 DEF Sound, Coordinators, Epochs
  <2>. QED  BY <1>1, <1>2, <2>1 DEF IInv, TypeOK, Running, Live
<1>. QED  BY <1>1, <1>2, <1>6, <1>7, Kept DEF IInv, TypeOK

-----------------------------------------------------------------------------
(***************************************************************************)
(* The theorems                                                            *)
(***************************************************************************)

\* Every step keeps the invariant.
LEMMA NextKeeps == IInv /\ [Next]_vars => IInv'
<1>. SUFFICES ASSUME IInv, [Next]_vars PROVE IInv'  OBVIOUS
<1>1. ASSUME NEW b \in Branches, BranchSteps(b)  PROVE IInv'
  <2>1. CASE TurnEnds(b) \/ TurnCheckpoints(b) \/ TurnAgain(b)  BY <2>1, TurnSteps
  <2>2. CASE TurnDelegates(b) \/ ReleasedPlans(b)  BY <2>2, PlanSteps
  <2>3. CASE BranchFinalized(b) \/ CheckpointStarts(b) \/ CloneStarts(b)  BY <2>3, QuietSteps
  <2>4. CASE Materialize(b)  BY <2>4, MaterializeStep
  <2>5. ASSUME NEW success \in BOOLEAN,
               \/ SummaryEnds(b, success) \/ CheckpointEnds(b, success) \/ CloneEnds(b, success)
               \/ ParentIsSummarized(b, success) \/ GraceClones(b, success)
        PROVE  IInv'
    BY <2>5, SummaryStep, CheckpointStep, CloneStep, ParentStep
  <2>. QED  BY <1>1, <2>1, <2>2, <2>3, <2>4, <2>5 DEF BranchSteps
<1>2. CASE SynthesisSteps  BY <1>2, SynthesisStep
<1>3. CASE Deadline  BY <1>3, DeadlineStep
<1>4. CASE GraceFires \/ MarkPaused \/ Resume \/ Pause \/ UNCHANGED vars  BY <1>4, QuietSteps
<1>. QED  BY <1>1, <1>2, <1>3, <1>4 DEF Next, Progress

\* The inductive invariant holds throughout every round.
THEOREM Invariant == Spec => []IInv
<1>1. Init => IInv  BY InitInvariant
<1>2. IInv /\ [Next]_vars => IInv'  BY NextKeeps
<1>. QED  BY <1>1, <1>2, PTL DEF Spec

\* The coordinator and the controller mean the same branches, and a ready epoch
\* is synthesized at once or has used up its attempts (epochs.py
\* _maybe_start_synthesis, _arm_synthesis_task; manager.py
\* _sync_coordinator_live_leaves).
THEOREM CoordinatorAgrees == Spec => []RoundInv
<1>1. IInv => RoundInv
  <2>. SUFFICES ASSUME IInv PROVE RoundInv  OBVIOUS
  <2>1. SameBranches  BY DEF IInv, Mates, SameBranches
  <2>. QED  BY <2>1 DEF IInv, RoundInv
<1>. QED  BY <1>1, Invariant, PTL

\* A round that completed had no leaf left at work, and its FINAL report has every
\* terminal summary in it, if it was not begun while a leaf had work
\* (freeze_report_kind, build_coverage, _on_report_synthesis_complete).
THEOREM FinalReportCoversAll == Spec => []FinalCoversAll
<1>1. IInv => FinalCoversAll
  <2>. SUFFICES ASSUME IInv PROVE FinalCoversAll  OBVIOUS
  <2>1. leaves \subseteq Branches  BY DEF IInv, TypeOK
  <2>. QED  BY <2>1 DEF IInv, FinalHolds, FinalCoversAll
<1>. QED  BY <1>1, Invariant, PTL
=============================================================================
