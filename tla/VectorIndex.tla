----------------------------- MODULE VectorIndex -----------------------------
(***************************************************************************)
(* The vector index of past cases (storage/vectors.py): generations of     *)
(* documents embedded by one model, a job for each lesson enqueued, and    *)
(* the rebuilds that replace one generation by the next.                   *)
(*                                                                         *)
(* A transaction of the store, a call of the vector database and a call of *)
(* the embedding model are a step each.  _lock is held over the end of an  *)
(* enqueue only, so that two rebuilds may run side by side.  The texts and *)
(* vectors are left out: a document is its source, a model stands for the  *)
(* fingerprint of selector, model, dimension and schema.                   *)
(***************************************************************************)
EXTENDS Naturals, FiniteSets

CONSTANTS Lessons,  \* sources that are enqueued, once each
          Archive,  \* sources that only a rebuild picks up
          Commands, \* calls of /swarm vectors rebuild, once each
          Models,
          AutoRebuild, \* embedding.auto_rebuild
          MaxChanges, \* bound: of the model
          MaxTroubles \* bound: calls that fail, and ends of the process

ASSUME VectorAssumption ==
    /\ IsFiniteSet(Lessons) /\ IsFiniteSet(Commands) /\ Models # {}
    /\ Lessons \cap Commands = {} /\ {"auto", "open"} \cap (Lessons \cup Commands) = {}
    /\ AutoRebuild \in BOOLEAN /\ {MaxChanges, MaxTroubles} \subseteq Nat

VARIABLES stored,   \* sources the store holds
          model,    \* the model that answers the host's embedding task
          gen,      \* vector_generations: status of each
          made,     \* and the model it was built with
          retired,  \* and retired_at, in switches: 0 before
          table,    \* documents in the table of a generation, {}: no table
          docs,     \* vector_documents of a generation
          job,      \* vector_jobs: of each lesson
          up,
          flag,     \* _rebuilding
          lock,     \* the lesson that holds _lock, or Free
          pc, cx,   \* of each caller: where it is, and its locals
          changes, troubles,
          overlapped \* history: a rebuild cleared the flag of another
rows == <<gen, made, retired>>
bounds == <<changes, troubles>>
vars == <<stored, model, rows, table, docs, job, up, flag, lock, pc, cx, bounds, overlapped>>

Sources == Lessons \cup Archive
Task == "auto"    \* _rebuild_task
Opening == "open" \* ensure_ready, called at the start of the plugin
Callers == Lessons \cup Commands \cup {Task, Opening}
Gens == 1 .. Cardinality(Lessons) + Cardinality(Commands) + 2 * MaxTroubles
Free == "free"
Fresh == [gen |-> 0, list |-> {}, model |-> "", strand |-> FALSE, force |-> TRUE,
          ok |-> FALSE, job |-> ""]

With(status) == {g \in Gens : gen[g] = status}
Building == With("building")
\* The index on (status) leaves room for one active generation.
Active == IF With("active") = {} THEN 0 ELSE CHOOSE g \in With("active") : TRUE
\* Mutant of Rebuilding: the candidates alone tell.
HasCandidate == Building # {}
\* status().rebuilding
Rebuilding == flag \/ Building # {}
\* _detect_mismatch: vectors of model m do not belong into the active generation.
Mismatch(m) == Active # 0 /\ made[Active] # m
\* _source_in_active_generation
Indexed(s) == Active # 0 /\ s \in docs[Active]

Init == /\ stored = {} /\ model = CHOOSE m \in Models : TRUE
        /\ gen = [g \in Gens |-> "none"] /\ made = [g \in Gens |-> ""] /\ retired = [g \in Gens |-> 0]
        /\ table = [g \in Gens |-> {}] /\ docs = [g \in Gens |-> {}]
        /\ job = [s \in Lessons |-> "none"]
        /\ up = TRUE /\ flag = FALSE /\ lock = Free
        /\ pc = [p \in Callers |-> "idle"] /\ cx = [p \in Callers |-> Fresh]
        /\ changes = 0 /\ troubles = 0 /\ overlapped = FALSE

Fault == troubles < MaxTroubles /\ troubles' = troubles + 1 /\ UNCHANGED changes
Smooth == UNCHANGED bounds
Goto(p, l) == pc' = [pc EXCEPT ![p] = l]
\* ... and its locals are of no more use.
Return(p, l) == Goto(p, l) /\ cx' = [cx EXCEPT ![p] = Fresh]
Set(p, f, v) == cx' = [cx EXCEPT ![p][f] = v]

-----------------------------------------------------------------------------
(***************************************************************************)
(* enqueue                                                                 *)
(***************************************************************************)

FailJob(s) == job' = [job EXCEPT ![s] = "failed"]
\* _resolve_source: the row is there, and of a kind and status to be indexed.
Resolved(s) == s \in stored

\* _enqueue_prepare: a lesson the store does not hold, or a rebuild in
\* progress, fails the job; an empty index claims the rebuild it needs.
Enqueue(s) ==
    /\ up /\ pc[Opening] = "idle" /\ pc[s] = "idle" /\ lock = Free
    /\ IF ~Resolved(s) \/ Rebuilding
       THEN FailJob(s) /\ Goto(s, "ended") /\ UNCHANGED flag
       ELSE /\ job' = [job EXCEPT ![s] = "pending"]
            /\ flag' = (flag \/ Active = 0)
            /\ Goto(s, IF Active = 0 THEN "list" ELSE "single")
    /\ UNCHANGED <<stored, model, rows, table, docs, up, lock, cx, bounds, overlapped>>

\* _embed_texts for the one lesson, outside _lock.  A response that does not
\* validate fails the job; a call that raises leaves it pending.
EmbedLesson(s) ==
    /\ pc[s] = "single"
    /\ \/ Smooth /\ Goto(s, "after") /\ Set(s, "model", model) /\ UNCHANGED job
       \/ Fault /\ Return(s, "ended") /\ (FailJob(s) \/ UNCHANGED job)
    /\ UNCHANGED <<stored, model, rows, table, docs, up, flag, lock, overlapped>>

\* _schedule_auto_rebuild: one task at a time.
Schedule(s) ==
    /\ flag' = TRUE
    /\ IF pc[Task] = "idle"
       THEN /\ pc' = [pc EXCEPT ![s] = "ended", ![Task] = "list"]
            /\ cx' = [cx EXCEPT ![s] = Fresh, ![Task] = [Fresh EXCEPT !.job = s]]
       ELSE Return(s, "ended")

\* _enqueue_after_embed, up to the append: the state is read again.
Decide(s) ==
    /\ pc[s] = "after" /\ lock = Free
    /\ IF Rebuilding \/ Active = 0 \/ Mismatch(cx[s].model)
       THEN /\ FailJob(s)
            /\ IF ~Rebuilding /\ Active # 0 /\ AutoRebuild THEN Schedule(s)
               ELSE Return(s, "ended") /\ UNCHANGED flag
            /\ UNCHANGED lock
       ELSE /\ lock' = s /\ Goto(s, "upsert") /\ Set(s, "gen", Active) /\ UNCHANGED <<flag, job>>
    /\ UNCHANGED <<stored, model, rows, table, docs, up, bounds, overlapped>>

\* _append_to_active: a table that is gone, or an error, fails the job.
Upsert(s) ==
    LET g == cx[s].gen IN
    /\ pc[s] = "upsert"
    /\ \/ /\ Smooth /\ table[g] # {} /\ table' = [table EXCEPT ![g] = @ \cup {s}]
          /\ Goto(s, "document") /\ UNCHANGED <<lock, cx, job>>
       \/ /\ \/ Fault
             \/ Smooth /\ table[g] = {}
          /\ FailJob(s) /\ lock' = Free /\ Return(s, "ended")
          /\ UNCHANGED table
    /\ UNCHANGED <<stored, model, rows, docs, up, flag, overlapped>>

\* ... and its row.
Document(s) ==
    /\ pc[s] = "document"
    /\ \/ /\ Smooth /\ docs' = [docs EXCEPT ![cx[s].gen] = @ \cup {s}]
          /\ Goto(s, "complete") /\ UNCHANGED <<lock, cx>>
       \/ Fault /\ lock' = Free /\ Return(s, "ended") /\ UNCHANGED docs
    /\ UNCHANGED <<stored, model, rows, table, job, up, flag, overlapped>>

\* _complete_job
Complete(s) ==
    /\ pc[s] = "complete"
    /\ job' = [job EXCEPT ![s] = "done"] /\ lock' = Free /\ Return(s, "ended")
    /\ UNCHANGED <<stored, model, rows, table, docs, up, flag, bounds, overlapped>>

-----------------------------------------------------------------------------
(***************************************************************************)
(* rebuild, ensure_ready and the rebuilds of enqueue                       *)
(***************************************************************************)

\* rebuild waits for the task in the background first.
Command(c) ==
    /\ up /\ pc[Opening] = "idle" /\ pc[c] = "idle" /\ pc[Task] = "idle"
    /\ \E force \in BOOLEAN : Set(c, "force", force)
    /\ Goto(c, "claim")
    /\ UNCHANGED <<stored, model, rows, table, docs, job, up, flag, lock, bounds, overlapped>>

\* ... and then for _lock, but for no other rebuild.
Claim(p) ==
    /\ pc[p] = "claim" /\ lock = Free
    /\ flag' = TRUE /\ Return(p, IF cx[p].force THEN "list" ELSE "probe")
    /\ UNCHANGED <<stored, model, rows, table, docs, job, up, lock, bounds, overlapped>>

\* Generations F are failed and D purged, and their tables are dropped.
Drop(F, D) ==
    /\ gen' = [g \in Gens |-> IF g \in F THEN "failed" ELSE IF g \in D THEN "purged" ELSE gen[g]]
    /\ table' = [g \in Gens |-> IF g \in F \cup D THEN {} ELSE table[g]]
    /\ UNCHANGED <<made, retired>>

\* _fail_stranded_building: every candidate, whoever builds it.
FailStranded == Drop(Building, {})

\* A rebuild takes _rebuilding back, from whichever rebuild it is.
Others(p) == {q \in Callers \ {p} : pc[q] \notin {"idle", "ended", "claim", "single", "after",
                                                  "upsert", "document", "complete"}}
Clear(p, value) == flag' = value /\ overlapped' = (overlapped \/ Others(p) # {})

\* _rebuild_unlocked without force: is the generation current?
Probe(p) ==
    /\ pc[p] = "probe"
    /\ \/ /\ Active # 0 /\ stored = {} /\ Return(p, "release")
          /\ IF Building # {} THEN FailStranded /\ Clear(p, FALSE)
             ELSE UNCHANGED <<rows, table, flag, overlapped>>
       \/ /\ Active # 0 /\ stored # {}
          /\ Goto(p, "probed")
          /\ cx' = [cx EXCEPT ![p] = [Fresh EXCEPT !.gen = Active, !.strand = Building # {}]]
          /\ UNCHANGED <<rows, table, flag, overlapped>>
       \/ Active = 0 /\ Goto(p, "list") /\ UNCHANGED <<rows, table, flag, cx, overlapped>>
    /\ UNCHANGED <<stored, model, docs, job, up, lock, bounds>>

\* The embedding that tells.  ensure_ready forces a rebuild when it fails.
Probed(p) ==
    /\ pc[p] = "probed"
    /\ \/ /\ Smooth /\ model = made[cx[p].gen] /\ Return(p, "release")
          /\ IF cx[p].strand THEN FailStranded /\ Clear(p, FALSE)
             ELSE UNCHANGED <<rows, table, flag, overlapped>>
       \/ /\ \/ Smooth /\ model # made[cx[p].gen] /\ Return(p, "list")
             \/ Fault /\ Return(p, IF p = Opening THEN "list" ELSE "release")
          /\ UNCHANGED <<rows, table, flag, overlapped>>
    /\ UNCHANGED <<stored, model, docs, job, up, lock>>

\* _run_full_rebuild: what there is to index.
List(p) ==
    /\ pc[p] = "list"
    /\ IF stored = {}
       THEN /\ FailStranded /\ Clear(p, FALSE) /\ Goto(p, "settle") /\ Set(p, "ok", TRUE)
       ELSE /\ flag' = (flag \/ p # Task) /\ Goto(p, "prepare") /\ Set(p, "list", stored)
            /\ UNCHANGED <<rows, table, overlapped>>
    /\ UNCHANGED <<stored, model, docs, job, up, lock, bounds>>

Prepare(p) ==
    /\ pc[p] = "prepare" /\ FailStranded /\ Goto(p, "insert")
    /\ UNCHANGED <<stored, model, docs, job, up, flag, lock, cx, bounds, overlapped>>

\* The candidate gets the number after the last: no row is ever removed.
Insert(p) ==
    /\ pc[p] = "insert"
    /\ \E g \in Gens : /\ gen[g] = "none" /\ \A h \in 1 .. g - 1 : gen[h] # "none"
                      /\ gen' = [gen EXCEPT ![g] = "building"] /\ Set(p, "gen", g)
    /\ Goto(p, "embed")
    /\ UNCHANGED <<stored, model, made, retired, table, docs, job, up, flag, lock, bounds, overlapped>>

\* Every batch is validated, against the batches before it as well.
Embed(p) ==
    /\ pc[p] = "embed"
    /\ \/ Smooth /\ Set(p, "model", model) /\ Goto(p, "write")
       \/ Fault /\ Goto(p, "failing") /\ UNCHANGED cx
    /\ UNCHANGED <<stored, model, rows, table, docs, job, up, flag, lock, overlapped>>

Write(p) ==
    /\ pc[p] = "write"
    /\ \/ Smooth /\ table' = [table EXCEPT ![cx[p].gen] = cx[p].list] /\ Goto(p, "activate")
       \/ Fault /\ Goto(p, "failing") /\ UNCHANGED table
    /\ UNCHANGED <<stored, model, rows, docs, job, up, flag, lock, cx, overlapped>>

\* Generation g takes the place of the active one: one transaction.
Switch(g, m, list) ==
    /\ gen' = [h \in Gens |-> IF h = g THEN "active"
                              ELSE IF gen[h] = "active" THEN "retired" ELSE gen[h]]
    /\ made' = [made EXCEPT ![g] = m]
    /\ retired' = [h \in Gens |-> IF gen[h] = "active" THEN Cardinality({k \in Gens : retired[k] # 0}) + 1
                                  ELSE retired[h]]
    /\ docs' = [docs EXCEPT ![g] = @ \cup list]

\* Mutant of Activate: the candidate is not asked whether it still is one.
ActivateAnyway(p) ==
    /\ pc[p] = "activate"
    /\ Smooth /\ Switch(cx[p].gen, cx[p].model, cx[p].list)
    /\ Clear(p, FALSE) /\ Goto(p, "cleanup")
    /\ UNCHANGED <<stored, model, table, job, up, lock, cx>>

\* A candidate that was failed by another rebuild is not activated.
Activate(p) ==
    /\ pc[p] = "activate"
    /\ \/ /\ Smooth /\ gen[cx[p].gen] = "building"
          /\ Switch(cx[p].gen, cx[p].model, cx[p].list)
          /\ Clear(p, FALSE) /\ Goto(p, "cleanup")
          /\ cx' = [cx EXCEPT ![p] = [Fresh EXCEPT !.gen = cx[p].gen, !.job = cx[p].job]]
       \/ /\ \/ Fault
             \/ Smooth /\ gen[cx[p].gen] # "building"
          /\ Goto(p, "failing") /\ UNCHANGED <<rows, docs, flag, cx, overlapped>>
    /\ UNCHANGED <<stored, model, table, job, up, lock>>

\* _maybe_cleanup_retired: the last retired generation is kept, the others
\* go when their retention is over.
Droppable == {g \in With("retired") : \E h \in With("retired") : retired[g] < retired[h]}

\* An error of the store in here is taken for one of the rebuild.
Cleanup(p) ==
    /\ pc[p] = "cleanup"
    /\ \/ Smooth /\ (\E D \in SUBSET Droppable : Drop({}, D)) /\ Goto(p, "settle") /\ Set(p, "ok", TRUE)
       \/ Fault /\ Goto(p, "failing") /\ UNCHANGED <<rows, table, cx>>
    /\ UNCHANGED <<stored, model, docs, job, up, flag, lock, overlapped>>

\* Mutant of Failing: only the table is dropped.
FailingDropsOnly(p) ==
    /\ pc[p] = "failing" /\ table' = [table EXCEPT ![cx[p].gen] = {}] /\ Goto(p, "settle")
    /\ UNCHANGED <<stored, model, rows, docs, job, up, flag, lock, cx, bounds, overlapped>>

\* The except clauses: the row is failed whatever it is by now, the table dropped.
Failing(p) ==
    LET g == cx[p].gen IN
    /\ pc[p] = "failing"
    /\ Drop({g}, {}) /\ Goto(p, "settle")
    /\ UNCHANGED <<stored, model, docs, job, up, flag, lock, cx, bounds, overlapped>>

\* What the caller makes of it: enqueue settles the job it rebuilt for, the
\* task in the background the one that asked for it, if it is indexed now.
Settle(p) ==
    /\ pc[p] = "settle" /\ Clear(p, Building # {})
    /\ IF p = Task
       THEN /\ Return(p, "idle")
            /\ job' = IF cx[p].ok /\ Indexed(cx[p].job)
                      THEN [job EXCEPT ![cx[p].job] = "done"] ELSE job
       ELSE /\ Return(p, "release")
            /\ job' = IF p \in Lessons
                      THEN [job EXCEPT ![p] = IF cx[p].ok THEN "done" ELSE "failed"] ELSE job
    /\ UNCHANGED <<stored, model, rows, table, docs, up, lock, bounds>>

Release(p) ==
    /\ pc[p] = "release" /\ lock = Free
    /\ Clear(p, Building # {}) /\ Return(p, IF p = Opening THEN "idle" ELSE "ended")
    /\ UNCHANGED <<stored, model, rows, table, docs, job, up, lock, bounds>>

-----------------------------------------------------------------------------
(***************************************************************************)
(* The search, the rest of the system, and restarts                        *)
(***************************************************************************)

\* search, as far as the state of the index decides it.
Answer(g) == IF Rebuilding THEN "rebuilding"
             ELSE IF g # 0 THEN "hits"
             ELSE IF With("failed") # {} THEN "failed" ELSE "empty"

\* A lesson or a summary is committed.
Store(s) ==
    /\ up /\ s \notin stored /\ stored' = stored \cup {s}
    /\ UNCHANGED <<model, rows, table, docs, job, up, flag, lock, pc, cx, bounds, overlapped>>

\* The host answers with another model, or the selector is changed.
Change ==
    /\ changes < MaxChanges /\ changes' = changes + 1 /\ model' \in Models \ {model}
    /\ UNCHANGED <<stored, rows, table, docs, job, up, flag, lock, pc, cx, troubles, overlapped>>

\* close, or the end of the process: what is under way stays as it is.
Stop ==
    /\ up /\ Fault
    /\ up' = FALSE /\ flag' = FALSE /\ lock' = Free
    /\ pc' = [p \in Callers |-> IF pc[p] # "idle" /\ p \in Lessons \cup Commands THEN "ended" ELSE "idle"]
    /\ cx' = [p \in Callers |-> Fresh]
    /\ UNCHANGED <<stored, model, rows, table, docs, job, overlapped>>

\* start and ensure_ready, which always finds _rebuilding set: by itself.
Start ==
    /\ ~up /\ up' = TRUE
    /\ \E D \in SUBSET Droppable : Drop(Building, D)
    /\ flag' = TRUE /\ Goto(Opening, "probe")
    /\ UNCHANGED <<stored, model, docs, job, lock, cx, bounds, overlapped>>

Step(p) == \/ Claim(p) \/ Probe(p) \/ Probed(p) \/ List(p) \/ Prepare(p) \/ Insert(p)
           \/ Embed(p) \/ Write(p) \/ Activate(p) \/ Cleanup(p) \/ Failing(p)
           \/ Settle(p) \/ Release(p)
Finish(s) == EmbedLesson(s) \/ Decide(s) \/ Upsert(s) \/ Document(s) \/ Complete(s)

Next == \/ \E s \in Lessons : Enqueue(s) \/ Finish(s)
        \/ \E c \in Commands : Command(c)
        \/ \E p \in Callers : Step(p)
        \/ \E s \in Sources : Store(s)
        \/ Change \/ Stop \/ Start

\* The event loop runs as long as some coroutine can go on, and every call of
\* the host, the store and the database returns.
Spec == /\ Init /\ [][Next]_vars
        /\ WF_vars((\E p \in Callers : Step(p)) \/ (\E s \in Lessons : Finish(s)))

-----------------------------------------------------------------------------
(***************************************************************************)
(* Properties                                                              *)
(***************************************************************************)

\* The generation that is searched is one, has its table, and each document
\* it lists is in there: no rebuild drops or half fills it, whichever of them
\* run side by side and wherever one fails.
ServingIsWhole == /\ Cardinality(With("active")) <= 1
                  /\ \A g \in With("active") : table[g] # {} /\ docs[g] \subseteq table[g]

\* A lesson whose job is done can be found: the generations that follow hold
\* it as well, as long as no rebuild clears
\* the flag that another one relies on.
DoneStaysIndexed == \A s \in Lessons : job[s] = "done" /\ ~overlapped /\ Active # 0 => Indexed(s)

\* The search answers that there is nothing only while nothing was indexed.
EmptyIsHonest == up /\ Answer(Active) = "empty" => \A s \in Lessons : job[s] # "done"

\* What a search is served is whole, and silence means that there is nothing.
ServedInv == ServingIsWhole /\ EmptyIsHonest

\* A rebuild ends, and leaves the index open to enqueue and search.
RebuildEnds == Rebuilding ~> ~Rebuilding \/ ~up

\* "失败保留 old active" (the plan of the release, line 426): a rebuild that
\* fails leaves an index that was served served.  An error of the store in the
\* cleanup that follows the switch fails the generation just activated, when
\* the old one is retired.
FailureKeepsActive == [][(\E p \in Callers : Failing(p)) /\ With("retired") # {} => Active' # 0]_vars

-----------------------------------------------------------------------------
(***************************************************************************)
(* The inductive invariant (VectorIndex_proofs)                            *)
(***************************************************************************)

Window == {"prepare", "insert", "embed", "write", "activate"} \* it has listed, not yet switched
Candidate == {"embed", "write", "activate"}                   \* it has a candidate
Appending == {"upsert", "document", "complete"}               \* it holds the lock

Places == Window \cup Appending \cup
          {"idle", "ended", "single", "after", "claim", "probe", "probed", "list", "cleanup",
           "failing", "settle", "release"}
Locals == [gen : Gens \cup {0}, list : SUBSET Sources, model : Models \cup {""},
           strand : BOOLEAN, force : BOOLEAN, ok : BOOLEAN, job : Lessons \cup {""}]
TypeOK == /\ stored \in SUBSET Sources /\ model \in Models
          /\ gen \in [Gens -> {"none", "building", "active", "retired", "failed", "purged"}]
          /\ made \in [Gens -> Models \cup {""}] /\ retired \in [Gens -> Nat]
          /\ table \in [Gens -> SUBSET Sources] /\ docs \in [Gens -> SUBSET Sources]
          /\ job \in [Lessons -> {"none", "pending", "done", "failed"}]
          /\ {up, flag, overlapped} \subseteq BOOLEAN /\ lock \in Lessons \cup {Free}
          /\ pc \in [Callers -> Places]
          /\ cx \in [Callers -> Locals] /\ {changes, troubles} \subseteq Nat

\* One generation is active, and its table is there; what is not activated yet
\* lists no documents.
GensOK == /\ \A g, h \in With("active") : g = h
          /\ \A g \in With("active") : table[g] # {} /\ docs[g] \subseteq table[g]
          /\ \A g \in Gens : gen[g] \in {"none", "building"} => docs[g] = {}

\* Something was indexed once.
Served == With("active") \cup With("failed") # {}
\* The search finds s, if it finds anything.
Found(s) == \A g \in With("active") : s \in docs[g]

\* A candidate belongs to one rebuild, which fills its table before it switches.
\* Lessons are appended to what is or was active, and to the table first.
CallerOK(p) ==
    /\ pc[p] \in Window => cx[p].list # {} /\ (p \in Lessons => p \in cx[p].list)
    /\ pc[p] \in Candidate => cx[p].gen \in Gens /\ gen[cx[p].gen] \in {"building", "failed"}
    /\ pc[p] = "activate" /\ gen[cx[p].gen] = "building" => table[cx[p].gen] = cx[p].list
    /\ pc[p] \in Appending => cx[p].gen \in Gens /\ gen[cx[p].gen] \notin {"none", "building"}
    /\ pc[p] \in {"document", "complete"} /\ gen[cx[p].gen] = "active" => p \in table[cx[p].gen]
    /\ pc[p] \in Appending \cup {"cleanup"} => Served
    /\ cx[p].ok => pc[p] = "settle" /\ (p \in Lessons => Served)
    /\ p \in Lessons /\ pc[p] \notin {"idle", "ended"} => p \in stored
    /\ p = Task => pc[p] \notin {"claim", "probe", "probed"}
    /\ p = Task /\ pc[p] \notin {"idle", "ended"} => cx[p].job \in stored
OwnersOK == \A p, q \in Callers :
                p # q /\ pc[p] \in Candidate /\ pc[q] \in Candidate => cx[p].gen # cx[q].gen

\* The index holds lesson s, or is about to say so.
Claimed(s) == job[s] = "done" \/ pc[s] \in {"complete", "cleanup"} \/ cx[s].ok
DoneOK == \A s \in Lessons : job[s] = "done" => Served /\ s \in stored

\* As long as no rebuild clears the flag of another, a rebuild between its list and
\* its switch keeps every lesson from being appended that is not on its list.
NothingIsMissed ==
    ~overlapped =>
        /\ pc[Task] = "list" => flag
        /\ \A p \in Callers : pc[p] \in Window =>
              /\ flag
              /\ \A s \in Lessons : Claimed(s) \/ pc[s] \in Appending => s \in cx[p].list
        /\ \A s \in Lessons :
              /\ Claimed(s) => Found(s)
              /\ pc[s] \in Appending => \A g \in With("active") : g = cx[s].gen \/ s \in docs[g]

\* Nobody runs while the plugin is down.
AtRest == ~up => \A p \in Callers : pc[p] \in {"idle", "ended"}

IInv == TypeOK /\ GensOK /\ (\A p \in Callers : CallerOK(p)) /\ OwnersOK /\ DoneOK /\ NothingIsMissed
=============================================================================
