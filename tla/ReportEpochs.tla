---------------------------- MODULE ReportEpochs ----------------------------
(***************************************************************************)
(* The reports of one round (runtime/epochs.py, with the callers of the    *)
(* coordinator in runtime/manager.py and the transitions of runtime/       *)
(* reducer.py that take reports in).  The coordinator keeps a copy of the  *)
(* branches of its own; an epoch freezes those that are active (its        *)
(* frontier) and is synthesized once each of them has a summary.  The      *)
(* controller counts epochs too, and completes the round when it takes in  *)
(* a FINAL report.                                                         *)
(*                                                                         *)
(* A step runs from one await that yields to the next: a branch summary, a *)
(* transaction of the controller, the persisting of a report.  An epoch    *)
(* that a coroutine read before such an await is remembered by its id.     *)
(***************************************************************************)
EXTENDS Naturals, FiniteSets, FiniteSetsExt

CONSTANTS MaxBranches,   \* branches the round may have
          MaxTurns,      \* max_agent_calls_per_task
          MaxDeadlines,  \* bound: deadlines reached with nothing held
          MaxFaults,     \* bound: summaries and syntheses that fail
          MaxPauses,     \* bound
          InitialEpochs  \* report_epoch the earlier rounds left behind

ASSUME BoundsAssumption == /\ MaxBranches \in Nat \ {0} /\ MaxTurns \in Nat
                           /\ MaxDeadlines \in Nat /\ MaxFaults \in Nat /\ MaxPauses \in Nat
ASSUME InitialEpochsAssumption == InitialEpochs \subseteq Nat

Branches == 1 .. MaxBranches
Root == 1
Nobody == 0
MaxTries == 3   \* _MAX_SYNTHESIS_ATTEMPTS

VARIABLES status, reportEpoch, leaves, \* RuntimeState of the controller
          work,      \* what is under way for each branch
          parent,    \* of each branch
          clone,     \* the grace_clone summary of each branch
          captured,  \* id of the epoch its checkpoint, or its parent, was awaited by, or 0
          cloneOf,   \* the same for the clone
          co,        \* the ReportCoordinator
          synthesis, \* where the synthesis task is
          written,   \* epochs with a row in reports
          grace,     \* the grace timer
          visiting,  \* entries on_grace_expired has still to clone ...
          visited,   \* ... and the id of their epoch
          turns, deadlines, faults, pauses, \* counters
          mishaps    \* history: what broke the promises of the round
controller == <<status, reportEpoch, leaves>>
branches == <<work, parent, clone, captured, cloneOf>>
timers == <<grace, visiting, visited>>
bounds == <<turns, deadlines, faults, pauses>>
vars == <<controller, branches, co, synthesis, written, timers, bounds, mishaps>>

Live == {"RUNNING", "REPORTING", "PAUSING"}
Over == {"EXPIRED", "COMPLETED", "COMPLETED_WITH_ERRORS"}
Works == {"none", "queued", "registering", "turn", "delegated", "checkpoint", "checkpointing",
          "held", "released", "ending", "ended"}

\* Before the first epoch; id 0 is never captured.
NoEpoch == [id |-> 0, n |-> 0, frontier |-> {}, ready |-> {}, started |-> FALSE,
            finished |-> TRUE, tries |-> 0, kind |-> "INTERMEDIATE", ends |-> {}, drafts |-> {}]

Init == /\ status = "RUNNING" /\ reportEpoch \in InitialEpochs /\ leaves = {Root}
        /\ work = [b \in Branches |-> IF b = Root THEN "turn" ELSE "none"]
        /\ parent = [b \in Branches |-> Nobody]
        /\ clone = [b \in Branches |-> "none"]
        /\ captured = [b \in Branches |-> 0] /\ cloneOf = [b \in Branches |-> 0]
        /\ co = [life |-> [b \in Branches |-> IF b = Root THEN "active" ELSE "absent"],
                 drafted |-> {}, ended |-> {}, held |-> {}, epoch |-> NoEpoch]
        /\ synthesis = "none" /\ written = {}
        /\ grace = 0 /\ visiting = {} /\ visited = 0
        /\ turns = 1 /\ deadlines = 0 /\ faults = 0 /\ pauses = 0
        /\ mishaps = {}

-----------------------------------------------------------------------------
(***************************************************************************)
(* The coordinator: operators from its state to its state.                 *)
(***************************************************************************)

ActiveBranches(c) == {b \in Branches : c.life[b] \in {"active", "waiting"}}
AllReady(c) == c.epoch.frontier \subseteq c.epoch.ready

\* Mutant of Armed: only the branches of this frontier are covered.
ArmedForFrontier(c) ==
    LET active == ActiveBranches(c)
    IN  [c EXCEPT !.epoch = [c.epoch EXCEPT !.started = TRUE, !.tries = c.epoch.tries + 1,
                                      !.ends = c.ended \cap c.epoch.frontier,
                                      !.drafts = c.drafted \cap active,
                                      !.kind = IF active = {} THEN "FINAL" ELSE "INTERMEDIATE"]]

\* freeze_report_kind, build_coverage: every terminal summary, and the newest
\* checkpoint of each branch still active.
Armed(c) ==
    LET active == ActiveBranches(c)
    IN  [c EXCEPT !.epoch = [c.epoch EXCEPT !.started = TRUE, !.tries = c.epoch.tries + 1,
                                      !.ends = c.ended, !.drafts = c.drafted \cap active,
                                      !.kind = IF active = {} THEN "FINAL" ELSE "INTERMEDIATE"]]

\* _maybe_start_synthesis; the task itself begins at a later step.
Considered(c) ==
    IF c.epoch.started \/ c.epoch.tries >= MaxTries \/ ~AllReady(c) THEN c ELSE Armed(c)

\* _launch_held puts a branch that waits to work again.
Released(c, bs) ==
    [c EXCEPT !.held = @ \ bs,
              !.life = [b \in Branches |-> IF b \in bs /\ @[b] = "waiting" THEN "active" ELSE @[b]]]

\* open_epoch: the current one while it is unfinished; else a frontier of what
\* is active, of which those with a checkpoint are ready.
Opened(c, n) ==
    IF ~c.epoch.finished THEN c
    ELSE LET active == ActiveBranches(c)
             fresh == [NoEpoch EXCEPT !.id = c.epoch.id + 1, !.n = n, !.frontier = active,
                                      !.ready = active \cap c.drafted, !.finished = FALSE]
         IN  Considered(Released([c EXCEPT !.epoch = fresh], c.held))
OpenedNext(c) == Opened(c, c.epoch.n + 1)

\* The entry of b in the epoch that was current when the caller looked.
EntryReady(c, b, id) ==
    IF id = c.epoch.id /\ b \in c.epoch.frontier THEN [c EXCEPT !.epoch.ready = @ \cup {b}] ELSE c

\* A checkpoint summary of b is committed, or has failed.
Drafted(c, b, success) == IF success THEN [c EXCEPT !.drafted = @ \cup {b}] ELSE c

InFrontier(c, b) == ~c.epoch.finished /\ b \in c.epoch.frontier
IdFor(c, b) == IF InFrontier(c, b) THEN c.epoch.id ELSE 0

\* Mutant of Terminated: the branch stays active until the next epoch opens.
TerminatedLate(c, b, success) ==
    LET ended == [c EXCEPT !.ended = IF success THEN @ \cup {b} ELSE @]
    IN  IF c.epoch.id = 0 THEN OpenedNext(ended) ELSE Considered(EntryReady(ended, b, c.epoch.id))

\* on_branch_safe_point(terminal): what follows the await of the summary.
Terminated(c, b, success) ==
    LET ended == [c EXCEPT !.life[b] = "finalized",
                           !.ended = IF success THEN @ \cup {b} ELSE @]
        marked == EntryReady(ended, b, ended.epoch.id)
    IN  IF c.epoch.id = 0 \/ (c.epoch.finished /\ ActiveBranches(ended) = {}) THEN OpenedNext(marked)
        ELSE IF InFrontier(c, b) THEN Considered(marked)
        ELSE marked

\* on_branch_safe_point(checkpoint): the same, with the epoch read before.
Checkpointed(c, b, success, id) ==
    LET held == [Drafted(c, b, success) EXCEPT !.life[b] = "waiting", !.held = @ \cup {b}]
        active == ActiveBranches(held)
    IN  IF id # 0 THEN Released(Considered(EntryReady(held, b, id)), {b})
        ELSE IF active \subseteq held.drafted THEN OpenedNext(held) ELSE held

\* _sync_coordinator_live_leaves
Synced(c) == [c EXCEPT !.life = [b \in Branches |->
                  IF b \in leaves /\ @[b] \in {"absent", "finalized"} THEN "active" ELSE @[b]]]

\* Mutant of Finished: an intermediate report whose branches have all ended in
\* the meantime is not followed by a FINAL epoch.
FinishedQuietly(c) == [c EXCEPT !.epoch.finished = TRUE]

\* synthesize() has run its callback: the epoch is finished.
Finished(c) ==
    LET done == [c EXCEPT !.epoch.finished = TRUE]
    IN  IF done.epoch.kind = "INTERMEDIATE" /\ ActiveBranches(done) = {} THEN OpenedNext(done)
        ELSE done

\* A step of the coordinator: the branches it releases plan what they held, the
\* synthesis it arms begins, and "orphan" is noted when that is a FINAL one while
\* a leaf still has work.
Changes(next, otherwise, rest, noted) ==
    \E c \in {next} :
        /\ co' = c
        /\ work' = [b \in Branches |-> IF b \in co.held \ c.held THEN "released" ELSE otherwise[b]]
        /\ synthesis' = IF c.epoch.started /\ <<c.epoch.id, c.epoch.tries>> # <<co.epoch.id, co.epoch.tries>>
                        THEN "writing" ELSE rest
        /\ mishaps' = mishaps \cup noted \cup
                      IF c.epoch.started /\ c.epoch.kind = "FINAL" /\ \E b \in leaves' : work'[b] # "ended"
                      THEN {"orphan"} ELSE {}
Becomes(c, otherwise) == Changes(c, otherwise, synthesis, {})

\* Whether a summary succeeds.
Outcome(success) == /\ success \/ faults < MaxFaults
                    /\ faults' = IF success THEN faults ELSE faults + 1

-----------------------------------------------------------------------------
(***************************************************************************)
(* Turns (ProcedureBatchCompleted) and children                            *)
(***************************************************************************)

Unused == {b \in Branches \ {Root} : parent[b] = Nobody}
Children(b) == {c \in Branches : parent[c] = b}
Queued(b) == {c \in Children(b) : work[c] = "queued"}

\* The calls of children begin after their siblings are materialized: all of
\* them were queued together in the barrier lane.
MayEnd(b) == /\ work[b] = "turn" /\ status \in Live
             /\ parent[b] = Nobody \/ Queued(parent[b]) = {}

\* A turn that ends its branch, or fails.
TurnEnds(b) ==
    /\ MayEnd(b)
    /\ work' = [work EXCEPT ![b] = "ending"]
    /\ UNCHANGED <<controller, parent, clone, captured, cloneOf, co, synthesis, written, timers, bounds, mishaps>>

\* A checkpoint with delegations, which wait for the next epoch.
TurnCheckpoints(b) ==
    /\ MayEnd(b) /\ turns < MaxTurns
    /\ work' = [work EXCEPT ![b] = "checkpoint"]
    /\ UNCHANGED <<controller, parent, clone, captured, cloneOf, co, synthesis, written, timers, bounds, mishaps>>

\* Children are planned; during REPORTING the branch is cloned as well.
Plan(b, kids, from) ==
    /\ kids = {c \in Unused : Cardinality({d \in Unused : d <= c}) <= Cardinality(kids)}
    /\ kids # {} /\ turns + Cardinality(kids) <= MaxTurns
    /\ turns' = turns + Cardinality(kids)
    /\ work' = [c \in Branches |-> CASE c = b -> "delegated" [] c \in kids -> "queued" [] OTHER -> work[c]]
    /\ parent' = [c \in Branches |-> IF c \in kids THEN b ELSE parent[c]]
    /\ clone' = IF from = "turn" /\ status = "REPORTING" THEN [clone EXCEPT ![b] = "queued"] ELSE clone

TurnDelegates(b) ==
    /\ MayEnd(b) /\ clone[b] = "none"
    /\ \E kids \in SUBSET Branches : Plan(b, kids, "turn")
    /\ UNCHANGED <<controller, captured, cloneOf, co, synthesis, written, timers, deadlines, faults, pauses, mishaps>>

\* Every edge is rejected for a reason the agent may mend: it is called again.
TurnAgain(b) ==
    /\ MayEnd(b) /\ turns < MaxTurns /\ clone[b] = "none"
    /\ turns' = turns + 1
    /\ clone' = IF status = "REPORTING" THEN [clone EXCEPT ![b] = "queued"] ELSE clone
    /\ UNCHANGED <<controller, work, parent, captured, cloneOf, co, synthesis, written, timers,
                   deadlines, faults, pauses, mishaps>>

\* _release_held_delegations: the plan of a branch that was held.
ReleasedPlans(b) ==
    /\ work[b] = "released" /\ status \in Live \cup {"PAUSED"}
    /\ \/ \E kids \in SUBSET Branches : Plan(b, kids, "release")
       \/ /\ \E w \in {"turn", "ending"} : /\ work' = [work EXCEPT ![b] = w]
                                           /\ turns' = IF w = "turn" THEN turns + 1 ELSE turns
                                           /\ turns' <= MaxTurns
          /\ UNCHANGED <<parent, clone>>
    /\ UNCHANGED <<controller, captured, cloneOf, co, synthesis, written, timers, deadlines, faults, pauses, mishaps>>

\* materialize_child_effect: with the first child the parent retires
\* (on_parent_retired), and if it was awaited by an epoch, it is summarized
\* before the coordinator is told of the child.
Materialize(b) ==
    /\ Queued(b) # {} /\ status \in Live
    /\ LET c == Min(Queued(b))
           retires == b \in leaves
           retired == IF retires THEN [co EXCEPT !.life[b] = "finalized"] ELSE co
           awaited == retires /\ InFrontier(co, b) /\ b \notin co.epoch.ready
       IN  /\ leaves' = (IF retires THEN leaves \ {b} ELSE leaves) \cup {c}
           /\ Becomes(IF awaited THEN retired ELSE [retired EXCEPT !.life[c] = "active"],
                      [work EXCEPT ![c] = IF awaited THEN "registering" ELSE "turn",
                                   ![b] = IF retires THEN "none" ELSE @])
           /\ captured' = IF awaited THEN [captured EXCEPT ![c] = co.epoch.id] ELSE captured
    /\ UNCHANGED <<status, reportEpoch, parent, clone, cloneOf, written, timers, bounds>>

\* The rest of on_parent_retired, and the child becomes a branch.
ParentIsSummarized(c, success) ==
    /\ work[c] = "registering" /\ status \notin Over
    /\ Outcome(success)
    /\ LET b == parent[c]
           summarized == Considered(EntryReady(Drafted(co, b, success), b, captured[c]))
       IN  /\ UNCHANGED leaves
           /\ Becomes([summarized EXCEPT !.life[c] = "active"], [work EXCEPT ![c] = "turn"])
    /\ captured' = [captured EXCEPT ![c] = 0]
    /\ UNCHANGED <<status, reportEpoch, parent, clone, cloneOf, written, timers, turns, deadlines, pauses>>

-----------------------------------------------------------------------------
(***************************************************************************)
(* Branch summaries (handle_branch_summary_effect)                         *)
(***************************************************************************)

Running == Live \cup {"FINALIZING"}

\* The terminal summary of b.
SummaryEnds(b, success) ==
    /\ work[b] = "ending" /\ status \in Running
    /\ Outcome(success)
    /\ UNCHANGED leaves
    /\ Becomes(Terminated(co, b, success), [work EXCEPT ![b] = "ended"])
    /\ UNCHANGED <<status, reportEpoch, parent, clone, captured, cloneOf, written, timers, turns, deadlines, pauses>>

\* BranchFinalized: the last leaf of a RUNNING round makes it FINALIZING.
BranchFinalized(b) ==
    /\ work[b] = "ended" /\ status \in Running
    /\ work' = [work EXCEPT ![b] = "none"]
    /\ leaves' = leaves \ {b}
    /\ status' = IF leaves' = {} /\ status = "RUNNING" THEN "FINALIZING" ELSE status
    /\ UNCHANGED <<reportEpoch, parent, clone, captured, cloneOf, co, synthesis, written, timers, bounds, mishaps>>

CheckpointStarts(b) ==
    /\ work[b] = "checkpoint" /\ status \in Running
    /\ work' = [work EXCEPT ![b] = "checkpointing"]
    /\ captured' = [captured EXCEPT ![b] = IdFor(co, b)]
    /\ UNCHANGED <<controller, parent, clone, cloneOf, co, synthesis, written, timers, bounds, mishaps>>

CheckpointEnds(b, success) ==
    /\ work[b] = "checkpointing" /\ status \in Running
    /\ Outcome(success)
    /\ UNCHANGED leaves
    /\ LET c == Checkpointed(co, b, success, captured[b])
       IN  Becomes(c, [work EXCEPT ![b] = IF b \in c.held THEN "held" ELSE "released"])
    /\ captured' = [captured EXCEPT ![b] = 0]
    /\ UNCHANGED <<status, reportEpoch, parent, clone, cloneOf, written, timers, turns, deadlines, pauses>>

\* A clone begins behind the children that were queued before it, and is over
\* at once outside an open frontier.
CloneStarts(b) ==
    /\ clone[b] = "queued" /\ Queued(b) = {} /\ status \in Running
    /\ clone' = [clone EXCEPT ![b] = IF InFrontier(co, b) THEN "cloning" ELSE "none"]
    /\ cloneOf' = [cloneOf EXCEPT ![b] = IdFor(co, b)]
    /\ UNCHANGED <<controller, work, parent, captured, co, synthesis, written, timers, bounds, mishaps>>

CloneEnds(b, success) ==
    /\ clone[b] = "cloning" /\ status \in Running
    /\ Outcome(success)
    /\ UNCHANGED leaves
    /\ Becomes(Considered(EntryReady(Drafted(co, b, success), b, cloneOf[b])), work)
    /\ clone' = [clone EXCEPT ![b] = "none"]
    /\ cloneOf' = [cloneOf EXCEPT ![b] = 0]
    /\ UNCHANGED <<status, reportEpoch, parent, captured, written, timers, turns, deadlines, pauses>>

-----------------------------------------------------------------------------
(***************************************************************************)
(* Syntheses, and what the manager makes of their records                  *)
(* (_on_report_synthesis_complete)                                         *)
(***************************************************************************)

\* The callback is over: the epoch is finished and may open the next.
Closes(noted) == Changes(Finished(co), work, "none", noted)

\* The finalizer has answered and the report is persisted; a second row of an
\* epoch is refused (SynthesisFails).  The callback, in the same step, drops
\* the record or begins to submit it.
ReportIsWritten ==
    LET n == co.epoch.n
        numbered == n = reportEpoch \/ (status = "RUNNING" /\ n = reportEpoch + 1)
        taken == IF co.epoch.kind = "FINAL"
                 THEN status = "FINALIZING" \/ (status \in {"RUNNING", "REPORTING"} /\ numbered)
                 ELSE status = "REPORTING"
    IN  /\ synthesis = "writing" /\ n \notin written
        /\ written' = written \cup {n}
        /\ UNCHANGED <<controller, parent, clone, captured, cloneOf, timers, bounds>>
        /\ \/ taken /\ synthesis' = (IF co.epoch.kind = "FINAL" THEN "accepting" ELSE "returning")
                    /\ UNCHANGED <<work, co, mishaps>>
           \/ ~taken /\ Closes({"dropped"})

\* The done-callback of a task that raised: up to three attempts, each with a
\* coverage and a kind of its own.
SynthesisFails ==
    /\ synthesis = "writing"
    /\ IF co.epoch.n \in written THEN UNCHANGED faults ELSE Outcome(FALSE)
    /\ UNCHANGED leaves
    /\ LET again == Considered([co EXCEPT !.epoch.started = FALSE])
       IN  Changes(again, work, "none", IF again.epoch.started THEN {} ELSE {"exhausted"})
    /\ UNCHANGED <<status, reportEpoch, parent, clone, captured, cloneOf, written, timers,
                   turns, deadlines, pauses>>

\* FinalEpochCommitted: the same or the next epoch makes the round FINALIZING.
FinalEpochCommitted ==
    /\ synthesis = "accepting"
    /\ LET counted == /\ status \in {"RUNNING", "REPORTING", "FINALIZING"}
                      /\ co.epoch.n \in {reportEpoch, reportEpoch + 1}
       IN  /\ reportEpoch' = IF counted THEN co.epoch.n ELSE reportEpoch
           /\ status' = IF counted THEN "FINALIZING" ELSE status
    /\ UNCHANGED <<leaves, parent, clone, captured, cloneOf, written, timers, bounds>>
    /\ IF status' = "FINALIZING" THEN synthesis' = "ending" /\ UNCHANGED <<work, co, mishaps>>
       ELSE Closes({"dropped"})

\* FinalReportCompleted, or FinalReportFailed when there was nothing to report.
FinalReportEnds(succeeded) ==
    /\ synthesis = "ending"
    /\ succeeded => co.epoch.ends # {}
    /\ ~succeeded => Cardinality(co.epoch.ends) # 1
    /\ status' = IF status # "FINALIZING" THEN status
                 ELSE IF succeeded THEN "COMPLETED" ELSE "COMPLETED_WITH_ERRORS"
    /\ UNCHANGED <<reportEpoch, leaves, parent, clone, captured, cloneOf, written, timers, bounds>>
    /\ Closes({})

\* ReportCompleted
ReportCompletes ==
    /\ synthesis = "returning"
    /\ status' = IF status # "REPORTING" THEN status
                 ELSE IF leaves = {} THEN "FINALIZING" ELSE "RUNNING"
    /\ UNCHANGED <<reportEpoch, leaves, parent, clone, captured, cloneOf, written, timers, bounds>>
    /\ Closes(IF status = "REPORTING" THEN {} ELSE {"dropped"})

-----------------------------------------------------------------------------
(***************************************************************************)
(* Deadline, grace and pause                                               *)
(***************************************************************************)

\* ReportDeadlineReached and the opening of its epoch, which an epoch of the
\* same number stands for whoever opened it.  The copy of OpenReportEpoch that
\* goes through the scheduler finds the epoch open and changes nothing.  A
\* RUNNING round has leaves.
Deadline ==
    /\ status = "RUNNING"
    /\ deadlines < MaxDeadlines \/ co.held # {}
    /\ deadlines' = Min({deadlines + 1, MaxDeadlines})
    /\ status' = "REPORTING" /\ reportEpoch' = reportEpoch + 1
    /\ LET c == IF co.epoch.id # 0 /\ co.epoch.n = reportEpoch + 1 THEN co
                ELSE Opened(Synced(co), reportEpoch + 1)
       IN  /\ grace' = IF c.epoch.finished THEN grace ELSE c.epoch.n
           /\ visiting' = IF c.epoch.finished THEN visiting ELSE {}
           /\ visited' = IF c.epoch.finished THEN visited ELSE 0
           /\ UNCHANGED leaves
           /\ Changes(c, work, synthesis,
                IF \E b \in leaves : work[b] = "ended" /\ b \in ActiveBranches(c)
                THEN {"revived"} ELSE {})
    /\ UNCHANGED <<parent, clone, captured, cloneOf, written, turns, faults, pauses>>

\* Mutant of GraceFires: nothing is cloned.
GraceFiresIdly ==
    /\ grace # 0 /\ grace' = 0
    /\ UNCHANGED <<controller, branches, co, synthesis, written, visiting, visited, bounds, mishaps>>

\* GraceExpired counts for the epoch of the controller only.
GraceFires ==
    /\ grace # 0 /\ grace' = 0
    /\ LET counts == status = "REPORTING" /\ grace = reportEpoch /\ co.epoch.n = grace
           unready == co.epoch.frontier \ co.epoch.ready
       IN  /\ visiting' = IF counts THEN unready ELSE {}
           /\ visited' = IF counts /\ unready # {} THEN co.epoch.id ELSE 0
           /\ mishaps' = IF ~counts /\ ~co.epoch.finished /\ unready # {} THEN mishaps \cup {"grace lost"}
                         ELSE mishaps
    /\ UNCHANGED <<controller, branches, co, synthesis, written, bounds>>

\* on_grace_expired summarizes the stable history of one entry after the other.
GraceClones(b, success) ==
    /\ b \in visiting /\ status \notin Over
    /\ Outcome(success)
    /\ UNCHANGED leaves
    /\ Becomes(Considered(EntryReady(Drafted(co, b, success), b, visited)), work)
    /\ visiting' = IF visited = co.epoch.id THEN visiting \ (co.epoch.ready \cup {b}) ELSE {}
    /\ visited' = IF visiting' = {} THEN 0 ELSE visited
    /\ UNCHANGED <<status, reportEpoch, parent, clone, captured, cloneOf, written, grace,
                   turns, deadlines, pauses>>

Pause ==
    /\ status \in {"RUNNING", "REPORTING"} /\ pauses < MaxPauses
    /\ pauses' = pauses + 1
    /\ status' = "PAUSING"
    /\ mishaps' = IF ~co.epoch.finished THEN mishaps \cup {"paused"} ELSE mishaps
    /\ UNCHANGED <<reportEpoch, leaves, branches, co, synthesis, written, timers, turns, deadlines, faults>>

\* Calls and summaries that have not begun may wait for the continue.
MarkPaused ==
    /\ status = "PAUSING"
    /\ \A b \in Branches : /\ work[b] \notin {"queued", "registering", "checkpointing", "released", "ended"}
                           /\ clone[b] # "cloning"
    /\ status' = "PAUSED"
    /\ mishaps' = IF leaves = {} THEN mishaps \cup {"paused"} ELSE mishaps
    /\ UNCHANGED <<reportEpoch, leaves, branches, co, synthesis, written, timers, bounds>>

\* A continue needs a leaf; without one the pause can only expire.
Resume ==
    /\ status = "PAUSED"
    /\ status' = IF leaves # {} THEN "RUNNING" ELSE "EXPIRED"
    /\ UNCHANGED <<reportEpoch, leaves, branches, co, synthesis, written, timers, bounds, mishaps>>

-----------------------------------------------------------------------------
BranchSteps(b) ==
    \/ TurnEnds(b) \/ TurnCheckpoints(b) \/ TurnAgain(b) \/ TurnDelegates(b)
    \/ BranchFinalized(b) \/ CheckpointStarts(b) \/ CloneStarts(b) \/ ReleasedPlans(b)
    \/ Materialize(b)
    \/ \E success \in BOOLEAN : \/ SummaryEnds(b, success) \/ CheckpointEnds(b, success)
                                \/ CloneEnds(b, success) \/ ParentIsSummarized(b, success)
                                \/ GraceClones(b, success)
SynthesisSteps ==
    \/ ReportIsWritten \/ SynthesisFails \/ FinalEpochCommitted \/ ReportCompletes
    \/ \E succeeded \in BOOLEAN : FinalReportEnds(succeeded)
Progress == \/ GraceFires \/ MarkPaused \/ Resume
            \/ \E b \in Branches : BranchSteps(b)
            \/ SynthesisSteps \/ Deadline
Next == Progress \/ Pause

\* Calls, summaries and transactions end, timers fire, and a pause is continued
\* or expires.  Nobody must pause.  As turns, deadlines and faults are bounded,
\* it is enough that something goes on while something can.
Fairness == WF_vars(Progress)
Spec == Init /\ [][Next]_vars /\ Fairness

-----------------------------------------------------------------------------
(***************************************************************************)
(* Properties                                                              *)
(***************************************************************************)

Epochs == [id : Nat, n : Nat, frontier : SUBSET Branches, ready : SUBSET Branches, started : BOOLEAN,
           finished : BOOLEAN, tries : 0 .. MaxTries, kind : {"INTERMEDIATE", "FINAL"},
           ends : SUBSET Branches, drafts : SUBSET Branches]
Coordinators == [life : [Branches -> {"absent", "active", "waiting", "finalized"}],
                 drafted : SUBSET Branches, ended : SUBSET Branches, held : SUBSET Branches,
                 epoch : Epochs]

\* Every variable has its type.
TypeOK ==
    /\ status \in Running \cup Over \cup {"PAUSED"}
    /\ reportEpoch \in Nat /\ leaves \subseteq Branches
    /\ work \in [Branches -> Works] /\ parent \in [Branches -> Branches \cup {Nobody}]
    /\ clone \in [Branches -> {"none", "queued", "cloning"}]
    /\ captured \in [Branches -> Nat] /\ cloneOf \in [Branches -> Nat]
    /\ co \in Coordinators
    /\ co.epoch.ready \subseteq co.epoch.frontier /\ co.epoch.ends \subseteq co.ended
    /\ synthesis \in {"none", "writing", "accepting", "ending", "returning"}
    /\ written \subseteq Nat /\ grace \in Nat /\ visiting \subseteq Branches /\ visited \in Nat

\* While a round goes on, the coordinator and the controller mean the same
\* branches: a leaf is active there unless its retired parent is still being
\* summarized or its own end is being recorded, and whatever is active is a leaf
\* (on_parent_retired and _sync_coordinator_live_leaves keep them in step).
SameBranches ==
    status \notin Over =>
        /\ \A b \in leaves \ ActiveBranches(co) : work[b] \in {"registering", "ended"}
        /\ ActiveBranches(co) \subseteq leaves \/ "revived" \in mishaps

\* A round that completed had no leaf left, and its FINAL report covers every
\* branch whose terminal summary succeeded, in this epoch or an earlier one.
FinalCoversAll ==
    status \in {"COMPLETED", "COMPLETED_WITH_ERRORS"} /\ "orphan" \notin mishaps =>
        /\ leaves \subseteq {b \in Branches : work[b] = "ended"}
        /\ co.epoch.kind = "FINAL" /\ co.epoch.ends = co.ended /\ co.epoch.drafts = {}

\* A ready frontier is synthesized, or its three attempts are used up: no branch
\* event would come to begin the synthesis later (_arm_synthesis_task).
ReadyIsBegun ==
    ~co.epoch.finished /\ AllReady(co) =>
        \/ co.epoch.started /\ synthesis # "none"
        \/ co.epoch.tries = MaxTries

\* What the coordinator, the controller and the synthesis know of one another
\* agrees at every step of the round.
RoundInv == TypeOK /\ SameBranches /\ ReadyIsBegun

\* Whatever has work is a leaf, and a leaf whose end is not recorded yet is a
\* branch of the coordinator, which knows the branches it holds.  A branch it
\* means to work has not ended, unless a deadline revived it.
Mates ==
    /\ leaves = {b \in Branches : work[b] \notin {"none", "queued"}}
    /\ \A b \in leaves : work[b] \in {"registering", "ended"} \/ b \in ActiveBranches(co)
    /\ \A b \in ActiveBranches(co) : (b \in leaves /\ work[b] # "ended") \/ "revived" \in mishaps
    /\ co.held = {b \in Branches : work[b] = "held"}

\* A parent has delegated and does nothing else again; who has no parent has
\* no work and no children, unless it is the root.
Kin ==
    \A b \in Branches : /\ parent[b] # Nobody => /\ work[parent[b]] \in {"delegated", "none"}
                                                 /\ parent[b] \notin Unused
                        /\ b \in Unused => work[b] = "none"
                        /\ work[b] \in {"queued", "registering"} => parent[b] # Nobody

\* A synthesis is under way while an epoch is begun and not finished; what is
\* being submitted as final is of a FINAL epoch.  Nothing awaits an epoch before
\* the first.
SynthesisFollows ==
    /\ synthesis # "none" <=> co.epoch.started /\ ~co.epoch.finished
    /\ synthesis \in {"accepting", "ending"} => co.epoch.kind = "FINAL"
    /\ co.epoch.finished /\ co.epoch.id # 0 => co.epoch.started
    /\ co.epoch.id = 0 => /\ co.epoch = NoEpoch /\ visiting = {}
                          /\ \A b \in Branches : /\ captured[b] = 0 /\ clone[b] # "cloning"
                                                 /\ work[b] # "registering"

\* A FINAL epoch in whose time no leaf had work covers all there is, until the
\* round completes and after.
FinalHolds ==
    /\ co.epoch.started /\ co.epoch.kind = "FINAL" /\ "orphan" \notin mishaps =>
          /\ \A b \in leaves : work[b] = "ended"
          /\ co.epoch.ends = co.ended /\ co.epoch.drafts = {}
    /\ status \in {"COMPLETED", "COMPLETED_WITH_ERRORS"} =>
          synthesis = "none" /\ co.epoch.started /\ co.epoch.kind = "FINAL"

\* The inductive invariant.
IInv == TypeOK /\ Mates /\ Kin /\ SynthesisFollows /\ ReadyIsBegun /\ FinalHolds

\* The delegations a checkpoint holds back are released in the end, if nothing
\* broke the promises of the round (_release_held, _release_held_branch).
HeldIsReleased ==
    \A b \in Branches : work[b] = "held" ~> work[b] # "held" \/ mishaps # {}

\* Every round ends, and never rests in REPORTING or FINALIZING, if nothing broke
\* its promises: grace, retries and the numbering of epochs leave no way to hang.
RoundEnds == <>(status \in Over \/ mishaps # {})

\* A FINAL report is begun only when every branch has ended (design 13.2).
FinalMeansEnded == "orphan" \notin mishaps

\* When the last leaf is gone the round is FINALIZING at once (design 13.4).
LastLeafFinalizes == leaves = {} ~> status \in {"FINALIZING"} \cup Over
=============================================================================
