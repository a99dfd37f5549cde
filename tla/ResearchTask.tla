---------------------------- MODULE ResearchTask ----------------------------
(***************************************************************************)
(* The life of one research task (runtime/reducer.py, manager.py,          *)
(* effect_runner.py): its rounds, the tree of branches, the work every     *)
(* branch always has under way, its credits, and what the users' pause,    *)
(* stop and continue and the report deadline do to them.                   *)
(*                                                                         *)
(* An event is one step (TaskController is about when it is).  Of the      *)
(* scheduler there are the two lanes, the pause of this task, and whether  *)
(* the summary of another task that is paused is queued at the barrier     *)
(* (FairScheduler is about the rest); of the report coordinator, the       *)
(* checkpoints it holds back until an epoch opens and the final report it  *)
(* writes when no branch is left.  A branch is the path of edges that led  *)
(* to it from the root of its round, <<round>>.                            *)
(***************************************************************************)
EXTENDS Delegation

CONSTANTS Grants,       \* credits a task may start with
          Estimates,    \* what the input of an agent call may be estimated to cost
          Costs,        \* what the call may cost
          Charges,      \* what the procedures of a turn may cost
          Turns,        \* records [control, procedures, edges]: what an agent may answer
          MaxFixes,     \* max_correction_turns
          Adjustments,  \* credits a continue may add or take
          MaxPauses, MaxContinues \* bounds: pauses and continues explored

ASSUME CreditsAssumption == /\ Grants \subseteq Nat /\ Estimates \subseteq Nat
                            /\ Costs \subseteq Nat /\ Charges \subseteq Nat
                            /\ Adjustments \subseteq Int
ASSUME TurnsAssumption ==
    \A t \in Turns : /\ t.control \in {"none", "terminate", "checkpoint"}
                     /\ t.procedures \in BOOLEAN
                     /\ t.edges \in Seq([live : BOOLEAN, credits : Nat])
ASSUME BoundsAssumption == MaxFixes \in Nat /\ MaxPauses \in Nat /\ MaxContinues \in Nat

VARIABLES status, gen, pool, leaves, calls, \* the RuntimeState
          round,     \* the generation the round was started with; -1 before the first
          routed,    \* the keys of manager._branches
          rows,      \* branches the store has a row of
          jobs,      \* effects of the task: queued or active
          held,      \* checkpoints in ReportCoordinator._held, or on their way out of it
          paused,    \* the task is in scheduler._paused
          gated,     \* a summary of another task that is paused waits at the barrier
          finals,    \* rounds of which a final report is being written
          granted, spent, \* history: credits the round was given and has paid
          exact,     \* history: nothing that breaks the accounts has happened
          strays,    \* history: branches whose procedures a pause of the round missed
          pauses, continues \* bounds

account == <<pool, leaves, calls>>
places == <<round, routed, rows>>
history == <<granted, spent, exact>>
beside == <<gated, strays, pauses, continues>>
vars == <<status, gen, pool, leaves, calls, places, jobs, held, paused,
          finals, granted, spent, exact, gated, strays, pauses, continues>>

-----------------------------------------------------------------------------
(***************************************************************************)
(* Effects                                                                 *)
(***************************************************************************)

\* PerformAgentCall; a correction is queued with its balance, any other call
\* takes it from the leaf when it is prepared.
Call(b, fixes, before) == [kind |-> "call", b |-> b, gen |-> gen, stage |-> "queued",
                           fixes |-> fixes, before |-> before, est |-> 0]
\* PerformProcedureBatch of a turn.
Batch(b, after, turn) == [kind |-> "batch", b |-> b, gen |-> gen, stage |-> "queued",
                          after |-> after, turn |-> turn]
\* PerformBranchSummary: of a branch that ends, of a checkpoint with the edges it
\* holds back, of a clone for the report, of a rejected edge.
Summary(b, why, edges, credits) == [kind |-> "summary", b |-> b, gen |-> gen, stage |-> "queued",
                                    why |-> why, edges |-> edges, credits |-> credits]
Final(b) == Summary(b, "final", <<>>, 0)
\* NotifyToolWaiter with the action materialize_child.
Child(b, i, p) == [kind |-> "child", b |-> Append(b, i), gen |-> gen, stage |-> "queued",
                   parent |-> b, share |-> p.share[i], retires |-> i \in p.retires,
                   back |-> IF i \in p.retires THEN p.poolReturn ELSE 0, calls |-> p.callsAfter]

Barrier(j) == j.kind \in {"summary", "child"}
UsesLlm(j) == j.kind \in {"summary", "call"}
QueuedJobs == {j \in jobs : j.stage = "queued"}
ActiveJobs == {j \in jobs : j.stage = "active"}

\* The scheduler may launch j.  What is queued at the barrier, by whichever task,
\* holds back the lane below.  A child needs nothing, and so is launched before
\* any summary queued with it; its siblings follow the one that retires the parent.
Launchable(j) ==
    /\ j \in QueuedJobs
    /\ UsesLlm(j) => ~paused
    /\ ~Barrier(j) => ~gated /\ \A other \in QueuedJobs : ~Barrier(other)
    /\ j.kind = "summary" => \A other \in QueuedJobs : other.kind # "child"
    /\ j.kind = "child" /\ ~j.retires =>
           \A other \in QueuedJobs : other.kind = "child" /\ other.parent = j.parent => ~other.retires

\* Worker events of branches change the state in these only.
Working == status \in {"RUNNING", "REPORTING", "PAUSING"}
Live(j) == j.gen = gen /\ Working
Depth(b) == Len(b) - 1

Replaced(j, others) == jobs' = (jobs \ {j}) \union others
Started(j) == [j EXCEPT !.stage = "active"]
Balanced(b, credits) == IF b \in DOMAIN leaves THEN [leaves EXCEPT ![b] = credits] ELSE leaves
Without(b) == [x \in DOMAIN leaves \ {b} |-> leaves[x]]

\* The effects that carry a branch on or end it.
IsWork(j) == j.kind = "summary" => j.why \in {"final", "checkpoint"}
Children == {j \in QueuedJobs : j.kind = "child"}

\* j is the work of the leaf b: an effect of its own, or the child that retires it.
WorksOn(j, b) ==
    /\ j.gen = gen /\ IsWork(j)
    /\ IF j \in Children THEN j.retires /\ j.parent = b ELSE j.b = b

\* The work a leaf has, or the checkpoint it waits at.
WorkOf(b) == {j \in jobs : WorksOn(j, b)} \union {h \in held : h.b = b}

-----------------------------------------------------------------------------

\* start: the task is being formalized.
Init == /\ status = "FORMALIZING"
        /\ gen = 0 /\ round = -1
        /\ pool = 0 /\ calls = 0
        /\ leaves = <<>>
        /\ routed = {} /\ rows = {}
        /\ jobs = {} /\ held = {} /\ finals = {}
        /\ paused = FALSE
        /\ gated = FALSE /\ strays = {}
        /\ granted \in Grants /\ spent = 0 /\ exact = TRUE
        /\ pauses = 0 /\ continues = 0

\* FormalizationSucceeded, with the root branch and its first call.
Formalized ==
    /\ status = "FORMALIZING"
    /\ status' = "RUNNING"
    /\ round' = gen
    /\ leaves' = [b \in {<<gen>>} |-> granted]
    /\ routed' = {<<gen>>} /\ rows' = rows \union {<<gen>>}
    /\ jobs' = {Call(<<gen>>, 0, 0)}
    /\ UNCHANGED <<gen, pool, calls, held, paused, finals, history, beside>>

\* FormalizationFailed
FormalizationFails ==
    /\ status = "FORMALIZING"
    /\ status' = "FAILED"
    /\ UNCHANGED <<gen, account, places, jobs, held, paused, finals, history, beside>>

-----------------------------------------------------------------------------
(***************************************************************************)
(* Agent calls                                                             *)
(***************************************************************************)

\* fail_agent_effect: the branch of work that raised is summarized, if it is
\* still a leaf; its balance stays as it is.
FailEffect(j) ==
    /\ Replaced(j, IF Live(j) /\ j.b \in DOMAIN leaves THEN {Final(j.b)} ELSE {})
    /\ UNCHANGED <<status, gen, account, places, held, paused, finals, history, beside>>

\* prepare_agent_effect and AgentCallReserved, or a correction, which has
\* reserved its input already.
LaunchCall(j, est) ==
    /\ j.kind = "call" /\ Launchable(j)
    /\ IF j.fixes > 0
       THEN Replaced(j, {Started(j)}) /\ UNCHANGED <<leaves, spent>>
       ELSE /\ Live(j) /\ j.b \in routed /\ j.b \in DOMAIN leaves
            /\ Replaced(j, {[Started(j) EXCEPT !.before = leaves[j.b], !.est = est]})
            /\ leaves' = [leaves EXCEPT ![j.b] = @ - est]
            /\ spent' = spent + est
    /\ UNCHANGED <<status, gen, pool, calls, places, held, paused, finals,
                   granted, exact, beside>>

\* A call that cannot be prepared, or whose reservation the reducer refuses.
LaunchCallFails(j) ==
    /\ j.kind = "call" /\ Launchable(j) /\ j.fixes = 0
    /\ ~Live(j) \/ j.b \notin routed
    /\ FailEffect(j)

\* Mutant of CallAnswers: the generation of the answer is not looked at.
CallAnswersLate(j, turn, cost) ==
    /\ j.kind = "call" /\ j \in ActiveJobs /\ Working
    /\ leaves' = Balanced(j.b, j.before - cost)
    /\ spent' = spent + cost - j.est
    /\ Replaced(j, {Batch(j.b, j.before - cost, turn)})
    /\ UNCHANGED <<status, gen, pool, calls, places, held, paused, finals,
                   granted, exact, beside>>

\* AgentCallCompleted with a turn: the estimate is settled, the procedures follow.
CallAnswers(j, turn, cost) ==
    /\ j.kind = "call" /\ j \in ActiveJobs /\ Live(j)
    /\ leaves' = Balanced(j.b, j.before - cost)
    /\ spent' = spent + cost - j.est
    /\ Replaced(j, {Batch(j.b, j.before - cost, turn)})
    /\ UNCHANGED <<status, gen, pool, calls, places, held, paused, finals,
                   granted, exact, beside>>

\* AgentCallCompleted with a protocol error: one correction by the same model,
\* which counts as a call, or the end of the branch.
CallIsBroken(j, cost, pinned) ==
    LET after == j.before - cost
        corrects == after >= 0 /\ pinned /\ j.fixes < MaxFixes
    IN /\ j.kind = "call" /\ j \in ActiveJobs /\ Live(j)
       /\ leaves' = Balanced(j.b, after)
       /\ spent' = spent + cost - j.est
       /\ calls' = IF corrects THEN calls + 1 ELSE calls
       /\ Replaced(j, {IF corrects THEN Call(j.b, j.fixes + 1, after) ELSE Final(j.b)})
       /\ UNCHANGED <<status, gen, pool, places, held, paused, finals,
                      granted, exact, beside>>

\* AgentCallFailed: without usage the estimate stands.
CallFails(j, cost) ==
    /\ j.kind = "call" /\ j \in ActiveJobs /\ Live(j)
    /\ leaves' = Balanced(j.b, j.before - cost)
    /\ spent' = spent + cost - j.est
    /\ Replaced(j, {Final(j.b)})
    /\ UNCHANGED <<status, gen, pool, calls, places, held, paused, finals,
                   granted, exact, beside>>

\* A late answer, or procedures that ended late, are dropped.
DropLate(j) ==
    /\ j.kind \in {"call", "batch"} /\ j \in ActiveJobs /\ ~Live(j)
    /\ Replaced(j, {})
    /\ UNCHANGED <<status, gen, account, places, held, paused, finals, history, beside>>

\* The worker of a call or of procedures raised.
WorkerRaises(j) ==
    /\ j.kind \in {"call", "batch"} /\ j \in ActiveJobs
    /\ FailEffect(j)

-----------------------------------------------------------------------------
(***************************************************************************)
(* Procedures and delegations                                              *)
(***************************************************************************)

\* prepare_procedure_effect
LaunchBatch(j) ==
    /\ j.kind = "batch" /\ Launchable(j)
    /\ j.gen = gen /\ j.b \in routed
    /\ Replaced(j, {Started(j)})
    /\ UNCHANGED <<status, gen, account, places, held, paused, finals, history, beside>>

LaunchBatchFails(j) ==
    /\ j.kind = "batch" /\ Launchable(j)
    /\ j.gen # gen \/ j.b \notin routed
    /\ FailEffect(j)

\* The edges of a turn; one without, which ran procedures, delegates to itself.
Delegated(turn, after, live) ==
    IF turn.edges = <<>> /\ turn.procedures /\ turn.control = "none"
    THEN <<[live |-> live, credits |-> after]>> ELSE turn.edges

\* What is queued for a plan: its children and rejected edges; if every edge was
\* rejected, the end of the parent or another call.
Planned(b, p) ==
    IF ~AllRejected(p)
    THEN {Child(b, i, p) : i \in p.children}
         \union {Summary(Append(b, i), "edge", <<>>, 0) : i \in p.rejected}
    ELSE IF Retries(p) THEN {Call(b, 0, 0)} ELSE {Final(b)}

\* ProcedureBatchCompleted that ends its branch or holds it at a checkpoint.
FinishTurn(j, charge) ==
    LET after == j.after - charge
        ends == \/ j.turn.control = "terminate"
                \/ after < 0
                \/ Delegated(j.turn, after, TRUE) = <<>>
    IN /\ j.kind = "batch" /\ j \in ActiveJobs /\ Live(j)
       /\ ends \/ j.turn.control = "checkpoint"
       /\ leaves' = Balanced(j.b, after)
       /\ spent' = spent + charge
       /\ Replaced(j, {IF ends THEN Final(j.b)
                       ELSE Summary(j.b, "checkpoint", j.turn.edges, after)})
       /\ UNCHANGED <<status, gen, pool, calls, places, held, paused, finals,
                      granted, exact, beside>>

\* Mutant of Delegate: the edges of a plan that rejects them all are forgotten.
DelegateForgetfully(j, charge, live) ==
    LET after == j.after - charge
        edges == Delegated(j.turn, after, live)
    IN /\ j.kind = "batch" /\ j \in ActiveJobs /\ Live(j)
       /\ j.turn.control = "none" /\ after >= 0 /\ edges # <<>>
       /\ \E p \in Plans(edges, Depth(j.b), after, calls) :
              /\ calls' = p.callsAfter
              /\ Replaced(j, IF AllRejected(p) THEN {} ELSE Planned(j.b, p))
       /\ leaves' = Balanced(j.b, after)
       /\ spent' = spent + charge
       /\ UNCHANGED <<status, gen, pool, places, held, paused, finals,
                      granted, exact, beside>>

\* ProcedureBatchCompleted that delegates.  (The calls an event saw are never more
\* than the state has counted, so their maximum is the latter.)
Delegate(j, charge, live) ==
    LET after == j.after - charge
        edges == Delegated(j.turn, after, live)
        clone == IF status = "REPORTING" THEN {Summary(j.b, "clone", <<>>, 0)} ELSE {}
    IN /\ j.kind = "batch" /\ j \in ActiveJobs /\ Live(j)
       /\ j.turn.control = "none" /\ after >= 0 /\ edges # <<>>
       /\ \E p \in Plans(edges, Depth(j.b), after, calls) :
              /\ calls' = p.callsAfter
              /\ Replaced(j, Planned(j.b, p) \union clone)
       /\ leaves' = Balanced(j.b, after)
       /\ spent' = spent + charge
       /\ UNCHANGED <<status, gen, pool, places, held, paused, finals,
                      granted, exact, beside>>

\* Mutant of Materialize: what the children did not get is forgotten.
MaterializeWithoutReturn(j) ==
    /\ j.kind = "child" /\ Launchable(j)
    /\ j.gen = gen
    /\ routed' = (routed \ (IF j.retires THEN {j.parent} ELSE {})) \union {j.b}
    /\ Replaced(j, {Started(j)})
    /\ IF Working
       THEN /\ leaves' = [b \in (DOMAIN leaves \ (IF j.retires THEN {j.parent} ELSE {}))
                                    \union {j.b} |-> IF b = j.b THEN j.share ELSE leaves[b]]
            /\ calls' = Most(calls, j.calls)
            /\ rows' = rows \union {j.b}
       ELSE UNCHANGED <<leaves, calls, rows>>
    /\ UNCHANGED <<status, gen, pool, round, held, paused, finals, history, beside>>

\* materialize_child_effect up to ChildMaterialized and the routing: nothing is
\* awaited before the event, so it is reduced as the effect starts.  The routing
\* changes even when the reducer refuses the event.
Materialize(j) ==
    /\ j.kind = "child" /\ Launchable(j)
    /\ j.gen = gen
    /\ routed' = (routed \ (IF j.retires THEN {j.parent} ELSE {})) \union {j.b}
    /\ Replaced(j, {Started(j)})
    /\ IF Working
       THEN /\ leaves' = [b \in (DOMAIN leaves \ (IF j.retires THEN {j.parent} ELSE {}))
                                    \union {j.b} |-> IF b = j.b THEN j.share ELSE leaves[b]]
            /\ pool' = pool + j.back
            /\ calls' = Most(calls, j.calls)
            /\ rows' = rows \union {j.b}
       ELSE UNCHANGED <<account, rows>>
    /\ UNCHANGED <<status, gen, round, held, paused, finals, history, beside>>

\* The rest of it, after the retired parent was summarized for an open epoch: the
\* first call of the child, or its end if its agent is gone.
StartChild(j, live) ==
    /\ j.kind = "child" /\ j \in ActiveJobs
    /\ Replaced(j, IF j.gen # gen THEN {} ELSE {IF live THEN Call(j.b, 0, 0) ELSE Final(j.b)})
    /\ UNCHANGED <<status, gen, account, places, held, paused, finals, history, beside>>

\* A child of a generation that is over.
DropChild(j) ==
    /\ j.kind = "child" /\ Launchable(j) /\ j.gen # gen
    /\ Replaced(j, {})
    /\ UNCHANGED <<status, gen, account, places, held, paused, finals, history, beside>>

-----------------------------------------------------------------------------
(***************************************************************************)
(* Summaries                                                               *)
(***************************************************************************)

\* handle_branch_summary_effect up to the summarizer.
LaunchSummary(j) ==
    /\ j.kind = "summary" /\ Launchable(j)
    /\ Replaced(j, IF j.gen = gen THEN {Started(j)} ELSE {})
    /\ UNCHANGED <<status, gen, account, places, held, paused, finals, history, beside>>

\* The safe point of a branch may open an epoch, which lets the checkpoints of its
\* round go; or let go the one it made.
Opened(checkpoints, r, mine) ==
    {checkpoints,
     {IF h.b[1] = r THEN [h EXCEPT !.open = TRUE] ELSE h : h \in checkpoints},
     {IF h \in mine THEN [h EXCEPT !.open = TRUE] ELSE h : h \in checkpoints}}

\* A checkpoint is made: its edges are held back.  Its generation is not looked at again.
Checkpoint(j) ==
    /\ j.kind = "summary" /\ j \in ActiveJobs /\ j.why = "checkpoint"
    /\ LET mine == [b |-> j.b, edges |-> j.edges, credits |-> j.credits, open |-> FALSE]
       IN held' \in Opened(held \union {mine}, j.b[1], {mine})
    /\ Replaced(j, {})
    /\ UNCHANGED <<status, gen, account, places, paused, finals, history, beside>>

\* The clone of a branch for the report under way.
Clone(j) ==
    /\ j.kind = "summary" /\ j \in ActiveJobs /\ j.why = "clone"
    /\ Replaced(j, {})
    /\ UNCHANGED <<status, gen, account, places, held, paused, finals, history, beside>>

\* The summary ends the branch b of the round: its balance goes to the pool, the
\* last branch ends the round, and the coordinator, with no branch left, writes the
\* final report.  Without a row to settle the transaction fails, and the task with it.
Settled(b) ==
    IF b \in rows
    THEN /\ leaves' = Without(b)
         /\ pool' = pool + (IF b \in DOMAIN leaves THEN leaves[b] ELSE 0)
         /\ finals' = IF DOMAIN leaves' = {} THEN finals \union {round} ELSE finals
         /\ status' = IF DOMAIN leaves' = {} /\ status = "RUNNING" THEN "FINALIZING" ELSE status
    ELSE status' = "FAILED" /\ UNCHANGED <<leaves, pool, finals>>

\* BranchFinalized, of a branch or of a rejected edge.  The edge has no row, unless
\* another turn of its parent has made a branch of its name meanwhile, which then ends.
Finalize(j) ==
    LET taken == j.gen = gen /\ (Working \/ status = "FINALIZING")
    IN /\ j.kind = "summary" /\ j \in ActiveJobs /\ j.why \in {"final", "edge"}
       /\ routed' = routed \ {j.b}
       /\ held' \in Opened(held, j.b[1], {})
       /\ Replaced(j, {})
       /\ IF taken THEN Settled(j.b) ELSE UNCHANGED <<leaves, pool, finals, status>>
       /\ exact' = (exact /\ ~(taken /\ j.why = "edge" /\ j.b \in DOMAIN leaves))
       /\ UNCHANGED <<gen, calls, round, rows, paused, granted, spent, beside>>

\* _release_held_delegations: the edges a checkpoint held back are planned now,
\* for the round and the generation of this moment.
Release(h) ==
    /\ h \in held /\ h.open
    /\ \E p \in Plans(h.edges, Depth(h.b),
                      IF h.b \in DOMAIN leaves THEN leaves[h.b] ELSE h.credits, calls) :
           jobs' = jobs \union Planned(h.b, p)
                        \union (IF AllRejected(p)
                                THEN {Summary(Append(h.b, i), "edge", <<>>, 0) : i \in p.rejected}
                                ELSE {})
    /\ held' = held \ {h}
    /\ exact' = (exact /\ h.b[1] = round)
    /\ UNCHANGED <<status, gen, account, places, paused, finals, granted, spent, beside>>

-----------------------------------------------------------------------------
(***************************************************************************)
(* Reports                                                                 *)
(***************************************************************************)

\* ReportDeadlineReached: an epoch opens.
Deadline ==
    /\ status = "RUNNING"
    /\ IF DOMAIN leaves = {}
       THEN status' = "FINALIZING" /\ finals' = finals \union {round}
       ELSE status' = "REPORTING" /\ UNCHANGED finals
    /\ held' = {IF h.b[1] = round THEN [h EXCEPT !.open = TRUE] ELSE h : h \in held}
    /\ UNCHANGED <<gen, account, round, routed, rows, jobs, paused, history, beside>>

\* ReportCompleted: an intermediate report is written.
IntermediateReport ==
    /\ status = "REPORTING"
    /\ status' = IF DOMAIN leaves = {} THEN "FINALIZING" ELSE "RUNNING"
    /\ UNCHANGED <<gen, account, places, jobs, held, paused, finals, history, beside>>

\* _on_report_synthesis_complete of a final report, whatever round it is of: a
\* task that is paused, or stopped, does not take it in.
FinalReport(r) ==
    /\ r \in finals
    /\ finals' = finals \ {r}
    /\ IF status \in {"RUNNING", "REPORTING", "FINALIZING"}
       THEN /\ status' \in {"COMPLETED", "COMPLETED_WITH_ERRORS"}
            /\ exact' = (exact /\ r = round)
       ELSE UNCHANGED <<status, exact>>
    /\ UNCHANGED <<gen, account, places, jobs, held, paused, granted, spent, beside>>

-----------------------------------------------------------------------------
(***************************************************************************)
(* Users                                                                   *)
(***************************************************************************)

\* pause
Pause ==
    /\ pauses < MaxPauses
    /\ status \in {"RUNNING", "REPORTING"}
    /\ status' = "PAUSING"
    /\ paused' = TRUE
    /\ pauses' = pauses + 1
    /\ UNCHANGED <<gen, account, places, jobs, held, finals, history,
                   gated, strays, continues>>

\* Procedures that are queued behind the barrier of another task only.
Missed == {j \in QueuedJobs : j.kind = "batch" /\ \A s \in QueuedJobs : s.kind # "summary"}

\* Mutant of MarkPaused: what is under way is not waited for.
MarkPausedEarly ==
    /\ status = "PAUSING"
    /\ \A j \in QueuedJobs : ~Launchable(j)
    /\ status' = "PAUSED"
    /\ strays' = strays \union {j.b : j \in Missed}
    /\ UNCHANGED <<gen, account, places, jobs, held, paused, finals, history,
                   gated, pauses, continues>>

\* _mark_paused, when the scheduler counts nothing of the task active and nothing
\* queued that the pause lets run.  A summary that a pause holds at the barrier, of
\* this task or of another, hides the procedures behind it from that count; those
\* another task's hides may start once that task is continued or stopped.  (What
\* starts between the count and its event commutes with the event.)
MarkPaused ==
    /\ status = "PAUSING"
    /\ ActiveJobs = {}
    /\ \A j \in QueuedJobs : \/ UsesLlm(j)
                             \/ /\ j.kind = "batch"
                                /\ gated \/ \E s \in QueuedJobs : s.kind = "summary"
    /\ status' = "PAUSED"
    /\ strays' = strays \union {j.b : j \in Missed}
    /\ UNCHANGED <<gen, account, places, jobs, held, paused, finals, history,
                   gated, pauses, continues>>

\* expire_pause
ExpirePause ==
    /\ status = "PAUSED"
    /\ status' = "EXPIRED"
    /\ routed' = {}
    /\ UNCHANGED <<gen, account, round, rows, jobs, held, paused, finals, history, beside>>

\* stop: what is queued goes, what is active stays and is late.  The final report is
\* cancelled and at once begun anew.  A child whose effect has started, and waits
\* for the controller behind the stop, is refused and routed all the same.
Stop ==
    /\ status \in {"FORMALIZING", "RUNNING", "REPORTING", "PAUSING", "PAUSED", "FINALIZING"}
    /\ status' = "STOPPED"
    /\ gen' = gen + 1
    /\ jobs' = ActiveJobs
    /\ \E behind \in SUBSET {j \in QueuedJobs : j.kind = "child"} : routed' = {j.b : j \in behind}
    /\ UNCHANGED <<account, round, rows, held, paused, finals, history, beside>>

\* continue_task from PAUSED: the pool and the adjustment are spread over the
\* leaves, and those still in debt are dropped.
ContinuePaused(adjustment) ==
    LET order == SetToSeq(routed)
        frozen == {j \in jobs : j.kind = "batch" \/ (j.kind = "call" /\ j.fixes > 0)}
    IN /\ continues < MaxContinues
       /\ status = "PAUSED" /\ routed # {}
       /\ status' = "RUNNING"
       /\ \E s \in RedistributePool(pool + adjustment, [i \in DOMAIN order |-> leaves[order[i]]]) :
              LET index(b) == CHOOSE i \in DOMAIN order : order[i] = b
                  solvent == {b \in routed : s[index(b)] >= 0}
              IN /\ leaves' = [b \in solvent |-> s[index(b)]]
                 /\ routed' = solvent
                 /\ exact' = (exact /\ solvent = routed /\ frozen = {})
       /\ pool' = 0
       /\ paused' = FALSE
       /\ granted' = granted + adjustment
       /\ continues' = continues + 1
       /\ strays' = {b \in strays : WorkOf(b) = {}}
       /\ UNCHANGED <<gen, calls, round, rows, jobs, held, finals, spent, gated, pauses>>

\* continue_task of a round that is over: a new root gets what the pool has.
Restart(adjustment) ==
    /\ continues < MaxContinues
    /\ status \in {"STOPPED", "EXPIRED", "COMPLETED", "COMPLETED_WITH_ERRORS", "FAILED"}
    /\ routed = {} /\ round >= 0
    /\ continues' = continues + 1
    /\ IF pool + adjustment < 0
       THEN /\ pool' = pool + adjustment
            /\ granted' = granted + adjustment
            /\ UNCHANGED <<status, gen, leaves, round, routed, rows, jobs, spent, exact, strays>>
       ELSE /\ status' = "RUNNING"
            /\ gen' = gen + 1 /\ round' = gen + 1
            /\ pool' = 0
            /\ leaves' = [b \in {<<gen + 1>>} |-> pool + adjustment]
            /\ routed' = {<<gen + 1>>} /\ rows' = rows \union {<<gen + 1>>}
            /\ jobs' = jobs \union {[Call(<<gen + 1>>, 0, 0) EXCEPT !.gen = gen + 1]}
            /\ granted' = pool + adjustment /\ spent' = 0 /\ exact' = TRUE
            /\ strays' = {}
    /\ UNCHANGED <<calls, held, paused, finals, gated, pauses>>

\* The other tasks: one that is paused has a summary queued at the barrier, or none
\* has any more, for it was continued or stopped.
OtherTasks ==
    /\ gated' = ~gated
    /\ UNCHANGED <<status, gen, account, places, jobs, held, paused, finals, history,
                   strays, pauses, continues>>

-----------------------------------------------------------------------------

\* What the event loop, the models and the procedures do with a job.
Work(j) ==
    \/ \E est \in Estimates : LaunchCall(j, est)
    \/ LaunchCallFails(j)
    \/ \E turn \in Turns, cost \in Costs : CallAnswers(j, turn, cost)
    \/ \E cost \in Costs, pinned \in BOOLEAN : CallIsBroken(j, cost, pinned)
    \/ \E cost \in Costs \union Estimates : CallFails(j, cost)
    \/ DropLate(j) \/ WorkerRaises(j)
    \/ LaunchBatch(j) \/ LaunchBatchFails(j)
    \/ \E charge \in Charges : FinishTurn(j, charge)
    \/ \E charge \in Charges, live \in BOOLEAN : Delegate(j, charge, live)
    \/ Materialize(j) \/ DropChild(j)
    \/ \E live \in BOOLEAN : StartChild(j, live)
    \/ LaunchSummary(j) \/ Checkpoint(j) \/ Clone(j) \/ Finalize(j)

User == \/ Pause \/ Stop
        \/ \E a \in Adjustments : ContinuePaused(a) \/ Restart(a)

\* The release of what an epoch lets go does not wait for anything.
Releasing == \E h \in held : h.open

Next == \/ \E h \in held : Release(h)
        \/ /\ ~Releasing
           /\ \/ Formalized \/ FormalizationFails
              \/ \E j \in jobs : Work(j)
              \/ Deadline \/ IntermediateReport \/ \E r \in finals : FinalReport(r)
              \/ MarkPaused \/ ExpirePause
              \/ User \/ OtherTasks

Spec == Init /\ [][Next]_vars

-----------------------------------------------------------------------------

Statuses == {"FORMALIZING", "RUNNING", "REPORTING", "PAUSING", "PAUSED", "FINALIZING", "COMPLETED",
             "COMPLETED_WITH_ERRORS", "STOPPED", "EXPIRED", "FAILED"}
Ended == {"FINALIZING", "COMPLETED", "COMPLETED_WITH_ERRORS"}
Branches == {b \in Seq(Nat) : b # <<>>}

EdgeSeqs == {e \in Seq([live : BOOLEAN, credits : Nat]) : e # <<>>}

\* The fields of an effect; it is of the tree of the round it was made in, or of an
\* earlier one.  What waits at a checkpoint are edges, never none.
JobOK(j) ==
    /\ {"kind", "b", "gen", "stage"} \subseteq DOMAIN j
    /\ j.b \in Branches /\ j.gen \in 0..gen /\ j.b[1] <= j.gen
    /\ j.stage \in {"queued", "active"}
    /\ \/ j.kind = "call" /\ {"fixes", "before", "est"} \subseteq DOMAIN j /\ j.fixes \in Nat
       \/ j.kind = "batch" /\ {"after", "turn"} \subseteq DOMAIN j /\ j.turn \in Turns
       \/ /\ j.kind = "summary" /\ {"why", "edges", "credits"} \subseteq DOMAIN j
          /\ \/ j.why \in {"final", "clone", "edge"}
             \/ j.why = "checkpoint" /\ j.edges \in EdgeSeqs
       \/ /\ j.kind = "child"
          /\ {"parent", "share", "retires", "back", "calls"} \subseteq DOMAIN j
          /\ j.parent \in Branches /\ j.b = Append(j.parent, j.b[Len(j.b)])
          /\ j.retires \in BOOLEAN /\ j.calls \in Nat

HeldOK(h) ==
    /\ {"b", "edges", "credits", "open"} \subseteq DOMAIN h
    /\ h.b \in Branches /\ h.b[1] <= gen
    /\ h.edges \in EdgeSeqs /\ h.open \in BOOLEAN

TypeOK ==
    /\ status \in Statuses
    /\ gen \in Nat /\ round \in Nat \union {-1} /\ round <= gen
    /\ calls \in Nat
    /\ DOMAIN leaves \subseteq Branches /\ routed \subseteq Branches /\ rows \subseteq Branches
    /\ \A j \in jobs : JobOK(j)
    /\ \A h \in held : HeldOK(h)
    /\ finals \subseteq 0..gen
    /\ paused \in BOOLEAN /\ exact \in BOOLEAN
    /\ gated \in BOOLEAN /\ strays \subseteq Branches
    /\ pauses \in 0..MaxPauses /\ continues \in 0..MaxContinues

Active == {"RUNNING", "REPORTING", "PAUSING", "PAUSED"}

\* "A parent is never left among the active leaves without any work to be done"
\* (design 10), and no branch is worked on twice at once: while the round goes on
\* every leaf has exactly one piece of work, under way or queued, whatever fails,
\* whatever a pause or a continue does and whatever other tasks hold back.  The one
\* exception is that of a stray: the end of procedures a pause missed is refused
\* while the task is PAUSED, and its leaf has no work ever after.  And the manager
\* routes the leaves of the round that runs.  (A leaf of an earlier round, which a
\* checkpoint left behind, may lose its route to a rejected edge of its name; it has
\* its work.)
NoBranchForgotten ==
    status \in Active =>
        \A b \in DOMAIN leaves : /\ b[1] = round => b \in routed
                                 /\ \/ Cardinality(WorkOf(b)) = 1
                                    \/ b \in strays /\ WorkOf(b) = {}

\* A task that is paused is quiet: nothing of it is under way and nothing can start,
\* but the procedures another task's barrier hid when the pause settled.
PausedIsQuiet ==
    status = "PAUSED" =>
        \A j \in jobs : \/ j.stage = "queued" /\ ~Launchable(j)
                        \/ j.kind = "batch" /\ j.b \in strays

\* Credits a plan has taken from its parent but no branch has yet.
Shares(children) == Total([j \in children |-> j.share])
InTransit == Shares({j \in Children : j.gen = gen /\ j.parent \notin DOMAIN leaves})

\* The credit equation of a round (design 11.7): what the leaves, the pool and the
\* children on their way have is what the round was given less what was paid, until
\* a continue or a stale round breaks it (see CreditEquation).
CreditsAccounted ==
    /\ pool \in Int /\ granted \in Int /\ spent \in Int
    /\ \A b \in DOMAIN leaves : leaves[b] \in Int
    /\ exact /\ status \in Active \union Ended =>
           Total(leaves) + pool + InTransit = granted - spent

NothingLeft ==
    /\ DOMAIN leaves = {}
    /\ \A h \in held : h.b[1] # round
    /\ \A j \in jobs : j.gen = gen => ~IsWork(j)

\* A round that is finalizing or completed has nothing left to do: no leaf, no
\* checkpoint, and no effect but the clone of a branch or a rejected edge.
FinishedIsDone == exact /\ status \in Ended => NothingLeft

\* Branch ids are made from that of the parent and a number, and are given anew when
\* a parent plans again; yet no child is inserted under an id the store has a row of,
\* and every leaf has a row: neither fails its transaction, and with it the task.
RowsAreNew ==
    /\ DOMAIN leaves \subseteq rows
    /\ \A c \in Children : c.b \notin rows

\* The shape of a round: its leaves all have work until it ends, and then none has;
\* and the store is of one mind with it.
TaskInv == TypeOK /\ NoBranchForgotten /\ FinishedIsDone /\ RowsAreNew

\* "The generation token is verified; results that arrive after a stop or a change
\* of round are discarded" (design 10): the end of an effect of an earlier
\* generation changes nothing of the task, moves no credits, and has no effect follow.
LateResultsAreDropped ==
    [][\A j \in ActiveJobs \ jobs' :
           j.gen # gen => jobs' \subseteq jobs /\ UNCHANGED <<status, pool, leaves, calls>>]_vars

\* A branch that has ended is not begun again: what has a row in the store and is no
\* leaf never becomes one, though ids are given anew and the effects that would make
\* it may come late, or in another round.
EndedStaysEnded == [][\A b \in rows \ DOMAIN leaves : b \notin DOMAIN leaves']_vars

\* What is over has no part in what goes on.
PastStaysPast == LateResultsAreDropped /\ EndedStaysEnded

-----------------------------------------------------------------------------
(***************************************************************************)
(* The inductive invariant.                                                *)
(***************************************************************************)

\* Neither branch is the other or one of its ancestors.
Apart(a, b) == ~IsPrefix(a, b) /\ ~IsPrefix(b, a)
Works == {j \in jobs : IsWork(j)}

\* Of a branch, its ancestors and its descendants one is worked on, by one effect or
\* at one checkpoint, whatever generation they are of; one child retires a parent.
OneOfALine ==
    /\ \A j, k \in Works : j # k => Apart(j.b, k.b)
    /\ \A h, i \in held : h # i => Apart(h.b, i.b)
    /\ \A j \in Works, h \in held : Apart(j.b, h.b)
    /\ \A j, k \in Children : j.retires /\ k.retires /\ j.parent = k.parent => j = k

\* A branch that is worked on, or waits at a checkpoint, has no descendants in the
\* store, and a child that is queued is not there itself; no row is of a later round.
RowsAreBehind ==
    /\ \A r \in rows : r[1] <= round
    /\ \A j \in Works, r \in rows : IsPrefix(j.b, r) => r = j.b /\ j \notin Children
    /\ \A h \in held, r \in rows : IsPrefix(h.b, r) => r = h.b
    /\ DOMAIN leaves \subseteq rows

\* Nothing was before the first round, and a round that goes on is of this generation.
RoundOK ==
    /\ status = "FORMALIZING" => gen = 0 /\ round = -1
    /\ round = -1 => jobs = {} /\ held = {} /\ finals = {} /\ status \notin Active \union Ended
    /\ status \in Active \union Ended => gen = round
    /\ status \in Active => routed \subseteq DOMAIN leaves

LeavesHaveWork ==
    status \in Active =>
        \A b \in DOMAIN leaves : /\ b[1] = round => b \in routed
                                 /\ WorkOf(b) # {} \/ b \in strays

PausedOK ==
    /\ status \in {"PAUSING", "PAUSED"} => paused
    /\ status = "PAUSED" =>
           /\ \A h \in held : ~h.open
           /\ \A j \in jobs :
                  \/ /\ j.stage = "queued"
                     /\ UsesLlm(j) \/ (j.kind = "batch" /\ \E s \in jobs : s.kind = "summary")
                  \/ j.kind = "batch" /\ j.b \in strays

\* The work of the round is of its tree and of a leaf, or a child under way to one.
WorkIsOfLeaves ==
    /\ \A b \in DOMAIN leaves : b[1] = round
    /\ \A j \in jobs : j.gen = gen /\ IsWork(j) =>
           /\ j.b[1] = round
           /\ IF j \in Children THEN j.retires => j.parent \in DOMAIN leaves
              ELSE j.b \in DOMAIN leaves
    /\ \A h \in held : h.b[1] = round => h.b \in DOMAIN leaves

\* j keeps its leaf while a child is queued: only children start then.
Holds(j) ==
    /\ j.gen = gen /\ IsWork(j)
    /\ IF j.kind = "child" THEN j.stage = "queued" => j.retires ELSE j.stage = "queued"

\* A child that is queued is of a tree that has a leaf, and a final report is
\* written of none that has.
ChildrenAreAwaited ==
    /\ (\E c \in Children : c.gen = gen) => \E j \in jobs : Holds(j)
    /\ round \in finals => DOMAIN leaves = {}

\* Until the accounts are broken, the tree is what the branches are worked on in.
TreeOK == exact /\ status \in Active => WorkIsOfLeaves /\ ChildrenAreAwaited

IInv ==
    /\ TypeOK /\ OneOfALine /\ RowsAreBehind /\ RoundOK /\ LeavesHaveWork
    /\ PausedOK /\ TreeOK /\ FinishedIsDone

-----------------------------------------------------------------------------
(***************************************************************************)
(* The inductive invariant of the accounts.                                *)
(***************************************************************************)

\* All amounts are numbers, and there are finitely many of them; nothing is paid
\* before the first round.
AmountsOfJob(j) ==
    /\ j.kind = "call" => j.before \in Int /\ j.est \in Int
    /\ j.kind = "batch" => j.after \in Int
    /\ j.kind = "summary" => j.credits \in Int
    /\ j.kind = "child" => j.share \in Int /\ j.back \in Int
AmountsOK ==
    /\ pool \in Int /\ granted \in Int /\ spent \in Int
    /\ IsFiniteSet(DOMAIN leaves) /\ IsFiniteSet(jobs)
    /\ \A b \in DOMAIN leaves : leaves[b] \in Int
    /\ \A j \in jobs : AmountsOfJob(j)
    /\ \A h \in held : h.credits \in Int
    /\ status = "FORMALIZING" => pool = 0 /\ spent = 0

\* The balance an effect carries is that of its leaf, but for the estimate of a call
\* under way; a leaf that waits for its checkpoint, or at it, is not in debt.
Carries(j) ==
    j.b \in DOMAIN leaves =>
        /\ j.gen = gen /\ j.kind = "batch" => leaves[j.b] = j.after
        /\ j.gen = gen /\ j.kind = "call" /\ (j.stage = "active" \/ j.fixes > 0) =>
               leaves[j.b] = j.before - j.est
        /\ j.kind = "summary" /\ j.why = "checkpoint" => leaves[j.b] >= 0
CarriedOK ==
    /\ \A j \in jobs : Carries(j)
    /\ \A h \in held : h.b \in DOMAIN leaves => leaves[h.b] >= 0

\* The children that are queued for the parent b.
Family(b) == {c \in Children : c.gen = gen /\ c.parent = b}

\* What the parent has is what its children get and the pool gets back, until the
\* child that retires it starts, which is before the others.
FamiliesOK ==
    \A c \in Children : c.gen = gen =>
        IF c.retires THEN leaves[c.parent] = Shares(Family(c.parent)) + c.back
        ELSE c.back = 0 /\ (c.parent \in DOMAIN leaves => \E k \in Family(c.parent) : k.retires)

AccountsOK ==
    /\ AmountsOK
    /\ exact /\ status \in Active => CarriedOK /\ FamiliesOK
    /\ CreditsAccounted

-----------------------------------------------------------------------------
(***************************************************************************)
(* What the documents say and the code does not do.                        *)
(***************************************************************************)

\* A rejected edge ends for its reason (design 10.1): it ends nothing else.
RejectedEdgeEndsAlone ==
    [][\A j \in jobs \ jobs' : j.kind = "summary" /\ j.why = "edge" => status' # "FAILED"]_vars

\* The credit equation, with pauses and continues.
CreditEquation ==
    status \in Active \union Ended =>
        Total(leaves) + pool + InTransit = granted - spent

\* Every leaf is of the tree of the round that runs.
LeavesAreOfThisRound == status # "STOPPED" => \A b \in DOMAIN leaves : b[1] = round

\* A task is settled "only after both active and queued local work have drained"
\* (manager._settle_pause), and no other queue hides "another task's handoff work"
\* from the count (scheduler._pause_runnable_queued_counts): PAUSED, the task has
\* nothing under way that could end, and nothing starts.
PausedIsSettled ==
    status = "PAUSED" => \A j \in jobs : j.stage = "queued" /\ ~Launchable(j)

\* "A parent is never left among the active leaves without any work to be done".
EveryLeafHasWork == status \in Active => \A b \in DOMAIN leaves : WorkOf(b) # {}

\* The pause holds a task only until it runs again.
RunningIsNotHeld == status = "RUNNING" => ~paused
=============================================================================
