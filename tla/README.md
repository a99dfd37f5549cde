# A verification of the research runtime

`lunagentic_research_swarm` runs research tasks: a tree of LLM agents works on a
question, every turn of an agent may call procedures and delegate to further agents, a
budget of credits bounds what they spend, and reports are written at a deadline and at
the end.  Users pause, stop and continue a task while all of it is under way; around it
a plugin delivers reports to its host, keeps an index of past cases and discovers
extensions of other plugins.  These modules model the runtime and its services in TLA+;
TLC checks them on small instances, and TLAPS proves most of what is said of their safety
for every instance: of the controller, the scheduler, the task, the reports of a round, the
delivery, the vector index, the procedures and the lifecycle.  Paths below are relative to
`lunagentic_research_swarm/`; "design" is
`docs/superpowers/specs/2026-08-03-lunagentic-research-swarm-design.md`.

## 1. The system

One asyncio event loop; one worker thread for SQLite.  Parts, what each keeps, what it does:

| Part | State | Operations | Talks to |
| --- | --- | --- | --- |
| Task controller (`runtime/controller.py`), one per task | `state`, `_lock`, `_apply_depth`, `stopped` | `submit_and_drain`, `apply` | calls the reducer, commits to the store, then hands effects to the scheduler |
| Reducer (`runtime/reducer.py`) | none: `reduce_event` is pure over `RuntimeState` | one case per event | returns the next state, store commands and effects |
| Manager (`runtime/manager.py`), one | routing table `_branches`, snapshots, coordinators, timers | `start`, `pause`, `stop`, `continue_task`, `expire_pause`, the handlers of effects | everything |
| Scheduler (`runtime/scheduler.py`), one | lanes by priority, counters, `_paused`, `_cancelled_through` | `enqueue`, `pause_task`, `resume_task`, `cancel_generation`, `update_limits`, `close`, `wait_task_idle`, the dispatcher coroutine | runs effects through the effect runner |
| Effect runner, turn worker (`runtime/effect_runner.py`, `turns.py`) | none | `run`, `perform_agent_call`, `perform_procedure_batch` | manager before the work, an event after it |
| Delegation planner and credits (`runtime/delegation.py`, `credits.py`) | none | `plan_delegations`, `allocate_children`, `redistribute_pool` | called by the reducer and by the release of checkpoints |
| Report coordinator (`runtime/epochs.py`), one per round | branches, `_held`, `current_epoch`, synthesis tasks | `open_epoch`, `on_branch_safe_point`, `on_grace_expired`, `synthesize` | store, manager (release of held delegations, end of a synthesis) |
| Store (`storage/sqlite.py`) | the database, `_lock` | `transact` and typed calls | worker thread |
| Outbox (`storage/outbox.py`), feedback (`feedback.py`) | rows of the store, a worker each | claim, deliver, complete, give up; schedule, cancel, process reminders | host |
| Vector index (`storage/vectors.py`) | generations and jobs in the store, tables of a vector database, `_rebuilding`, `_lock` | `enqueue`, `rebuild`, `ensure_ready`, `search` | embedding model of the host |
| Procedure executor (`procedures/executor.py`, `core.py`), contractor | none between batches | `invoke_many`, retry, time limit, compaction; a loop of turns | providers, LLM, summarizer |
| Registries (`agents/registry.py`, `procedures/registry.py`) and discovery (`extensions/discovery.py`) | batches, owners, health; the scan under way, the background task | `replace_provider`, `remove_provider`, `refresh`, `close` | host |
| Services (`services.py`, `plugin.py`) | `_state`, the resources, two locks | `start`, `close`, `update_self_config`, `refresh_extensions` | all |
| LLM gateway, prompts, commands, tools, statistics, models | none, or data | calls, parsing, text | host, users |

The hard behaviours: callers of one controller interleave at every await; transactions
fail; timer jobs are cancelled anywhere; results arrive after the round they belong to;
pausing waits for work that queues further work; a plan is made in one step and carried
out, child by child, in others; shares of credits are rounded; lanes must be fair while
tasks come and go; coordinator and controller count epochs apart; the process ends
between a delivery and its record; two rebuilds of an index run side by side; a provider
hangs after it has acted; a plugin is unloaded in the middle of a scan.  `PROJECT.json`
lists them ("hazards") with the property that covers each, or why none does.

What makes each part correct: the controller keeps memory, store and effects in step
whatever fails; the scheduler neither loses, repeats nor starves work nor exceeds a
limit; a plan moves credits without making any and leaves one way on; a task has exactly
one piece of work for every leaf until its round is over, and its accounts balance; a
round ends with a report that covers all of it; notices reach the host at least once, in
order, and only when owed; the generation that is searched is whole; a call that may have
acted is not repeated; what is open is closed, in an order that leaves nothing behind.

## 2. Modules

| Module | Models | Used by |
| --- | --- | --- |
| `SerialTask` | what the controller promises (abstract) | `TaskController` refines it |
| `TaskController` | the controller, over any reducer | `MCTaskController` |
| `Selection` | `[x for x in s if x in S]` | `FairScheduler`, `Procedures` |
| `FairScheduler` | the scheduler | `MCFairScheduler` |
| `Credits` | sharing out credits, with rounding | `Delegation` |
| `Delegation` | `plan_delegations` | `ResearchTask`, `Planning` |
| `Planning` | one call of `plan_delegations` or `redistribute_pool`, with any arguments | `MCPlanning` |
| `ResearchTask` | one task: reducer, manager and workers | `MCResearchTask` |
| `ReportEpochs` | the reports of one round: coordinator, controller and manager together | `MCReportEpochs` |
| `Notices` | what the delivery promises the host (abstract) | `Delivery` refines it |
| `Delivery` | outbox, feedback, their rows, ends of the process | `MCDelivery` |
| `VectorIndex` | the index and its rebuilds | `MCVectorIndex` |
| `Procedures` | a batch of procedures, the contractor among them | `MCProcedures` |
| `Extensions` | registries and discovery | `Services` |
| `Services` | the lifecycle of the plugin, with the discovery inside | `MCServices` |

Theorems and proofs are in `<module>_proofs` for `TaskController`, `FairScheduler`,
`ResearchTask` (with `Planning` and what it is built from), `ReportEpochs`, `Delivery`,
`VectorIndex`, `Procedures` and `Services` (with `Extensions`).

`ResearchTask` abstracts what `TaskController` is about (an event is one step there) and
the epochs (any safe point may open one); `ReportEpochs` abstracts credits and keeps the
epochs.  `Services` composes the lifecycle with `Extensions`: the two share their state.

### TaskController

A step is what runs between two awaits that really yield: taking the lock and the two
ends of a transaction.  `lockq` and `storeq` are the two `asyncio.Lock`s, first come first
served.  `apply()` passes the controller's lock while `_apply_depth` is positive, whoever
made it so: `Reenter`.  `Commit` and `Rollback` are the worker thread; `Assign` is what
`_apply_body` does after the await; `FailInMemory` and `EndFallback` are
`_fail_after_storage_error`.  A cancelled timer job (`Cancel...`) gives back what it holds;
in its transaction, `_call` waits for the thread and raises only then, so the commit
stands and the assignment is lost.  The reducer is the constants `Verdict`, `NextState`
and `Failed`, about which nothing is assumed.  The history variable `clean` is
`SerialTask`'s `broken`: it records that two applications overlapped or one was abandoned.

### FairScheduler

`lanes[p]` is `_queues[p]`, `_cursor[p]` and `_dispatched[p]`; `Joined` and `Taken` do what
`enqueue` and `_take_from_priority` do to them; `With` gives the lane after a
change of its queues.  The dispatcher and the waiters of
`wait_task_idle` sleep on one `asyncio.Event`, which each of them clears: `wake` and the
"asleep"/"woken" states are that event.  The dispatcher does not await between two
launches, so nothing else moves while it is "running".

### Credits and Delegation

A credit is a whole number standing for the last place of a float; a product that is not
exact may be rounded either way, so the operators return sets.  Amounts are functions, by
the place of an edge or by the branch, so that an amount of zero is still somebody's.  `Plans`
is `plan_delegations`.  `Planning` chooses the arguments of one call in its initial state, and
its step makes the call; what is said of plans there is said of every plan `ResearchTask`
carries out, because it takes them from the same operator.

### ResearchTask

An event is one step.  `jobs` are the effects of the task, queued or active; a branch is
the path of edges to it from the root `<<round>>`.  An effect has two steps, the preparation
when it is launched (`Launch...`, which may reserve credits or fail) and the event that
reports its end; `materialize_child_effect` reaches its event before it awaits anything,
so `Materialize` is its launch and `StartChild` the rest.  `Launchable` keeps the
scheduler's lanes, order within the barrier lane and pause; the other limits only delay.
The scheduler is shared, and its barrier lane holds back the lanes below for all tasks:
`gated` says that a summary of another task that is paused is queued there, which
`OtherTasks` lets come and go at any time (that task is paused, continued or stopped).

- `MarkPaused` is the count of `wait_task_idle` and the event that follows from it.  The
  manager asks for nothing else, and the count stops at a barrier anyone holds, so the task
  may become PAUSED with procedures queued.  Behind a summary of its own they stay there;
  those behind another's alone (`Missed`) may start while it is PAUSED.  `strays` is history:
  the branches of those, until a continue finds their work still there.
- `Delegate`, `FinishTurn`: `ProcedureBatchCompleted`; `CallAnswers`, `CallIsBroken`,
  `CallFails`: the outcomes of an agent call; `FailEffect`: `fail_agent_effect`.
- `Checkpoint` puts a branch into `held` (`ReportCoordinator._held`); an epoch opens it,
  and `Release` is `_release_held_delegations`, which runs before anything else can.
- `Finalize` is the terminal summary and `BranchFinalized`; with the last branch the
  coordinator begins the final report (`finals`).
- A final report outlives a stop: the done-callback of the cancelled synthesis begins it
  again (`epochs.py` `_arm_synthesis_task`), so `Stop` leaves `finals` alone.
- `rows` are the branches the store has a row of, and `Settled` is `BranchFinalized` for a
  rejected edge.  The edge was never inserted, so the store normally finds no row, the
  transaction fails and `_fail_after_storage_error` makes the task FAILED.  Branch ids are
  `{parent}:{n}` and `n` starts again with every plan: if another turn of the parent made a
  branch of that name, it is this branch that is ended, and `exact` turns FALSE.
- `ContinuePaused` and `Restart` are the two branches of `continue_task`.  The first keeps
  only leaves that are not in debt after the pool was spread.
- `behind` in `Stop`: a child whose effect had started waits for the controller behind the
  stop; its event is refused, its routing entry is made all the same.
- The balance a queued correction or batch carries is absolute, as in the payloads.
- An intermediate report may be written at any time of REPORTING and any safe point may
  open an epoch: the coordinator is over-approximated.  In one respect it is not: a final
  report is begun only when no leaf is left.  That the coordinator may begin one too early
  is what `ReportEpochs` shows (`epochs_final`); `FinishedIsDone` is claimed without it.

`granted`, `spent` and `exact` are history.  `exact` turns FALSE when something has
happened that breaks the accounts (a debt dropped, a balance of before a continue still
queued, a release or a final report of another round); `CreditsAccounted` and
`FinishedIsDone` are claimed until then.

### ReportEpochs

One round.  `co` is the `ReportCoordinator`: the life of each branch as the coordinator
sees it, the drafts and terminal summaries it has, what it holds back, and the current
epoch with its frontier, its ready entries and the state of its synthesis.  `leaves`,
`status` and `reportEpoch` are the controller's.  A coroutine that read the current epoch
before an await remembers its id (`captured`, `cloneOf`, `visited`) and marks the entry of
that epoch, or none.  `Considered` is `_maybe_start_synthesis`; `SynthesisFails` the
done-callback with its three attempts.  Work of a branch is a value of `work`: a turn, a
child being registered, a checkpoint, a summary.

`mishaps` is history: the ways in which the code breaks what a round promises, each named
where it happens and explained in section 5.  `RoundEnds` and `HeldIsReleased` are claimed
for rounds without one, so each of them is a condition that was found to be needed; the
runs `epochs_final` and `epochs_wedge` show two.

### Notices and Delivery

A notice is the text of a report, the request to review it, or a reminder; `row` is its row
in `maisaka_outbox`, `reminder` that in `feedback_reminders`.  A delivery is a claim, a call
and a record; each may fail, the answer of the call may be lost, and the process may end
anywhere (`Stop`, `Start`).  A lease is "leased" while it lasts and "expired" afterwards;
`GiveUp` is `_record_failure`, and `AbandonBatch` what follows when that fails too.  `Notices`
is the promise: given only while owed, at
least once, a review only after its report; `KeepsPromise` is the refinement.

### VectorIndex

A caller is a lesson being enqueued, a `/swarm vectors rebuild`, the rebuild the index
starts by itself, or `ensure_ready` at the start; `pc` and `cx` are where it is and its
locals.  Generations are never reused.  `Fault` marks the steps at which the model, the
database or the store may raise, `Failing` is the error handling of a rebuild, and `Stop`
loses all but the store and the tables.

### Procedures

`invoke_many` runs `call[i]` side by side, gathers, folds the results into `history`, and
carries out `core.compact` on what was folded.  An answer says whether it may be retried
and whether it has data; a provider need not answer, the time limit then ends the call.
The contractor is a loop of turns (`Ask`, `Reply`), nested procedures (`Nested`) and what
follows them (`Settle`), paid from one budget.

### Extensions and Services

The two registries share no identifier and have the same operations, so they are one, and a
provider is a plugin with the kind of its descriptor.  `scan[d]` is the shared refresh of
discovery object d: who asks meanwhile joins it (`Joined`).  The lifecycle is a sequence of
resources to open (`StartSequence`), after a failure to clean up, at the unload to close.
`life` and `gate` are `_lifecycle_lock` and the services' `_refresh_lock`; `Told` is the
listener of a scan, which runs when the scan's own lock is released.

## 3. Runs

| Run | Shows | Distinct states |
| --- | --- | --- |
| `controller` | `IInv` (inductive), `EffectsAfterCommit`, `NothingForgotten`, the refinement `Serial`, `StoppedIsFinal`, `EveryCallReturns` | 37 000 |
| `scheduler` | `Accounts` (queues, cursor, counters and cancellations agree), `NeverOversleeps` (no lost wake-up), `StartsOnlyWhatMay`, `QueuedIsServed`, `CallsReturn` (waits and close end) | 37 000 |
| `delegation` | `CreditsKept` (`CreditsMoved`, `RequestsHonoured`, `PoolSpread`), `FirstThatFit`, `OneWayOn` | 197 000 |
| `task` | `TaskInv` (`NoBranchForgotten`, `FinishedIsDone`, `RowsAreNew`), `PausedIsQuiet`, `CreditsAccounted`, `PastStaysPast` (`LateResultsAreDropped`, `EndedStaysEnded`) | 1 188 000 |
| `epochs` | `RoundInv` (`SameBranches`, `ReadyIsBegun`), `FinalCoversAll`, `RoundEnds`, `HeldIsReleased` | 258 000 |
| `epochs_final` | violated: a FINAL report only when every branch has ended | |
| `epochs_wedge` | violated: with the last leaf the round is FINALIZING | |
| `delivery` | `NothingTwice` (`RepeatsHaveReasons`, `OneLateReminder`), `RowsInv` (`BatchIsLeased`, `DueNeverConflicts`), the refinement `KeepsPromise`, `ReportsArrive`, `RemindersCome` | 426 000 |
| `vectors` | `ServedInv` (`ServingIsWhole`, `EmptyIsHonest`), `DoneStaysIndexed`, `RebuildEnds` | 960 000 |
| `vectors_cleanup` | violated: a rebuild that fails leaves the old generation served | |
| `procedures` | `RepeatsAreSafe`, `BatchIsWhole`, `ChargedIsSpent`, `ContractorBound` (`OverspendIsOneStep`, `CutOffIsSaid`), `BatchEnds` | 29 000 |
| `services` | `OneOwner`, `NothingOutlives` (`NothingLeft`, `OneScanner`), `ListedStays`, `CloseEnds`, `FitIsListed` | 268 000 |

Bounds, and why they are enough:

- `controller`: three callers, the least with which one can apply while a second holds
  the lock and a third is cancelled behind both; four events (two pieces of work, a stop, a
  continue) over a reducer with generations; two faults, so that the fallback fails too.
- `scheduler`: two tasks, three effects (an agent call, a procedure of the next generation,
  a summary at the barrier), one generation that is cancelled, two sets of limits.
  Both effects of one task come back to their lanes as often as they like, an agent call
  after a procedure and the converse; `QueuedIsServed` is claimed if that comes to an end
  (`RequeuesEnd`), and section 5 shows that it must.
- `delegation`: up to four edges with at most three accepted, depth two, three calls, so
  that each reason to reject occurs, alone and in combinations; requests and balances up
  to 3, with every rounding; every redistribution over up to four leaves.
- `task`: depth two, a budget of three calls, turns that end, run procedures, delegate twice
  or hold back a delegation; amounts with which a branch is solvent, at zero and in debt;
  one pause, one continue.  A stop is not bounded except by the one continue, and the
  summaries of other tasks come and go as often as they like.
- `epochs`: three branches, the least with which one is held, one works and one ends; three
  turns; one deadline reached with nothing held, one failure, one pause.  An epoch may
  open before the deadline, at it, and after it.
- `delivery`: one report and two rounds, claims of two rows, one end of the process and one
  failing call or transaction (the failure of the row's own bookkeeping right after it is
  not counted against the bound).  Two rounds are needed for a reminder that the next round
  makes unneeded; two rows for a batch of which one is done when the other fails.
- `vectors`: two lessons, one command, the rebuild that starts by itself and the one at the
  start, one change of the model, one trouble: three rebuilds may overlap, and the candidate
  of one be failed by another.
- `procedures`: six batches, chosen so that every way a request may go meets every other;
  four turns, so that the contractor is cut off by each of its limits; costs of zero and two
  against a budget of three, so that the last payment overdraws.
- `services`: two plugins that may offer the same identifier, the built-in provider, one
  replacement of the discovery, one caller of a refresh, one change of the host, one trouble.

Deadlock is not checked, because every model may stop: calls are finitely many, effects
are, a round ends, a batch ends, a plugin is unloaded.  What must not stop is a liveness
property.

Fairness.  `TaskController`: the loop resumes ready tasks, the thread ends transactions;
nobody must call, cancel or fail.  `FairScheduler`: the loop resumes the dispatcher
(weakly fair); workers end and waiters are resumed (strongly fair, because the dispatcher
suspends them each time it runs and the loop's ready queue is first come first served);
workers end because LLM calls and procedures carry deadlines.  `ReportEpochs` and
`VectorIndex`: something goes on while some coroutine can (weakly fair as a whole: turns,
deadlines and troubles are bounded, so that is enough); nobody must pause or ask for a
rebuild.  `Delivery`: the workers run, time passes, a stopped process is started again;
deliveries are claimed to arrive only if an outbox is there again and again.
`Procedures`: timers fire and the loop runs; a provider need not answer, which is the
point of `BatchEnds`.  `Services`: each discovery's scan and timer, and the lifecycle, go
on; the host must list nothing, ask nothing and never unload.  `ResearchTask` has no
fairness: only safety is claimed.

## 4. Findings

Three runs end in a violation; `PROJECT.json` quotes the document and the code.

1. `epochs_final`: in REPORTING, a parent that delegates is summarized for the report
   before its child is a branch of the coordinator.  If it was the last entry of the epoch,
   the report is frozen FINAL and the round ends while the child works.
2. `epochs_wedge`: an epoch of checkpoints written before the deadline has taken the number
   the controller uses at the deadline: no grace is armed, later numbers differ, the final
   report is dropped and the task stays in REPORTING with no leaf.
3. `vectors_cleanup`: an error while retired generations are cleaned up fails the
   generation that was just activated; then none is served.

## 5. Known divergences beside the runs

The following is what modelling showed the code does against its documents, or what a
user of it has to know.  Where a configuration is named, TLC gives the behaviour
(`tlc -config <cfg> <module>`); those configurations are kept for reproduction and are
not among the runs.

| Configuration | Module | Violated |
| --- | --- | --- |
| `MCTaskControllerOverlap.cfg` | `MCTaskController` | `SerializesTransitions`: `apply()` is re-entrant "when already inside `_apply`", but the depth is anyone's, so a worker passes the lock of another caller |
| `MCFairSchedulerFanOut.cfg` | `MCFairScheduler` | `FanOutIsFair`: a task that comes back to a lane goes before the cursor, which starves the others (design 22 promises the contrary).  `QueuedIsServed`, with its condition that nothing comes back for ever, holds there too |
| `MCFairSchedulerSettled.cfg` | `MCFairScheduler` | `SettledStaysQuiet`: `wait_task_idle` looks at no lane below a held barrier, which may be another task's |
| `MCResearchTaskStray.cfg` | `MCResearchTask` | `PausedIsSettled`: and the manager declares the task PAUSED on that word alone; its procedures start when the other task is continued or stopped |
| `MCResearchTaskForgotten.cfg` | `MCResearchTask` | `EveryLeafHasWork`: the end of those procedures is refused in PAUSED (`reducer.py:1311`), and the leaf is left without any work (design 10 promises the contrary) |
| `MCResearchTaskEdge.cfg` | `MCResearchTask` | `RejectedEdgeEndsAlone`: a rejected edge fails the whole task (design 10.1) |
| `MCResearchTaskCredits.cfg` | `MCResearchTask` | `CreditEquation`: a continue from PAUSED forgives debts (design 11.7) |
| `MCResearchTaskOldRound.cfg` | `MCResearchTask` | `LeavesAreOfThisRound`: a checkpoint summarized across a stop and a continue gives the new round leaves of the old |
| `MCResearchTaskHeld.cfg` | `MCResearchTask` | `RunningIsNotHeld`: after a stop, or the expiry, of a paused task a continue starts a round whose calls never run |

Pause with another task paused (the two `MCResearchTask` rows above): task A is paused with a
summary queued; the procedures of task B are queued behind it; B is paused, is counted idle
and becomes PAUSED; A is continued, and B's procedures run.  `NoBranchForgotten` and
`PausedIsQuiet` hold for every other branch, which is what they say, and what is proved.

Branch ids, given anew (`{parent}:{n}`, see `rows` above): the attempt to prove that every
leaf is routed failed on them, and TLC confirmed it.  The summary of a rejected edge that
comes late takes the routing entry of whatever branch has its name
(`manager.py:1585`, `_branches.pop`), or ends that branch.  Within the round that runs no
leaf is hit before the task fails or the accounts are broken, and that is what is proved;
a leaf of an earlier round that a checkpoint left behind can lose its route.  No insert
ever conflicts (`RowsAreNew`), because a branch plans again only after its children and
their rows are of another line.

Reports (each is a value of `mishaps` in `ReportEpochs`, or the reason for one):

- `report_epoch` is not reset by a new round, while the coordinator counts from one: from
  the second round on the two numbers differ from the start.  Grace that expires for a
  number the coordinator does not have is lost; a record with a number the controller does
  not have is dropped.
  `MCReportEpochsLater.cfg` is the run `epochs` for a second round (`InitialEpochs = {1}`,
  344 000 states): the properties of `epochs` hold there too.
- A pause with an epoch open lets its synthesis end unheard; a last branch that finalizes
  in PAUSING leaves a task that can only expire.
- `_sync_coordinator_live_leaves` may revive a branch the coordinator had ended.
- Three failing attempts at a synthesis leave the round to the deadline, or to nobody.

Delivery: "only once" in the comments is at least once: an answer that is lost makes the
notice be given again.  A reminder may be given after its feedback when the poll had read
its state before the feedback was committed; never a second time.

Index: overlapping rebuilds may lose a lesson whose job is done, hence the condition
`~overlapped` of `DoneStaysIndexed`.  Jobs refused with "rebuilding" are reported as
pending and never tried again.  Only lessons of feedback are enqueued.  The `empty_ok`
branch of `ensure_ready` cannot be reached.

Procedures: what the first attempt charged is not charged once the second has answered.
An exception out of `llm.generate` loses the charges of the contractor's call.  Nested
procedures of a contractor go to the built-in provider past a list of three that are
forbidden; the docstring speaks of an allow list, but neither that of the agent nor the
catalog of the round is asked.  A provider whose definition has no time limit may hold a batch
for ever.

Extensions and lifecycle: the listener stores fingerprints after the scan's lock is
released, so it may find the store closed, and then only errors.  Agents that come from
plugins are all taken to have declared a protocol, which makes `[protocol] default_mode`
have no effect.  One failing description drops the whole batch of its plugin until the
next scan, and so does a handover of an identifier between plugins.  The root agent is not
checked when the configuration changes.  `start()` does not take `_lifecycle_lock`; it is
sound because the host unloads a plugin only after `on_load` has returned.
`manager.shutdown` drops the report coordinators without a cancellation of their
`_synthesis_tasks` (`epochs.py:518`), which may still ask for the store after `close()`.
`NothingOutlives` is about the resources as wholes and the tasks and scans of the
discoveries; that a resource leaves nothing of its own running is not claimed.

## 6. Proofs

Each theorem is proved for every value of the constants that its module's `ASSUME`s admit;
the assumptions only give the constants their types and say what the code fixes (finite sets
where a run is finite, natural bounds, names that differ, an idempotent procedure is one of
the catalog, a reload has a second discovery), and TLC evaluates them in every run.  Each
`<module>_proofs` has the same shape: `IInv` is defined in the module itself, lemmas about
its operators come first, then one lemma for an action or a group of them, then
`Invariant == Spec => []IInv` and the theorems that follow from it.  TLC has checked each `IInv` with
the constants of the module's run (and of `MCReportEpochsLater.cfg`), and that of
`VectorIndex` also with one lesson, a stored archive and two troubles; to repeat it, put
`INVARIANT IInv` into the configuration.

| Module | Theorem | States | Over every |
| --- | --- | --- | --- |
| `TaskController` | `CommitBeforeEffect` | `EffectsAfterCommit` | reducer, events, finite set of callers |
| | `MemoryMatchesStore` | `NothingForgotten` | |
| | `ImplementsSerialTask` | `Serial`, the refinement | |
| | `StopIsFinal` | `StoppedIsFinal` | |
| `FairScheduler` | `AccountsHold` | `Accounts` | finite sets of tasks and effects, limits, generations |
| | `SleepIsSafe` | `NeverOversleeps` | |
| | `StartsAreAllowed` | `StartsOnlyWhatMay` | |
| `ResearchTask` | `TaskInvariant` | `TaskInv` | set of turns, credits, costs; budget, depth, limits, pauses, continues; whatever other tasks hold at the barrier |
| | `PausedTaskIsQuiet` | `PausedIsQuiet` | |
| | `PastIsPast` | `PastStaysPast` | |
| | `CreditsAddUp` | `CreditsAccounted` | |
| `Planning` | `PlansKeepCredits` | `CreditsKept` | edges asked for, costs, balances, leaves, counters and limits |
| | `FirstEdgesFit` | `FirstThatFit` | |
| | `OneWayIsLeft` | `OneWayOn` | |
| `ReportEpochs` | `CoordinatorAgrees` | `RoundInv` | number of branches, turns, deadlines, faults, pauses, earlier epochs |
| | `FinalReportCoversAll` | `FinalCoversAll` | |
| `Delivery` | `RowsAreInOrder` | `RowsInv` | rounds, reports, size of a claim, stops and faults |
| | `RepeatsAreExcused` | `NothingTwice` | |
| | `ImplementsNotices` | `KeepsPromise`, the refinement | |
| `Procedures` | `RetriesAreSafe` | `RepeatsAreSafe` | catalog, batch, costs, budget, turns, nested requests |
| | `BatchesAreWhole` | `BatchIsWhole` | |
| | `ChargesAreSpent` | `ChargedIsSpent` | |
| | `ContractorIsBounded` | `ContractorBound` | |
| | `CallsFinish` | `CallsComeToAnEnd` | |
| `Services`, `Extensions` | `OneOwnerAlways` | `OneOwner` | plugins, offers, views of the host, callers, discoveries, troubles |
| | `NothingOutlivesTheEnd` | `NothingOutlives` | |
| | `ListedStaysListed` | `ListedStays` | |
| `VectorIndex` | `ServedIsWhole` | `ServedInv` | lessons, commands, models, changes, troubles |
| | `DoneIsFound` | `DoneStaysIndexed` | |

The arguments, and why the invariants need what they have:

- **TaskController.** `EffectsAfterCommit` is not inductive: that the running transaction is
  reported committed must imply that its event is durable (`Reported`); that needs the
  queue of the store to hold each application once (`Applications`), and that needs the
  depth to be the number of applications, or `apply()` could pass the lock with none under
  way.  `Alone` says what remains of the lock while nothing overlapped: whoever applies
  holds it and was reduced from the present state.
- **FairScheduler.** To the accounts the invariant adds that an entry is queued once in its
  queue (`QueuedOnce`): otherwise taking it would leave its copy behind, queued and active
  at once.  `NeverOversleeps` needs `LoopFollows`: what is queued before the dispatcher
  first runs has set the event, nobody waits for an idle task before it has, and it does not
  sleep while the scheduler is closing.  The lemmas say what a lane is after each operation
  (`JoinedIsOK`, `TakenIsOK`, `SweptIsOK`) and how a counter goes with its set (`OneMore`);
  `PickedProperties` is what `Selection` returns.
- **ResearchTask.** `OneOfALine` is the heart: of a branch, its ancestors and its descendants
  one is worked on, by one effect or at one checkpoint.  That a leaf has exactly one piece
  of work follows from it and `LeavesHaveWork`; that no insert meets a row of the same
  name follows from it and `RowsAreBehind`.  `SwapKeeps` is every step that replaces one
  piece of work by another of the same branch, `PlanKeeps` every plan that is carried out,
  `StillKeeps` every step that moves none, `RoundBegins` every new round.  `TreeOK`, that
  all work is of leaves of the round, holds only while `exact`: section 5 says what breaks it.
  `PastIsPast` adds what a late event may not do: what ended stays ended, because a row is
  written once (`RowsAreBehind`) and a branch that is to be made has none.
  `PausedOK` is why a paused task is quiet but for its strays: the procedures that are queued
  have a summary of the task itself before them, which the pause holds; `LeavesHaveWork`
  excepts the same branches, and `OtherTasksKeeps` shows that nothing else of the invariant
  depends on what the other tasks hold.
- **Credits.** A sum over a finite set is a recursive function, and the library's induction
  theorems cannot be instantiated here; the lemmas on sums are therefore proved from the
  least number, or the smallest set, for which they fail (`EveryNumber`, `EverySubset`, about
  sets in the place of predicates).  From them follow what a sum does when an element comes,
  goes or is renamed (`SumAdds`, `SumRenamed`), and from those what a plan moves.
  `AccountsOK` is the invariant behind `CreditsAccounted`: the amounts are numbers, a
  queued effect or a checkpoint carries the balance its leaf is listed with, but for the
  estimate of a call under way, and until the first of its children is made a parent that
  delegated is listed with what its queued children are to have and the pool to get back.
  Its proof has one lemma for each way money moves: none at all (`QuietAccounts`), the
  balance of one leaf carried on by its work (`BranchAccounts`), a child that gets what was
  set aside for it (`MaterializeAccounts`), a branch that ends into the pool
  (`FinalizeAccounts`), a round that spreads it (`RoundAccounts`, `ContinuePausedAccounts`).
  TLC has checked `AccountsOK` with the constants of `task`, and
  with fewer turns and more charges.
- **ReportEpochs.** The operators of the coordinator are proved about any coordinator that is
  `Sound` (`CheckpointedIs`, `OpenedIs`, `ConsideredIs`, ...), and `Changed` is the one lemma
  for all steps that replace it.  `Mates` has controller and coordinator agree on who is at work;
  `Kin` is needed because a parent whose children are queued could otherwise be held or
  ended as well; `SynthesisFollows` because a finished epoch that is armed again would leave
  the next one without a synthesis; `FinalHolds` carries what a FINAL epoch covers to the end.
- **Delivery.** `GivenAsRecorded` counts how often a notice was given against what was lost,
  row state by row state; the claim and the record in between are `BatchIsLeased` and
  `WorkerKnows`.  A trigger follows its report (`TriggersFollow`), a reminder its state
  (`RemindersFollow`).  `PromiseStep` maps each step to one of `Notices` or a stutter.
- **Procedures.** The invariant of the batch is one of each call (`CallInv`) and of the fold
  (`FoldFollows`), so a step of one call disturbs only its own: `AttemptsFollow` says what
  allowed a second attempt, `MeterFollows` what is charged, `TurnsAreFunded` that a turn
  begins within the budget and that, at the worst, its procedures still to be paid end at
  `MostSpent`.  `CallsComeToAnEnd` is what of `BatchEnds` can be proved: each step of a call
  begins one of the turns it may have, or leaves less to do in the one it is in
  (`StepsLeft`); that a call which can go on does is the fairness, and TLC's.  It is stated
  by this theorem only; TLC has checked it, and `TurnsAreCounted`, with the constants of
  `procedures`.
- **Services.** The lifecycle is at some place of a fixed sequence (`StartGoes`, `EndGoes`), so
  everything that is open is still to be closed, the store last (`StoreFirst`).  `OneInService`
  orders the discoveries: those before the current one have shut and do not scan.
  `Reloading` gives a reload the lifecycle's lock.  The part of `Extensions`,
  `ExtensionsOK`, is kept by each operation on the registry (`ReplaceKeeps`, `DropKeeps`,
  `ScanKeeps`) whatever the lifecycle does meanwhile.  In `ListedStays` a failing call excuses
  only the plugin it asked.
- **VectorIndex.** A candidate belongs to one rebuild (`OwnersOK`) that fills its table before
  it switches (`CallerOK`); only what was activated lists documents (`GensOK`), and a lesson
  goes to the table before it goes to the list.  `NothingIsMissed` is why a switch loses no
  lesson: between its list and its switch a rebuild keeps the flag set, so that whatever is
  being appended, or done, is on its list.  It holds as long as no other rebuild cleared the flag.
  `CallerKeeps` and `StepKeeps` say when the step of one coroutine leaves the others' facts
  alone.  `AtRest`, that nobody runs while the plugin is down, is what a restart begins with.

Only model-checked:

- liveness (`EveryCallReturns`, `QueuedIsServed`, `CallsReturn`, `RoundEnds`, `HeldIsReleased`,
  `ReportsArrive`, `RemindersCome`, `RebuildEnds`, `BatchEnds`, `CloseEnds`, `FitIsListed`): no
  prover at hand reasons about ENABLED, and so about fairness;
- the three violations, which are counterexamples and need none.


## 7. Not modelled

- Restart of a task (`restore_tasks`): the design keeps only the summaries and the pool of
  a round; what its leaves held is gone, and so is the count of calls.  Nothing of it runs
  concurrently; `Delivery`, `VectorIndex` and `Services` have the ends of the process that
  matter to what is persisted.
- Other tasks beside `ResearchTask`, but for `gated`: they share the LLM and procedure limits,
  which only delay, and the barrier lane.
- What the manager leaves running when it is closed (section 5).
- Auto-compaction of a branch's context, added context, inputs of the formalization.
- The LLM gateway apart from its outcomes: parsing and repair of envelopes, prices and token
  estimates; the summarizer answers or fails.
- Bundled procedures other than the contractor: each is one call that keeps no state.
- Prompt contexts, statistics, commands, tools, data models and configuration: data, text and
  queries; the operations commands call are actions of the modules.
- Migrations of the schema, the debug store and its sanitizing of payloads.

## 8. What is left

1. An abstract task (one piece of work for each leaf, moved by plans) that `ResearchTask`
   implements, as `SerialTask` and `Notices` are of theirs.
2. `ReportEpochs` composed with `ResearchTask`, where each now abstracts the other.
3. Restarts in `ResearchTask`, and several tasks with their pauses over one scheduler.
