--------------------------- MODULE FairScheduler ---------------------------
(***************************************************************************)
(* The process-wide scheduler of effects (runtime/scheduler.py): one lane  *)
(* per priority, in it one FIFO queue per task and a cursor that says      *)
(* whose turn it is; limits on the LLM calls and procedures under way; a   *)
(* dispatcher coroutine that sleeps on an asyncio.Event; and the waiters   *)
(* of wait_task_idle(), which sleep on, and clear, the same event.         *)
(*                                                                         *)
(* Everything runs on one event loop.  The dispatcher does not await       *)
(* between two launches, so while it runs no other action is enabled; the  *)
(* other methods are one step each.                                        *)
(***************************************************************************)
EXTENDS Integers, FiniteSets, Selection, SequencesExt

CONSTANTS Tasks, NoTask,
          Effects,      \* records [id, task, gen, kind, prio]
          Reusable,     \* those of which the task may queue the like again and again
          Pausable,     \* tasks somebody may pause
          Generations,  \* generations a stop may cancel
          LimitChoices, \* records [llm, taskLlm, taskProc] of configured limits
          InitialLimits

Kinds == {"agent", "summarizer", "procedure", "other"}

\* _PRIORITY_RANK, highest first.
Ranks == <<"barrier", "critical", "high", "normal", "low">>
Priorities == Range(Ranks)

ASSUME TasksAssumption == NoTask \notin Tasks /\ IsFiniteSet(Tasks)
ASSUME EffectsAssumption ==
    /\ IsFiniteSet(Effects)
    /\ \A e \in Effects : /\ e.task \in Tasks /\ e.gen \in Nat
                          /\ e.kind \in Kinds /\ e.prio \in Priorities
ASSUME LimitsAssumption ==
    /\ InitialLimits \in LimitChoices
    /\ LimitChoices \subseteq [llm : Nat, taskLlm : Nat, taskProc : Nat]
ASSUME GenerationsAssumption == Generations \subseteq Nat

VARIABLES lanes,      \* _queues, _cursor and _dispatched of each priority
          active,     \* effects in _active: started, and not over
          llm, taskLlm, taskProc, \* _global_llm_active and the two Counters
          limits,     \* _limits
          paused,     \* _paused
          cancelled,  \* _cancelled_through
          closing, closed,
          wake,       \* _wake.is_set()
          dispatcher, \* where the dispatcher coroutine is
          waiter,     \* where the wait_task_idle() of each task is
          queuedOnce, \* bound: effects queued so far
          settled     \* history: paused tasks that wait_task_idle() found idle

counters == <<llm, taskLlm, taskProc>>
flags == <<limits, paused, cancelled>>
loop == <<wake, dispatcher, waiter>>
vars == <<lanes, active, llm, taskLlm, taskProc, limits, paused, cancelled, closing, closed,
          wake, dispatcher, waiter, queuedOnce, settled>>

\* A priority without queues.
Vacant == [ring |-> <<>>, work |-> [t \in Tasks |-> <<>>],
           cursor |-> NoTask, dispatched |-> FALSE]

\* After start(): the dispatcher is created and has not run yet.
Init == /\ lanes = [p \in Priorities |-> Vacant]
        /\ active = {}
        /\ llm = 0 /\ taskLlm = [t \in Tasks |-> 0] /\ taskProc = [t \in Tasks |-> 0]
        /\ limits = InitialLimits
        /\ paused = {}
        /\ cancelled = [t \in Tasks |-> -1]
        /\ closing = FALSE /\ closed = FALSE
        /\ wake = FALSE
        /\ dispatcher = "fresh"
        /\ waiter = [t \in Tasks |-> "none"]
        /\ queuedOnce = {}
        /\ settled = {}

-----------------------------------------------------------------------------
(***************************************************************************)
(* One lane                                                                *)
(***************************************************************************)

Entries(lane, t) == Range(lane.work[t])
Queued == UNION {Entries(lanes[p], t) : p \in Priorities, t \in Tasks}

\* The lane with another ring, other queues and another cursor.
With(lane, ring, work, cursor) ==
    [ring |-> ring, work |-> work, cursor |-> cursor, dispatched |-> lane.dispatched]

\* _cleanup_priority: an empty lane goes, a lost cursor restarts at the front.
Cleaned(lane) ==
    IF lane.ring = <<>> THEN Vacant
    ELSE IF lane.cursor \in Range(lane.ring) THEN lane
    ELSE With(lane, lane.ring, lane.work, Head(lane.ring))

\* Mutant of Swept: the generation that was stopped keeps its entries.
SweptBelow(lane, S, through) ==
    LET work == [t \in Tasks |->
                    IF t \in S THEN Picked(lane.work[t], {e \in Effects : e.gen >= through[t]})
                               ELSE lane.work[t]]
        ring == Picked(lane.ring, {t \in Tasks : work[t] # <<>>})
    IN Cleaned(With(lane, ring, work, lane.cursor))

\* The lane without the entries of the tasks S whose generation is over.
Swept(lane, S, through) ==
    LET work == [t \in Tasks |->
                    IF t \in S THEN Picked(lane.work[t], {e \in Effects : e.gen > through[t]})
                               ELSE lane.work[t]]
        ring == Picked(lane.ring, {t \in Tasks : work[t] # <<>>})
    IN IF S \intersect Range(lane.ring) = {} THEN lane
       ELSE Cleaned(With(lane, ring, work, lane.cursor))

\* The lane with e queued.  A task that was not in the lane, once the lane has
\* dispatched, goes immediately before the cursor and takes it.
Joined(lane, e) ==
    LET t == e.task
        work == [lane.work EXCEPT ![t] = Append(@, e)]
    IN IF t \in Range(lane.ring) THEN With(lane, lane.ring, work, lane.cursor)
       ELSE IF lane.cursor = NoTask THEN With(lane, Append(lane.ring, t), work, t)
       ELSE IF lane.dispatched /\ lane.cursor \in Range(lane.ring)
            THEN With(lane, <<t>> \o lane.ring, work, t)
       ELSE With(lane, Append(lane.ring, t), work, lane.cursor)

\* The lane after the task at ring position k lost its i-th entry to a launch.
Taken(lane, k, i) ==
    LET t == lane.ring[k]
        rest == RemoveAt(lane.work[t], i)
        ring == IF rest = <<>> THEN RemoveAt(lane.ring, k) ELSE lane.ring
        turn == IF rest = <<>> THEN k - 1 ELSE k
    IN IF ring = <<>> THEN [Vacant EXCEPT !.dispatched = TRUE]
       ELSE [ring |-> ring, work |-> [lane.work EXCEPT ![t] = rest],
             cursor |-> ring[(turn % Len(ring)) + 1], dispatched |-> TRUE]

-----------------------------------------------------------------------------
(***************************************************************************)
(* What may start                                                          *)
(***************************************************************************)

UsesLlm(e) == e.kind \in {"agent", "summarizer"}
IsCancelled(e) == e.gen <= cancelled[e.task]

\* Mutant of HasCapacity: one call too many.
HasCapacityOffByOne(e) ==
    CASE e.kind = "agent" -> llm <= limits.llm /\ taskLlm[e.task] < limits.taskLlm
      [] e.kind = "summarizer" -> llm < limits.llm
      [] e.kind = "procedure" -> taskProc[e.task] < limits.taskProc
      [] OTHER -> TRUE

HasCapacity(e) ==
    CASE e.kind = "agent" -> llm < limits.llm /\ taskLlm[e.task] < limits.taskLlm
      [] e.kind = "summarizer" -> llm < limits.llm
      [] e.kind = "procedure" -> taskProc[e.task] < limits.taskProc
      [] OTHER -> TRUE

\* _can_start
CanStart(e) == /\ ~IsCancelled(e)
               /\ e.task \in paused => ~UsesLlm(e)
               /\ HasCapacity(e)

\* A lane's first startable task from the cursor on, as a ring position; 0 if none.
NextTurn(lane) ==
    LET n == Len(lane.ring)
        start == SelectInSeq(lane.ring, LAMBDA t : t = lane.cursor)
        from(offset) == IF start = 0 THEN offset + 1 ELSE ((start - 1 + offset) % n) + 1
        ready == {o \in 0 .. n - 1 : \E e \in Entries(lane, lane.ring[from(o)]) : CanStart(e)}
    IN IF ready = {} THEN 0
       ELSE from(CHOOSE o \in ready : \A other \in ready : o <= other)

\* The rank _take_runnable serves; 0 if nothing is runnable.  A barrier lane
\* that cannot move holds back every lower one.
NextRank ==
    LET ready == {r \in DOMAIN Ranks : NextTurn(lanes[Ranks[r]]) > 0}
    IN IF ready = {} \/ (lanes["barrier"].ring # <<>> /\ 1 \notin ready) THEN 0
       ELSE CHOOSE r \in ready : \A other \in ready : r <= other

-----------------------------------------------------------------------------

\* Event.set(): the dispatcher and the waiters asleep on the event are resumed.
SignalDispatcher ==
    /\ wake' = TRUE
    /\ dispatcher' = IF dispatcher = "asleep" THEN "woken" ELSE dispatcher
Signal ==
    /\ SignalDispatcher
    /\ waiter' = [t \in Tasks |-> IF waiter[t] = "asleep" THEN "woken" ELSE waiter[t]]

\* Others run only while the dispatcher is suspended.
Yielded == dispatcher # "running"

\* The task manager is shut down before the scheduler is closed.
Managed == Yielded /\ ~closing

\* enqueue.  What a task queues while it is paused, and what it queues again and
\* again, comes from its own effects under way.
Enqueue(e) ==
    /\ Yielded
    /\ ~closing /\ ~closed
    /\ e \notin queuedOnce \/ e \in Reusable
    /\ e \notin Queued /\ e \notin active
    /\ e.task \in paused \/ e \in queuedOnce => \E a \in active : a.task = e.task
    /\ ~IsCancelled(e)
    /\ lanes' = [lanes EXCEPT ![e.prio] = Joined(@, e)]
    /\ queuedOnce' = queuedOnce \union {e}
    /\ Signal
    /\ UNCHANGED <<active, counters, flags, closing, closed, settled>>

PauseTask(t) ==
    /\ Managed
    /\ t \in Pausable \ paused
    /\ paused' = paused \union {t}
    /\ Signal
    /\ UNCHANGED <<lanes, active, counters, limits, cancelled, closing, closed, queuedOnce, settled>>

\* Mutant of ResumeTask: nobody is told.
ResumeTaskSilently(t) ==
    /\ Managed
    /\ t \in paused
    /\ paused' = paused \ {t}
    /\ settled' = settled \ {t}
    /\ UNCHANGED <<lanes, active, counters, limits, cancelled, closing, closed, loop, queuedOnce>>

ResumeTask(t) ==
    /\ Managed
    /\ t \in paused
    /\ paused' = paused \ {t}
    /\ settled' = settled \ {t}
    /\ Signal
    /\ UNCHANGED <<lanes, active, counters, limits, cancelled, closing, closed, queuedOnce>>

\* cancel_generation: queued effects go, those under way are only marked.  A
\* stop opens a new generation, so no task cancels one twice.
CancelGeneration(t, g) ==
    /\ Managed
    /\ g > cancelled[t]
    /\ cancelled' = [cancelled EXCEPT ![t] = g]
    /\ lanes' = [p \in Priorities |-> Swept(lanes[p], {t}, [cancelled EXCEPT ![t] = g])]
    /\ Signal
    /\ UNCHANGED <<active, counters, limits, paused, closing, closed, queuedOnce, settled>>

\* Mutant of UpdateLimits: nobody is told.
UpdateLimitsSilently(l) ==
    /\ Managed
    /\ l # limits
    /\ limits' = l
    /\ UNCHANGED <<lanes, active, counters, paused, cancelled, closing, closed, loop, queuedOnce, settled>>

\* update_limits: a lower limit only holds back later launches.
UpdateLimits(l) ==
    /\ Managed
    /\ l # limits
    /\ limits' = l
    /\ Signal
    /\ UNCHANGED <<lanes, active, counters, paused, cancelled, closing, closed, queuedOnce, settled>>

\* The manager's shutdown cancels the waits; then close: intake stops and every
\* queue is dropped.
Close ==
    /\ Managed
    /\ closing' = TRUE
    /\ lanes' = [p \in Priorities |-> Vacant]
    /\ waiter' = [t \in Tasks |-> "none"]
    /\ SignalDispatcher
    /\ UNCHANGED <<active, counters, flags, closed, queuedOnce, settled>>

\* _finish_close: the dispatcher has ended, then everything it had started.
FinishClose ==
    /\ closing /\ ~closed
    /\ dispatcher = "done"
    /\ active = {}
    /\ closed' = TRUE
    /\ UNCHANGED <<lanes, active, counters, flags, closing, loop, queuedOnce, settled>>

-----------------------------------------------------------------------------

\* _dispatch_loop up to where it sleeps or runs: it clears the event it saw set.
WakeDispatcher ==
    /\ dispatcher \in {"fresh", "woken"}
    /\ IF closing THEN dispatcher' = "done" /\ UNCHANGED wake
       ELSE IF dispatcher = "fresh" /\ ~wake THEN dispatcher' = "asleep" /\ UNCHANGED wake
       ELSE dispatcher' = "running" /\ wake' = FALSE
    /\ UNCHANGED <<lanes, active, counters, flags, closing, closed, waiter, queuedOnce, settled>>

\* _reserve, and the entry in _active.
Reserve(e) ==
    /\ active' = active \union {e}
    /\ llm' = IF UsesLlm(e) THEN llm + 1 ELSE llm
    /\ taskLlm' = IF e.kind = "agent" THEN [taskLlm EXCEPT ![e.task] = @ + 1] ELSE taskLlm
    /\ taskProc' = IF e.kind = "procedure" THEN [taskProc EXCEPT ![e.task] = @ + 1] ELSE taskProc

\* _take_runnable and _launch of the entry found: the first startable one of the
\* task whose turn it is.  (_discard_cancelled_queued finds nothing to discard:
\* NoCancelledQueued.)
Launch ==
    /\ dispatcher = "running"
    /\ \E r \in DOMAIN Ranks \intersect {NextRank} :
       \E k \in {NextTurn(lanes[Ranks[r]])} :
       \E queue \in {lanes[Ranks[r]].work[lanes[Ranks[r]].ring[k]]} :
       \E i \in {SelectInSeq(queue, CanStart)} :
           /\ lanes' = [lanes EXCEPT ![Ranks[r]] = Taken(@, k, i)]
           /\ Reserve(queue[i])
    /\ UNCHANGED <<flags, closing, closed, loop, queuedOnce, settled>>

\* Nothing is runnable: the dispatcher waits for the event again.
Sleep ==
    /\ dispatcher = "running"
    /\ NextRank = 0
    /\ dispatcher' = "asleep"
    /\ UNCHANGED <<lanes, active, counters, flags, closing, closed, wake, waiter, queuedOnce, settled>>

\* Mutant of Finish: nobody is told.
FinishSilently(e) ==
    /\ Yielded
    /\ e \in active
    /\ active' = active \ {e}
    /\ llm' = IF UsesLlm(e) THEN llm - 1 ELSE llm
    /\ taskLlm' = IF e.kind = "agent" THEN [taskLlm EXCEPT ![e.task] = @ - 1] ELSE taskLlm
    /\ taskProc' = IF e.kind = "procedure" THEN [taskProc EXCEPT ![e.task] = @ - 1] ELSE taskProc
    /\ UNCHANGED <<lanes, flags, closing, closed, loop, queuedOnce, settled>>

\* _run_entry's finally clause: the worker returned or raised.
Finish(e) ==
    /\ Yielded
    /\ e \in active
    /\ active' = active \ {e}
    /\ llm' = IF UsesLlm(e) /\ llm > 0 THEN llm - 1 ELSE llm
    /\ taskLlm' = IF e.kind = "agent" /\ taskLlm[e.task] > 0
                  THEN [taskLlm EXCEPT ![e.task] = @ - 1] ELSE taskLlm
    /\ taskProc' = IF e.kind = "procedure" /\ taskProc[e.task] > 0
                   THEN [taskProc EXCEPT ![e.task] = @ - 1] ELSE taskProc
    /\ Signal
    /\ UNCHANGED <<lanes, flags, closing, closed, queuedOnce, settled>>

-----------------------------------------------------------------------------

\* _pause_runnable_queued_counts: a barrier that a pause holds hides the lower lanes.
BarrierHeld == \E t \in paused : \E e \in Entries(lanes["barrier"], t) :
                   ~IsCancelled(e) /\ UsesLlm(e)

\* task_inflight_count is zero.
Quiet(t) ==
    /\ \A e \in active : e.task # t
    /\ \A p \in (IF BarrierHeld THEN {"barrier"} ELSE Priorities) :
           \A e \in Entries(lanes[p], t) : IsCancelled(e) \/ UsesLlm(e)

\* wait_task_idle, from its call or from a wake-up: it returns, or it clears
\* the event and sleeps on it.  A first pause comes long after the dispatcher
\* first ran.
CheckIdle(t) ==
    /\ IF Quiet(t)
       THEN /\ waiter' = [waiter EXCEPT ![t] = "none"]
            /\ settled' = settled \union ({t} \intersect paused)
            /\ UNCHANGED wake
       ELSE /\ waiter' = [waiter EXCEPT ![t] = "asleep"]
            /\ wake' = FALSE
            /\ UNCHANGED settled
    /\ UNCHANGED <<lanes, active, counters, flags, closing, closed, dispatcher, queuedOnce>>

WaitTaskIdle(t) == /\ Managed /\ dispatcher # "fresh"
                   /\ waiter[t] = "none" /\ t \in paused /\ t \notin settled
                   /\ CheckIdle(t)

Recheck(t) == Yielded /\ waiter[t] = "woken" /\ CheckIdle(t)

Next == \/ \E e \in Effects : Enqueue(e) \/ Finish(e)
        \/ \E t \in Tasks : PauseTask(t) \/ ResumeTask(t) \/ WaitTaskIdle(t) \/ Recheck(t)
        \/ \E t \in Tasks, g \in Generations : CancelGeneration(t, g)
        \/ \E l \in LimitChoices : UpdateLimits(l)
        \/ Close \/ FinishClose
        \/ WakeDispatcher \/ Launch \/ Sleep

\* The event loop resumes the dispatcher, the waiters and the closer, and a
\* worker ends (LLM calls and procedures carry deadlines).  The loop's ready
\* queue is first come, first served: a dispatcher that runs now and then
\* cannot keep the others from their turn, hence the strong fairness.
Fairness ==
    /\ WF_vars(WakeDispatcher) /\ WF_vars(Launch) /\ WF_vars(Sleep) /\ WF_vars(FinishClose)
    /\ \A e \in Effects : SF_vars(Finish(e))
    /\ \A t \in Tasks : SF_vars(Recheck(t))

Spec == Init /\ [][Next]_vars /\ Fairness

-----------------------------------------------------------------------------

TypeOK ==
    /\ lanes \in [Priorities -> [ring : Seq(Tasks), work : [Tasks -> Seq(Effects)],
                                 cursor : Tasks \union {NoTask}, dispatched : BOOLEAN]]
    /\ active \subseteq Effects
    /\ llm \in Nat /\ taskLlm \in [Tasks -> Nat] /\ taskProc \in [Tasks -> Nat]
    /\ limits \in LimitChoices
    /\ paused \subseteq Tasks /\ settled \subseteq paused
    /\ cancelled \in [Tasks -> Int]
    /\ closing \in BOOLEAN /\ closed \in BOOLEAN /\ wake \in BOOLEAN
    /\ dispatcher \in {"fresh", "asleep", "woken", "running", "done"}
    /\ waiter \in [Tasks -> {"none", "asleep", "woken"}]
    /\ queuedOnce \subseteq Effects

\* A lane's ring lists, once, each task with entries in it; the cursor is one of
\* them; every entry is in its own task's queue of its own priority.
LanesWellFormed ==
    \A p \in Priorities : LET lane == lanes[p] IN
        /\ \A i, j \in DOMAIN lane.ring : lane.ring[i] = lane.ring[j] => i = j
        /\ Range(lane.ring) = {t \in Tasks : lane.work[t] # <<>>}
        /\ IF lane.ring = <<>> THEN lane.cursor = NoTask ELSE lane.cursor \in Range(lane.ring)
        /\ \A t \in Tasks : \A e \in Entries(lane, t) : e.task = t /\ e.prio = p

\* The counters are the effects under way: nothing is released twice or leaked.
CountersMatchActive ==
    /\ llm = Cardinality({e \in active : UsesLlm(e)})
    /\ \A t \in Tasks :
          /\ taskLlm[t] = Cardinality({e \in active : e.task = t /\ e.kind = "agent"})
          /\ taskProc[t] = Cardinality({e \in active : e.task = t /\ e.kind = "procedure"})

\* A stopped generation leaves nothing queued.
NoCancelledQueued == \A e \in Queued : ~IsCancelled(e)

\* An effect is queued or under way, never both: a worker runs it once.
InOnePlace == Queued \intersect active = {}

\* The accounts of the scheduler agree with one another at every step.
Accounts == TypeOK /\ LanesWellFormed /\ CountersMatchActive /\ NoCancelledQueued /\ InOnePlace

\* The dispatcher never sleeps over something it could start, although the
\* waiters of wait_task_idle() clear the event it sleeps on: no lost wake-up.
NeverOversleeps == dispatcher = "asleep" => NextRank = 0 /\ ~closing

\* What a step starts, it may start: its generation lives, its task is not
\* paused, the LLM calls and procedures under way, its own included, are within
\* the limits, and nothing of a higher priority could have started instead.
StartsOnlyWhatMay ==
    [][\A e \in active' \ active :
          /\ ~IsCancelled(e)
          /\ ~closing
          /\ UsesLlm(e) => /\ e.task \notin paused
                           /\ Cardinality({a \in active' : UsesLlm(a)}) <= limits.llm
          /\ e.kind = "agent" =>
                Cardinality({a \in active' : a.kind = "agent" /\ a.task = e.task}) <= limits.taskLlm
          /\ e.kind = "procedure" =>
                Cardinality({a \in active' : a.kind = "procedure" /\ a.task = e.task}) <= limits.taskProc
          /\ \A i, j \in DOMAIN Ranks : j < i /\ Ranks[i] = e.prio =>
                \A t \in Tasks : \A other \in Entries(lanes[Ranks[j]], t) : ~CanStart(other)
          /\ e.prio = "barrier" \/ \A t \in Tasks : Entries(lanes["barrier"], t) = {}]_vars

\* Every effect queued is started, or dropped by a stop or the close, unless a
\* pause holds its task or some task's barrier.
Served ==
    \A e \in Effects : e \in Queued ~> e \notin Queued \/ e.task \in paused \/ BarrierHeld

\* From some time on nothing comes back to a lane it has been in.
RequeuesEnd == <>[][\A e \in queuedOnce : e \in Queued' => e \in Queued]_vars

\* However effects are queued, again too, limits are lowered and raised, tasks are
\* paused, resumed and stopped, and waits clear the dispatcher's event, every effect
\* queued is served, if no task re-joins its lane for ever.  (If one does, the cursor
\* it takes from the others each time may starve them, against design 22: see
\* FanOutIsFair.)
QueuedIsServed == RequeuesEnd => Served

\* Nobody pauses and resumes a task for ever.
PausesEnd == \A t \in Tasks : <>[](t \in paused) \/ <>[](t \notin paused)

\* wait_task_idle() returns once what the pause lets run is over, or its task
\* is resumed: no wake-up is lost on a waiter either.
WaitsReturn ==
    PausesEnd => \A t \in Tasks : waiter[t] # "none" ~> waiter[t] = "none" \/ t \notin paused

\* close() returns.
CloseEnds == closing ~> closed

\* Whoever waits for the scheduler is answered.
CallsReturn == WaitsReturn /\ CloseEnds

-----------------------------------------------------------------------------
(***************************************************************************)
(* The inductive invariant.                                                *)
(***************************************************************************)

\* An entry is queued once: its task and priority say in which queue.
QueuedOnce ==
    \A p \in Priorities, t \in Tasks : LET work == lanes[p].work[t] IN
        \A i, j \in DOMAIN work : work[i] = work[j] => i = j

\* Before the dispatcher first runs nobody waits, and what is queued has set the
\* event; it does not run, nor go to sleep, once the scheduler is closing.
LoopFollows ==
    /\ dispatcher = "fresh" =>
          /\ \A t \in Tasks : waiter[t] = "none"
          /\ wake \/ lanes = [p \in Priorities |-> Vacant]
    /\ dispatcher \in {"running", "asleep"} => ~closing

IInv == Accounts /\ QueuedOnce /\ LoopFollows /\ NeverOversleeps

-----------------------------------------------------------------------------
(***************************************************************************)
(* What the documents say and the code does not do.                        *)
(***************************************************************************)

\* "Fair scheduling keeps a task with a wide fan-out from starving the other tasks"
\* (design 22): every effect queued is served whatever other tasks queue.
FanOutIsFair == Served

\* "Wait until a paused task has no active or pause-runnable queued work"
\* (wait_task_idle): nothing of a paused task that was found idle runs.
SettledStaysQuiet == \A t \in settled : \A e \in active : e.task # t
===========================================================================
