--------------------------- MODULE TaskController ---------------------------
(***************************************************************************)
(* The driver of one research task (runtime/controller.py): a lock, a      *)
(* depth counter that lets apply() pass the lock, and the store's own      *)
(* first-come lock (storage/sqlite.py).  Callers are asyncio tasks of one  *)
(* event loop, so a step is what runs between two awaits that really       *)
(* yield: taking the lock, and the two ends of a transaction.              *)
(*                                                                         *)
(* The reducer is a parameter: the controller looks at nothing in a state  *)
(* but the outcome of reducing an event.  submit_and_drain() leaves at     *)
(* most its own event in the inbox (submit(), drain() and drain_once()     *)
(* have no caller under lunagentic_research_swarm/), so the inbox is the   *)
(* call itself.                                                            *)
(***************************************************************************)
EXTENDS Naturals, FiniteSets, SequencesExt

CONSTANTS Callers,      \* asyncio tasks using the controller
          Appliers,     \* those that enter by apply() rather than submit_and_drain()
          Cancellable,  \* those another task may cancel (timer jobs)
          Events, NoEvent, InitialState,
          Verdict(_, _), NextState(_, _), Failed(_),
          MaxFaults     \* bound: store errors explored

ASSUME CallersAssumption == /\ IsFiniteSet(Callers)
                            /\ Appliers \subseteq Callers
                            /\ Cancellable \subseteq Callers
ASSUME NoEventAssumption == NoEvent \notin Events
ASSUME FaultsAssumption == MaxFaults \in Nat

VARIABLES mem,      \* controller.state
          lockq,    \* _lock: the holder first, then the waiters in order
          depth,    \* _apply_depth
          stopped,  \* controller.stopped
          pc,       \* where each caller is suspended
          call,     \* the event of each caller's call
          next,     \* transition.next_state a caller is committing
          storeq,   \* SQLiteStateStore._lock: the running transaction first
          outcome,  \* what the worker thread did with the running transaction
          log,      \* events committed and assigned, in order
          durable,  \* events whose transaction is committed
          launched, \* events whose effects were handed to the scheduler
          faults,   \* store errors so far
          clean     \* history: no two applications overlapped, none was abandoned

ctl == <<mem, depth, stopped, log, launched>>
store == <<storeq, outcome, durable, faults>>
vars == <<mem, lockq, depth, stopped, pc, call, next, storeq, outcome, log,
          durable, launched, faults, clean>>

Init == /\ mem = InitialState
        /\ lockq = <<>>
        /\ depth = 0
        /\ stopped = FALSE
        /\ pc = [c \in Callers |-> "idle"]
        /\ call = [c \in Callers |-> NoEvent]
        /\ next = [c \in Callers |-> InitialState]
        /\ storeq = <<>>
        /\ outcome = "none"
        /\ log = <<>>
        /\ durable = {}
        /\ launched = {}
        /\ faults = 0
        /\ clean = TRUE

-----------------------------------------------------------------------------

Holds(c) == lockq # <<>> /\ Head(lockq) = c

\* Mutant of Return: the lock stays taken.
ReturnLocked(c) == /\ pc' = [pc EXCEPT ![c] = "idle"]
                   /\ call' = [call EXCEPT ![c] = NoEvent]
                   /\ next' = [next EXCEPT ![c] = InitialState]
                   /\ UNCHANGED lockq

\* The call returns; a caller that holds the lock releases it.
Return(c) == /\ pc' = [pc EXCEPT ![c] = "idle"]
             /\ call' = [call EXCEPT ![c] = NoEvent]
             /\ next' = [next EXCEPT ![c] = InitialState]
             /\ lockq' = IF Holds(c) THEN Tail(lockq) ELSE lockq

\* _apply_body up to its first await: reduce from the state of this moment
\* and queue the transaction.
StartApply(c, e) ==
    /\ pc' = [pc EXCEPT ![c] = "committing"]
    /\ call' = [call EXCEPT ![c] = e]
    /\ next' = [next EXCEPT ![c] = NextState(mem, e)]
    /\ depth' = depth + 1
    /\ storeq' = Append(storeq, c)

\* Event ids are new: an event is in one call, and in one transaction, at most.
Fresh(e) == e \notin durable /\ \A c \in Callers : call[c] # e

\* submit_and_drain, or apply while no application is under way: wait for the lock.
AwaitLock(c, e) ==
    /\ pc[c] = "idle"
    /\ Fresh(e)
    /\ c \in Appliers => depth = 0
    /\ pc' = [pc EXCEPT ![c] = "locking"]
    /\ call' = [call EXCEPT ![c] = e]
    /\ lockq' = Append(lockq, c)
    /\ UNCHANGED <<ctl, next, store, clean>>

\* apply while some application is under way, whoever's it is: no lock.
Reenter(c, e) ==
    /\ pc[c] = "idle"
    /\ Fresh(e)
    /\ c \in Appliers
    /\ depth > 0
    /\ ~stopped
    /\ Verdict(mem, e) # "ignored"
    /\ StartApply(c, e)
    /\ clean' = FALSE
    /\ UNCHANGED <<mem, lockq, stopped, log, launched, outcome, durable, faults>>

\* Mutant of Enter: the lock is not waited for.
EnterUnlocked(c) ==
    /\ pc[c] = "locking"
    /\ ~stopped
    /\ Verdict(mem, call[c]) # "ignored"
    /\ StartApply(c, call[c])
    /\ UNCHANGED <<mem, lockq, stopped, log, launched, outcome, durable, faults, clean>>

\* Mutant of Enter: a stopped controller goes on.
EnterStopped(c) ==
    /\ pc[c] = "locking"
    /\ Holds(c)
    /\ Verdict(mem, call[c]) # "ignored"
    /\ StartApply(c, call[c])
    /\ UNCHANGED <<mem, lockq, stopped, log, launched, outcome, durable, faults, clean>>

\* The lock is free: the call starts its application, or returns at once
\* because the controller is stopped or the reducer ignores the event.
Enter(c) ==
    /\ pc[c] = "locking"
    /\ Holds(c)
    /\ ~stopped
    /\ Verdict(mem, call[c]) # "ignored"
    /\ StartApply(c, call[c])
    /\ UNCHANGED <<mem, lockq, stopped, log, launched, outcome, durable, faults, clean>>

EnterForNothing(c) ==
    /\ pc[c] = "locking"
    /\ Holds(c)
    /\ stopped \/ Verdict(mem, call[c]) = "ignored"
    /\ Return(c)
    /\ UNCHANGED <<ctl, store, clean>>

-----------------------------------------------------------------------------

Running(c) == storeq # <<>> /\ Head(storeq) = c

\* The worker thread commits the running transaction, or rolls it back.
Commit(c) ==
    /\ Running(c) /\ outcome = "none"
    /\ outcome' = "committed"
    /\ durable' = IF pc[c] = "fallback" THEN durable ELSE durable \union {call[c]}
    /\ UNCHANGED <<ctl, lockq, pc, call, next, storeq, faults, clean>>

Rollback(c) ==
    /\ Running(c) /\ outcome = "none"
    /\ faults < MaxFaults
    /\ outcome' = "failed"
    /\ faults' = faults + 1
    /\ UNCHANGED <<ctl, lockq, pc, call, next, storeq, durable, clean>>

\* Mutant of Assign: a rolled-back transaction is taken for a committed one.
AssignAnyway(c) ==
    /\ Running(c) /\ outcome # "none" /\ pc[c] = "committing"
    /\ mem' = next[c]
    /\ log' = Append(log, call[c])
    /\ launched' = launched \union {call[c]}
    /\ depth' = depth - 1
    /\ storeq' = Tail(storeq)
    /\ outcome' = "none"
    /\ Return(c)
    /\ UNCHANGED <<stopped, durable, faults, clean>>

\* The rest of _apply_body after a commit: assign the state, launch the effects.
Assign(c) ==
    /\ Running(c) /\ outcome = "committed" /\ pc[c] = "committing"
    /\ mem' = next[c]
    /\ log' = Append(log, call[c])
    /\ launched' = launched \union {call[c]}
    /\ depth' = depth - 1
    /\ storeq' = Tail(storeq)
    /\ outcome' = "none"
    /\ Return(c)
    /\ UNCHANGED <<stopped, durable, faults, clean>>

\* Mutant of FailInMemory: the depth is given back before the fallback.
FailInMemoryEarly(c) ==
    /\ Running(c) /\ outcome = "failed" /\ pc[c] = "committing"
    /\ mem' = Failed(mem)
    /\ depth' = depth - 1
    /\ pc' = [pc EXCEPT ![c] = "fallback"]
    /\ storeq' = Append(Tail(storeq), c)
    /\ outcome' = "none"
    /\ UNCHANGED <<lockq, stopped, call, next, log, durable, launched, faults, clean>>

\* _fail_after_storage_error: FAILED in memory first, then a fallback transaction.
FailInMemory(c) ==
    /\ Running(c) /\ outcome = "failed" /\ pc[c] = "committing"
    /\ mem' = Failed(mem)
    /\ pc' = [pc EXCEPT ![c] = "fallback"]
    /\ storeq' = Append(Tail(storeq), c)
    /\ outcome' = "none"
    /\ UNCHANGED <<lockq, depth, stopped, call, next, log, durable, launched, faults, clean>>

\* The fallback ended; if it failed too the controller stops for good.
EndFallback(c) ==
    /\ Running(c) /\ outcome # "none" /\ pc[c] = "fallback"
    /\ stopped' = (stopped \/ outcome = "failed")
    /\ depth' = depth - 1
    /\ storeq' = Tail(storeq)
    /\ outcome' = "none"
    /\ Return(c)
    /\ UNCHANGED <<mem, log, durable, launched, faults, clean>>

-----------------------------------------------------------------------------

\* A timer job is cancelled while it waits for the lock.
CancelLocking(c) ==
    /\ c \in Cancellable /\ pc[c] = "locking"
    /\ pc' = [pc EXCEPT ![c] = "idle"]
    /\ call' = [call EXCEPT ![c] = NoEvent]
    /\ \E i \in DOMAIN lockq : lockq[i] = c /\ lockq' = RemoveAt(lockq, i)
    /\ UNCHANGED <<ctl, next, store, clean>>

\* A timer job is cancelled in its transaction: _call keeps the store until
\* the thread is done and only then raises, so the commit stands and the
\* assignment never happens.
CancelCommitted(c) ==
    /\ c \in Cancellable
    /\ Running(c) /\ outcome = "committed" /\ pc[c] = "committing"
    /\ depth' = depth - 1
    /\ storeq' = Tail(storeq)
    /\ outcome' = "none"
    /\ clean' = FALSE
    /\ Return(c)
    /\ UNCHANGED <<mem, stopped, log, durable, launched, faults>>

\* A timer job is cancelled while its transaction waits for the store.
CancelQueued(c) ==
    /\ c \in Cancellable
    /\ pc[c] \in {"committing", "fallback"} /\ ~Running(c)
    /\ depth' = depth - 1
    /\ \E i \in DOMAIN storeq : storeq[i] = c /\ storeq' = RemoveAt(storeq, i)
    /\ clean' = FALSE
    /\ Return(c)
    /\ UNCHANGED <<mem, stopped, outcome, log, durable, launched, faults>>

Loop(c) == \/ Enter(c) \/ EnterForNothing(c)
           \/ Assign(c) \/ FailInMemory(c) \/ EndFallback(c)

Next == \E c \in Callers :
            \/ \E e \in Events : AwaitLock(c, e) \/ Reenter(c, e)
            \/ Loop(c) \/ Commit(c) \/ Rollback(c)
            \/ CancelLocking(c) \/ CancelCommitted(c) \/ CancelQueued(c)

\* The event loop resumes every ready task and the worker thread ends every
\* transaction; nobody has to call, cancel or fail.
Fairness == \A c \in Callers : WF_vars(Loop(c)) /\ WF_vars(Commit(c))

Spec == Init /\ [][Next]_vars /\ Fairness

-----------------------------------------------------------------------------

Places == {"idle", "locking", "committing", "fallback"}
InApply(c) == pc[c] \in {"committing", "fallback"}

TypeOK == /\ depth \in Nat
          /\ stopped \in BOOLEAN
          /\ clean \in BOOLEAN
          /\ faults \in 0 .. MaxFaults
          /\ pc \in [Callers -> Places]
          /\ call \in [Callers -> Events \union {NoEvent}]
          /\ DOMAIN next = Callers
          /\ lockq \in Seq(Callers)
          /\ storeq \in Seq(Callers)
          /\ outcome \in {"none", "committed", "failed"}
          /\ log \in Seq(Events)
          /\ durable \subseteq Events
          /\ launched \subseteq Events

-----------------------------------------------------------------------------
(***************************************************************************)
(* The inductive invariant behind the properties.                          *)
(***************************************************************************)

\* The depth counts the applications under way, and the store's queue holds
\* each of them once.
Applications ==
    /\ depth = Cardinality({c \in Callers : InApply(c)})
    /\ \A i \in DOMAIN storeq : InApply(storeq[i])
    /\ \A i, j \in DOMAIN storeq : storeq[i] = storeq[j] => i = j
    /\ \A c \in Callers : InApply(c) => c \in Range(storeq)
    /\ storeq = <<>> => outcome = "none"
    /\ \A c \in Callers : pc[c] # "idle" => call[c] \in Events

\* A transaction reported as committed is committed.
Reported ==
    /\ launched \subseteq durable
    /\ outcome = "committed" /\ pc[Head(storeq)] = "committing" =>
           call[Head(storeq)] \in durable

\* While nothing overlapped, an application under way holds the lock, it was
\* reduced from the present state, and only it can be ahead of the memory.
Alone ==
    clean =>
    /\ \A c \in Callers : InApply(c) => Holds(c)
    /\ \A c \in Callers : pc[c] = "committing" =>
           /\ Verdict(mem, call[c]) # "ignored"
           /\ next[c] = NextState(mem, call[c])
    /\ \A c \in Callers : InApply(c) => ~stopped
    /\ durable = Range(log) \union
                     {call[c] : c \in {d \in Callers : /\ pc[d] = "committing"
                                                      /\ outcome = "committed"}}

IInv == TypeOK /\ Applications /\ Reported /\ Alone

-----------------------------------------------------------------------------

\* No effect of an event reaches the scheduler before the event's transaction
\* is committed ("transaction-before-effect driver"), whoever passes the lock
\* and whatever fails or is cancelled in between.
EffectsAfterCommit == launched \subseteq durable

\* As long as no application overlapped another or was abandoned, a store with
\* nothing under way holds exactly the events the memory has taken in.
NothingForgotten == clean /\ storeq = <<>> => durable = Range(log)

\* A controller that gave up on its store keeps its state, unless an
\* application that passed the lock was still under way.
StoppedIsFinal == [][stopped /\ clean => UNCHANGED <<mem, log>>]_vars

\* Every call of the controller returns: no caller waits for the lock or the
\* store for ever, whatever fails.
EveryCallReturns == \A c \in Callers : pc[c] # "idle" ~> pc[c] = "idle"

\* The controller keeps the promise of SerialTask.
Abs == INSTANCE SerialTask WITH state <- mem, broken <- ~clean
Serial == Abs!Spec

\* "Owns the authoritative in-memory state and serializes reducer
\* transitions" (the class's docstring): each event taken in is reduced from
\* the state the previous one left.
SerializesTransitions ==
    [][log' # log => mem' = NextState(mem, log'[Len(log')])]_vars

=============================================================================
