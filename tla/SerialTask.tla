----------------------------- MODULE SerialTask -----------------------------
(***************************************************************************)
(* What runtime/controller.py promises of one research task: "Serial,      *)
(* transaction-before-effect driver".  The state moves only by one         *)
(* accepted event at a time, each reduced from the state the previous one  *)
(* left, and every event that has moved it is in the store first.          *)
(*                                                                         *)
(* The promise is only kept until two applications of events overlap, or   *)
(* one is abandoned between its commit and its assignment; `broken'        *)
(* records that, and nothing is promised afterwards.  TaskController says  *)
(* when it happens.                                                        *)
(***************************************************************************)
EXTENDS Sequences

CONSTANTS Events, InitialState,
          Verdict(_, _),    \* "accepted", "error" or "ignored"
          NextState(_, _),  \* the reducer's next_state
          Failed(_)         \* the state after a storage failure

VARIABLES state, log, broken

vars == <<state, log, broken>>

Init == /\ state = InitialState
        /\ log = <<>>
        /\ broken = FALSE

\* One event is reduced from the current state and both are kept.
Step(e) == /\ ~broken
           /\ Verdict(state, e) # "ignored"
           /\ state' = NextState(state, e)
           /\ log' = Append(log, e)
           /\ UNCHANGED broken

\* The store refused a transaction: the task is failed where it stands.
Fail == /\ ~broken
        /\ state' = Failed(state)
        /\ UNCHANGED <<log, broken>>

\* Once an application has overlapped another nothing is promised.
Broken == broken'

Next == (\E e \in Events : Step(e)) \/ Fail \/ Broken

Spec == Init /\ [][Next]_vars
=============================================================================
