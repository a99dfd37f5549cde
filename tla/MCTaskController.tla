-------------------------- MODULE MCTaskController --------------------------
(***************************************************************************)
(* A small instance of TaskController: a tool call, a worker and a timer   *)
(* job, over a reducer reduced to the checks every event goes through      *)
(* (reducer._validate_identity and the status whitelists).                 *)
(***************************************************************************)
EXTENDS TaskController

MCInitialState == [status |-> "RUNNING", gen |-> 0, seen |-> {}]

\* Two pieces of branch work, a stop and the continue that opens a new generation.
MCEvents == {[id |-> 1, kind |-> "work", gen |-> 0],
             [id |-> 2, kind |-> "work", gen |-> 0],
             [id |-> 3, kind |-> "stop", gen |-> 0],
             [id |-> 4, kind |-> "continue", gen |-> 1]}
MCNoEvent == [id |-> 0, kind |-> "none", gen |-> 0]

MCVerdict(s, e) ==
    CASE e.gen # s.gen -> "ignored"
      [] e.gen = s.gen /\ e.kind = "continue" ->
            IF s.status = "RUNNING" THEN "error" ELSE "accepted"
      [] OTHER -> IF s.status = "RUNNING" THEN "accepted" ELSE "error"

MCNextState(s, e) ==
    CASE MCVerdict(s, e) # "accepted" -> s
      [] e.kind = "stop" -> [s EXCEPT !.status = "STOPPED", !.gen = @ + 1]
      [] e.kind = "continue" -> [status |-> "RUNNING", gen |-> s.gen + 1, seen |-> {}]
      [] OTHER -> [s EXCEPT !.seen = @ \union {e.id}]

MCFailed(s) == [s EXCEPT !.status = "FAILED"]
=============================================================================
