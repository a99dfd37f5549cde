-------------------------- MODULE MCFairScheduler --------------------------
(***************************************************************************)
(* Small instances of FairScheduler: two tasks that share the LLM.         *)
(***************************************************************************)
EXTENDS FairScheduler

Effect(id, task, gen, kind, prio) ==
    [id |-> id, task |-> task, gen |-> gen, kind |-> kind, prio |-> prio]

\* "wide" has an agent call and a procedure, which is of the generation a
\* continue opened; "thin" has an agent call and the summary of a branch.
MCEffects == {Effect(1, "wide", 0, "agent", "normal"),
              Effect(2, "wide", 1, "procedure", "normal"),
              Effect(3, "thin", 0, "agent", "normal"),
              Effect(4, "thin", 0, "summarizer", "barrier")}

\* The same without the agent call of "thin", for the liveness properties.
MCFewEffects == {e \in MCEffects : e.id # 3}
\* "wide" comes back to its lane: an agent call after a procedure, and the converse.
MCReusable == {e \in MCEffects : e.task = "wide"}

Limits(all, calls, procedures) == [llm |-> all, taskLlm |-> calls, taskProc |-> procedures]
MCInitialLimits == Limits(2, 1, 1)
MCLimitChoices == {MCInitialLimits, Limits(1, 1, 1)}

\* Two branches of "wide" alternate between an agent call and a procedure that
\* is not shown; "thin" has one agent call.
MCFanOut == {Effect(1, "wide", 0, "agent", "normal"),
             Effect(2, "wide", 0, "agent", "normal"),
             Effect(3, "thin", 0, "agent", "normal")}
MCFanOutReusable == {e \in MCFanOut : e.task = "wide"}
\* One LLM call at a time.
MCSingleLlm == Limits(1, 1, 1)
MCSingleLlmOnly == {MCSingleLlm}
=============================================================================
