------------------------------ MODULE Procedures ------------------------------
(***************************************************************************)
(* One batch of procedure requests of a turn (procedures/executor.py,      *)
(* core.py, bundled/contractor.py): the ordinary requests run side by      *)
(* side, each as a coroutine with a time limit and at most one retry, their *)
(* results are folded into the history of the branch, and core.compact is  *)
(* carried out last, on what has been folded.                              *)
(*                                                                         *)
(* A call of a provider, of the model and of the summarizer is a step that  *)
(* starts it and a step that ends it.  A request stands for its procedure; *)
(* arguments, texts and metadata are left out, a message of the history is *)
(* what it holds the result of.  The summarizer answers, with a summary or *)
(* a failure.                                                              *)
(***************************************************************************)
EXTENDS Integers, Sequences, FiniteSetsExt, SequencesExt, Selection

CONSTANTS Batches,    \* the requests a turn may make
          Allowed,    \* allowed_procedures of the agent
          Catalog,    \* the frozen catalog of the round
          Idempotent, \* the procedures whose definition says so
          NestedAsks, \* what a turn of the contractor may ask for, <<>> to return
          MaxTurns,   \* _MAX_TURNS
          Budget,     \* credits of a request
          Costs       \* what one call may declare as its charge

ASSUME ProcedureAssumption ==
    /\ MaxTurns \in Nat \ {0} /\ Budget \in Nat
    /\ Costs \subseteq Nat /\ Costs # {} /\ IsFiniteSet(Costs)
    /\ Idempotent \subseteq Catalog
    /\ Batches \subseteq Seq(STRING)
    /\ NestedAsks \subseteq Seq(STRING) /\ IsFiniteSet(NestedAsks)

VARIABLES batch,   \* the requests, in the order of the envelope
          phase,   \* of invoke_many
          call,    \* of each ordinary request: its coroutine
          results, \* of the event ProcedureBatchCompleted
          history  \* parent_messages
vars == <<batch, phase, call, results, history>>

Contractor == "builtin.contractor"
Compact == "core.compact"
Controls == {Compact, "core.checkpoint", "core.terminate"}
Forbidden == {Contractor, "core.checkpoint", "core.terminate"}

\* split_procedure_requests: terminate overrides a checkpoint, never a compaction.
Ordinary == Picked(batch, STRING \ Controls)
Compacts == Contains(batch, Compact)
Calls == DOMAIN Ordinary

Message(what, of) == [what |-> what, of |-> of]
Prefix == <<Message("system", {}), Message("task", {})>>
Unsent == [at |-> "new", answers |-> <<>>, how |-> "open", charged |-> 0, \* of the result
           spent |-> 0,                      \* what was declared in all
           turns |-> 0, todo |-> <<>>,       \* of the contractor
           unread |-> FALSE]                 \* results its model has not seen

Init == /\ batch \in Batches
        /\ phase = "calls"
        /\ call = [i \in Calls |-> Unsent]
        /\ results = <<>>
        /\ history = Prefix \o <<Message("answer", {})>>

\* The coroutine of request i goes on while the batch waits for it.
Goes(i, at) == phase = "calls" /\ i \in Calls /\ call[i].at = at
Become(i, c) == call' = [call EXCEPT ![i] = c] /\ UNCHANGED <<batch, phase, results, history>>
End(c, how) == [c EXCEPT !.at = "ended", !.how = how]

Refusal(p) == IF p \notin Allowed THEN "procedure_not_allowed"
              ELSE IF p \notin Catalog THEN "procedure_unavailable" ELSE "none"

\* Arguments of the wrong type end a request as well.
Refuse(i) == /\ Goes(i, "new")
             /\ Refusal(Ordinary[i]) # "none"
             /\ Become(i, End(call[i], Refusal(Ordinary[i])))

Send(i) == /\ Goes(i, "new")
           /\ Refusal(Ordinary[i]) = "none"
           /\ \/ Become(i, End(call[i], "invalid_arguments"))
              \/ Become(i, [call[i] EXCEPT !.at = IF Ordinary[i] = Contractor THEN "turn" ELSE "sent"])

MayRetry(i, answer) == /\ answer.retryable /\ ~answer.data
                       /\ Ordinary[i] \in Idempotent
                       /\ Len(call[i].answers) = 0

Answers == [retryable : BOOLEAN, data : BOOLEAN]
Answered(c, answer, cost) == [c EXCEPT !.answers = Append(@, answer), !.spent = @ + cost]
\* What a result that is no ProcedureResult charges is not read, nor what the
\* first attempt charged once the second answers.
Concluded(c, how, cost) ==
    [End(c, how) EXCEPT !.charged = IF how \in {"ok", "failed"} THEN cost ELSE 0]

\* The provider answers or raises; the retry, if there is one, starts at once.
Answer(i) ==
    /\ Goes(i, "sent")
    /\ \E how \in {"ok", "failed", "raised", "provider_contract_invalid"},
          answer \in Answers, cost \in Costs :
          /\ how \notin {"failed", "raised"} => ~answer.retryable
          /\ how # "failed" => answer.data = (how = "ok")
          /\ LET c == Answered(call[i], answer, cost)
             IN Become(i, IF MayRetry(i, answer) THEN c ELSE Concluded(c, how, cost))

\* Mutant of Expire: the call is made once more.
ExpireRetried(i) == Goes(i, "sent")
                    /\ LET late == [retryable |-> FALSE, data |-> FALSE] IN
                       Become(i, IF Ordinary[i] \in Idempotent /\ Len(call[i].answers) = 0
                                 THEN [call[i] EXCEPT !.answers = Append(@, late)]
                                 ELSE End(call[i], "procedure_timeout"))
\* wait_for: what became of the call is not known, and it is not repeated.
Expire(i) == Goes(i, "sent") /\ Become(i, End(call[i], "procedure_timeout"))

-----------------------------------------------------------------------------
(***************************************************************************)
(* The contractor: a model that runs in turns, paid from the credits of the *)
(* request, and may call procedures itself.  It has no time limit but the   *)
(* one it checks between its turns.                                        *)
(***************************************************************************)

Broke(c) == c.spent > Budget \* internal_balance < 0

\* The agent is not in the snapshot, an argument is missing or wrong.
Unready(i) == Goes(i, "turn") /\ call[i].turns = 0 /\ Become(i, End(call[i], "failed"))

\* Mutant of Bill: a failed turn charges nothing.
BillSuccess(c, how) == [End(c, how) EXCEPT !.charged = IF how = "failed" THEN 0 ELSE c.spent]
\* _success, _failure: everything metered so far is charged.
Bill(c, how) == [End(c, how) EXCEPT !.charged = c.spent]

\* The soft limit on the time, checked before every turn but the first.
RunOut(i) == /\ Goes(i, "turn") /\ call[i].turns > 0
             /\ Become(i, Bill(call[i], "timeout"))

Ask(i) == Goes(i, "turn")
          /\ Become(i, [call[i] EXCEPT !.at = "asked", !.turns = @ + 1, !.unread = FALSE])

\* The model fails, is out of credits, returns, or asks for procedures.
Reply(i) ==
    /\ Goes(i, "asked")
    /\ \E cost \in Costs, fails \in BOOLEAN, asks \in NestedAsks :
       LET c == [call[i] EXCEPT !.spent = @ + cost]
       IN Become(i, IF fails THEN Bill(c, "failed")
                    ELSE IF Broke(c) THEN Bill(c, "insufficient_funds")
                    ELSE IF asks = <<>> THEN Bill(c, "returned")
                    ELSE [c EXCEPT !.at = "nested", !.todo = asks])

\* An exception out of the loop reaches the executor, and the charge with it
\* is lost.
Break(i) == Goes(i, "asked") /\ Become(i, End(call[i], "raised"))

\* make_nested_procedure_invoker: core.compact and the bundled procedures,
\* without regard to the catalog or the agent's procedures.
Charges(p, cost) == IF p \in Forbidden THEN 0 ELSE cost

\* An exception of a nested call is a note in the transcript.
Nested(i) ==
    /\ Goes(i, "nested") /\ call[i].todo # <<>>
    /\ \E cost \in Costs \cup {0} :
          Become(i, [call[i] EXCEPT !.todo = Tail(@), !.unread = TRUE,
                                    !.spent = @ + Charges(Head(call[i].todo), cost)])

\* Mutant of Settle: the credits are looked at after a reply of the model only.
SettleUnchecked(i) ==
    /\ Goes(i, "nested") /\ call[i].todo = <<>>
    /\ Become(i, IF call[i].turns = MaxTurns THEN Bill(call[i], "max_turns")
                 ELSE [call[i] EXCEPT !.at = "turn"])
\* Mutant of Settle: no limit on the turns.
SettleForever(i) ==
    /\ Goes(i, "nested") /\ call[i].todo = <<>>
    /\ Become(i, IF Broke(call[i]) THEN Bill(call[i], "insufficient_funds")
                 ELSE [call[i] EXCEPT !.at = "turn", !.turns = 1])
\* The nested calls are over: out of credits, of time or of turns, or on.
Settle(i) ==
    /\ Goes(i, "nested") /\ call[i].todo = <<>>
    /\ IF Broke(call[i]) THEN Become(i, Bill(call[i], "insufficient_funds"))
       ELSE \/ Become(i, Bill(call[i], "timeout"))
            \/ Become(i, IF call[i].turns = MaxTurns THEN Bill(call[i], "max_turns")
                         ELSE [call[i] EXCEPT !.at = "turn"])

-----------------------------------------------------------------------------
Result(i) == [of |-> i, how |-> call[i].how, charged |-> call[i].charged]
Folded == [i \in Calls |-> Message("result", {i})]

\* Mutant of Gather: the results enter the history after the compaction.
GatherLate ==
    /\ phase = "calls" /\ \A i \in Calls : call[i].at = "ended"
    /\ results' = [i \in Calls |-> Result(i)]
    /\ history' = IF Compacts THEN history ELSE history \o Folded
    /\ phase' = IF Compacts THEN "compact" ELSE "completed"
    /\ UNCHANGED <<batch, call>>
\* gather: the results in the order of the requests, and after the report, if
\* there is one, in the history.
Gather ==
    /\ phase = "calls"
    /\ \A i \in Calls : call[i].at = "ended"
    /\ results' = [i \in Calls |-> Result(i)]
    /\ \E report \in {<<>>, <<Message("report", {})>>} :
          history' = history \o report \o Folded
    /\ phase' = IF Compacts THEN "compact" ELSE "completed"
    /\ UNCHANGED <<batch, call>>

\* _rewrite_compacted_messages: the prefix and a summary of the whole history.
Rewritten == Prefix \o <<Message("summary", UNION {history[k].of : k \in DOMAIN history})>>

\* execute_core_procedure: a summary that fails is not charged.
Summarized(made, cost) == [of |-> 0, how |-> IF made THEN "ok" ELSE "failed",
                           charged |-> IF made THEN cost ELSE 0]

\* One that fails leaves the history.
Compaction ==
    /\ phase = "compact"
    /\ \E made \in BOOLEAN, cost \in Costs :
          /\ results' = Append(results, Summarized(made, cost))
          /\ history' = IF made THEN Rewritten ELSE history
    /\ phase' = "completed"
    /\ UNCHANGED <<batch, call>>

\* The generation is cancelled: so is every coroutine of the batch.
Cancel == /\ phase \in {"calls", "compact"}
          /\ phase' = "cancelled"
          /\ UNCHANGED <<batch, call, results, history>>

Over == phase \in {"completed", "cancelled"} /\ UNCHANGED vars

Goer(i) == Refuse(i) \/ Send(i) \/ Expire(i) \/ RunOut(i) \/ Ask(i) \/ Reply(i) \/ Nested(i) \/ Settle(i)
Next == \/ \E i \in Calls : Goer(i) \/ Answer(i) \/ Unready(i) \/ Break(i)
        \/ Gather \/ Compaction \/ Cancel \/ Over

\* The event loop runs what can go on, the timer of a call fires, and the
\* model and the summarizer answer; a provider need not.
Spec == Init /\ [][Next]_vars /\ WF_vars((\E i \in Calls : Goer(i)) \/ Gather \/ Compaction)

-----------------------------------------------------------------------------
(***************************************************************************)
(* Properties                                                              *)
(***************************************************************************)

\* A call is repeated once, and only when its procedure is idempotent and the
\* provider has said that it did nothing: never one whose outcome is not known.
RepeatsAreSafe ==
    \A i \in Calls : LET c == call[i] IN
        Len(c.answers) + (IF c.at = "sent" THEN 1 ELSE 0) > 1 =>
            /\ Len(c.answers) <= 2 /\ Ordinary[i] \in Idempotent
            /\ c.answers[1].retryable /\ ~c.answers[1].data

\* When the batch is over each request has its result, at its place, whichever
\* call ended first, and a descendant finds it in the history: as a message or
\* in the summary that replaced it.
BatchIsWhole ==
    phase = "completed" =>
        /\ Len(results) = Len(Ordinary) + (IF Compacts THEN 1 ELSE 0)
        /\ \A i \in Calls : results[i].of = i /\ results[i].how # "open"
        /\ UNION {history[k].of : k \in DOMAIN history} = Calls
        /\ SubSeq(history, 1, 2) = Prefix

\* A batch charges what its calls have declared: more never, less only for a
\* call that raised, whose outcome is unknown, or that was repeated.
ChargedIsSpent ==
    phase = "completed" => \A i \in Calls : LET c == call[i] IN
        /\ results[i].charged <= c.spent
        /\ c.how \notin {"raised", "procedure_timeout", "provider_contract_invalid"}
               /\ Len(c.answers) <= 1 => results[i].charged = c.spent

\* The contractor overspends its budget by what one turn, or the procedures of
\* one turn, may cost, and no more.
OverspendIsOneStep ==
    \A i \in Calls : Ordinary[i] = Contractor =>
        call[i].spent <= Budget + Max(Costs) * Max({1} \cup {Len(asks) : asks \in NestedAsks})

\* A contractor that is cut off says so: "returned" means that its model has
\* seen the result of all it asked for.
CutOffIsSaid == \A i \in Calls : call[i].how = "returned" => ~call[i].unread

\* However a contractor is stopped, it has not gone far beyond its budget, and
\* does not pass off as finished what it has not read.
ContractorBound == OverspendIsOneStep /\ CutOffIsSaid

\* What a call can still do before its next turn, or its end, counted in steps.
MostAsked == Max({1} \cup {Len(asks) : asks \in NestedAsks})
StepsLeft(c) == CASE c.at = "new" -> 3
                  [] c.at = "sent" -> 2 - Len(c.answers)
                  [] c.at = "turn" -> 1
                  [] c.at = "asked" -> MostAsked + 3
                  [] c.at = "nested" -> 2 + Len(c.todo)
                  [] c.at = "ended" -> 0

\* A turn more of those it may have, or less to do in the one it is in.
Nearer(c, d) == \/ d.turns = c.turns + 1 /\ d.turns <= MaxTurns
                \/ d.turns = c.turns /\ StepsLeft(d) >= 0 /\ StepsLeft(d) < StepsLeft(c)
\* Every step of a call brings it nearer to its end, whatever it is answered: what
\* BatchEnds says, without the fairness.
CallsComeToAnEnd == [][\A i \in Calls : call'[i] # call[i] => Nearer(call[i], call'[i])]_vars

\* The batch ends, though providers hang and a contractor goes on asking.
BatchEnds == phase = "calls" ~> phase \in {"completed", "cancelled"}

-----------------------------------------------------------------------------
(***************************************************************************)
(* The inductive invariant (Procedures_proofs)                             *)
(***************************************************************************)

Hows == {"open", "procedure_not_allowed", "procedure_unavailable", "invalid_arguments",
         "ok", "failed", "raised", "provider_contract_invalid", "procedure_timeout",
         "timeout", "insufficient_funds", "max_turns", "returned"}
Whats == {"system", "task", "answer", "report", "result", "summary"}
Coroutine == [at : {"new", "sent", "turn", "asked", "nested", "ended"},
              answers : Seq(Answers),
              how : Hows, charged : Nat, spent : Nat, turns : Nat,
              todo : Seq(STRING), unread : BOOLEAN]
TypeOK == /\ batch \in Batches
          /\ phase \in {"calls", "compact", "completed", "cancelled"}
          /\ call \in [Calls -> Coroutine]
          /\ results \in Seq([of : Nat, how : Hows, charged : Nat])
          /\ history \in Seq([what : Whats, of : SUBSET Nat])

MostSpent == Budget + Max(Costs) * MostAsked
\* What a call will have spent once what is left to do is done, at the worst.
Worst(c) == c.spent + Max(Costs) * Len(c.todo)

\* What an earlier attempt did allowed the present one; only a call of a provider
\* has attempts.
AttemptsFollow(p, c) ==
    /\ Len(c.answers) <= IF c.at = "sent" THEN 1 ELSE 2
    /\ c.at \notin {"sent", "ended"} => c.answers = <<>>
    /\ Len(c.answers) + (IF c.at = "sent" THEN 1 ELSE 0) > 1 =>
           p \in Idempotent /\ c.answers[1].retryable /\ ~c.answers[1].data

\* What a call has declared is charged when it ends, and not before.
MeterFollows(c) ==
    /\ c.at # "ended" => c.charged = 0 /\ c.how = "open"
    /\ \/ c.at = "new"
       \/ c.at = "sent" /\ c.answers = <<>>
       \/ c.at = "turn" /\ c.turns = 0
       => c.spent = 0
    /\ c.at = "ended" =>
          /\ c.charged <= c.spent /\ c.how # "open"
          /\ c.how \notin {"raised", "procedure_timeout", "provider_contract_invalid"}
                /\ Len(c.answers) <= 1 => c.charged = c.spent

\* A contractor begins a turn within its budget, and asks with nothing unread; the
\* procedures of a turn are paid one by one.
TurnsAreFunded(p, c) ==
    /\ c.at \in {"turn", "asked", "nested"} => p = Contractor
    /\ c.at = "sent" => p # Contractor
    /\ c.at \in {"turn", "asked"} => c.spent <= Budget
    /\ c.at = "nested" => Worst(c) <= MostSpent
    /\ p = Contractor => c.spent <= MostSpent
    /\ c.at = "asked" \/ c.how = "returned" => ~c.unread
    /\ c.at \in {"asked", "nested"} => c.turns > 0

CallInv(p, c) == c \in Coroutine /\ AttemptsFollow(p, c) /\ MeterFollows(c) /\ TurnsAreFunded(p, c)

Held == UNION {history[k].of : k \in DOMAIN history}
\* The history begins with the prefix of the branch, and holds the results once
\* they are folded.
FoldFollows ==
    /\ Len(history) >= 2 /\ history[1] = Prefix[1] /\ history[2] = Prefix[2]
    /\ phase = "calls" => Held = {}
    /\ phase = "compact" => Compacts
    /\ phase \in {"compact", "completed"} =>
          /\ Held = Calls
          /\ \A i \in Calls : call[i].at = "ended"
          /\ \A i \in Calls : results[i] = Result(i)
          /\ Len(results) = Len(Ordinary) + (IF phase = "completed" /\ Compacts THEN 1 ELSE 0)

\* A call that may begin a turn has one left (for CallsComeToAnEnd).
Counted(c) == c.turns <= MaxTurns /\ (c.at \in {"new", "turn"} => c.turns < MaxTurns)
TurnsAreCounted == \A i \in Calls : Counted(call[i])

IInv == TypeOK /\ FoldFollows /\ \A i \in Calls : CallInv(Ordinary[i], call[i])
=============================================================================
