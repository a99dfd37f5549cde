--------------------------- MODULE MCResearchTask ---------------------------
(***************************************************************************)
(* Small instances of ResearchTask.                                        *)
(***************************************************************************)
EXTENDS ResearchTask

Edge(live, credits) == [live |-> live, credits |-> credits]
Turn(control, procedures, edges) ==
    [control |-> control, procedures |-> procedures, edges |-> edges]

\* Every way a turn can go on: it ends; it ran procedures, and so delegates to itself,
\* perhaps in vain; it delegates twice, perhaps beyond the budget of calls; and it
\* holds a delegation back.
MCTurns == {Turn("terminate", FALSE, <<>>),
            Turn("none", TRUE, <<>>),
            Turn("none", FALSE, <<Edge(TRUE, 1), Edge(TRUE, 0)>>),
            Turn("checkpoint", FALSE, <<Edge(TRUE, 0)>>)}
MCFewTurns == {Turn("terminate", FALSE, <<>>),
               Turn("none", FALSE, <<Edge(TRUE, 1), Edge(FALSE, 1)>>),
               Turn("checkpoint", FALSE, <<Edge(TRUE, 0)>>)}
MCPlainTurns == {Turn("terminate", FALSE, <<>>),
                 Turn("none", FALSE, <<Edge(TRUE, 1), Edge(TRUE, 0)>>)}
MCAdjustments == {-1, 1}
=============================================================================
