----------------------------- MODULE Delegation -----------------------------
(***************************************************************************)
(* What becomes of the delegations an agent turn asks for                  *)
(* (runtime/delegation.py): which edges become branches, with how many     *)
(* credits, which child retires the parent, and what happens to the parent *)
(* when no edge is accepted.  The ordinary turn and the release of a       *)
(* checkpoint both decide with this one function.                          *)
(***************************************************************************)
EXTENDS Credits

CONSTANTS MaxDelegations, \* max_delegations_per_turn
          MaxDepth,       \* max_branch_depth
          MaxCalls        \* max_agent_calls_per_task

\* _positive_limit
ASSUME LimitsArePositive ==
    /\ MaxDelegations \in Nat \ {0}
    /\ MaxDepth \in Nat \ {0}
    /\ MaxCalls \in Nat \ {0}

None == "none"
Unavailable == "agent_unavailable"
CallLimit == "agent_call_limit_exceeded"

\* The reasons of an edge that no later turn can change, in sorted order.
Deterministic == <<CallLimit, "branch_depth_exceeded", "delegation_limit_exceeded">>

\* Mutant of Reason: an edge too far is counted from zero.
ReasonOffByOne(i, live, depth, calls) ==
    CASE i > MaxDelegations -> "delegation_limit_exceeded"
      [] i <= MaxDelegations /\ depth >= MaxDepth -> "branch_depth_exceeded"
      [] i <= MaxDelegations /\ depth < MaxDepth /\ ~live -> Unavailable
      [] i <= MaxDelegations /\ depth < MaxDepth /\ live /\ calls > MaxCalls -> CallLimit
      [] OTHER -> None

\* Why edge i of the turn is rejected, calls being started or reserved before it.
Reason(i, live, depth, calls) ==
    CASE i > MaxDelegations -> "delegation_limit_exceeded"
      [] i <= MaxDelegations /\ depth >= MaxDepth -> "branch_depth_exceeded"
      [] i <= MaxDelegations /\ depth < MaxDepth /\ ~live -> Unavailable
      [] i <= MaxDelegations /\ depth < MaxDepth /\ live /\ calls >= MaxCalls -> CallLimit
      [] OTHER -> None

\* The verdict on each edge; an accepted edge reserves a call.
\* edges is a sequence of records [live, credits].
Verdicts(edges, depth, started) ==
    LET reserved[i \in 0..Len(edges)] ==
            IF i = 0 THEN 0
            ELSE reserved[i - 1]
                 + (IF Reason(i, edges[i].live, depth, started + reserved[i - 1]) = None
                    THEN 1 ELSE 0)
    IN [i \in DOMAIN edges |-> Reason(i, edges[i].live, depth, started + reserved[i - 1])]

Accepted(verdicts) == {i \in DOMAIN verdicts : verdicts[i] = None}

\* The parent's credits over the accepted edges only.
Funded(edges, verdicts, credits) ==
    LET requests == [i \in Accepted(verdicts) |-> edges[i].credits]
    IN {[share |-> [i \in Accepted(verdicts) |-> IF i \in DOMAIN a.shares THEN a.shares[i] ELSE 0],
         returned |-> a.returned] : a \in AllocateChildren(credits, requests)}

\* The deterministic reasons among the verdicts, by their place.
FinalReasons(verdicts) ==
    {k \in DOMAIN Deterministic : \E i \in DOMAIN verdicts : verdicts[i] = Deterministic[k]}

\* Mutant of Blocking: whatever is left to try is tried again.
BlockingUnbudgeted(verdicts, started) ==
    IF Accepted(verdicts) # {} \/ verdicts = <<>> \/ FinalReasons(verdicts) = {} THEN None
    ELSE Deterministic[Min(FinalReasons(verdicts))]

\* Why a turn of which every edge was rejected must not be tried again, if it must not.
Blocking(verdicts, started) ==
    IF Accepted(verdicts) # {} \/ verdicts = <<>> THEN None
    ELSE IF FinalReasons(verdicts) # {} THEN Deterministic[Min(FinalReasons(verdicts))]
    ELSE IF started + 1 > MaxCalls THEN CallLimit
    ELSE None

\* plan_delegations, as the set of plans the rounding of credits allows.
\* retires is the child that carries the parent's retirement and pool_return.
Plans(edges, depth, credits, started) ==
    LET verdicts == Verdicts(edges, depth, started)
        accepted == Accepted(verdicts)
        blocking == Blocking(verdicts, started)
        retry == edges # <<>> /\ accepted = {} /\ blocking = None
    IN {[children |-> accepted,
         rejected |-> DOMAIN edges \ accepted,
         share |-> f.share,
         retires |-> {i \in accepted : \A j \in accepted : i <= j},
         poolReturn |-> IF accepted = {} THEN 0 ELSE f.returned,
         callsAfter |-> started + (IF retry THEN 1 ELSE Cardinality(accepted)),
         blocking |-> blocking] : f \in Funded(edges, verdicts, credits)}

\* all_rejected, and whether the parent has another turn then.
AllRejected(p) == p.children = {} /\ p.rejected # {}
Retries(p) == AllRejected(p) /\ p.blocking = None
=============================================================================
