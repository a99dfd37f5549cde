------------------------------ MODULE Planning ------------------------------
(***************************************************************************)
(* One call of plan_delegations or of redistribute_pool: Init picks its    *)
(* arguments, the only step makes it.                                      *)
(***************************************************************************)
EXTENDS Delegation

CONSTANTS Requests, \* the turns planned: records [edges, depth, credits, started]
          Spreads   \* the pools spread: records [available, balances]

ASSUME RequestsAssumption ==
    \A a \in Requests : /\ DOMAIN a = {"edges", "depth", "credits", "started"}
                        /\ a.edges \in Seq([live : BOOLEAN, credits : Nat])
                        /\ {a.depth, a.credits, a.started} \subseteq Nat
ASSUME SpreadsAssumption ==
    \A a \in Spreads : /\ DOMAIN a = {"available", "balances"}
                       /\ a.available \in Int
                       /\ a.balances \in Seq(Int) /\ a.balances # <<>>

VARIABLES args,  \* the arguments of the call
          plans, \* the plan made, if it was made
          spread \* the balances after the redistribution, if it was made
planning == <<args, plans, spread>>

PlanningInit == args \in Requests \union Spreads /\ plans = {} /\ spread = {}

\* A turn's delegations are planned.
Plan == /\ plans = {}
        /\ args \in Requests
        /\ \E p \in Plans(args.edges, args.depth, args.credits, args.started) : plans' = {p}
        /\ UNCHANGED <<args, spread>>

\* A continue spreads the pool.
Redistribute == /\ spread = {}
                /\ args \in Spreads
                /\ \E b \in RedistributePool(args.available, args.balances) : spread' = {b}
                /\ UNCHANGED <<args, plans>>

PlanningNext == Plan \/ Redistribute
PlanningSpec == PlanningInit /\ [][PlanningNext]_planning

-----------------------------------------------------------------------------

\* Credits are moved and never made or lost: when the parent retires, its
\* credits are with its children or go back to the pool, whatever the rounding
\* and whichever edges were rejected; and neither is ever negative, which
\* ChildMaterialized would refuse.
CreditsMoved ==
    \A p \in plans : p.children # {} =>
        /\ Total(p.share) + p.poolReturn = args.credits
        /\ p.poolReturn >= 0
        /\ \A i \in p.children : p.share[i] >= 0

\* A child gets what was asked for it whenever the parent can pay all its
\* accepted edges; when it cannot, nothing is left for the pool.
RequestsHonoured ==
    \A p \in plans : p.children # {} =>
        LET asked == [i \in p.children |-> args.edges[i].credits]
        IN IF Total(asked) <= args.credits THEN p.share = asked ELSE p.poolReturn = 0

\* The edges accepted are, of those a structural limit or a missing agent does
\* not exclude, the first ones the call budget of the task has room for.
FirstThatFit ==
    \A p \in plans :
        LET eligible == {i \in DOMAIN args.edges :
                            i <= MaxDelegations /\ args.depth < MaxDepth /\ args.edges[i].live}
            room == Most(0, MaxCalls - args.started)
        IN p.children = {i \in eligible : Cardinality({j \in eligible : j <= i}) <= room}

\* A turn that asked for work leaves exactly one way on: children of which one
\* retires the parent, another turn of the parent that the call budget covers,
\* or a reason to end it; and what no later turn can change is not tried again.
OneWayOn ==
    \A p \in plans : args.edges # <<>> =>
        LET ways == [children |-> p.children # {}, retry |-> Retries(p), end |-> p.blocking # None]
        IN /\ Cardinality({w \in DOMAIN ways : ways[w]}) = 1
           /\ Cardinality(p.retires) = IF ways.children THEN 1 ELSE 0
           /\ Retries(p) => /\ p.callsAfter <= MaxCalls
                            /\ args.depth < MaxDepth
                            /\ \A i \in DOMAIN args.edges : i <= MaxDelegations /\ ~args.edges[i].live

\* A continue neither makes nor loses credits, takes nothing from a leaf while
\* it has something to give, and leaves debtors alone while others can pay.
PoolSpread ==
    \A after \in spread :
        /\ Total(after) = Total(args.balances) + args.available
        /\ args.available >= 0 => \A i \in DOMAIN after : after[i] >= args.balances[i]
        /\ (\E j \in DOMAIN after : args.balances[j] > 0) =>
               \A i \in DOMAIN after : args.balances[i] <= 0 => after[i] = args.balances[i]

\* Credits stay whole: neither the plan of a turn nor a continue makes or loses
\* any, and both give them to whom they are due.
CreditsKept == CreditsMoved /\ RequestsHonoured /\ PoolSpread
=============================================================================
