------------------------------ MODULE Credits ------------------------------
(***************************************************************************)
(* How research credits are shared out (runtime/credits.py).               *)
(*                                                                         *)
(* The code computes with floats.  Here a credit is a whole number, the    *)
(* last place of a float, and a product that has no exact representation   *)
(* may be rounded either way: every operator returns the SET of results    *)
(* the rounding allows.  Amounts are functions from the places of their    *)
(* items, which are numbers in the order of the items.                     *)
(***************************************************************************)
EXTENDS Integers, FiniteSets, SequencesExt

Least(a, b) == IF a <= b THEN a ELSE b
Most(a, b) == IF a >= b THEN a ELSE b
Total(f) == SumFunction(f)

\* w * num / den, rounded down and rounded up.
Rounded(w, num, den) == {(w * num) \div den, -((-(w * num)) \div den)}

\* The items but the last.
Others(weights) == DOMAIN weights \ {Max(DOMAIN weights)}

\* The shares of all but the last item, before any correction.
RawShares(weights, num, den) ==
    {f \in [Others(weights) -> UNION {Rounded(weights[i], num, den) : i \in Others(weights)}] :
        \A i \in Others(weights) : f[i] \in Rounded(weights[i], num, den)}

\* What f is over the target is taken back from its items, the last one first.
Absorbed(f, over) ==
    [i \in DOMAIN f |->
        f[i] - Least(f[i], Most(0, over - SumFunctionOnSet(f, {j \in DOMAIN f : j > i})))]

\* The shares f of the others, and what is left for the last item.
Completed(weights, f, rest) == [i \in DOMAIN weights |-> IF i \in DOMAIN f THEN f[i] ELSE rest]

\* Mutant of LastItemRemainder: the excess of the others is not taken back.
UncheckedRemainder(weights, num, den, target) ==
    {Completed(weights, f, IF num >= 0 THEN Most(0, target - Total(f)) ELSE target - Total(f)) :
        f \in RawShares(weights, num, den)}

\* _scaled_with_last_item_remainder, of weights that are not all zero: each
\* weight times num / den, the last item taking what is left of the target.
LastItemRemainder(weights, num, den, target) ==
    LET settled(f) == IF num >= 0 /\ Total(f) > target THEN Absorbed(f, Total(f) - target) ELSE f
        rest(g) == IF num >= 0 THEN Most(0, target - Total(g)) ELSE target - Total(g)
    IN {Completed(weights, settled(f), rest(settled(f))) : f \in RawShares(weights, num, den)}

\* allocate_children: the shares of the requests (none of a negative balance)
\* and what the pool gets back.
AllocateChildren(balance, requests) ==
    LET total == Total(requests)
        paid == Least(balance, total)
    IN IF balance < 0 THEN {[shares |-> <<>>, returned |-> 0]}
       ELSE IF total = 0 THEN {[shares |-> requests, returned |-> balance]}
       ELSE {[shares |-> s, returned |-> balance - Total(s)] :
                s \in LastItemRemainder(requests, paid, total, paid)}

\* redistribute_pool, when there are leaves: the pool and the adjustment are spread
\* over the balances that are positive, in proportion, or evenly over all.
RedistributePool(available, balances) ==
    LET positive == {i \in DOMAIN balances : balances[i] > 0}
        weights == IF positive # {} THEN [i \in positive |-> balances[i]]
                   ELSE [i \in DOMAIN balances |-> 1]
    IN {[i \in DOMAIN balances |-> balances[i] + (IF i \in DOMAIN s THEN s[i] ELSE 0)] :
            s \in LastItemRemainder(weights, available, Total(weights), available)}
=============================================================================
