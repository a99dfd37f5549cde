----------------------------- MODULE MCPlanning -----------------------------
(***************************************************************************)
(* Planning over bounded inputs.                                           *)
(***************************************************************************)
EXTENDS Planning

CONSTANTS MaxEdges, MaxRequest, MaxBalance

MCRequests == [edges : BoundedSeq([live : BOOLEAN, credits : 0..MaxRequest], MaxEdges),
               depth : 0..MaxDepth, credits : 0..MaxBalance, started : 0..(MaxCalls + 1)]
MCSpreads == [available : (-MaxBalance)..MaxBalance,
              balances : BoundedSeq((-1)..MaxRequest, MaxEdges) \ {<<>>}]
=============================================================================
