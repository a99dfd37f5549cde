------------------------------- MODULE Selection -------------------------------
(***************************************************************************)
(* Python's [x for x in s if x in S].  The sequence is given by the rank of *)
(* its elements rather than by a recursion, as SelectSeq of the library is: *)
(* FairScheduler_proofs proves what it returns.                            *)
(***************************************************************************)
EXTENDS Naturals, Sequences, FiniteSets

\* How many members of I come up to i.
Rank(I, i) == Cardinality({k \in I : k <= i})

\* The elements of the sequence s that are in S, in the order of s.
Picked(s, S) ==
    LET I == {i \in DOMAIN s : s[i] \in S}
    IN [j \in 1 .. Cardinality(I) |-> s[CHOOSE i \in I : Rank(I, i) = j]]
=============================================================================
