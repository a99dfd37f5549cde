----------------------------- MODULE MCProcedures -----------------------------
(* Batches that mix every way a request can go: refused, repeated, hanging,   *)
(* a contractor beside others, and a compaction at the end or in between.     *)
EXTENDS Procedures

MCBatches == {<<"pure", "act">>, <<"act", Compact, "pure">>, <<Contractor, "pure">>,
              <<Contractor, "core.terminate", Compact>>, <<"gone", "denied", "act">>, <<Compact>>}
MCAllowed == {"pure", "act", "gone", Contractor}
MCCatalog == {"pure", "act", "denied", Contractor}
MCIdempotent == {"pure"}
MCNestedAsks == {<<>>, <<"act">>, <<Contractor, Compact>>, <<"act", "pure">>}
=============================================================================
