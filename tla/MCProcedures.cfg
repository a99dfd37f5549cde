CONSTANTS
    Batches <- MCBatches
    Allowed <- MCAllowed
    Catalog <- MCCatalog
    Idempotent <- MCIdempotent
    NestedAsks <- MCNestedAsks
    MaxTurns = 4
    Budget = 3
    Costs = {0, 2}
SPECIFICATION Spec
INVARIANTS RepeatsAreSafe BatchIsWhole ChargedIsSpent ContractorBound
PROPERTY BatchEnds
