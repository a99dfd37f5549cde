CONSTANTS
    Providers <- MCProviders
    Builtin = "builtin"
    Ids = {"x", "y", "root"}
    Offers <- MCOffers
    Shown <- MCShown
    Discoveries = 2
    MaxChanges = 1
    MaxTroubles = 1
    Callers = {"c"}
    Root = "root"
SPECIFICATION Spec
INVARIANTS OneOwner NothingOutlives
PROPERTIES ListedStays CloseEnds FitIsListed
