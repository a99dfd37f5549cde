SPECIFICATION Spec
CONSTANTS
    Callers = {tool, worker, timer}
    Appliers = {worker}
    Cancellable = {timer}
    Events <- MCEvents
    NoEvent <- MCNoEvent
    InitialState <- MCInitialState
    Verdict <- MCVerdict
    NextState <- MCNextState
    Failed <- MCFailed
    MaxFaults = 2
INVARIANTS
    IInv
    EffectsAfterCommit
    NothingForgotten
PROPERTIES
    Serial
    StoppedIsFinal
    EveryCallReturns
CHECK_DEADLOCK FALSE
