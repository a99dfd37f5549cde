SPECIFICATION Spec
CONSTANTS
    Callers = {tool, worker, timer}
    Appliers = {worker}
    Cancellable = {timer}
    Events <- MCEvents
    NoEvent <- MCNoEvent
    InitialState <- MCInitialState
    Verdict <- MCVerdict
    NextState <- MCNextState
    Failed <- MCFailed
    MaxFaults = 2
PROPERTY SerializesTransitions
CHECK_DEADLOCK FALSE
