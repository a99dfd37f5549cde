SPECIFICATION Spec
CONSTANTS
    Tasks = {"wide", "thin"}
    NoTask = NoTask
    Effects <- MCFanOut
    Reusable <- MCFanOutReusable
    Pausable = {}
    Generations = {}
    LimitChoices <- MCSingleLlmOnly
    InitialLimits <- MCSingleLlm
PROPERTY FanOutIsFair
CHECK_DEADLOCK FALSE
