CONSTANTS
    MaxStarts = 2
    Calls = {"start", "pause", "unpause", "cancel", "cancelWait", "join", "joinTimed"}
    Patient = TRUE
    DictValue = DictValue
    DictDefault = DictDefault
    DictYes = DictYes
    DictNo = DictNo
    DictThrew = DictThrew
    DictDone = DictDone
    Colliding = FALSE
SPECIFICATION BaseSpec
INVARIANTS ThreadRight CrowdRight WellFormed
PROPERTIES PauseHolds UnpauseWakes StopsInTheEnd ImplementsMap
\* owners and callers may stop, and bounds end every behaviour
CHECK_DEADLOCK FALSE
