CONSTANTS
    MaxStarts = 2
    Calls = {"start", "pause", "unpause", "cancel", "cancelWait", "join", "joinTimed"}
    Patient = TRUE
    DictValue = DictValue
    DictDefault = DictDefault
    DictYes = DictYes
    DictNo = DictNo
    DictThrew = DictThrew
    DictDone = DictDone
    Colliding = TRUE
SPECIFICATION BaseSpec
PROPERTIES ImplementsMap
\* two keys of one hash are one key for the dictionary (Dictionary.h:387)
\* owners and callers may stop, and bounds end every behaviour
CHECK_DEADLOCK FALSE
