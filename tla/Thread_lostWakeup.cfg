CONSTANTS
    MaxStarts = 1
    Calls = {"start", "pause", "unpause", "cancel"}
    Patient = FALSE
SPECIFICATION FairSpec
PROPERTIES UnpauseWakes
CHECK_DEADLOCK FALSE
