SPECIFICATION RaceSpec
CONSTANTS
    Frames = 2
    PAGE = 60
    Requests = {1, 6}
INVARIANTS HarmOnlyHalfDone
CHECK_DEADLOCK FALSE
