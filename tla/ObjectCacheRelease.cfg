CONSTANTS
    OcActors = {a1, a2, a3}
    OcEntries = {1, 2, 3}
SPECIFICATION OcSpec
INVARIANT ReleaseWaitsForOthers
CHECK_DEADLOCK FALSE
