\* A Codex host whose program ends at any moment of its start.
CONSTANTS
    Messages = {"m1"}
    MaxGen = 2
    MaxTail = 1
    None = None
SPECIFICATION FairSpec
PROPERTY ExitCloses
CHECK_DEADLOCK FALSE
