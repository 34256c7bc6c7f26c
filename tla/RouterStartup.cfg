\* Two processes start, stop and crash around what a router left behind.
CONSTANTS
    Proc = {"p1", "p2"}
    Inode = {1, 2, 3}
    Mishaps = 1
    None = None
SPECIFICATION Spec
INVARIANTS
    WinnerKeepsSocket
PROPERTIES
    LockIsKept
    SomeoneServes
