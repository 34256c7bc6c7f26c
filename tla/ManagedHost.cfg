\* Any of the three hosts, with three deliveries and up to three registrations.
CONSTANTS
    Messages = {"m1", "m2", "m3"}
    MaxGen = 3
    MaxTail = 2
    None = None
SPECIFICATION FairSpec
INVARIANTS
    StaleIsRenewed
PROPERTIES
    EndingHostsAcceptNothing
    EndedHostsLeave
    DeliveriesEnd
CHECK_DEADLOCK FALSE
