\* One purchase, nothing fails, and an administrator suspends the account
\* while an invocation runs.
CONSTANTS
    LastTx = 1
    Name = {n1, n2}
    Client = {c1}
    Sweeper = Sweeper
    NoName = NoName
    NoTx = NoTx
    Batch = 1
    Dead = {}
    Resold = {}
    Ends = {"suspension"}
    Interleaved = TRUE
    Faults = {}
    MaxFaults = 0
    MaxRequests = 1
SPECIFICATION Spec
PROPERTIES
    RestrictionHolds
CHECK_DEADLOCK FALSE
