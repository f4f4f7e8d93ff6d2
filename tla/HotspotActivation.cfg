\* Two purchases, of which the newer one has an unreachable router; the timer
\* and one portal page; restrictions fall between invocations.
CONSTANTS
    LastTx = 2
    Name = {n1, n2, n3}
    Client = {c1}
    Sweeper = Sweeper
    NoName = NoName
    NoTx = NoTx
    Batch = 2
    Dead = {2}
    Resold = {2}
    Ends = {"suspension", "depletion", "lapse"}
    Interleaved = FALSE
    Faults = {"database", "router", "away", "binding", "crash"}
    MaxFaults = 1
    MaxRequests = 1
SPECIFICATION Spec
INVARIANTS
    OneAccountPerPayment
    CountersResetOnce
    ActiveHasAccess
PROPERTIES
    RestrictionHolds
    PaidIsServed
CHECK_DEADLOCK FALSE
