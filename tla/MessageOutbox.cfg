\* Two messages, two workers with batches of up to two, two claims a row and
\* two lost answers, failed calls or crashes.
SPECIFICATION FairSpec
CONSTANTS
    Messages = {m1, m2}
    Workers = {w1, w2}
    None = None
    MaxAttempts = 2
    Limit = 2
    MaxFaults = 2
INVARIANTS
    TypeOK
    RowTellsDelivery
PROPERTIES
    SentStays
    EveryMessageSettles
CHECK_DEADLOCK FALSE
