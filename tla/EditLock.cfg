SPECIFICATION FairSpec
CONSTANTS
    Edits = {e1, e2}
    Workers = {w1, w2}
    None = None
    Base = Base
    Mixed = Mixed
    Lease = 3
    Deadline = 4
    MaxCall = 1
    MaxWrite = 1
    MaxCrashes = 1
    First = e1
    FirstWorker = w1
CONSTRAINT Named
INVARIANTS
    WritersExclusive
    AnswerIsTrue
    DivergenceReported
PROPERTY EveryEditEnds
CHECK_DEADLOCK FALSE
