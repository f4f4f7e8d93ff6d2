\* A pool of one address pair, one target router, one review a job, one fault.
SPECIFICATION FairSpec
CONSTANTS
    a = a
    b = b
    c = c
    d = d
    Request = {r1, r2}
    Job <- MCJob
    Known <- MCKnown
    Reachable <- MCReachable
    Importable <- MCImportable
    Begun <- MCBegun
    Router = {t}
    PoolSize = 1
    MaxReviews = 1
    MaxFaults <- MCMaxFaults
INVARIANTS ClientsDoNotShare ExclusiveImports OneImportPerReview
PROPERTY EveryTunnelEnds
CHECK_DEADLOCK FALSE
