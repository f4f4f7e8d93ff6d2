\* Three callbacks, batches of two events, sweeps that never overlap, one query
\* that fails; requests drain callbacks beside them, and those
\* that stored a callback retire it at any time.
CONSTANTS
    LastEvent = 3
    Sweep = {s1}
    Window = 1
    MaxAge = 10
    Batch = 2
    MaxLag = 0
    Verdicts = {"settles", "unsettled"}
    MaxFaults = 1
SPECIFICATION Spec
INVARIANTS
    TypeOK
    TriedBeforeIgnored
PROPERTIES
    RetiredStaysRetired
    SettlableIsSettled
