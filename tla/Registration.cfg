\* Three registrations of one contact that may have two accounts; one fault.
SPECIFICATION FairSpec
CONSTANTS
    r1 = r1
    r2 = r2
    r3 = r3
    t1 = t1
    t2 = t2
    t3 = t3
    Request <- MCRequest
    Manual <- MCManual
    Token <- MCToken
    Shown <- MCShown
    Limit = 2
    MaxInserts = 2
    MaxUpdates = 2
    MaxFaults = 1
INVARIANTS ActivationFollowsPayment PromptKeepsItsRow ContactLimitHolds OneAccountPerToken
PROPERTY PaidIsActivated
CHECK_DEADLOCK FALSE
