\* Three requests over two intents: a double click, a late retry and a
\* second checkout, with two faults of any kind.
CONSTANTS
    Intent = {i1, i2}
    Request = {r1, r2, r3}
    NoCheckout = NoCheckout
    MaxTries = 3
    Faults = {"database", "daraja", "crash"}
    MaxFaults = 2
SPECIFICATION Spec
INVARIANTS
    OnePromptPerIntent
    PromisedCheckoutExists
    ClosedCheckoutWasNeverPrompted
PROPERTIES
    EveryRequestEnds
CHECK_DEADLOCK FALSE
