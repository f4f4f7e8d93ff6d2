\* One Hotspot purchase, two requests with its intent, one callback, two
\* invocations, one fault of the handler and one of the processing.
CONSTANTS
    buy = buy
    cust = cust
    Request = {r1, r2}
    NoCheckout = NoCheckout
    MaxTries = 3
    Intent = {buy}
    Account = {cust}
    Reseller = {}
    Event = {e1}
    Worker = {w1, w2}
    NoOne = NoOne
    Service <- HotspotService
    AccountOf <- HotspotAccount
    ResellerOf <- HotspotReseller
    Amount <- HotspotAmount
    Faults = {"database", "daraja", "crash"}
    MaxFaults = 1
    JobFaults = {"daraja", "database", "lostReply", "crash"}
    MaxJobFaults = 1
SPECIFICATION PaymentsSpec
INVARIANTS
    CompletedHasItsCheckout
PROPERTIES
    CheckoutIsAsAssumed
    PromisedIsSettled
CHECK_DEADLOCK FALSE
