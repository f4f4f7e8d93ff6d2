\* One transaction of any service with two faults of any kind, or a PPPoE
\* renewal and a Hotspot purchase of one customer without; two webhook events
\* with any body, two invocations at once.
CONSTANTS
    ppp = ppp
    hot = hot
    vlan = vlan
    reg = reg
    cust = cust
    tenant = tenant
    shop = shop
    Tx = {ppp, hot, vlan, reg}
    Account = {cust, tenant}
    Reseller = {shop}
    Event = {e1, e2}
    Worker = {w1, w2}
    NoOne = NoOne
    Service <- AllService
    AccountOf <- AllAccount
    ResellerOf <- AllReseller
    Amount <- AllAmount
    Faults = {"daraja", "database", "lookup", "lostReply", "router", "crash", "expiry", "withdrawal"}
    MaxFaults = 2
SPECIFICATION SafetySpec
CONSTRAINT OneGroup
SYMMETRY Symmetry
INVARIANTS
    CompletedIsPaid
    ProcessedIsSettled
    AccessFollowsReceipt
    LedgerBalances
PROPERTIES
    KeepsPromise
CHECK_DEADLOCK FALSE
