\* A PPPoE renewal whose callbacks are processed one at a time and whose
\* settlement calls are always answered: three transient faults of the other
\* kinds, no event expires before it is swept, no offer is withdrawn.
CONSTANTS
    ppp = ppp
    hot = hot
    vlan = vlan
    reg = reg
    cust = cust
    tenant = tenant
    shop = shop
    Tx = {ppp}
    Account = {cust}
    Reseller = {shop}
    Event = {e1, e2}
    Worker = {w1}
    NoOne = NoOne
    Service <- PppoeService
    AccountOf <- PppoeAccount
    ResellerOf <- PppoeReseller
    Amount <- PppoeAmount
    Faults = {"daraja", "database", "router", "crash"}
    MaxFaults = 3
SPECIFICATION Spec
INVARIANTS
    NoActiveDisabledMismatch
PROPERTIES
    PaidIsSettled
CHECK_DEADLOCK FALSE
