\* Two invocations process two callbacks of one PPPoE renewal, nothing fails.
CONSTANTS
    ppp = ppp
    hot = hot
    vlan = vlan
    reg = reg
    cust = cust
    tenant = tenant
    shop = shop
    Tx = {ppp}
    Account = {cust}
    Reseller = {shop}
    Event = {e1, e2}
    Worker = {w1, w2}
    NoOne = NoOne
    Service <- PppoeService
    AccountOf <- PppoeAccount
    ResellerOf <- PppoeReseller
    Amount <- PppoeAmount
    Faults = {}
    MaxFaults = 0
SPECIFICATION Spec
SYMMETRY Symmetry
INVARIANTS
    NoActiveDisabledMismatch
CHECK_DEADLOCK FALSE
