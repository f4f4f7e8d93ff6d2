------------------------- MODULE MCMpesaSettlement -------------------------
(* Small instances of MpesaSettlement for TLC. *)
EXTENDS MpesaSettlement, TLC

CONSTANTS ppp, hot, vlan, reg,     \* transactions
          cust, tenant, shop

AllService == ppp :> "pppoe" @@ hot :> "hotspot" @@ vlan :> "vlan" @@ reg :> "registration"
AllAccount == ppp :> cust @@ hot :> cust @@ vlan :> cust @@ reg :> tenant
AllReseller == ppp :> shop @@ hot :> NoOne @@ vlan :> shop @@ reg :> NoOne
AllAmount == ppp :> 2 @@ hot :> 3 @@ vlan :> 2 @@ reg :> 5

PppoeService == ppp :> "pppoe"
PppoeAccount == ppp :> cust
PppoeReseller == ppp :> shop
PppoeAmount == ppp :> 2

Symmetry == Permutations(Event) \union Permutations(Worker)

(* The state constraint of SettlementReplays.  A behaviour concerns one     *)
(* transaction, of any service, or, if nothing fails, the two purchases ppp *)
(* and hot of one customer.  The others stay as they are.                   *)
Touched(t) == \/ status[t] # "initiating" \/ outcome[t] # "none"
              \/ ~planActive[t] \/ ~resellerActive[t]
OneGroup == \/ \E t \in Tx : \A u \in Tx \ {t} : ~Touched(u)
            \/ faults = MaxFaults /\ ~Touched(vlan) /\ ~Touched(reg)
=============================================================================
