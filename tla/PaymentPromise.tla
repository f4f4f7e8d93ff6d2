--------------------------- MODULE PaymentPromise ---------------------------
(***************************************************************************)
(* What a prepaid M-Pesa checkout promises, without callbacks, retries,     *)
(* routers or failures: a payer answers the prompt, the checkout is closed  *)
(* once, and closing a paid checkout hands out its amount in that step, to  *)
(* the wallet of a Hotspot customer and to the reseller that sold it.       *)
(* MpesaSettlement is shown to implement it.                                *)
(***************************************************************************)
EXTENDS Naturals

CONSTANTS Tx, NoOne, Service, AccountOf, ResellerOf, Amount

VARIABLES
    phase,       \* open, completed or failed
    answer,      \* what the payer did: none, paid or declined
    wallet, earnings

promise == <<phase, answer, wallet, earnings>>

Init ==
    /\ phase = [t \in Tx |-> "open"]
    /\ answer = [t \in Tx |-> "none"]
    /\ \A a \in DOMAIN wallet : wallet[a] = 0
    /\ \A r \in DOMAIN earnings : earnings[r] = 0

Answers(t, a) ==
    /\ phase[t] = "open" /\ answer[t] = "none"
    /\ answer' = [answer EXCEPT ![t] = a]
    /\ UNCHANGED <<phase, wallet, earnings>>

(* Nothing was paid: nothing is handed out. *)
CloseUnpaid(t) ==
    /\ phase[t] = "open" /\ answer[t] # "paid"
    /\ phase' = [phase EXCEPT ![t] = "failed"]
    /\ UNCHANGED <<answer, wallet, earnings>>

Plus(balance, who, t) ==
    IF who = NoOne THEN balance ELSE [balance EXCEPT ![who] = @ + Amount[t]]

(* A renewal that cannot be applied is closed as failed, though paid. *)
ClosePaid(t) ==
    /\ phase[t] = "open" /\ answer[t] = "paid"
    /\ \E p \in {"completed"} \union
                (IF Service[t] \in {"pppoe", "vlan"} THEN {"failed"} ELSE {}) :
          phase' = [phase EXCEPT ![t] = p]
    /\ wallet' = IF Service[t] = "hotspot" THEN Plus(wallet, AccountOf[t], t)
                                           ELSE wallet
    /\ earnings' = Plus(earnings, ResellerOf[t], t)
    /\ UNCHANGED answer

Next == \E t \in Tx : \/ Answers(t, "paid") \/ Answers(t, "declined")
                      \/ CloseUnpaid(t) \/ ClosePaid(t)

Spec == Init /\ [][Next]_promise
=============================================================================
