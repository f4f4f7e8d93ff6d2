-------------------------- MODULE MpesaSettlement --------------------------
(***************************************************************************)
(* What happens to an M-Pesa payment between the prompt on the payer's      *)
(* phone and the settled isp_transactions row: Daraja's callbacks are       *)
(* stored as webhook events and processed by several invocations of         *)
(* processMpesaCallback at once (the live request, the 60 s deferred sweep, *)
(* the drain after a checkout is recorded), each of which verifies the      *)
(* result with Daraja, restores router access for renewals and calls the    *)
(* settle_verified_mpesa_transaction RPC.  Each await is a step.            *)
(*                                                                         *)
(* A transaction names its own CheckoutRequestID: the id is unique to the   *)
(* row from the moment the row is pending.                                  *)
(***************************************************************************)
EXTENDS Integers, FiniteSetsExt

CONSTANTS
    Tx,            \* M-Pesa transactions
    Account,       \* customers (and tenants that register)
    Reseller,      \* reseller accounts that earn from sales
    Event,         \* ids of isp_webhook_events rows
    Worker,        \* concurrent invocations of processMpesaCallback
    NoOne,         \* nobody is attached; no event is being processed
    Service,       \* what a transaction pays for
    AccountOf,     \* renewals, registrations: the linked account;
                   \* otherwise the customer with the payer's phone
    ResellerOf,    \* isp_transactions.reseller_id
    Amount,        \* isp_transactions.amount
    Faults,        \* the kinds of fault that may happen in a run
    MaxFaults      \* how many faults may happen in a behaviour

Services == {"hotspot", "pppoe", "vlan", "registration"}

ASSUME TxAssumption == IsFiniteSet(Tx)
ASSUME NoOneAssumption ==
    NoOne \notin Account \union Reseller \union Event \union Tx
ASSUME ServiceAssumption == Service \in [Tx -> Services]
ASSUME AccountAssumption ==
    /\ AccountOf \in [Tx -> Account \union {NoOne}]
    /\ \A t \in Tx : Service[t] # "hotspot" => AccountOf[t] \in Account
ASSUME ResellerAssumption == ResellerOf \in [Tx -> Reseller \union {NoOne}]
ASSUME AmountAssumption == Amount \in [Tx -> Nat \ {0}]
ASSUME FaultAssumption == MaxFaults \in Nat

VARIABLES
    (* the database *)
    status,          \* isp_transactions.status
    receipt,         \* isp_transactions.mpesa_receipt is set
    standing,        \* isp_customers.status, isp_admins.status
    wallet,          \* isp_customers.wallet_balance
    earnings,        \* isp_admins.earnings_balance
    event,           \* isp_webhook_events: checkout, body, status
    planActive,      \* the plan and its service port are active
    resellerActive,  \* the reseller account is active
    (* the router and FreeRADIUS *)
    line,            \* the PPP secret or the VLAN queue is enabled
    radius,          \* the RADIUS account of a PPPoE customer is enabled
    (* Daraja *)
    outcome,         \* what became of the prompt
    (* the API process *)
    job,             \* the invocations of processMpesaCallback
    faults           \* faults that may still happen

ledger == <<status, standing, wallet, earnings>>
offers == <<planActive, resellerActive>>
access == <<line, radius>>
vars == <<ledger, receipt, event, offers, access, outcome, job, faults>>

Renewals == {"pppoe", "vlan"}
TxStatus == {"initiating", "pending", "completed", "failed"}
Settled == {"completed", "failed"}
Outcomes == {"none", "prompted", "paid", "declined"}
Standings == {"inactive", "active", "payment_failed", "router_pending"}
Claims == {"success", "no_receipt", "mismatch", "failure"}
Steps == {"select", "verify", "receipt", "fetch", "enable", "radius", "settle",
          "undoRadius", "undoLine", "save", "mark"}

(* good: Daraja confirmed a success.  granting: the invocation changes the   *)
(* router and has a rollback function.  was: the access it found there.      *)
Jobs == [at : Steps, ev : Event, live : BOOLEAN, good : BOOLEAN,
         granting : BOOLEAN, was : BOOLEAN]
Idle == [at |-> "idle", ev |-> NoOne, live |-> FALSE, good |-> FALSE,
         granting |-> FALSE, was |-> FALSE]
Rows == [tx : Tx, claim : Claims,
         status : {"received", "processed", "ignored"}]
NoRow == [tx |-> NoOne, claim |-> "none", status |-> "absent"]

TypeOK ==
    /\ status \in [Tx -> TxStatus]
    /\ receipt \in [Tx -> BOOLEAN]
    /\ standing \in [Account -> Standings]
    /\ wallet \in [Account -> Nat]
    /\ earnings \in [Reseller -> Nat]
    /\ event \in [Event -> Rows \union {NoRow}]
    /\ planActive \in [Tx -> BOOLEAN]
    /\ resellerActive \in [Tx -> BOOLEAN]
    /\ line \in [Account -> BOOLEAN]
    /\ radius \in [Account -> BOOLEAN]
    /\ outcome \in [Tx -> Outcomes]
    /\ job \in [Worker -> Jobs \union {Idle}]
    /\ faults \in 0 .. MaxFaults

Init ==
    /\ status = [t \in Tx |-> "initiating"]
    /\ receipt = [t \in Tx |-> FALSE]
    /\ standing = [a \in Account |-> "inactive"]
    /\ wallet = [a \in Account |-> 0]
    /\ earnings = [r \in Reseller |-> 0]
    /\ event = [e \in Event |-> NoRow]
    /\ planActive = [t \in Tx |-> TRUE]
    /\ resellerActive = [t \in Tx |-> TRUE]
    /\ line = [a \in Account |-> FALSE]
    /\ radius = [a \in Account |-> FALSE]
    /\ outcome = [t \in Tx |-> "none"]
    /\ job = [w \in Worker |-> Idle]
    /\ faults = MaxFaults

-----------------------------------------------------------------------------
(* Helpers *)

Busy(w) == job[w] # Idle
TxOf(w) == event[job[w].ev].tx
ClaimOf(w) == event[job[w].ev].claim
AccOf(w) == AccountOf[TxOf(w)]
At(w, step) == Busy(w) /\ job[w].at = step

MoveTo(w, step) == job' = [job EXCEPT ![w].at = step]
Finish(w) == job' = [job EXCEPT ![w] = Idle]

(* The rollback function of the grant that was made, or return false. *)
Undo(w) ==
    IF ~job[w].granting THEN Finish(w)
    ELSE MoveTo(w, IF Service[TxOf(w)] = "pppoe" THEN "undoRadius"
                                                 ELSE "undoLine")

Fault(kind) == /\ kind \in Faults
               /\ faults > 0
               /\ faults' = faults - 1

-----------------------------------------------------------------------------
(* The checkout, the payer and the administrator: not this module's code *)

Prompt(t) ==
    /\ status[t] = "initiating"
    /\ outcome[t] = "none"
    /\ outcome' = [outcome EXCEPT ![t] = "prompted"]
    /\ UNCHANGED <<ledger, receipt, event, offers, access, job, faults>>

(* Daraja refused the prompt: the row is closed. *)
Refuse(t) ==
    /\ status[t] = "initiating"
    /\ outcome[t] = "none"
    /\ status' = [status EXCEPT ![t] = "failed"]
    /\ UNCHANGED <<standing, wallet, earnings, receipt, event, offers, access,
                   outcome, job, faults>>

(* reconcileInitiatedStkRequest records the checkout id: see StkCheckout. *)
Reconcile(t) ==
    /\ status[t] = "initiating"
    /\ outcome[t] # "none"
    /\ status' = [status EXCEPT ![t] = "pending"]
    /\ UNCHANGED <<standing, wallet, earnings, receipt, event, offers, access,
                   outcome, job, faults>>

PayerAnswers(t) ==
    /\ outcome[t] = "prompted"
    /\ \E o \in {"paid", "declined"} : outcome' = [outcome EXCEPT ![t] = o]
    /\ UNCHANGED <<ledger, receipt, event, offers, access, job, faults>>

(* An administrator deactivates the plan, its port or the reseller. *)
Withdraw(t) ==
    /\ Fault("withdrawal")
    /\ \/ /\ planActive' = [planActive EXCEPT ![t] = FALSE]
          /\ UNCHANGED resellerActive
       \/ /\ resellerActive' = [resellerActive EXCEPT ![t] = FALSE]
          /\ UNCHANGED planActive
    /\ UNCHANGED <<ledger, receipt, event, access, outcome, job>>

-----------------------------------------------------------------------------
(* Callback intake and the deferred sweep *)

NewJob(e, isLive) == [at |-> "select", ev |-> e, live |-> isLive,
                      good |-> FALSE, granting |-> FALSE, was |-> FALSE]

Store(e, t, c) ==
    /\ event[e] = NoRow
    /\ event' = [event EXCEPT ![e] = [tx |-> t, claim |-> c,
                                      status |-> "received"]]

(* POST /mpesa/callback: Daraja, or anyone, posts a body about a checkout   *)
(* id that exists; it is stored, acknowledged and processed in the request. *)
Receive(e, t, c, w) ==
    /\ outcome[t] # "none"
    /\ ~Busy(w)
    /\ Store(e, t, c)
    /\ job' = [job EXCEPT ![w] = NewJob(e, TRUE)]
    /\ UNCHANGED <<ledger, receipt, offers, access, outcome, faults>>

(* The row is stored but the insert's response is lost: answered 503. *)
ReceiveUnprocessed(e, t, c) ==
    /\ outcome[t] # "none"
    /\ Fault("lostReply")
    /\ Store(e, t, c)
    /\ UNCHANGED <<ledger, receipt, offers, access, outcome, job>>

(* The periodic sweep, or the drain after a checkout is recorded, takes a   *)
(* received event.  Sweeps carry no busy flag: two may hold the same event. *)
Sweep(e, w) ==
    /\ event[e].status = "received"
    /\ ~Busy(w)
    /\ job' = [job EXCEPT ![w] = NewJob(e, FALSE)]
    /\ UNCHANGED <<ledger, receipt, event, offers, access, outcome, faults>>

(* A callback still unsettled after CALLBACK_MAX_AGE_MS is retired. *)
Expire(e) ==
    /\ event[e].status = "received"
    /\ Fault("expiry")
    /\ event' = [event EXCEPT ![e].status = "ignored"]
    /\ UNCHANGED <<ledger, receipt, offers, access, outcome, job>>

-----------------------------------------------------------------------------
(* processMpesaCallback, await by await *)

SelectPending(w) ==
    /\ At(w, "select")
    /\ IF status[TxOf(w)] = "pending" THEN MoveTo(w, "verify") ELSE Finish(w)
    /\ UNCHANGED <<ledger, receipt, event, offers, access, outcome, faults>>

(* Defect: the posted body is believed. *)
ConfirmedByBody(t, c) == c \in {"success", "failure"}

(* What Daraja's STK query must say before the callback is believed: the    *)
(* same result, and for a success a receipt, the amount and the phone.      *)
Confirmed(t, c) == \/ outcome[t] = "paid" /\ c = "success"
                   \/ outcome[t] = "declined" /\ c = "failure"

(* Defect: a verified success goes on without storing its receipt. *)
VerifyWithoutReceipt(w) ==
    /\ At(w, "verify")
    /\ IF Confirmed(TxOf(w), ClaimOf(w))
       THEN job' = [job EXCEPT ![w].at =
                        IF ClaimOf(w) = "success"
                           /\ Service[TxOf(w)] \in Renewals
                        THEN "fetch" ELSE "settle",
                               ![w].good = ClaimOf(w) = "success"]
       ELSE Finish(w)
    /\ UNCHANGED <<ledger, receipt, event, offers, access, outcome, faults>>

VerifyStk(w) ==
    /\ At(w, "verify")
    /\ IF Confirmed(TxOf(w), ClaimOf(w))
       THEN IF ClaimOf(w) = "success"
            THEN job' = [job EXCEPT ![w].at = "receipt", ![w].good = TRUE]
            ELSE MoveTo(w, "settle")
       ELSE Finish(w)
    /\ UNCHANGED <<ledger, receipt, event, offers, access, outcome, faults>>

(* Defect: a callback that could not be verified is retired all the same. *)
VerifyFailsRetires(w) ==
    /\ \/ At(w, "select") /\ Fault("database")
       \/ At(w, "verify") /\ Fault("daraja")
    /\ event' = [event EXCEPT ![job[w].ev].status = "processed"]
    /\ Finish(w)
    /\ UNCHANGED <<ledger, receipt, offers, access, outcome>>

(* The row or the settings cannot be read, or Daraja does not answer. *)
VerifyFails(w) ==
    /\ \/ At(w, "select") /\ Fault("database")
       \/ At(w, "verify") /\ Fault("daraja")
    /\ Finish(w)
    /\ UNCHANGED <<ledger, receipt, event, offers, access, outcome>>

AfterReceipt(w) == IF Service[TxOf(w)] \in Renewals THEN "fetch" ELSE "settle"

SaveReceipt(w) ==
    /\ At(w, "receipt")
    /\ IF status[TxOf(w)] = "pending"
       THEN /\ receipt' = [receipt EXCEPT ![TxOf(w)] = TRUE]
            /\ MoveTo(w, AfterReceipt(w))
       ELSE Finish(w) /\ UNCHANGED receipt
    /\ UNCHANGED <<ledger, event, offers, access, outcome, faults>>

SaveReceiptFails(w) ==
    /\ At(w, "receipt")
    /\ \/ Fault("database") /\ UNCHANGED receipt
       \/ /\ Fault("lostReply")
          /\ status[TxOf(w)] = "pending"
          /\ receipt' = [receipt EXCEPT ![TxOf(w)] = TRUE]
    /\ Finish(w)
    /\ UNCHANGED <<ledger, event, offers, access, outcome>>

(* reactivatePppoeAccess remembers the PPP secret it finds on the router;   *)
(* reactivateVlanAccess whether the customer row is active and unexpired.   *)
FetchAccess(w) ==
    /\ At(w, "fetch")
    /\ \E unexpired \in BOOLEAN :
          job' = [job EXCEPT ![w].at = "enable",
                             ![w].granting = TRUE,
                             ![w].was = IF Service[TxOf(w)] = "pppoe"
                                        THEN line[AccOf(w)]
                                        ELSE /\ standing[AccOf(w)] = "active"
                                             /\ unexpired]
    /\ UNCHANGED <<ledger, receipt, event, offers, access, outcome, faults>>

FetchFails(w) ==
    /\ At(w, "fetch")
    /\ Fault("router")
    /\ Finish(w)
    /\ UNCHANGED <<ledger, receipt, event, offers, access, outcome>>

(* sbSelect answers an HTTP error with no rows: a plan that cannot be read  *)
(* is taken for one that needs no router, and the grant is skipped.         *)
FetchSkips(w) ==
    /\ At(w, "fetch")
    /\ Fault("lookup")
    /\ MoveTo(w, "settle")
    /\ UNCHANGED <<ledger, receipt, event, offers, access, outcome>>

(* After a PPPoE grant the plan is looked up once more, for a VLAN: if that *)
(* throws the invocation ends and the grant stays.                          *)
LookupThrows(w) ==
    /\ At(w, "settle")
    /\ job[w].granting /\ Service[TxOf(w)] = "pppoe"
    /\ Fault("lookup")
    /\ Finish(w)
    /\ UNCHANGED <<ledger, receipt, event, offers, access, outcome>>

EnableLine(w) ==
    /\ At(w, "enable")
    /\ line' = [line EXCEPT ![AccOf(w)] = TRUE]
    /\ MoveTo(w, IF Service[TxOf(w)] = "pppoe" THEN "radius" ELSE "settle")
    /\ UNCHANGED <<ledger, receipt, event, offers, radius, outcome, faults>>

EnableLineFails(w) ==
    /\ At(w, "enable")
    /\ Fault("router")
    /\ line' \in {line, [line EXCEPT ![AccOf(w)] = TRUE]}
    /\ Undo(w)
    /\ UNCHANGED <<ledger, receipt, event, offers, radius, outcome>>

EnableRadius(w) ==
    /\ At(w, "radius")
    /\ radius' = [radius EXCEPT ![AccOf(w)] = TRUE]
    /\ MoveTo(w, "settle")
    /\ UNCHANGED <<ledger, receipt, event, offers, line, outcome, faults>>

(* Defect: the payment is settled although RADIUS could not be reached. *)
EnableRadiusFailsIgnored(w) ==
    /\ At(w, "radius")
    /\ Fault("router")
    /\ MoveTo(w, "settle")
    /\ UNCHANGED <<ledger, receipt, event, offers, access, outcome>>

EnableRadiusFails(w) ==
    /\ At(w, "radius")
    /\ Fault("router")
    /\ radius' \in {radius, [radius EXCEPT ![AccOf(w)] = TRUE]}
    /\ Undo(w)
    /\ UNCHANGED <<ledger, receipt, event, offers, line, outcome>>

-----------------------------------------------------------------------------
(* settle_verified_mpesa_transaction: one database transaction *)

(* The RPC applies a linked purchase to an active PPPoE plan only. *)
Unapplied(t) == /\ Service[t] \in Renewals
                /\ ~(Service[t] = "pppoe" /\ planActive[t])

(* A reseller that is no longer active raises an exception: all rolled back. *)
Raises(t, ok) == ok /\ ResellerOf[t] # NoOne /\ ~resellerActive[t]

Credit(balance, who, t) ==
    IF who = NoOne THEN balance ELSE [balance EXCEPT ![who] = @ + Amount[t]]

SettleFailed(t) ==
    /\ status' = [status EXCEPT ![t] = "failed"]
    /\ standing' = IF Service[t] = "registration"
                   THEN [standing EXCEPT ![AccountOf[t]] = "payment_failed"]
                   ELSE standing
    /\ UNCHANGED <<wallet, earnings>>

SettleCompleted(t) ==
    /\ earnings' = Credit(earnings, ResellerOf[t], t)
    /\ wallet' = IF Service[t] = "hotspot"
                 THEN Credit(wallet, AccountOf[t], t) ELSE wallet
    /\ status' = [status EXCEPT ![t] =
                     IF Unapplied(t) THEN "failed" ELSE "completed"]
    /\ standing' = IF Service[t] # "hotspot" /\ ~Unapplied(t)
                   THEN [standing EXCEPT ![AccountOf[t]] = "active"]
                   ELSE standing

SettleRpc(t, ok) == IF ok THEN SettleCompleted(t) ELSE SettleFailed(t)

(* Defect: the RPC does not ask for a pending row. *)
SettlesAnyRow(t, ok) == ~Raises(t, ok)
Settles(t, ok) == status[t] = "pending" /\ ~Raises(t, ok)

AfterSettle(w) == IF job[w].granting /\ Service[TxOf(w)] = "vlan"
                  THEN "save" ELSE "mark"

Settle(w) ==
    /\ At(w, "settle")
    /\ IF Settles(TxOf(w), job[w].good)
       THEN /\ SettleRpc(TxOf(w), job[w].good)
            /\ MoveTo(w, AfterSettle(w))
       ELSE /\ Undo(w)
            /\ UNCHANGED ledger
    /\ UNCHANGED <<receipt, event, offers, access, outcome, faults>>

(* The call fails, or it commits and its response is lost: both throw. *)
SettleFails(w) ==
    /\ At(w, "settle")
    /\ \/ Fault("database") /\ UNCHANGED ledger
       \/ /\ Fault("lostReply")
          /\ Settles(TxOf(w), job[w].good)
          /\ SettleRpc(TxOf(w), job[w].good)
    /\ Undo(w)
    /\ UNCHANGED <<receipt, event, offers, access, outcome>>

-----------------------------------------------------------------------------
(* Rollback, the VLAN customer row, and the event's own status *)

UndoRadius(w) ==
    /\ At(w, "undoRadius")
    /\ radius' = [radius EXCEPT ![AccOf(w)] = FALSE]
    /\ MoveTo(w, "undoLine")
    /\ UNCHANGED <<ledger, receipt, event, offers, line, outcome, faults>>

UndoLine(w) ==
    /\ At(w, "undoLine")
    /\ line' = [line EXCEPT ![AccOf(w)] = job[w].was]
    /\ Finish(w)
    /\ UNCHANGED <<ledger, receipt, event, offers, radius, outcome, faults>>

(* A rollback step that throws is logged and ends the rollback. *)
UndoFails(w) ==
    /\ At(w, "undoRadius") \/ At(w, "undoLine")
    /\ Fault("router")
    /\ Finish(w)
    /\ UNCHANGED <<ledger, receipt, event, offers, access, outcome>>

SaveRenewal(w) ==
    /\ At(w, "save")
    /\ standing' = [standing EXCEPT ![AccOf(w)] = "active"]
    /\ MoveTo(w, "mark")
    /\ UNCHANGED <<status, wallet, earnings, receipt, event, offers, access,
                   outcome, faults>>

(* markPaymentClearedRouterPending, which may fail in its turn. *)
SaveRenewalFails(w) ==
    /\ At(w, "save")
    /\ Fault("database")
    /\ standing' \in {standing,
                      [standing EXCEPT ![AccOf(w)] = "router_pending"]}
    /\ MoveTo(w, "mark")
    /\ UNCHANGED <<status, wallet, earnings, receipt, event, offers, access,
                   outcome>>

(* The live request marks its row whatever its status has become meanwhile. *)
MarkProcessed(w) ==
    /\ At(w, "mark")
    /\ event' = [event EXCEPT ![job[w].ev].status =
                    IF job[w].live \/ @ = "received" THEN "processed" ELSE @]
    /\ Finish(w)
    /\ UNCHANGED <<ledger, receipt, offers, access, outcome, faults>>

MarkFails(w) ==
    /\ At(w, "mark")
    /\ Fault("database")
    /\ Finish(w)
    /\ UNCHANGED <<ledger, receipt, event, offers, access, outcome>>

(* The single API process dies with every invocation it was running. *)
Crash ==
    /\ Fault("crash")
    /\ job' = [w \in Worker |-> Idle]
    /\ UNCHANGED <<ledger, receipt, event, offers, access, outcome>>

-----------------------------------------------------------------------------
Progress(w) ==
    \/ SelectPending(w) \/ VerifyStk(w) \/ SaveReceipt(w)
    \/ FetchAccess(w) \/ EnableLine(w) \/ EnableRadius(w)
    \/ Settle(w) \/ UndoRadius(w) \/ UndoLine(w)
    \/ SaveRenewal(w) \/ MarkProcessed(w)

Failure(w) ==
    \/ VerifyFails(w) \/ SaveReceiptFails(w) \/ FetchFails(w)
    \/ FetchSkips(w) \/ LookupThrows(w)
    \/ EnableLineFails(w) \/ EnableRadiusFails(w) \/ SettleFails(w)
    \/ UndoFails(w) \/ SaveRenewalFails(w) \/ MarkFails(w)

Callbacks ==
    \/ \E e \in Event, t \in Tx, c \in Claims :
          \/ ReceiveUnprocessed(e, t, c)
          \/ \E w \in Worker : Receive(e, t, c, w)
    \/ \E e \in Event : Expire(e) \/ \E w \in Worker : Sweep(e, w)
    \/ \E w \in Worker : Progress(w) \/ Failure(w)

Surroundings == \E t \in Tx : \/ Prompt(t) \/ Refuse(t) \/ Reconcile(t)
                              \/ PayerAnswers(t) \/ Withdraw(t)

Next == Callbacks \/ Surroundings \/ Crash

(* The event loop runs every invocation on, and the sweep, every minute,    *)
(* comes back to every received event (DeferredScan): it may find all the   *)
(* invocations the model allows taken, but not for ever.                    *)
Fairness == /\ \A w \in Worker : WF_vars(Progress(w))
            /\ \A e \in Event : SF_vars(\E w \in Worker : Sweep(e, w))

SafetySpec == Init /\ [][Next]_vars
Spec == SafetySpec /\ Fairness
-----------------------------------------------------------------------------
(* Properties *)

(* A transaction is completed only if Daraja itself says the money was paid *)
(* and the receipt was stored first, whatever bodies are posted about it    *)
(* and however many invocations process them.                               *)
CompletedIsPaid ==
    \A t \in Tx : status[t] = "completed" => outcome[t] = "paid" /\ receipt[t]

(* A callback is retired as processed only when its transaction is closed:  *)
(* whatever fails in between, the deferred sweep still finds the event.     *)
ProcessedIsSettled ==
    \A e \in Event :
        event[e].status = "processed" => status[event[e].tx] \in Settled

(* Router access is only ever given to an account with a payment that       *)
(* Daraja confirmed and whose receipt is stored, even by a rollback that    *)
(* restores what an invocation saw while others were granting.              *)
AccessFollowsReceipt ==
    \A a \in Account :
        line[a] \/ radius[a] =>
            \E t \in Tx : /\ AccountOf[t] = a
                          /\ outcome[t] = "paid"
                          /\ receipt[t]

TotalOf == [S \in SUBSET Tx |-> MapThenSumSet(LAMBDA t : Amount[t], S)]

(* Every wallet holds exactly the hotspot payments completed for it, and    *)
(* every reseller has earned each of its customers' payments exactly once,  *)
(* through any interleaving of replays, lost responses and crashes.         *)
LedgerBalances ==
    /\ \A a \in Account :
         wallet[a] = TotalOf[{t \in Tx : /\ Service[t] = "hotspot"
                                         /\ AccountOf[t] = a
                                         /\ status[t] = "completed"}]
    /\ \A r \in Reseller :
         earnings[r] = TotalOf[{t \in Tx : /\ ResellerOf[t] = r
                                           /\ outcome[t] = "paid"
                                           /\ status[t] \in Settled}]

(* A replayed, duplicated or late callback changes nothing about a closed   *)
(* transaction: neither its status nor its receipt.                         *)
SettledIsFinal ==
    [][\A t \in Tx : status[t] \in Settled =>
           status'[t] = status[t] /\ receipt'[t] = receipt[t]]_vars

(* When nothing is being processed for it, a customer whose PPPoE renewal   *)
(* is completed and whose row is active has the line and RADIUS enabled: no *)
(* database-active/router-disabled mismatch.                                *)
Quiet(a) == \A w \in Worker : Busy(w) => AccOf(w) # a
NoActiveDisabledMismatch ==
    \A t \in Tx :
        /\ Service[t] = "pppoe"
        /\ status[t] = "completed"
        /\ Quiet(AccountOf[t])
        => line[AccountOf[t]] /\ radius[AccountOf[t]]

(* A payment whose genuine callback was stored is eventually settled, even  *)
(* if the live request died, Daraja or the router were away for a while, or *)
(* the callback came before the checkout was recorded.                      *)
AwaitsSettlement(e, t) ==
    /\ event[e] = [tx |-> t, claim |-> "success", status |-> "received"]
    /\ outcome[t] = "paid"
    /\ status[t] = "pending"
PaidIsSettled ==
    \A e \in Event, t \in Tx :
        AwaitsSettlement(e, t) ~> status[t] \in Settled

(* Seen from outside, the process keeps the promise of a checkout: it is    *)
(* closed once, by one step that hands out what was paid and nothing else,  *)
(* however many callbacks and invocations there are.                        *)
Phase == [t \in Tx |-> IF status[t] \in Settled THEN status[t] ELSE "open"]
PayersAnswer == [t \in Tx |-> IF outcome[t] \in {"paid", "declined"}
                              THEN outcome[t] ELSE "none"]
Promise == INSTANCE PaymentPromise WITH phase <- Phase, answer <- PayersAnswer
KeepsPromise == Promise!Spec
=============================================================================
