--------------------------- MODULE MpesaPayments ---------------------------
(***************************************************************************)
(* The checkout handler and the callback processing over one database: the  *)
(* rows StkCheckout writes are the transactions MpesaSettlement settles,    *)
(* the prompts it sends are those the payer answers, and one process runs   *)
(* both.  Each module names what it expects of the other (SettleElsewhere;  *)
(* Prompt, Refuse and Reconcile); here the code of each takes that place.   *)
(***************************************************************************)
EXTENDS StkCheckout, FiniteSets

CONSTANTS                                               \* see MpesaSettlement;
    Account, Reseller, Event, Worker, NoOne,            \* an intent's row is
    Service, AccountOf, ResellerOf, Amount,             \* its transaction
    JobFaults, MaxJobFaults                             \* faults of the jobs

ASSUME SettlementAssumption ==
    /\ IsFiniteSet(Intent)
    /\ NoOne \notin Account \union Reseller \union Event \union Intent
    /\ Service \in [Intent -> {"hotspot", "pppoe", "vlan", "registration"}]
    /\ AccountOf \in [Intent -> Account \union {NoOne}]
    /\ \A t \in Intent : Service[t] # "hotspot" => AccountOf[t] \in Account
    /\ ResellerOf \in [Intent -> Reseller \union {NoOne}]
    /\ Amount \in [Intent -> Nat \ {0}]
    /\ MaxJobFaults \in Nat

VARIABLES
    outcome,                                            \* shared, as is status
    receipt, standing, wallet, earnings, event, planActive, resellerActive,
    line, radius, job, jobFaults                        \* MpesaSettlement

handler == <<checkout, prompts, at, intent, tries, reply, faults>>
callbacks == <<receipt, standing, wallet, earnings, event, planActive,
               resellerActive, line, radius, job, jobFaults>>
paymentsVars == <<status, outcome, handler, callbacks>>

Settlement == INSTANCE MpesaSettlement WITH
    Tx <- Intent, Faults <- JobFaults, MaxFaults <- MaxJobFaults,
    faults <- jobFaults

(* The settlement's view: a row that is not there yet is not settled. *)
SeenStatus == [t \in Intent |-> IF status[t] = "absent" THEN "initiating"
                                                        ELSE status[t]]
Seen == INSTANCE MpesaSettlement WITH
    Tx <- Intent, Faults <- JobFaults, MaxFaults <- MaxJobFaults,
    faults <- jobFaults, status <- SeenStatus

PaymentsInit == Init /\ Seen!Init

(* A prompt Daraja accepts appears on the phone of the payer. *)
ShowPrompts ==
    /\ outcome' = [t \in Intent |->
                      IF \E r \in prompts' \ prompts : intent[r] = t
                      THEN "prompted" ELSE outcome[t]]
    /\ UNCHANGED callbacks

HandleAndShow(r) == Handle(r) /\ ShowPrompts
Progress(w) == Settlement!Progress(w) /\ UNCHANGED handler
Sweep(e) == (\E w \in Worker : Settlement!Sweep(e, w)) /\ UNCHANGED handler

Handler == \E r \in Request : \/ HandleAndShow(r)
                              \/ Arrive(r) /\ ShowPrompts

Processing ==
    /\ \/ Settlement!Callbacks
       \/ \E t \in Intent : Settlement!PayerAnswers(t) \/ Settlement!Withdraw(t)
    /\ UNCHANGED handler

(* Both live in the one API process. *)
ProcessCrash == Crash /\ Settlement!Crash

PaymentsNext == Handler \/ Processing \/ ProcessCrash

PaymentsFairness == /\ \A r \in Request : WF_paymentsVars(HandleAndShow(r))
                    /\ \A w \in Worker : WF_paymentsVars(Progress(w))
                    /\ \A e \in Event : SF_paymentsVars(Sweep(e))

PaymentsSafety == PaymentsInit /\ [][PaymentsNext]_paymentsVars
PaymentsSpec == PaymentsSafety /\ PaymentsFairness
-----------------------------------------------------------------------------
(* Properties *)

(* What MpesaSettlement takes for granted of its surroundings is what the   *)
(* checkout handler does: only a prompted row becomes pending, only an      *)
(* unprompted one is closed, and no settled row is ever touched again, also *)
(* by an attempt to record the checkout whose response was lost.            *)
CheckoutIsAsAssumed == Seen!SafetySpec

(* A completed transaction is the payment of the prompt that its row names, *)
(* sent for the same intent.                                                *)
CompletedHasItsCheckout ==
    \A t \in Intent : status[t] = "completed" =>
        /\ checkout[t] \in prompts
        /\ intent[checkout[t]] = t
        /\ outcome[t] = "paid"

(* A client that was told to wait for a payment, and paid, has it settled   *)
(* once a genuine callback is stored, even if that callback was stored      *)
(* before the checkout was recorded.                                        *)
PromisedIsSettled ==
    \A r \in Request, e \in Event, t \in Intent :
        (/\ intent[r] = t
         /\ reply[r] \in {"accepted", "reused"}
         /\ outcome[t] = "paid"
         /\ event[e] = [tx |-> t, claim |-> "success", status |-> "received"])
        ~> status[t] \in {"completed", "failed"}
=============================================================================
