---------------------------- MODULE Registration ----------------------------
(***************************************************************************)
(* Registering an ISP or a reseller: POST /registration/payment spends a    *)
(* phone verification token, inserts an inactive account under the first    *)
(* free subdomain, and either prompts for the fee over M-Pesa (the rows are *)
(* written before the prompt, the checkout after it) or leaves a manual     *)
(* payment for a C2B confirmation or the Super Admin.  The settlement of    *)
(* the payment activates the account.                                      *)
(*                                                                         *)
(* All requests give one contact and one company name, the case in which    *)
(* they meet: they compete for the names and for the places of the contact. *)
(* The request is the identity of its account and of its transaction.       *)
(***************************************************************************)
EXTENDS Integers, FiniteSets

CONSTANTS
    Request,          \* calls of POST /registration/payment
    Manual,           \* those for a bank or PayBill destination
    Token,            \* phone verification tokens
    Shown,            \* the ways in which requests may present tokens
    Limit,            \* registrations one contact may have (7)
    MaxInserts,       \* attempts to insert under a free name (5)
    MaxUpdates,       \* attempts of reconcileInitiatedRegistration (3)
    MaxFaults         \* database and Daraja calls that may fail, crashes

ASSUME RequestAssumption == IsFiniteSet(Request) /\ Manual \subseteq Request
ASSUME ShownAssumption == Shown \subseteq [Request -> Token]
ASSUME LimitAssumption == /\ Limit \in Nat \ {0} /\ MaxFaults \in Nat
                          /\ MaxInserts \in Nat \ {0} /\ MaxUpdates \in Nat \ {0}

VARIABLES
    pc,          \* where the handler of the request is
    shows,       \* the token a request presents
    token,       \* whatsapp_action_tokens, sms_action_tokens
    name,        \* the candidate, then isp_admins.subdomain, by its ordinal
    tries,       \* attempts made in the loop the handler is in
    admin,       \* isp_admins.status, "none" for no row
    active,      \* isp_admins.is_active
    tx,          \* isp_transactions.status, "none" for no row
    prompt,      \* the customer's side: the payment asked for, and made
    callback,    \* the STK callback event: none or stored; for a manual payment
                 \* matched: a C2B confirmation has found the account
    troubled,    \* history: requests a fault has hit
    faults       \* faults left

tables == <<name, admin, active, tx>>
vars == <<pc, shows, token, name, tries, admin, active, tx, prompt, callback,
          troubled, faults>>

Stages == {"capacity", "token", "subdomain", "insert", "transaction", "prompt",
           "record", "drain", "fail", "done"}
Names == 1 .. Cardinality(Request) + 1

TypeOK ==
    /\ pc \in [Request -> Stages]
    /\ shows \in [Request -> Token]
    /\ token \in [Token -> {"live", "consumed", "expired"}]
    /\ name \in [Request -> Nat]
    /\ tries \in [Request -> Nat]
    /\ admin \in [Request -> {"none", "pending_payment", "payment_failed", "active"}]
    /\ active \in [Request -> BOOLEAN]
    /\ tx \in [Request -> {"none", "initiating", "pending", "completed", "failed"}]
    /\ prompt \in [Request -> {"none", "open", "paid", "declined"}]
    /\ callback \in [Request -> {"none", "stored", "matched"}]
    /\ troubled \subseteq Request
    /\ faults \in 0 .. MaxFaults

Init ==
    /\ pc = [r \in Request |-> "capacity"]
    /\ shows \in Shown
    /\ token = [t \in Token |-> "live"]
    /\ name = [r \in Request |-> 0]
    /\ tries = [r \in Request |-> 0]
    /\ admin = [r \in Request |-> "none"]
    /\ active = [r \in Request |-> FALSE]
    /\ tx = [r \in Request |-> "none"]
    /\ prompt = [r \in Request |-> "none"]
    /\ callback = [r \in Request |-> "none"]
    /\ troubled = {}
    /\ faults = MaxFaults

-----------------------------------------------------------------------------
(* The account table and its trigger *)

(* registration_contact_capacity: accounts that are not payment_failed *)
Counted == {r \in Request : admin[r] \in {"pending_payment", "active"}}

(* Defect: the trigger is on insert only. *)
RoomForNewRow(r) == admin[r] # "none" \/ Cardinality(Counted \ {r}) < Limit

(* enforce_registration_contact_limit, for a row that will be counted *)
RoomFor(r) == Cardinality(Counted \ {r}) < Limit

Taken(n) == \E r \in Request : admin[r] # "none" /\ name[r] = n
FirstFree(n) == ~Taken(n) /\ \A m \in Names : m < n => Taken(m)

Goto(r, stage) == pc' = [pc EXCEPT ![r] = stage]

(* A call that throws or answers with an HTTP error *)
Fault(r) ==
    /\ faults > 0
    /\ faults' = faults - 1
    /\ troubled' = troubled \union {r}
NoFault == UNCHANGED <<faults, troubled>>

-----------------------------------------------------------------------------
(* The handler, up to the account *)

CheckCapacity(r) ==
    /\ pc[r] = "capacity"
    /\ \/ NoFault /\ Goto(r, IF Cardinality(Counted) < Limit THEN "token" ELSE "done")
       \/ Fault(r) /\ Goto(r, "done")
    /\ UNCHANGED <<shows, token, tables, tries, prompt, callback>>

(* Defect: the token is looked at here and consumed with the insert, by     *)
(* which time another request may have read it.                             *)
ReadToken(r) ==
    /\ pc[r] = "token"
    /\ Goto(r, IF token[shows[r]] = "live" THEN "subdomain" ELSE "done")
    /\ NoFault
    /\ UNCHANGED <<shows, token, tables, tries, prompt, callback>>

(* consume_whatsapp_action_token, and its SMS twin, lock the token's row; a *)
(* live token may have run out by now.  A lost answer spends the token for  *)
(* nothing.                                                                 *)
ConsumeToken(r) ==
    /\ pc[r] = "token"
    /\ LET t == shows[r]
           spent == [token EXCEPT ![t] = "consumed"] IN
         \/ token[t] = "live" /\ token' = spent /\ NoFault /\ Goto(r, "subdomain")
         \/ /\ NoFault /\ Goto(r, "done")
            /\ token' = IF token[t] = "live"
                        THEN [token EXCEPT ![t] = "expired"] ELSE token
         \/ /\ Fault(r) /\ Goto(r, "done")
            /\ UNCHANGED token \/ (token[t] = "live" /\ token' = spent)
    /\ UNCHANGED <<shows, tables, tries, prompt, callback>>

(* findAvailableSubdomain: a query that fails finds every name free. *)
ChooseSubdomain(r) ==
    /\ pc[r] = "subdomain"
    /\ \/ /\ NoFault /\ Goto(r, "insert")
          /\ \E n \in Names : FirstFree(n) /\ name' = [name EXCEPT ![r] = n]
       \/ /\ Fault(r) /\ Goto(r, "insert")
          /\ name' = [name EXCEPT ![r] = 1]
       \/ Fault(r) /\ Goto(r, "done") /\ UNCHANGED name
    /\ UNCHANGED <<shows, token, tries, admin, active, tx, prompt, callback>>

AddAdmin(r) == admin' = [admin EXCEPT ![r] = "pending_payment"]

(* The trigger comes before the unique index: a full contact ends the       *)
(* request, a name won by another one is given up for the next.             *)
InsertAdmin(r) ==
    /\ pc[r] = "insert"
    /\ \/ /\ ~RoomFor(r)
          /\ Goto(r, "done") /\ NoFault /\ UNCHANGED <<tries, admin>>
       \/ /\ RoomFor(r) /\ Taken(name[r])
          /\ tries' = [tries EXCEPT ![r] = @ + 1]
          /\ Goto(r, IF tries'[r] = MaxInserts THEN "done" ELSE "subdomain")
          /\ NoFault /\ UNCHANGED admin
       \/ /\ RoomFor(r) /\ ~Taken(name[r])
          /\ AddAdmin(r)
          /\ tries' = [tries EXCEPT ![r] = 0]
          /\ Goto(r, "transaction") /\ NoFault
       \/ /\ Fault(r) /\ Goto(r, "done")        \* thrown outside the try block
          /\ UNCHANGED admin \/ (RoomFor(r) /\ ~Taken(name[r]) /\ AddAdmin(r))
          /\ UNCHANGED tries
    /\ UNCHANGED <<shows, token, name, active, tx, prompt, callback>>

-----------------------------------------------------------------------------
(* The handler, from the account to its payment *)

SetTx(r, s) == tx' = [tx EXCEPT ![r] = s]

(* A manual payment waits in its row; an M-Pesa payment gets its row before *)
(* the prompt, unless no usable callback URL is configured.  No row, or no  *)
(* answer, fails the account.                                               *)
InsertTransaction(r) ==
    /\ pc[r] = "transaction"
    /\ LET first == IF r \in Manual THEN "pending" ELSE "initiating" IN
         \/ /\ SetTx(r, first) /\ NoFault
            /\ Goto(r, IF r \in Manual THEN "done" ELSE "prompt")
         \/ r \notin Manual /\ Goto(r, "done") /\ NoFault /\ UNCHANGED tx
         \/ (SetTx(r, first) \/ UNCHANGED tx) /\ Fault(r) /\ Goto(r, "fail")
    /\ UNCHANGED <<shows, token, name, tries, admin, active, prompt, callback>>

(* Daraja accepts the request and prompts the phone.  No answer, or one     *)
(* without a checkout, leaves both the prompt and the row in doubt.         *)
SendPrompt(r) ==
    /\ pc[r] = "prompt"
    /\ LET opened == [prompt EXCEPT ![r] = "open"] IN
         \/ prompt' = opened /\ NoFault /\ Goto(r, "record")
         \/ (prompt' = opened \/ UNCHANGED prompt) /\ Fault(r) /\ Goto(r, "fail")
    /\ UNCHANGED <<shows, token, tables, tries, callback>>

(* Defect: a call that throws is taken for a refusal. *)
RefusedOrThrown(r) ==
    /\ pc[r] = "prompt"
    /\ SetTx(r, "failed") /\ Goto(r, "fail")
    /\ \/ NoFault /\ UNCHANGED prompt
       \/ Fault(r) /\ prompt' = [prompt EXCEPT ![r] = "open"]
    /\ UNCHANGED <<shows, token, name, tries, admin, active, callback>>

(* Daraja refuses: the row, if it can be written, and the account fail. *)
PromptRefused(r) ==
    /\ pc[r] = "prompt"
    /\ \/ NoFault /\ SetTx(r, "failed")
       \/ Fault(r) /\ (SetTx(r, "failed") \/ UNCHANGED tx)
    /\ Goto(r, "fail")
    /\ UNCHANGED <<shows, token, name, tries, admin, active, prompt, callback>>

(* reconcileInitiatedRegistration: the row is made pending under its        *)
(* checkout, if it is still initiating; no row answered is another try.  A  *)
(* try whose answer is lost leaves none for the next one to find.           *)
TryAgain(r) ==
    /\ tries' = [tries EXCEPT ![r] = @ + 1]
    /\ Goto(r, IF tries'[r] = MaxUpdates THEN "fail" ELSE "record")

Record(r) ==
    /\ pc[r] = "record"
    /\ \/ /\ tx[r] = "initiating"
          /\ SetTx(r, "pending") /\ Goto(r, "drain") /\ NoFault /\ UNCHANGED tries
       \/ tx[r] # "initiating" /\ TryAgain(r) /\ NoFault /\ UNCHANGED tx
       \/ /\ Fault(r)
          /\ UNCHANGED tx \/ (tx[r] = "initiating" /\ SetTx(r, "pending"))
          /\ TryAgain(r) \/ (Goto(r, "fail") /\ UNCHANGED tries)
    /\ UNCHANGED <<shows, token, name, admin, active, prompt, callback>>

(* The account is failed whatever has become of its payment. *)
Fail(r) ==
    /\ pc[r] = "fail"
    /\ \/ admin' = [admin EXCEPT ![r] = "payment_failed"] /\ NoFault
       \/ UNCHANGED admin /\ Fault(r)
    /\ Goto(r, "done")
    /\ UNCHANGED <<shows, token, name, tries, active, tx, prompt, callback>>

-----------------------------------------------------------------------------
(* The payment *)

(* settle_verified_mpesa_transaction, for a row found pending.  The trigger *)
(* raises, and nothing is written, if the contact has no place left.        *)
Activate(r) ==
    /\ tx[r] = "pending"
    /\ RoomFor(r)
    /\ SetTx(r, "completed")
    /\ admin' = [admin EXCEPT ![r] = "active"]
    /\ active' = [active EXCEPT ![r] = TRUE]

Decline(r) ==
    /\ tx[r] = "pending"
    /\ SetTx(r, "failed")
    /\ admin' = [admin EXCEPT ![r] = "payment_failed"]
    /\ UNCHANGED active

(* Defect: only an account that still waits for its payment is settled. *)
SettleWaiting(r) ==
    /\ r \notin Manual
    /\ callback[r] = "stored"
    /\ admin[r] = "pending_payment"
    /\ \/ prompt[r] = "paid" /\ Activate(r)
       \/ prompt[r] = "declined" /\ Decline(r)
    /\ UNCHANGED name

(* Defect: the callback is believed, not Daraja's answer about the checkout. *)
SettleUnverified(r) ==
    /\ r \notin Manual
    /\ callback[r] = "stored"
    /\ Activate(r)
    /\ UNCHANGED name

(* A stored callback: by its own request, a sweep or the handler's drain. *)
Settle(r) ==
    /\ r \notin Manual
    /\ callback[r] = "stored"
    /\ \/ prompt[r] = "paid" /\ Activate(r)
       \/ prompt[r] = "declined" /\ Decline(r)
    /\ UNCHANGED name

SettleCallback(r) ==
    /\ Settle(r)
    /\ UNCHANGED <<pc, shows, token, tries, prompt, callback, troubled, faults>>

(* processDeferredMpesaCallbacks(checkoutId), inside the try block of the   *)
(* handler: an exception, after the settlement too, fails the account.      *)
Drain(r) ==
    /\ pc[r] = "drain"
    /\ Settle(r) \/ UNCHANGED tables
    /\ \/ NoFault /\ Goto(r, "done")
       \/ Fault(r) /\ Goto(r, "fail")
    /\ UNCHANGED <<shows, token, tries, prompt, callback>>

(* The customer answers the prompt, or pays in at the PayBill or the bank. *)
Answer(r) ==
    /\ \/ prompt[r] = "open" /\ \E a \in {"paid", "declined"} :
                                   prompt' = [prompt EXCEPT ![r] = a]
       \/ /\ r \in Manual /\ tx[r] = "pending" /\ prompt[r] = "none"
          /\ prompt' = [prompt EXCEPT ![r] = "paid"]
    /\ UNCHANGED <<pc, shows, token, tables, tries, callback, troubled, faults>>

(* The callback of an answered prompt is stored. *)
Post(r) ==
    /\ r \notin Manual
    /\ prompt[r] \in {"paid", "declined"} /\ callback[r] = "none"
    /\ callback' = [callback EXCEPT ![r] = "stored"]
    /\ UNCHANGED <<pc, shows, token, tables, tries, prompt, troubled, faults>>

(* settlePendingPaybillRegistration.  Whoever posts a confirmation with the  *)
(* amount and the subdomain of an account that waits for its payment has      *)
(* found it, as often as it is posted and whether or not anybody has paid:     *)
(* nothing is asked of Daraja ...                                             *)
Match(r) ==
    /\ r \in Manual
    /\ callback[r] = "none"
    /\ tx[r] = "pending" /\ admin[r] = "pending_payment" /\ ~active[r]
    /\ callback' = [callback EXCEPT ![r] = "matched"]
    /\ UNCHANGED <<pc, shows, token, tables, tries, prompt, troubled, faults>>

(* ... and settled, if the row is still pending when the RPC looks.  It was    *)
(* acknowledged before: one that fails or dies never comes to this.           *)
Confirm(r) ==
    /\ callback[r] = "matched"
    /\ Activate(r)
    /\ UNCHANGED <<pc, shows, token, name, tries, prompt, callback, troubled, faults>>

(* The Super Admin verifies a pending row; whether anybody has paid is theirs *)
(* to see, and nothing the code asks.                                         *)
Verify(r) ==
    /\ r \in Manual
    /\ Activate(r)
    /\ UNCHANGED <<pc, shows, token, name, tries, prompt, callback, troubled, faults>>

-----------------------------------------------------------------------------
(* The server process goes down with the handlers that run. *)
Crash ==
    /\ faults > 0
    /\ faults' = faults - 1
    /\ pc' = [r \in Request |-> IF pc[r] = "capacity" THEN "capacity" ELSE "done"]
    /\ troubled' = troubled \union {r \in Request : pc[r] # "capacity"}
    /\ UNCHANGED <<shows, token, tables, tries, prompt, callback>>

Handle(r) ==
    \/ CheckCapacity(r) \/ ConsumeToken(r) \/ ChooseSubdomain(r) \/ InsertAdmin(r)
    \/ InsertTransaction(r) \/ SendPrompt(r) \/ PromptRefused(r) \/ Record(r)
    \/ Drain(r) \/ Fail(r)

Next ==
    \/ \E r \in Request : \/ Handle(r) \/ SettleCallback(r)
                          \/ Answer(r) \/ Post(r)
                          \/ Match(r) \/ Confirm(r) \/ Verify(r)
    \/ Crash

Spec == Init /\ [][Next]_vars

(* The event loop runs every handler on, and the sweep retries a stored     *)
(* callback.  Nothing makes a customer pay or a Super Admin look.           *)
FairSpec == /\ Spec
            /\ \A r \in Request : WF_vars(Handle(r)) /\ WF_vars(SettleCallback(r))
-----------------------------------------------------------------------------
(* Properties *)

(* An account is active exactly when its fee is settled.  A fee asked for     *)
(* over M-Pesa is settled only when it was paid; of a manual one nothing is    *)
(* said, as a confirmation is believed.  Unless a fault has hit the request    *)
(* the account is also listed as active: no order of handler, callback,        *)
(* confirmation and sweep fails an account that was settled.                   *)
ActivationFollowsPayment ==
    \A r \in Request :
        /\ active[r] <=> tx[r] = "completed"
        /\ tx[r] = "completed" /\ r \notin Manual => prompt[r] = "paid"
        /\ tx[r] = "completed" /\ r \notin troubled => admin[r] = "active"

(* A prompt that may still be paid, or was paid, has a transaction that a   *)
(* settlement or the support can complete: only a refusal closes it.        *)
PromptKeepsItsRow ==
    \A r \in Request : prompt[r] \in {"open", "paid"} =>
                           tx[r] \in {"initiating", "pending", "completed"}

(* No contact has more accounts than the limit, however requests that have  *)
(* passed the capacity check and late settlements of failed accounts meet.  *)
ContactLimitHolds == Cardinality(Counted) <= Limit

(* A verification token is good for one account, though many requests       *)
(* present it at once and some of them crash or lose the answer.            *)
OneAccountPerToken ==
    \A r, s \in Request :
        admin[r] # "none" /\ admin[s] # "none" /\ shows[r] = shows[s] => r = s

(* A paid prompt whose callback is stored activates its account, if its     *)
(* handler has recorded the checkout or still runs, even when the handler   *)
(* has failed the account - as long as the contact has a place for it.      *)
PaidIsActivated ==
    \A r \in Request :
        prompt[r] = "paid" /\ callback[r] = "stored" ~>
            \/ tx[r] = "completed"
            \/ tx[r] = "initiating" /\ r \in troubled
            \/ tx[r] = "pending" /\ ~RoomFor(r)
=============================================================================
