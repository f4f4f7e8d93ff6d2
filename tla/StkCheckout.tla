---------------------------- MODULE StkCheckout ----------------------------
(***************************************************************************)
(* The handler of POST /api/mpesa/stk: it turns a signed payment intent     *)
(* into one isp_transactions row and one M-Pesa prompt on the payer's       *)
(* phone.  Several HTTP requests may carry the same intent (a double click, *)
(* a retry after a timeout); every await of the handler is a step, so the   *)
(* requests interleave.  A checkout without an intent has a row nobody else *)
(* can meet: it behaves as an intent that a single request carries.         *)
(*                                                                         *)
(* CheckoutRequestIDs are assigned by Daraja, one per accepted prompt, and  *)
(* a request sends at most one prompt: the request names its checkout id.   *)
(***************************************************************************)
EXTENDS Naturals

CONSTANTS
    Intent,        \* nonces of signed payment intents (payment_intent_id)
    Request,       \* HTTP requests to /mpesa/stk
    NoCheckout,    \* provider_checkout_id is null
    MaxTries,      \* update attempts of reconcileInitiatedStkRequest
    Faults,        \* the kinds of fault that may happen in a run
    MaxFaults      \* how many faults may happen in a behaviour

ASSUME NoCheckoutAssumption == NoCheckout \notin Request
ASSUME TriesAssumption == MaxTries \in Nat \ {0}
ASSUME FaultAssumption == MaxFaults \in Nat

VARIABLES
    status,        \* isp_transactions.status of the intent's row
    checkout,      \* isp_transactions.provider_checkout_id (= reference)
    prompts,       \* requests whose prompt Daraja accepted
    at,            \* where each request stands in the handler
    intent,        \* the intent a request carries
    tries,         \* failed attempts to record the checkout id
    reply,         \* what the client was answered
    faults         \* faults that may still happen

rowVars == <<status, checkout>>
requestVars == <<at, intent, tries, reply>>
vars == <<status, checkout, prompts, at, intent, tries, reply, faults>>

RowStatus == {"absent", "initiating", "pending", "completed", "failed"}
Steps == {"idle", "check", "insert", "prompt", "reject", "record", "done"}
Replies == {"none", "accepted", "reused", "creating", "finished", "refused",
            "rejected", "unrecorded", "error"}

TypeOK ==
    /\ status \in [Intent -> RowStatus]
    /\ checkout \in [Intent -> Request \union {NoCheckout}]
    /\ prompts \subseteq Request
    /\ at \in [Request -> Steps]
    /\ intent \in [Request -> Intent]
    /\ tries \in [Request -> 0 .. MaxTries]
    /\ reply \in [Request -> Replies]
    /\ faults \in 0 .. MaxFaults

Init ==
    /\ status = [i \in Intent |-> "absent"]
    /\ checkout = [i \in Intent |-> NoCheckout]
    /\ prompts = {}
    /\ at = [r \in Request |-> "idle"]
    /\ intent \in [Request -> Intent]
    /\ tries = [r \in Request |-> 0]
    /\ reply = [r \in Request |-> "none"]
    /\ faults = MaxFaults

-----------------------------------------------------------------------------
(* Helpers of the handler *)

Answer(r, a) == /\ reply' = [reply EXCEPT ![r] = a]
                /\ at' = [at EXCEPT ![r] = "done"]
                /\ UNCHANGED <<intent, tries>>

MoveTo(r, step) == /\ at' = [at EXCEPT ![r] = step]
                   /\ UNCHANGED <<intent, tries, reply>>

Fault(kind) == /\ kind \in Faults
               /\ faults > 0
               /\ faults' = faults - 1

(* Defect: every repeated intent is told to wait for a payment. *)
AnswerToExistingReused(i) == "reused"

AnswerToExisting(i) ==
    IF checkout[i] # NoCheckout /\ status[i] \in {"pending", "completed"}
    THEN "reused"
    ELSE IF status[i] = "initiating" THEN "creating" ELSE "finished"

-----------------------------------------------------------------------------
(* Steps of one request *)

Arrive(r) ==
    /\ at[r] = "idle"
    /\ MoveTo(r, "check")
    /\ UNCHANGED <<status, checkout, prompts, faults>>

(* respondToExistingStkIntent, before anything is created. *)
CheckExisting(r) ==
    /\ at[r] = "check"
    /\ IF status[intent[r]] = "absent"
       THEN MoveTo(r, "insert")
       ELSE Answer(r, AnswerToExisting(intent[r]))
    /\ UNCHANGED <<status, checkout, prompts, faults>>

(* Looking the intent up throws. *)
CheckFails(r) ==
    /\ at[r] = "check"
    /\ Fault("database")
    /\ Answer(r, "error")
    /\ UNCHANGED <<status, checkout, prompts>>

(* The rate limiter or the gateway settings turn the request away. *)
Refuse(r) ==
    /\ at[r] = "insert"
    /\ Answer(r, "refused")
    /\ UNCHANGED <<status, checkout, prompts, faults>>

(* Defect: payment_intent_id is not unique. *)
InsertWithoutUniqueIntent(r) ==
    /\ at[r] = "insert"
    /\ status' = [status EXCEPT ![intent[r]] = "initiating"]
    /\ MoveTo(r, "prompt")
    /\ UNCHANGED <<checkout, prompts, faults>>

(* sbInsertStrict: the unique index on payment_intent_id lets one row in. *)
Insert(r) ==
    /\ at[r] = "insert"
    /\ IF status[intent[r]] = "absent"
       THEN /\ status' = [status EXCEPT ![intent[r]] = "initiating"]
            /\ MoveTo(r, "prompt")
       ELSE /\ Answer(r, AnswerToExisting(intent[r]))
            /\ UNCHANGED status
    /\ UNCHANGED <<checkout, prompts, faults>>

(* The insert fails, or it is applied and its response is lost. *)
InsertFails(r) ==
    /\ at[r] = "insert"
    /\ Fault("database")
    /\ status' \in {status, [status EXCEPT ![intent[r]] =
                        IF @ = "absent" THEN "initiating" ELSE @]}
    /\ Answer(r, "error")
    /\ UNCHANGED <<checkout, prompts>>

Prompt(r) ==
    /\ at[r] = "prompt"
    /\ prompts' = prompts \union {r}
    /\ MoveTo(r, "record")
    /\ UNCHANGED <<status, checkout, faults>>

PromptRejected(r) ==
    /\ at[r] = "prompt"
    /\ MoveTo(r, "reject")
    /\ UNCHANGED <<status, checkout, prompts, faults>>

(* Defect: an error of the prompt request closes the row. *)
PromptErrorClosesRow(r) ==
    /\ at[r] = "prompt"
    /\ Fault("daraja")
    /\ prompts' \in {prompts, prompts \union {r}}
    /\ status' = [status EXCEPT ![intent[r]] = "failed"]
    /\ Answer(r, "error")
    /\ UNCHANGED checkout

(* No token, no connection, or an accepted prompt whose response is lost:   *)
(* the catch block answers 500 and leaves the row as it is.                 *)
PromptError(r) ==
    /\ at[r] = "prompt"
    /\ Fault("daraja")
    /\ prompts' \in {prompts, prompts \union {r}}
    /\ Answer(r, "error")
    /\ UNCHANGED <<status, checkout>>

(* Daraja refused: the row is closed if it is still initiating. *)
Reject(r) ==
    /\ at[r] = "reject"
    /\ \/ /\ status' = [status EXCEPT ![intent[r]] =
                          IF @ = "initiating" THEN "failed" ELSE @]
          /\ UNCHANGED faults
       \/ /\ Fault("database")
          /\ UNCHANGED status
    /\ Answer(r, "rejected")
    /\ UNCHANGED <<checkout, prompts>>

(* Defect: attempts are not counted. *)
RetryUncounted(r) == UNCHANGED <<at, reply, tries, intent>>

(* An attempt of the record loop changed no row, or did not say it did. *)
Retry(r) ==
    /\ tries' = [tries EXCEPT ![r] = @ + 1]
    /\ IF tries[r] + 1 < MaxTries
       THEN UNCHANGED <<at, reply>>
       ELSE /\ at' = [at EXCEPT ![r] = "done"]
            /\ reply' = [reply EXCEPT ![r] = "unrecorded"]
    /\ UNCHANGED intent

(* Defect: the row becomes pending without the id Daraja gave. *)
SetPendingWithoutId(i, r) ==
    /\ status' = [status EXCEPT ![i] = "pending"]
    /\ UNCHANGED checkout

SetPending(i, r) ==
    /\ status' = [status EXCEPT ![i] = "pending"]
    /\ checkout' = [checkout EXCEPT ![i] = r]

(* Defect: the update is not conditional on an initiating row. *)
RecordUnconditionally(r) ==
    /\ at[r] = "record"
    /\ SetPending(intent[r], r)
    /\ Answer(r, "accepted")
    /\ UNCHANGED <<prompts, faults>>

(* One attempt of reconcileInitiatedStkRequest that the database answers. *)
Record(r) ==
    /\ at[r] = "record"
    /\ IF status[intent[r]] = "initiating"
       THEN SetPending(intent[r], r) /\ Answer(r, "accepted")
       ELSE Retry(r) /\ UNCHANGED rowVars
    /\ UNCHANGED <<prompts, faults>>

(* An attempt that fails, or that is applied behind a lost response; an     *)
(* error status is retried, a broken connection ends in the catch block.    *)
RecordFails(r) ==
    /\ at[r] = "record"
    /\ Fault("database")
    /\ \/ UNCHANGED rowVars
       \/ status[intent[r]] = "initiating" /\ SetPending(intent[r], r)
    /\ Retry(r) \/ Answer(r, "error")
    /\ UNCHANGED prompts

Handle(r) == \/ CheckExisting(r) \/ CheckFails(r) \/ Refuse(r) \/ Insert(r) \/ InsertFails(r)
             \/ Prompt(r) \/ PromptRejected(r) \/ PromptError(r)
             \/ Reject(r) \/ Record(r) \/ RecordFails(r)

-----------------------------------------------------------------------------
(* The rest of the system *)

(* settle_verified_mpesa_transaction closes a pending row. *)
SettleElsewhere(i) ==
    /\ status[i] = "pending"
    /\ status' \in {[status EXCEPT ![i] = s] : s \in {"completed", "failed"}}
    /\ UNCHANGED <<checkout, prompts, at, intent, tries, reply, faults>>

(* The single API process dies: every request in flight goes unanswered. *)
Crash ==
    /\ Fault("crash")
    /\ at' = [r \in Request |-> IF at[r] = "idle" THEN "idle" ELSE "done"]
    /\ UNCHANGED <<status, checkout, prompts, intent, tries, reply>>

Next ==
    \/ \E r \in Request : Arrive(r) \/ Handle(r)
    \/ \E i \in Intent : SettleElsewhere(i)
    \/ Crash

(* The event loop runs every handler on; clients need not send requests. *)
Fairness == \A r \in Request : WF_vars(Handle(r))

SafetySpec == Init /\ [][Next]_vars
Spec == SafetySpec /\ Fairness

-----------------------------------------------------------------------------
(* Properties *)

(* However requests with one intent interleave, fail or are retried, the    *)
(* payer's phone is prompted for that intent at most once.                  *)
OnePromptPerIntent ==
    \A p, q \in prompts : intent[p] = intent[q] => p = q

(* A client told to wait for a payment (accepted or reused) can find it:    *)
(* the row carries the id of a prompt Daraja accepted for that intent.      *)
PromisedCheckoutExists ==
    \A r \in Request :
        reply[r] \in {"accepted", "reused"} =>
            /\ status[intent[r]] \in {"pending", "completed", "failed"}
            /\ checkout[intent[r]] \in prompts
            /\ intent[checkout[intent[r]]] = intent[r]

(* A checkout is only closed as failed by its own handler when no prompt    *)
(* for it can be paid: a row without a checkout id that is failed belongs   *)
(* to an intent that never reached a phone.                                 *)
ClosedCheckoutWasNeverPrompted ==
    \A i \in Intent :
        (status[i] = "failed" /\ checkout[i] = NoCheckout)
            => \A p \in prompts : intent[p] # i

(* A recorded checkout id is never replaced and its row never goes back to  *)
(* an earlier status, whichever request writes last.                        *)
Rank(s) == CASE s = "absent" -> 0 [] s = "initiating" -> 1
             [] s = "pending" -> 2 [] OTHER -> 3
RowsOnlyAdvance ==
    [][\A i \in Intent :
          /\ status'[i] # status[i] => Rank(status'[i]) > Rank(status[i])
          /\ checkout[i] # NoCheckout => checkout'[i] = checkout[i]]_vars

(* Every request that reaches the handler is eventually over, whatever the  *)
(* other requests with its intent do: the record loop is bounded.           *)
EveryRequestEnds == \A r \in Request : at[r] = "check" ~> at[r] = "done"
=============================================================================
