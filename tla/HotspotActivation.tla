------------------------- MODULE HotspotActivation -------------------------
(***************************************************************************)
(* From a completed Hotspot payment to an account that works on the router: *)
(* handleHotspotMacAccess(), called by the payer's portal page and by the   *)
(* timer runAutomaticHotspotActivationSweep(), over the row-locked RPC      *)
(* claim_prepaid_hotspot_transaction_account.  An invocation reads the      *)
(* payment and its account, saves or claims the account as pending, sets it *)
(* up on the router, and turns it active; administrators and quota checks   *)
(* write the same customer rows meanwhile.                                  *)
(*                                                                         *)
(* A name stands for a customer row together with the random username and   *)
(* password it was created with.  Transaction ids grow in order of payment. *)
(***************************************************************************)
EXTENDS Integers, FiniteSets

CONSTANTS
    LastTx,           \* completed Hotspot transactions are 1 .. LastTx
    Name,             \* usernames the random generator may draw
    Client,           \* requests of portal pages that may run at once
    Sweeper,          \* the timer's own invocation
    NoName, NoTx,
    Batch,            \* AUTOMATIC_HOTSPOT_ACTIVATION_BATCH
    Dead,             \* transactions whose router stays unreachable
    Resold,           \* transactions of a reseller's plan (owner_reseller_id)
    Ends,             \* what may end an entitlement
    Interleaved,      \* whether it may do so while an invocation runs
    Faults,           \* kinds of failure that may happen
    MaxFaults, MaxRequests

ASSUME SizeAssumption ==
    /\ LastTx \in Nat /\ Batch \in Nat \ {0}
    /\ MaxFaults \in Nat /\ MaxRequests \in Nat
ASSUME NameAssumption == NoName \notin Name /\ Sweeper \notin Client
ASSUME TxAssumption == /\ NoTx \notin 1 .. LastTx
                       /\ Dead \subseteq 1 .. LastTx
                       /\ Resold \subseteq 1 .. LastTx
ASSUME KindAssumption ==
    /\ Ends \subseteq {"suspension", "depletion", "lapse"}
    /\ Interleaved \in BOOLEAN
    /\ Faults \subseteq {"database", "router", "away", "binding", "crash"}

VARIABLES
    customerOf,  \* isp_transactions.customer_id
    note,        \* isp_transactions.notes, as far as the sweep reads it
    customer,    \* isp_customers: status, depletion_reason, whether
                 \* expires_at is in the future, the purchase it was made for
    user,        \* the RouterOS and RADIUS account: enabled, counter resets
    edit,        \* an administrator's suspension between router and row:
                 \* the status it read
    inv,         \* the running invocations of handleHotspotMacAccess
    work,        \* what the sweep has selected and not yet finished
    answered,    \* history: the credentials given out for a transaction
    requests,    \* portal requests still to come
    faults       \* failures still to come

vars == <<customerOf, note, customer, user, edit, inv, work, answered, requests, faults>>

Tx == 1 .. LastTx
Invocation == Client \union {Sweeper}
Pending == "payment_cleared_router_pending"
CustomerStatus == {"none", Pending, "active", "suspended", "expired"}

(* "activation is pending", "awaiting router access", "RouterOS account     *)
(* activation is pending", "session activation is pending", "device binding *)
(* is pending", "the device session is active".                             *)
Notes == {"unlinked", "saved", "deferred", "session", "binding", "connected"}
Steps == {"idle", "load", "save", "claim", "provision", "reset", "connect",
          "activate", "mark"}

NoCustomer == [status |-> "none", depleted |-> FALSE, valid |-> FALSE, tx |-> NoTx]
Idle == [at |-> "idle", tx |-> NoTx, name |-> NoName, fresh |-> FALSE]

TypeOK ==
    /\ customerOf \in [Tx -> Name \union {NoName}]
    /\ note \in [Tx -> Notes]
    /\ customer \in [Name -> [status : CustomerStatus, depleted : BOOLEAN,
                              valid : BOOLEAN, tx : Tx \union {NoTx}]]
    /\ user \in [Name -> [enabled : BOOLEAN, resets : Nat]]
    /\ edit \in [Name -> CustomerStatus]
    /\ inv \in [Invocation -> [at : Steps, tx : Tx \union {NoTx},
                               name : Name \union {NoName}, fresh : BOOLEAN]]
    /\ work \subseteq Tx
    /\ answered \in [Tx -> SUBSET Name]
    /\ requests \in 0 .. MaxRequests
    /\ faults \in 0 .. MaxFaults

(* The callback has completed the payments and left the note.  The rows are *)
(* not linked yet.                                                          *)
Init ==
    /\ customerOf = [t \in Tx |-> NoName]
    /\ note = [t \in Tx |-> "unlinked"]
    /\ customer = [n \in Name |-> NoCustomer]
    /\ user = [n \in Name |-> [enabled |-> FALSE, resets |-> 0]]
    /\ edit = [n \in Name |-> "none"]
    /\ inv = [i \in Invocation |-> Idle]
    /\ work = {}
    /\ answered = [t \in Tx |-> {}]
    /\ requests = MaxRequests
    /\ faults = MaxFaults

Fault(kind) == kind \in Faults /\ faults > 0 /\ faults' = faults - 1

(* isPrepaidCustomerEntitled with a required expiry *)
Entitled(n) == /\ customer[n].status \in {"active", Pending, "expired"}
               /\ ~customer[n].depleted
               /\ customer[n].valid

Go(i, step) == inv' = [inv EXCEPT ![i].at = step]
SetStatus(n, status) == customer' = [customer EXCEPT ![n].status = status]
Note(t, text) == note' = [note EXCEPT ![t] = text]

(* The response is sent.  The sweep is done with the transaction.           *)
Finish(i) == /\ inv' = [inv EXCEPT ![i] = Idle]
             /\ work' = IF i = Sweeper THEN work \ {inv[i].tx} ELSE work

-----------------------------------------------------------------------------
(* Who calls the handler *)

Begin(i, t) ==
    /\ inv[i].at = "idle"
    /\ Interleaved \/ \A n \in Name : edit[n] = "none"
    /\ inv' = [inv EXCEPT ![i] = [Idle EXCEPT !.at = "load", !.tx = t]]

Request(c, t) ==
    /\ requests > 0
    /\ requests' = requests - 1
    /\ Begin(c, t)
    /\ UNCHANGED <<customerOf, note, customer, user, edit, work, answered, faults>>

Linked(t) == customerOf[t] # NoName

(* isRetryablePaidHotspotAccount: the customer must belong to the admin of  *)
(* the transaction, which the customers of a reseller do not.               *)
Retryable(t, status) ==
    /\ Linked(t)
    /\ LET row == customer[customerOf[t]] IN
         row.status = status /\ ~row.depleted /\ row.valid
    /\ t \notin Resold

(* Defect: pending accounts are found by the note of the last attempt.      *)
PendingAccountsByNote ==
    {t \in Tx : Retryable(t, Pending) /\ note[t] = "deferred"}

(* Accounts in the pending status, whatever their notes say; newest first.  *)
PendingAccounts == {t \in Tx : Retryable(t, Pending)}

(* Active accounts whose last note says that the set-up was incomplete.     *)
UnconfirmedAccounts ==
    {t \in Tx : /\ Retryable(t, "active")
                /\ note[t] \in {"saved", "deferred", "session"}}

UnlinkedPayments == {t \in Tx : ~Linked(t) /\ note[t] = "unlinked"}

Newest(S, k) == {t \in S : Cardinality({u \in S : u > t}) < k}
Oldest(S, k) == {t \in S : Cardinality({u \in S : u < t}) < k}

(* The timer fires and no sweep is busy: a batch of work is selected.  A    *)
(* query that fails ends the sweep with nothing changed.                    *)
Select ==
    /\ inv[Sweeper].at = "idle"
    /\ work = {}
    /\ LET pending == Newest(PendingAccounts, Batch)
           unconfirmed == Newest(UnconfirmedAccounts, Batch - Cardinality(pending))
           linked == pending \union unconfirmed
       IN  work' = linked \union Oldest(UnlinkedPayments, Batch - Cardinality(linked))
    /\ work' # {}
    /\ UNCHANGED <<customerOf, note, customer, user, edit, inv, answered, requests, faults>>

(* The selected transactions are handled one after the other.               *)
Retry ==
    /\ \E t \in work : Begin(Sweeper, t)
    /\ UNCHANGED <<customerOf, note, customer, user, edit, work, answered, requests, faults>>

-----------------------------------------------------------------------------
(* One invocation, await by await *)

TxIn(i) == inv[i].tx
NameIn(i) == inv[i].name

(* A drawn username is checked against the customers, and two draws never   *)
(* meet.                                                                    *)
Unused == {n \in Name : /\ customer[n].status = "none"
                        /\ \A i \in Invocation : NameIn(i) # n}

(* Defect: a linked account is used again whatever its state.               *)
LoadLinkedUnchecked(i) ==
    /\ inv[i].at = "load" /\ Linked(TxIn(i))
    /\ inv' = [inv EXCEPT ![i].at = "save", ![i].name = customerOf[TxIn(i)]]
    /\ UNCHANGED <<customerOf, note, customer, user, edit, work, answered, requests, faults>>

(* The payment is linked: its account is used again, if it is entitled.     *)
LoadLinked(i) ==
    /\ inv[i].at = "load" /\ Linked(TxIn(i))
    /\ LET n == customerOf[TxIn(i)] IN
         \/ /\ Entitled(n)
            /\ inv' = [inv EXCEPT ![i].at = "save", ![i].name = n]
            /\ UNCHANGED work
         \/ ~Entitled(n) /\ Finish(i)
    /\ UNCHANGED <<customerOf, note, customer, user, edit, answered, requests, faults>>

(* It is not: new credentials are drawn.                                    *)
LoadUnlinked(i) ==
    /\ inv[i].at = "load" /\ ~Linked(TxIn(i))
    /\ \/ /\ Unused # {}
          /\ inv' = [inv EXCEPT ![i].at = "claim", ![i].name = CHOOSE n \in Unused : TRUE]
          /\ UNCHANGED work
       \/ Unused = {} /\ Finish(i)
    /\ UNCHANGED <<customerOf, note, customer, user, edit, answered, requests, faults>>

(* A read that fails looks like no payment or no account: refused.          *)
LoadFails(i) ==
    /\ inv[i].at = "load"
    /\ Fault("database")
    /\ Finish(i)
    /\ UNCHANGED <<customerOf, note, customer, user, edit, answered, requests>>

(* The row as it was read is written back, pending and not depleted.        *)
Saved(n) == [customer EXCEPT ![n].status = Pending, ![n].depleted = FALSE]

Save(i) ==
    /\ inv[i].at = "save"
    /\ customer' = Saved(NameIn(i))
    /\ Note(TxIn(i), "saved")
    /\ Go(i, "provision")
    /\ UNCHANGED <<customerOf, user, edit, work, answered, requests, faults>>

SaveFails(i) ==
    /\ inv[i].at = "save"
    /\ Fault("database")
    /\ customer' \in {customer, Saved(NameIn(i))}
    /\ Finish(i)
    /\ UNCHANGED <<customerOf, note, user, edit, answered, requests>>

(* The customer the locked payment belongs to, or that was made for it.     *)
Claimed(t) == {n \in Name : IF Linked(t) THEN n = customerOf[t]
                                         ELSE customer[n].tx = t}

Created(i) ==
    /\ customerOf' = [customerOf EXCEPT ![TxIn(i)] = NameIn(i)]
    /\ customer' = [customer EXCEPT ![NameIn(i)] =
           [status |-> Pending, depleted |-> FALSE, valid |-> TRUE, tx |-> TxIn(i)]]

(* Defect: the payment is not looked at again under its lock.               *)
ClaimNewUnlocked(i) ==
    /\ inv[i].at = "claim"
    /\ Created(i)
    /\ Note(TxIn(i), "saved")
    /\ inv' = [inv EXCEPT ![i].at = "provision", ![i].fresh = TRUE]
    /\ UNCHANGED <<user, edit, work, answered, requests, faults>>

ClaimNew(i) ==
    /\ inv[i].at = "claim" /\ Claimed(TxIn(i)) = {}
    /\ Created(i)
    /\ Note(TxIn(i), "saved")
    /\ inv' = [inv EXCEPT ![i].at = "provision", ![i].fresh = TRUE]
    /\ UNCHANGED <<user, edit, work, answered, requests, faults>>

(* Defect: an adopted account is taken for a new one.                       *)
AdoptAsFresh(i) ==
    /\ inv[i].at = "claim" /\ Linked(TxIn(i))
    /\ LET n == customerOf[TxIn(i)] IN
         \/ /\ Entitled(n)
            /\ Note(TxIn(i), "saved")
            /\ inv' = [inv EXCEPT ![i].at = "provision", ![i].name = n, ![i].fresh = TRUE]
            /\ UNCHANGED work
         \/ ~Entitled(n) /\ Finish(i) /\ UNCHANGED note
    /\ UNCHANGED <<customerOf, customer, user, edit, answered, requests, faults>>

(* Another invocation has claimed the payment: its account is adopted.      *)
Adopt(i) ==
    /\ inv[i].at = "claim"
    /\ \E n \in Claimed(TxIn(i)) :
         /\ customerOf' = [customerOf EXCEPT ![TxIn(i)] = n]
         /\ \/ /\ Entitled(n)
               /\ Note(TxIn(i), "saved")
               /\ inv' = [inv EXCEPT ![i].at = "provision", ![i].name = n]
               /\ UNCHANGED work
            \/ ~Entitled(n) /\ Finish(i) /\ UNCHANGED note
    /\ UNCHANGED <<customer, user, edit, answered, requests, faults>>

(* The RPC fails, or commits and its response is lost.                      *)
ClaimFails(i) ==
    /\ inv[i].at = "claim"
    /\ Fault("database")
    /\ \/ Claimed(TxIn(i)) = {} /\ Created(i)
       \/ UNCHANGED <<customerOf, customer>>
    /\ Finish(i)
    /\ UNCHANGED <<note, user, edit, answered, requests>>

Enabled(n) == [user EXCEPT ![n].enabled = TRUE]

(* RADIUS, profile, expiry schedule and user on the router.                 *)
Provision(i) ==
    /\ inv[i].at = "provision" /\ TxIn(i) \notin Dead
    /\ user' = Enabled(NameIn(i))
    /\ Go(i, IF inv[i].fresh THEN "reset" ELSE "connect")
    /\ UNCHANGED <<customerOf, note, customer, edit, work, answered, requests, faults>>

(* Defect: a set-up that fails on the router is only logged.                *)
ProvisionFailsIgnored(i) ==
    /\ inv[i].at = "provision"
    /\ \/ TxIn(i) \in Dead /\ UNCHANGED faults
       \/ Fault("router")
    /\ Go(i, "connect")
    /\ UNCHANGED <<customerOf, note, customer, user, edit, work, answered, requests>>

(* Without a reachable router the invocation ends, before or in its try.    *)
ProvisionFails(i) ==
    /\ inv[i].at = "provision"
    /\ \/ TxIn(i) \in Dead /\ UNCHANGED <<user, faults>>
       \/ Fault("router") /\ user' \in {user, Enabled(NameIn(i))}
    /\ \/ Finish(i)
       \/ Go(i, "mark") /\ UNCHANGED work
    /\ UNCHANGED <<customerOf, note, customer, edit, answered, requests>>

(* A new package starts with its counters at zero.                          *)
Reset(i) ==
    /\ inv[i].at = "reset"
    /\ user' = [user EXCEPT ![NameIn(i)].resets = @ + 1]
    /\ Go(i, "connect")
    /\ UNCHANGED <<customerOf, note, customer, edit, work, answered, requests, faults>>

ResetFails(i) ==
    /\ inv[i].at = "reset"
    /\ Fault("router")
    /\ user' \in {user, [user EXCEPT ![NameIn(i)].resets = @ + 1]}
    /\ Go(i, "mark")
    /\ UNCHANGED <<customerOf, note, customer, edit, work, answered, requests>>

(* The device is bound and logged in.  A portal page may ask to log in      *)
(* itself, a device may be away, and a binding that fails is only logged.   *)
Connect(i) ==
    /\ inv[i].at = "connect"
    /\ \/ Note(TxIn(i), "connected") /\ UNCHANGED faults
       \/ i \in Client /\ Note(TxIn(i), "session") /\ UNCHANGED faults
       \/ Fault("away") /\ Note(TxIn(i), "session")
       \/ Fault("binding") /\ Note(TxIn(i), "binding")
    /\ Go(i, "activate")
    /\ UNCHANGED <<customerOf, customer, user, edit, work, answered, requests>>

ConnectFails(i) ==
    /\ inv[i].at = "connect"
    /\ Fault("router")
    /\ Go(i, "mark")
    /\ UNCHANGED <<customerOf, note, customer, user, edit, work, answered, requests>>

Activated(n) == [customer EXCEPT ![n].status = "active", ![n].depleted = FALSE]

(* A pending account turns active and its credentials are answered ...      *)
Activate(i) ==
    /\ inv[i].at = "activate" /\ customer[NameIn(i)].status = Pending
    /\ customer' = Activated(NameIn(i))
    /\ answered' = [answered EXCEPT ![TxIn(i)] = @ \union {NameIn(i)}]
    /\ Finish(i)
    /\ UNCHANGED <<customerOf, note, user, edit, requests, faults>>

(* ... one that is not pending is an error, as is a failed update.          *)
ActivateNone(i) ==
    /\ inv[i].at = "activate" /\ customer[NameIn(i)].status # Pending
    /\ Go(i, "mark")
    /\ UNCHANGED <<customerOf, note, customer, user, edit, work, answered, requests, faults>>

ActivateFails(i) ==
    /\ inv[i].at = "activate"
    /\ Fault("database")
    /\ \/ customer[NameIn(i)].status = Pending /\ customer' = Activated(NameIn(i))
       \/ UNCHANGED customer
    /\ Go(i, "mark")
    /\ UNCHANGED <<customerOf, note, user, edit, work, answered, requests>>

(* markPaymentClearedRouterPending looks for the customer under the         *)
(* transaction's admin, and does not find a reseller's.                     *)
Marked(i) == IF TxIn(i) \in Resold THEN customer
             ELSE [customer EXCEPT ![NameIn(i)].status = Pending]

Mark(i) ==
    /\ inv[i].at = "mark"
    /\ customer' = Marked(i)
    /\ Note(TxIn(i), "deferred")
    /\ Finish(i)
    /\ UNCHANGED <<customerOf, user, edit, answered, requests, faults>>

MarkFails(i) ==
    /\ inv[i].at = "mark"
    /\ Fault("database")
    /\ customer' \in {customer, Marked(i)}
    /\ Finish(i)
    /\ UNCHANGED <<customerOf, note, user, edit, answered, requests>>

Crash ==
    /\ Fault("crash")
    /\ \E i \in Invocation : inv[i].at # "idle"
    /\ inv' = [i \in Invocation |-> Idle]
    /\ work' = {}
    /\ UNCHANGED <<customerOf, note, customer, user, edit, answered, requests>>

-----------------------------------------------------------------------------
(* Who else writes the account *)

MayEnd(kind) == /\ kind \in Ends
                /\ Interleaved \/ \A i \in Invocation : inv[i].at = "idle"

(* PATCH /customers/:id with status "suspended": first the router ...       *)
Suspend(n) ==
    /\ MayEnd("suspension")
    /\ customer[n].status \notin {"none", "suspended"} /\ edit[n] = "none"
    /\ user' = [user EXCEPT ![n].enabled = FALSE]
    /\ edit' = [edit EXCEPT ![n] = customer[n].status]
    /\ UNCHANGED <<customerOf, note, customer, inv, work, answered, requests, faults>>

(* ... then the row.                                                        *)
SuspendSave(n) ==
    /\ edit[n] # "none"
    /\ SetStatus(n, "suspended")
    /\ edit' = [edit EXCEPT ![n] = "none"]
    /\ UNCHANGED <<customerOf, note, user, inv, work, answered, requests, faults>>

(* The row is refused: the router is put back to the status that was read.  *)
SuspendFails(n) ==
    /\ edit[n] # "none"
    /\ Fault("database")
    /\ user' = [user EXCEPT ![n].enabled = edit[n] = "active" /\ customer[n].valid]
    /\ edit' = [edit EXCEPT ![n] = "none"]
    /\ UNCHANGED <<customerOf, note, customer, inv, work, answered, requests>>

(* A reconnect finds the data allowance used up.                            *)
Deplete(n) ==
    /\ MayEnd("depletion") /\ Entitled(n) /\ edit[n] = "none"
    /\ customer' = [customer EXCEPT ![n].status = "expired", ![n].depleted = TRUE]
    /\ UNCHANGED <<customerOf, note, user, edit, inv, work, answered, requests, faults>>

(* The paid period is over; the schedule on the router removes the user.    *)
Lapse(n) ==
    /\ "lapse" \in Ends /\ customer[n].valid
    /\ customer' = [customer EXCEPT ![n].valid = FALSE]
    /\ user' = [user EXCEPT ![n].enabled = FALSE]
    /\ UNCHANGED <<customerOf, note, edit, inv, work, answered, requests, faults>>

-----------------------------------------------------------------------------
Progress(i) ==
    \/ LoadLinked(i) \/ LoadUnlinked(i) \/ Save(i) \/ ClaimNew(i) \/ Adopt(i)
    \/ Provision(i) \/ ProvisionFails(i) \/ Reset(i) \/ Connect(i)
    \/ Activate(i) \/ ActivateNone(i) \/ Mark(i)

Fails(i) ==
    \/ LoadFails(i) \/ SaveFails(i) \/ ClaimFails(i) \/ ResetFails(i)
    \/ ConnectFails(i) \/ ActivateFails(i) \/ MarkFails(i)

End(n) == Suspend(n) \/ SuspendSave(n) \/ SuspendFails(n) \/ Deplete(n) \/ Lapse(n)

Next ==
    \/ \E c \in Client, t \in Tx : Request(c, t)
    \/ Select \/ Retry
    \/ \E i \in Invocation : Progress(i) \/ Fails(i)
    \/ Crash
    \/ \E n \in Name : End(n)

(* The event loop runs every invocation on, the timer keeps firing, and an  *)
(* edit that has begun is finished.                                         *)
Fairness ==
    /\ \A i \in Invocation : WF_vars(Progress(i))
    /\ WF_vars(Select) /\ WF_vars(Retry)
    /\ \A n \in Name : WF_vars(SuspendSave(n))

Spec == Init /\ [][Next]_vars /\ Fairness
-----------------------------------------------------------------------------
(* Properties *)

(* However many portal pages, retries and sweeps handle one payment at      *)
(* once, it makes one customer, it stays linked to that one, and only its   *)
(* credentials are ever answered.                                           *)
OneAccountPerPayment ==
    \A t \in Tx :
        /\ \A n \in Name : customer[n].tx = t => customerOf[t] = n
        /\ answered[t] \subseteq {customerOf[t]}

(* The usage counters of an account are reset by the invocation that made   *)
(* it and never again: a retry cannot give used data back.                  *)
CountersResetOnce == \A n \in Name : user[n].resets <= 1

(* An account shown as active works: whoever set the status, the router     *)
(* user was enabled before, and is still, unless an edit is under way.      *)
ActiveHasAccess ==
    \A n \in Name :
        customer[n].status = "active" /\ customer[n].valid /\ edit[n] = "none"
            => user[n].enabled

Restricted(n) == customer[n].status = "suspended" \/ customer[n].depleted

(* Suspension and a used-up allowance are enforcement boundaries: no step   *)
(* of an activation takes them back.                                        *)
RestrictionHolds ==
    [][\A n \in Name : Restricted(n) => Restricted(n)']_vars

Ended(t) == Linked(t) /\ (Restricted(customerOf[t]) \/ ~customer[customerOf[t]].valid)
Served(t) == /\ Linked(t)
             /\ customer[customerOf[t]].status = "active"
             /\ note[t] = "connected"

(* No query of the sweep looks for the note of a binding that failed.       *)
Unbound(t) == /\ Linked(t)
              /\ customer[customerOf[t]].status = "active"
              /\ note[t] = "binding"

(* A paid purchase ends up active with its device connected, through        *)
(* crashes, outages and racing invocations, although other purchases have   *)
(* a router that stays unreachable, unless its entitlement ends before.  An *)
(* active account whose device was not bound is all that may be left over.  *)
PaidIsServed ==
    \A t \in Tx \ (Dead \union Resold) : []<>(Served(t) \/ Unbound(t) \/ Ended(t))
=============================================================================
