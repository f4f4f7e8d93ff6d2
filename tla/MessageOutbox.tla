--------------------------- MODULE MessageOutbox ---------------------------
(***************************************************************************)
(* The WhatsApp outbox: rows queued by database triggers, claimed in        *)
(* batches by the workers of several API servers, sent to the provider and  *)
(* completed one after the other (processWhatsAppOutboxBatch; the SMS       *)
(* outbox has the same shape).  A claim is a lock of five minutes that the  *)
(* completion does not check; a failure is tried again after a back-off, up *)
(* to MaxAttempts claims in all.                                            *)
(***************************************************************************)
EXTENDS Naturals, FiniteSets

CONSTANTS
    Messages,     \* dedupe keys
    Workers,      \* API servers, each with one batch at a time
    None,         \* no message
    MaxAttempts,  \* 8: claims of a row
    Limit,        \* rows of one claim
    MaxFaults     \* lost answers and crashes in a behaviour

ASSUME NoneAssumption == None \notin Messages
ASSUME BoundAssumption == /\ MaxAttempts \in Nat \ {0} /\ Limit \in Nat \ {0}
                          /\ MaxFaults \in Nat

VARIABLES
    status, attempts,  \* the columns of a row
    backoff,      \* available_at lies ahead
    stale,        \* locked_at lies more than five minutes back
    old,          \* created_at lies more than 48 hours back
    todo,         \* the messages of a worker's batch not yet taken up
    item,         \* the message it is at
    at,           \* where the worker is with it
    deliveries,   \* history: sends the provider has accepted
    doubt,        \* history: an answer about the message was lost, its worker
                  \* died, or its lock ran out while its worker was at work
    faults        \* faults left

row    == <<status, attempts, backoff, stale>>
worker == <<todo, item, at>>
vars   == <<row, old, worker, deliveries, doubt, faults>>

Status == {"absent", "queued", "sending", "sent", "failed"}
Places == {"idle", "busy", "sent", "retry", "final"}

TypeOK ==
    /\ status \in [Messages -> Status]
    /\ attempts \in [Messages -> 0 .. MaxAttempts]
    /\ backoff \in [Messages -> BOOLEAN] /\ stale \in [Messages -> BOOLEAN]
    /\ old \in [Messages -> BOOLEAN] /\ doubt \in [Messages -> BOOLEAN]
    /\ todo \in [Workers -> SUBSET Messages]
    /\ item \in [Workers -> Messages \cup {None}]
    /\ at \in [Workers -> Places]
    /\ deliveries \in [Messages -> Nat]
    /\ faults \in 0 .. MaxFaults

Init ==
    /\ status = [m \in Messages |-> "absent"]
    /\ attempts = [m \in Messages |-> 0]
    /\ backoff = [m \in Messages |-> FALSE]
    /\ stale = [m \in Messages |-> FALSE]
    /\ old = [m \in Messages |-> FALSE]
    /\ todo = [w \in Workers |-> {}]
    /\ item = [w \in Workers |-> None]
    /\ at = [w \in Workers |-> "idle"]
    /\ deliveries = [m \in Messages |-> 0]
    /\ doubt = [m \in Messages |-> FALSE]
    /\ faults = MaxFaults

Fault == faults > 0 /\ faults' = faults - 1

-----------------------------------------------------------------------------
(* The rows.                                                                *)

\* A trigger on a payment, a renewal or an invoice; a second event with the
\* same dedupe key finds the row there.
Enqueue(m) ==
    /\ status[m] = "absent"
    /\ status' = [status EXCEPT ![m] = "queued"]
    /\ UNCHANGED <<attempts, backoff, stale, old, worker, deliveries, doubt, faults>>

\* Defect: a claim does not look at the attempts.
DueForever(m) ==
    /\ \/ status[m] = "queued" /\ ~backoff[m]
       \/ status[m] = "sending" /\ stale[m]
    /\ ~old[m]

\* Defect: a claim takes rows another worker has just claimed.
DueUnlocked(m) ==
    /\ \/ status[m] = "queued" /\ ~backoff[m]
       \/ status[m] = "sending"
    /\ ~old[m] /\ attempts[m] < MaxAttempts

\* claim_whatsapp_outbox: the rows a claim may take.
Due(m) ==
    /\ \/ status[m] = "queued" /\ ~backoff[m]
       \/ status[m] = "sending" /\ stale[m]
    /\ ~old[m] /\ attempts[m] < MaxAttempts

Held(w) == todo[w] \cup ({item[w]} \ {None})

\* The rows of one claim: all that are due, or as many as it may take.
Batches ==
    LET due == {m \in Messages : Due(m)} IN
    {batch \in SUBSET due : /\ batch # {} /\ Cardinality(batch) <= Limit
                            /\ batch = due \/ Cardinality(batch) = Limit}

\* Queued rows that are too old fail, those of the batch become "sending".
Take(batch) ==
    /\ status' = [m \in Messages |->
                     CASE m \in batch -> "sending"
                       [] status[m] = "queued" /\ old[m] -> "failed"
                       [] OTHER -> status[m]]
    /\ attempts' = [m \in Messages |->
                       IF m \in batch THEN attempts[m] + 1 ELSE attempts[m]]
    /\ stale' = [m \in Messages |-> stale[m] /\ m \notin batch]
    /\ UNCHANGED backoff

Claim(w) ==
    /\ at[w] = "idle"
    /\ \E batch \in Batches : Take(batch) /\ todo' = [todo EXCEPT ![w] = batch]
    /\ at' = [at EXCEPT ![w] = "busy"]
    /\ UNCHANGED <<old, item, deliveries, doubt, faults>>

\* The answer of a claim is lost: the rows are nobody's until their lock ages.
ClaimUnanswered(w) ==
    /\ at[w] = "idle" /\ Fault
    /\ \E batch \in Batches : Take(batch)
    /\ UNCHANGED <<old, worker, deliveries, doubt>>

\* A claim that finds nothing due still fails the queued rows that are too old.
ClaimNothing(w) ==
    /\ at[w] = "idle" /\ \A m \in Messages : ~Due(m)
    /\ \E m \in Messages : status[m] = "queued" /\ old[m]
    /\ status' = [m \in Messages |->
                    IF status[m] = "queued" /\ old[m] THEN "failed" ELSE status[m]]
    /\ UNCHANGED <<attempts, backoff, stale, old, worker, deliveries, doubt, faults>>

\* complete_whatsapp_outbox(p_status = 'sent'), whoever holds the row now.
SetSent(m) ==
    /\ status' = [status EXCEPT ![m] = "sent"]
    /\ stale' = [stale EXCEPT ![m] = FALSE]
    /\ UNCHANGED <<attempts, backoff>>

\* Defect: the last attempt is counted as one before it.
AgainOnceMore(m) == attempts[m] <= MaxAttempts

\* complete_whatsapp_outbox(p_status = 'failed', p_retryable = r)
Again(m) == attempts[m] < MaxAttempts
SetFailed(m, r) ==
    /\ status' = [status EXCEPT ![m] = IF r /\ Again(m) THEN "queued" ELSE "failed"]
    /\ backoff' = [backoff EXCEPT ![m] = @ \/ (r /\ Again(m))]
    /\ stale' = [stale EXCEPT ![m] = FALSE]
    /\ UNCHANGED attempts

-----------------------------------------------------------------------------
(* The worker.                                                              *)

Goes(w, m, place) ==
    /\ item' = [item EXCEPT ![w] = m]
    /\ at' = [at EXCEPT ![w] = place]

\* The next message of the batch, or the end of it.
Continue(w) == Goes(w, None, IF todo[w] = {} THEN "idle" ELSE "busy") /\ UNCHANGED todo

TakeUp(w, m) == at[w] = "busy" /\ m \in todo[w] /\ todo' = [todo EXCEPT ![w] = @ \ {m}]
Deliver(m)   == deliveries' = [deliveries EXCEPT ![m] = @ + 1]
Doubt(m)     == doubt' = [doubt EXCEPT ![m] = TRUE]

\* The provider accepts the message and answers its id.
Send(w, m) ==
    /\ TakeUp(w, m) /\ Goes(w, m, "sent") /\ Deliver(m)
    /\ UNCHANGED <<row, old, doubt, faults>>

\* It accepts the message and its answer is lost or unreadable: retryable.
SendUnanswered(w, m) ==
    /\ TakeUp(w, m) /\ Goes(w, m, "retry") /\ Deliver(m) /\ Doubt(m) /\ Fault
    /\ UNCHANGED <<row, old>>

\* Defect: an answer is taken for an acceptance whatever it says.
SendFailsUnread(w, m) ==
    /\ TakeUp(w, m)
    /\ Goes(w, m, "retry") \/ Goes(w, m, "sent")
    /\ UNCHANGED <<row, old, deliveries, doubt, faults>>

\* It does not get the message, or refuses it: a retryable error or a final
\* one, as for a recipient that is not verified.
SendFails(w, m) ==
    /\ TakeUp(w, m)
    /\ Goes(w, m, "retry") \/ Goes(w, m, "final")
    /\ UNCHANGED <<row, old, deliveries, doubt, faults>>

CompleteSent(w) ==
    /\ at[w] = "sent" /\ SetSent(item[w]) /\ Continue(w)
    /\ UNCHANGED <<old, deliveries, doubt, faults>>

\* The completion fails, done by the database or not; it is inside the try,
\* and the catch takes the message for a retryable failure.
CompleteSentFails(w) ==
    /\ at[w] = "sent" /\ Fault /\ Doubt(item[w])
    /\ SetSent(item[w]) \/ UNCHANGED row
    /\ Goes(w, item[w], "retry") /\ UNCHANGED <<todo, old, deliveries>>

CompleteFailed(w) ==
    /\ at[w] \in {"retry", "final"}
    /\ SetFailed(item[w], at[w] = "retry") /\ Continue(w)
    /\ UNCHANGED <<old, deliveries, doubt, faults>>

\* The failure cannot be recorded: the error is swallowed, the row stays
\* "sending" until its lock is old.
CompleteFailedFails(w) ==
    /\ at[w] \in {"retry", "final"} /\ Fault
    /\ Continue(w) /\ UNCHANGED <<row, old, deliveries, doubt>>

-----------------------------------------------------------------------------
(* Time and crashes.                                                        *)

BackoffEnds(m) ==
    /\ backoff[m] /\ backoff' = [backoff EXCEPT ![m] = FALSE]
    /\ UNCHANGED <<status, attempts, stale, old, worker, deliveries, doubt, faults>>

\* Five minutes pass on a claimed row, whether its worker is alive or not.
LockAges(m) ==
    /\ status[m] = "sending" /\ ~stale[m]
    /\ stale' = [stale EXCEPT ![m] = TRUE]
    /\ doubt' = [doubt EXCEPT ![m] = @ \/ \E w \in Workers : m \in Held(w)]
    /\ UNCHANGED <<status, attempts, backoff, old, worker, deliveries, faults>>

RowAges(m) ==
    /\ status[m] \notin {"absent"} /\ ~old[m]
    /\ old' = [old EXCEPT ![m] = TRUE]
    /\ UNCHANGED <<row, worker, deliveries, doubt, faults>>

Crash(w) ==
    /\ at[w] # "idle" /\ Fault
    /\ doubt' = [m \in Messages |-> doubt[m] \/ m \in Held(w)]
    /\ todo' = [todo EXCEPT ![w] = {}] /\ Goes(w, None, "idle")
    /\ UNCHANGED <<row, old, deliveries>>

\* What a worker does when nothing goes wrong with its calls to the database.
Work(w) ==
    \/ Claim(w) \/ ClaimNothing(w) \/ CompleteSent(w) \/ CompleteFailed(w)
    \/ \E m \in Messages : Send(w, m) \/ SendFails(w, m)

Next ==
    \/ \E w \in Workers :
          \/ Work(w) \/ ClaimUnanswered(w) \/ CompleteSentFails(w)
          \/ CompleteFailedFails(w) \/ Crash(w)
          \/ \E m \in Messages : SendUnanswered(w, m)
    \/ \E m \in Messages : Enqueue(m) \/ BackoffEnds(m) \/ LockAges(m) \/ RowAges(m)

Spec == Init /\ [][Next]_vars

\* The interval timers run, and time passes.
FairSpec ==
    /\ Spec /\ \A w \in Workers : WF_vars(Work(w))
    /\ \A m \in Messages : WF_vars(BackoffEnds(m)) /\ WF_vars(LockAges(m))

-----------------------------------------------------------------------------
\* What a row says of its message.  One marked sent was delivered.  If no
\* answer about it was lost, no worker died with it and none held it longer
\* than its lock, it was delivered once at most, and not at all if it failed.
RowTellsDelivery ==
    \A m \in Messages :
        /\ status[m] = "sent" => deliveries[m] > 0
        /\ ~doubt[m] => /\ deliveries[m] <= 1
                        /\ status[m] = "failed" => deliveries[m] = 0

\* A row marked sent stays so: the failure another worker reports late does
\* not put the message back in the queue, unless there is such a reason.
SentStays ==
    [][\A m \in Messages : status[m] = "sent" /\ ~doubt'[m] => status'[m] = "sent"]_vars

\* A queued message is sent or given up, unless the worker of its last
\* attempt never reports: then it stays "sending", with nothing to claim it.
EveryMessageSettles ==
    \A m \in Messages : status[m] = "queued" ~>
        \/ status[m] \in {"sent", "failed"}
        \/ status[m] = "sending" /\ (attempts[m] = MaxAttempts \/ old[m])
=============================================================================
