---------------------------- MODULE DeferredScan ----------------------------
(***************************************************************************)
(* The 60 s timer that retries stored M-Pesa callbacks:                     *)
(* processDeferredMpesaCallbacks().  A sweep retries a batch of the fresh   *)
(* events, then a batch of the older ones behind an ID cursor, then retires *)
(* a batch of the expired ones behind a second cursor, and purges terminal  *)
(* rows.  The cursors are module variables, read before and written after   *)
(* an await; nothing keeps two sweeps from running at once, requests drain   *)
(* single events beside them, and the request that stored an event retires   *)
(* it too, whenever its own processing ends.                                *)
(*                                                                         *)
(* Time is counted in timer periods.  Event ids grow in order of creation.  *)
(***************************************************************************)
EXTENDS Integers, FiniteSetsExt

CONSTANTS
    LastEvent,        \* event ids are 1 .. LastEvent
    Sweep,            \* sweeps that may run at once
    Window,           \* CALLBACK_RECONCILIATION_WINDOW_MS, in periods
    MaxAge,           \* CALLBACK_MAX_AGE_MS = CALLBACK_EVENT_RETENTION_MS
    Batch,            \* CALLBACK_SCAN_BATCH_SIZE
    MaxLag,           \* periods a sweep may last beyond its own (0: no overlap)
    Verdicts,         \* what processMpesaCallback may answer in a run
    MaxFaults         \* queries that may fail in a behaviour

ASSUME SizeAssumption ==
    /\ LastEvent \in Nat /\ Batch \in Nat \ {0}
    /\ MaxLag \in Nat /\ MaxFaults \in Nat
    /\ Window \in Nat /\ MaxAge \in Nat /\ Window < MaxAge
ASSUME VerdictAssumption == Verdicts \subseteq {"settles", "unsettled", "throws"}

VARIABLES
    status,      \* isp_webhook_events.status
    age,         \* periods since created_at
    verdict,     \* settles: a retry would now retire the event;
                 \* unsettled: processMpesaCallback answers false, or the
                 \* update of the row fails; throws: either throws
    cursor,      \* deferredCallbackOlderIdCursor
    expCursor,   \* deferredCallbackExpiredIdCursor
    sweep,       \* the running sweeps
    due,         \* the timer has fired, its sweep has not started
    tried,       \* history: events that were given to processCallback
    faults       \* queries that may still fail

vars == <<status, age, verdict, cursor, expCursor, sweep, due, tried, faults>>

Event == 1 .. LastEvent
OldestAge == MaxAge + MaxLag + 1      \* ages beyond it are not told apart
EventStatus == {"absent", "received", "processed", "ignored", "purged"}
Phases == {"idle", "fresh", "older", "olderQuery", "expired", "expiredQuery"}
Asleep == [at |-> "idle", todo |-> {}, mark |-> FALSE, lag |-> 0, from |-> 0]

TypeOK ==
    /\ status \in [Event -> EventStatus]
    /\ age \in [Event -> 0 .. OldestAge]
    /\ verdict \in [Event -> Verdicts]
    /\ cursor \in 0 .. LastEvent
    /\ expCursor \in 0 .. LastEvent
    /\ DOMAIN sweep = Sweep
    /\ \A s \in Sweep : /\ sweep[s].at \in Phases
                        /\ sweep[s].todo \subseteq Event
                        /\ Cardinality(sweep[s].todo) <= Batch
                        /\ sweep[s].mark \in BOOLEAN
                        /\ sweep[s].lag \in 0 .. MaxLag
                        /\ sweep[s].from \in 0 .. LastEvent
    /\ due \in BOOLEAN
    /\ tried \subseteq Event
    /\ faults \in 0 .. MaxFaults

Init ==
    /\ status = [e \in Event |-> "absent"]
    /\ age = [e \in Event |-> 0]
    /\ verdict \in [Event -> Verdicts]
    /\ cursor = 0
    /\ expCursor = 0
    /\ sweep = [s \in Sweep |-> Asleep]
    /\ due = FALSE
    /\ tried = {}
    /\ faults = MaxFaults

-----------------------------------------------------------------------------
(* The surroundings: callbacks arrive, causes of failure pass, time passes *)

Post(e) ==
    /\ status[e] = "absent"
    /\ \A d \in 1 .. e - 1 : status[d] # "absent"
    /\ status' = [status EXCEPT ![e] = "received"]
    /\ UNCHANGED <<age, verdict, cursor, expCursor, sweep, due, tried, faults>>

(* The checkout is recorded, Daraja or the router answers again. *)
Recover(e) ==
    /\ status[e] = "received" /\ verdict[e] = "unsettled"
    /\ "settles" \in Verdicts
    /\ verdict' = [verdict EXCEPT ![e] = "settles"]
    /\ UNCHANGED <<status, age, cursor, expCursor, sweep, due, tried, faults>>

(* The next 60 s.  A sweep is over MaxLag periods after its own. *)
Tick ==
    /\ ~due
    /\ \A s \in Sweep : sweep[s].at # "idle" => sweep[s].lag < MaxLag
    /\ due' = TRUE
    /\ age' = [e \in Event |->
                  IF status[e] # "absent" /\ age[e] < OldestAge
                  THEN age[e] + 1 ELSE age[e]]
    /\ sweep' = [s \in Sweep |-> IF sweep[s].at = "idle" THEN sweep[s]
                                 ELSE [sweep[s] EXCEPT !.lag = @ + 1]]
    /\ UNCHANGED <<status, verdict, cursor, expCursor, tried, faults>>

-----------------------------------------------------------------------------
(* One sweep *)

Received == {e \in Event : status[e] = "received"}

(* Defect: the query has no limit. *)
FirstOfUnbounded(S) == S

(* order=id.asc (or created_at.asc), limit=CALLBACK_SCAN_BATCH_SIZE: the    *)
(* rows come, and are worked off, in the order of their ids.                *)
FirstOf(S) == {e \in S : Cardinality({d \in S : d < e}) < Batch}

(* Ages are compared with the time at which the sweep started. *)
AgeAt(s, e) == age[e] - sweep[s].lag
FreshFor(s) == {e \in Received : AgeAt(s, e) <= Window}
OlderFor(s, from) == {e \in Received : /\ AgeAt(s, e) > Window
                                       /\ AgeAt(s, e) <= MaxAge
                                       /\ e > from}
ExpiredFor(s, from) == {e \in Received : AgeAt(s, e) > MaxAge /\ e > from}

Set(s, r) == sweep' = [sweep EXCEPT ![s] = r]

(* The timer callback runs; the first query returns the fresh batch. *)
Start(s) ==
    /\ due
    /\ sweep[s].at = "idle"
    /\ due' = FALSE
    /\ Set(s, [Asleep EXCEPT !.at = "fresh", !.todo = FirstOf(FreshFor(s))])
    /\ UNCHANGED <<status, age, verdict, cursor, expCursor, tried, faults>>

(* A query answered by an HTTP error finds no rows; a broken connection     *)
(* throws, and ends the sweep.                                              *)
Fault == faults > 0 /\ faults' = faults - 1

StartFails(s) ==
    /\ due
    /\ sweep[s].at = "idle"
    /\ Fault
    /\ due' = FALSE
    /\ Set(s, Asleep) \/ Set(s, [Asleep EXCEPT !.at = "fresh"])
    /\ UNCHANGED <<status, age, verdict, cursor, expCursor, tried>>

ReadyFor(s, phase) == sweep[s].at = phase /\ sweep[s].todo = {}

Current(s) == Min(sweep[s].todo)
Rest(s) == sweep[s].todo \ {Current(s)}

(* The query for the older events is sent with the cursor as it is now ... *)
QueryOlder(s) ==
    /\ ReadyFor(s, "fresh")
    /\ Set(s, [sweep[s] EXCEPT !.at = "olderQuery", !.from = cursor])
    /\ UNCHANGED <<status, age, verdict, cursor, expCursor, due, tried, faults>>

(* Defect: the cursor stays at the end of the old-event set. *)
OlderNeverWraps(s) ==
    /\ sweep[s].at = "olderQuery"
    /\ LET found == FirstOf(OlderFor(s, sweep[s].from)) IN
         /\ cursor' = IF found = {} THEN cursor ELSE Max(found)
         /\ Set(s, [sweep[s] EXCEPT !.at = "older", !.todo = found])
    /\ UNCHANGED <<status, age, verdict, expCursor, due, tried, faults>>

(* Defect: the cursor jumps over the events beyond the batch. *)
OlderSkips(s) ==
    /\ sweep[s].at = "olderQuery"
    /\ LET older == OlderFor(s, sweep[s].from)
           found == FirstOf(older) IN
         /\ cursor' = IF older = {} THEN 0 ELSE Max(older)
         /\ Set(s, [sweep[s] EXCEPT !.at = "older", !.todo = found])
    /\ UNCHANGED <<status, age, verdict, expCursor, due, tried, faults>>

(* ... and its answer moves the cursor, or resets it. *)
SelectOlder(s) ==
    /\ sweep[s].at = "olderQuery"
    /\ LET found == FirstOf(OlderFor(s, sweep[s].from)) IN
         /\ cursor' = IF found = {} THEN 0 ELSE Max(found)
         /\ Set(s, [sweep[s] EXCEPT !.at = "older", !.todo = found])
    /\ UNCHANGED <<status, age, verdict, expCursor, due, tried, faults>>

(* No rows where there are some: the scan starts again from the oldest id. *)
SelectOlderFails(s) ==
    /\ sweep[s].at = "olderQuery"
    /\ Fault
    /\ \/ Set(s, Asleep) /\ UNCHANGED cursor
       \/ Set(s, [sweep[s] EXCEPT !.at = "older"]) /\ cursor' = 0
    /\ UNCHANGED <<status, age, verdict, expCursor, due, tried>>

QueryExpired(s) ==
    /\ ReadyFor(s, "older")
    /\ Set(s, [sweep[s] EXCEPT !.at = "expiredQuery", !.from = expCursor])
    /\ UNCHANGED <<status, age, verdict, cursor, expCursor, due, tried, faults>>

SelectExpired(s) ==
    /\ sweep[s].at = "expiredQuery"
    /\ LET found == FirstOf(ExpiredFor(s, sweep[s].from)) IN
         /\ expCursor' = IF found = {} THEN 0 ELSE Max(found)
         /\ Set(s, [sweep[s] EXCEPT !.at = "expired", !.todo = found])
    /\ UNCHANGED <<status, age, verdict, cursor, due, tried, faults>>

SelectExpiredFails(s) ==
    /\ sweep[s].at = "expiredQuery"
    /\ Fault
    /\ \/ Set(s, Asleep) /\ UNCHANGED expCursor
       \/ Set(s, [sweep[s] EXCEPT !.at = "expired"]) /\ expCursor' = 0
    /\ UNCHANGED <<status, age, verdict, cursor, due, tried>>

Retire(e, final) ==
    status' = [status EXCEPT ![e] = IF @ = "received" THEN final ELSE @]

(* processCallback answers for the next event of the batch; an exception    *)
(* leaves the loop and the sweep.                                           *)
Process(s) ==
    /\ sweep[s].at \in {"fresh", "older"}
    /\ sweep[s].todo # {} /\ ~sweep[s].mark
    /\ LET e == Current(s) IN
         /\ tried' = tried \union {e}
         /\ Set(s, CASE verdict[e] = "settles" -> [sweep[s] EXCEPT !.mark = TRUE]
                     [] verdict[e] = "throws" -> Asleep
                     [] OTHER -> [sweep[s] EXCEPT !.todo = Rest(s)])
    /\ UNCHANGED <<status, age, verdict, cursor, expCursor, due, faults>>

(* A settled callback is retired, if its row is still a received one. *)
Mark(s) ==
    /\ sweep[s].mark
    /\ Retire(Current(s), "processed")
    /\ Set(s, [sweep[s] EXCEPT !.todo = Rest(s), !.mark = FALSE])
    /\ UNCHANGED <<age, verdict, cursor, expCursor, due, tried, faults>>

(* Defect: the update of an expired row does not ask for a received one. *)
IgnoreAnyRow(s) ==
    /\ sweep[s].at = "expired"
    /\ sweep[s].todo # {}
    /\ status' = [status EXCEPT ![Current(s)] = "ignored"]
    /\ Set(s, [sweep[s] EXCEPT !.todo = Rest(s)])
    /\ UNCHANGED <<age, verdict, cursor, expCursor, due, tried, faults>>

Ignore(s) ==
    /\ sweep[s].at = "expired"
    /\ sweep[s].todo # {}
    /\ Retire(Current(s), "ignored")
    /\ Set(s, [sweep[s] EXCEPT !.todo = Rest(s)])
    /\ UNCHANGED <<age, verdict, cursor, expCursor, due, tried, faults>>

(* Once an hour the sweep ends with a purge of old terminal rows. *)
End(s) ==
    /\ ReadyFor(s, "expired")
    /\ \/ UNCHANGED status
       \/ status' = [e \in Event |->
                        IF /\ status[e] \in {"processed", "ignored"}
                           /\ AgeAt(s, e) > MaxAge
                        THEN "purged" ELSE status[e]]
    /\ Set(s, Asleep)
    /\ UNCHANGED <<age, verdict, cursor, expCursor, due, tried, faults>>

(* A request that has recorded a checkout, or is asked for its status, drains *)
(* the callback that came before it: the same function with a checkout id.  It *)
(* reads the time when it begins; how long ago that was is left open.         *)
Drain(e) ==
    /\ status[e] = "received"
    /\ \/ /\ verdict[e] = "settles" /\ tried' = tried \union {e}
          /\ Retire(e, "processed")
       \/ age[e] > MaxAge /\ Retire(e, "ignored") /\ UNCHANGED tried
    /\ UNCHANGED <<age, verdict, cursor, expCursor, sweep, due, faults>>

(* The request that stored the event goes on to process it, for as long as   *)
(* that takes.  If it settles it - what kept it from that has passed - the row *)
(* is updated by its id alone, whatever status it has by now.  A request that  *)
(* fails or dies is one that never comes to this.                             *)
LiveMark(e) ==
    /\ status[e] \in {"received", "ignored"}
    /\ "settles" \in Verdicts /\ verdict[e] \in {"settles", "unsettled"}
    /\ status' = [status EXCEPT ![e] = "processed"]
    /\ verdict' = [verdict EXCEPT ![e] = "settles"]
    /\ tried' = tried \union {e}
    /\ UNCHANGED <<age, cursor, expCursor, sweep, due, faults>>

Run(s) == \/ Start(s) \/ Process(s) \/ Mark(s) \/ QueryOlder(s) \/ SelectOlder(s)
          \/ QueryExpired(s) \/ SelectExpired(s) \/ Ignore(s) \/ End(s)

QueryFails(s) == StartFails(s) \/ SelectOlderFails(s) \/ SelectExpiredFails(s)

Next == \/ \E e \in Event : Post(e) \/ Recover(e) \/ Drain(e) \/ LiveMark(e)
        \/ Tick
        \/ \E s \in Sweep : Run(s) \/ QueryFails(s)

(* The timer keeps firing, and the event loop starts a sweep that is due and  *)
(* runs every sweep on.                                                      *)
Fairness == WF_vars(Tick) /\ \A s \in Sweep : WF_vars(Run(s))

Spec == Init /\ [][Next]_vars /\ Fairness
-----------------------------------------------------------------------------
(* Properties *)

(* No callback is given up without having been retried: every event that    *)
(* expires was handed to processMpesaCallback while it was       *)
(* young enough, however many others fail before it in the scan order.      *)
TriedBeforeIgnored ==
    \A e \in Event : status[e] = "ignored" => e \in tried

(* No row that was retired is received again, and none that was processed   *)
(* becomes an ignored one, even when a sweep selected it before somebody else *)
(* retired it.  The one change left before the purge is the live request's:   *)
(* it turns an ignored row into a processed one, and only when the callback   *)
(* was settled after all.                                                     *)
RetiredStaysRetired ==
    [][\A e \in Event :
         /\ status[e] = "processed" => status'[e] \in {"processed", "purged"}
         /\ status[e] = "ignored" =>
                \/ status'[e] \in {"ignored", "purged"}
                \/ status'[e] = "processed" /\ verdict'[e] = "settles"]_vars

(* The sweeps after which the older scan is back at an event at the latest:  *)
(* behind its other events come ones that have just left the window, as few   *)
(* as one a sweep, and the cursor starts again only once there are no more.   *)
Round == LastEvent + 1

(* The age up to which a callback has a full round of older scans before it   *)
(* expires, and one more for every query that may fail.                       *)
Early == MaxAge - (MaxFaults + 1) * Round

(* A callback that can be settled when it is early enough, and the window does *)
(* not take up that time, is settled: events that fail again and again do not  *)
(* starve it.                                                                 *)
SettlableIsSettled ==
    [](\A e \in Event :
        status[e] = "received" /\ verdict[e] = "settles"
            /\ age[e] <= Early /\ Window <= Early
        => <>(status[e] \in {"processed", "purged"}))
=============================================================================
