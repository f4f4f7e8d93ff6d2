------------------------------ MODULE EditLock ------------------------------
(***************************************************************************)
(* withCustomerEditLock() and the edit it protects, saveCustomerEdit-       *)
(* WithRouter(): edits of one customer, asked of several API workers, queue *)
(* in their worker, take a renewable lease in the database, change the      *)
(* MikroTik router, then the customer's row, and undo the router when the   *)
(* row is known to have kept its old value.                                 *)
(*                                                                         *)
(* The lease is a clock that runs down; Tick is the passing of time.  A     *)
(* renewal has three steps: the request leaves, the database answers, the   *)
(* answer arrives; time may pass between any two.                           *)
(***************************************************************************)
EXTENDS Naturals

CONSTANTS
    Edits,       \* calls of withCustomerEditLock for one customer; the lease
                 \* token of a call and the value it writes are the call itself
    Workers,     \* API server processes
    None,        \* no edit
    Base,        \* the value of router and row before any edit
    Mixed,       \* a router left half-way by a failed update
    Lease,       \* leaseMs, in ticks
    Deadline,    \* acquireTimeoutMs, in ticks
    MaxCall,     \* the longest a renewal takes, sending to answer
    MaxWrite,    \* the longest a write takes, counted from that answer
    MaxCrashes   \* crashes of a worker in a behaviour

ASSUME NameAssumption == None \notin Edits /\ Base \notin Edits
                         /\ Mixed \notin Edits /\ Mixed # Base /\ None \notin Workers
ASSUME TimeAssumption == /\ Lease \in Nat /\ Deadline \in Nat
                         /\ MaxCall \in Nat /\ MaxWrite \in Nat
ASSUME CrashAssumption == MaxCrashes \in Nat
\* The lease outlives a renewal and the write that follows it.  The code has
\* no such bound on its requests: it is the condition under which it is safe.
LeaseOutlastsWrites == MaxCall + MaxWrite < Lease

VARIABLES
    holder,     \* lease_token of the row, None: no row
    left,       \* ticks until expires_at
    tail,       \* the map `locks` of each worker: the last call queued there
    worker,     \* the worker a call runs on, None: not made yet
    previous,   \* the call whose end a call awaits
    stage,      \* where a call is
    renewal,    \* renewalInFlight: none, sent, or the database's answer
    sent,       \* ticks since that renewal left
    asserted,   \* assertLock() has returned for the current stage
    clock,      \* acquire: ticks waited; else ticks since the renewal left
                \* whose answer let the current stage go on
    lost,       \* lockLost
    before,     \* the row as it was read under the lock
    router, record,
    outcome,    \* what the call answers
    crashes

lease  == <<holder, left>>
queue  == <<tail, worker, previous>>
guard  == <<renewal, sent, asserted, clock, lost>>
data   == <<router, record>>
vars   == <<lease, queue, stage, guard, before, data, outcome, crashes>>

Value    == Edits \cup {Base}
Asking   == {"router", "confirm", "save", "restore", "final"}   \* call assertLock
Inside   == Asking \cup {"plan", "verify", "rejected"}
Over     == {"ended", "crashed"}
Stages   == Inside \cup Over \cup {"idle", "queued", "acquire", "release"}
Outcomes == {"none", "saved", "restored", "unchanged", "attention",
             "lost", "conflict", "error"}

TypeOK ==
    /\ holder \in Edits \cup {None} /\ left \in 0 .. Lease
    /\ tail \in [Workers -> Edits \cup {None}]
    /\ worker \in [Edits -> Workers \cup {None}]
    /\ previous \in [Edits -> Edits \cup {None}]
    /\ stage \in [Edits -> Stages]
    /\ renewal \in [Edits -> {"none", "sent", "yes", "no"}]
    /\ sent \in [Edits -> Nat] /\ clock \in [Edits -> Nat]
    /\ asserted \in [Edits -> BOOLEAN] /\ lost \in [Edits -> BOOLEAN]
    /\ before \in [Edits -> Value]
    /\ router \in Value \cup {Mixed} /\ record \in Value
    /\ outcome \in [Edits -> Outcomes]
    /\ crashes \in 0 .. MaxCrashes

Init ==
    /\ holder = None /\ left = 0
    /\ tail = [w \in Workers |-> None]
    /\ worker = [e \in Edits |-> None]
    /\ previous = [e \in Edits |-> None]
    /\ stage = [e \in Edits |-> "idle"]
    /\ renewal = [e \in Edits |-> "none"]
    /\ sent = [e \in Edits |-> 0] /\ clock = [e \in Edits |-> 0]
    /\ asserted = [e \in Edits |-> FALSE] /\ lost = [e \in Edits |-> FALSE]
    /\ before = [e \in Edits |-> Base]
    /\ router = Base /\ record = Base
    /\ outcome = [e \in Edits |-> "none"]
    /\ crashes = 0

-----------------------------------------------------------------------------
(* Moving on.                                                               *)

\* The call goes to stage s, where assertLock has not been called yet.
GoTo(e, s) ==
    /\ stage' = [stage EXCEPT ![e] = s]
    /\ asserted' = [asserted EXCEPT ![e] = FALSE]
    /\ clock' = [clock EXCEPT ![e] = 0]
    /\ UNCHANGED <<renewal, sent, lost>>

\* The operation answers o; withCustomerEditLock asserts the lock once more.
Conclude(e, o) == GoTo(e, "final") /\ outcome' = [outcome EXCEPT ![e] = o]

Free(e) == /\ UNCHANGED <<lease, queue, before, crashes>>
           /\ e \in Edits

-----------------------------------------------------------------------------
(* The queue of a worker and the lease.                                     *)

\* A request arrives: it awaits the call `locks` holds and takes its place.
Request(e, w) ==
    /\ stage[e] = "idle"
    /\ stage' = [stage EXCEPT ![e] = "queued"]
    /\ worker' = [worker EXCEPT ![e] = w]
    /\ previous' = [previous EXCEPT ![e] = tail[w]]
    /\ tail' = [tail EXCEPT ![w] = e]
    /\ UNCHANGED <<lease, guard, before, data, outcome, crashes>>

\* `await previous` returns: the call ahead has released its local place.
Enter(e) ==
    /\ stage[e] = "queued"
    /\ previous[e] \in Edits => stage[previous[e]] \in Over
    /\ GoTo(e, "acquire") /\ Free(e) /\ UNCHANGED <<data, outcome>>

\* acquire_isp_customer_edit_lock: a new row, or one whose lease has run out.
Obtainable == holder = None \/ left = 0
Take(e) == IF Obtainable THEN holder' = e /\ left' = Lease ELSE UNCHANGED lease

Acquire(e) ==
    /\ stage[e] = "acquire" /\ Obtainable
    /\ Take(e) /\ GoTo(e, "plan")
    /\ UNCHANGED <<queue, before, data, outcome, crashes>>

\* The call ends: its promise resolves, `locks` forgets it when no later call
\* has queued behind it, and what it kept goes with it.
Leave(e) ==
    /\ stage' = [stage EXCEPT ![e] = "ended"]
    /\ tail' = IF tail[worker[e]] = e THEN [tail EXCEPT ![worker[e]] = None] ELSE tail
    /\ previous' = [previous EXCEPT ![e] = None]
    /\ asserted' = [asserted EXCEPT ![e] = FALSE]
    /\ clock' = [clock EXCEPT ![e] = 0]
    /\ lost' = [lost EXCEPT ![e] = FALSE]
    /\ before' = [before EXCEPT ![e] = Base]
    /\ UNCHANGED <<worker, renewal, sent, data, crashes>>

\* The call of the store fails, before or after the database has served it:
\* the finally block releases nothing but the local place.
AcquireFails(e) ==
    /\ stage[e] = "acquire"
    /\ Take(e) \/ UNCHANGED lease
    /\ Leave(e) /\ outcome' = [outcome EXCEPT ![e] = "error"]

\* acquireTimeoutMs has passed and the lease is still another's.
Conflict(e) ==
    /\ stage[e] = "acquire" /\ clock[e] >= Deadline /\ ~Obtainable
    /\ Leave(e) /\ outcome' = [outcome EXCEPT ![e] = "conflict"]
    /\ UNCHANGED lease

\* The heartbeat, or assertLock() when no renewal is in flight to join.
SendRenewal(e) ==
    /\ stage[e] \in Inside /\ ~lost[e] /\ renewal[e] = "none"
    /\ renewal' = [renewal EXCEPT ![e] = "sent"]
    /\ sent' = [sent EXCEPT ![e] = 0]
    /\ UNCHANGED <<asserted, clock, lost, lease, queue, stage, before, data, outcome, crashes>>

(* Defect: the renewal does not ask for the token. *)
RenewableByAnyone(e) == left > 0

\* renew_isp_customer_edit_lock: the row must carry the token and be unexpired.
Renewable(e) == holder = e /\ left > 0

Renew(e) ==
    /\ renewal[e] = "sent"
    /\ renewal' = [renewal EXCEPT ![e] = IF Renewable(e) THEN "yes" ELSE "no"]
    /\ left' = IF Renewable(e) THEN Lease ELSE left
    /\ UNCHANGED <<holder, sent, asserted, clock, lost, queue, stage, before,
                   data, outcome, crashes>>

\* The answer arrives: an assertLock() that awaits it, its own or the
\* heartbeat's, returns.
Renewed(e) ==
    /\ renewal[e] = "yes"
    /\ renewal' = [renewal EXCEPT ![e] = "none"]
    /\ sent' = [sent EXCEPT ![e] = 0]
    /\ IF stage[e] \in Asking /\ ~asserted[e]
       THEN /\ asserted' = [asserted EXCEPT ![e] = TRUE]
            /\ clock' = [clock EXCEPT ![e] = sent[e]]
       ELSE UNCHANGED <<asserted, clock>>
    /\ UNCHANGED <<lost, lease, queue, stage, before, data, outcome, crashes>>

LoseLock(e) ==
    /\ renewal' = [renewal EXCEPT ![e] = "none"]
    /\ sent' = [sent EXCEPT ![e] = 0]
    /\ lost' = [lost EXCEPT ![e] = TRUE]
    /\ UNCHANGED <<asserted, clock, lease, queue, stage, before, data, outcome, crashes>>

\* The database has refused, or the call fails whatever the database did.
RenewalRefused(e) == renewal[e] = "no" /\ LoseLock(e)
RenewalFails(e)   == renewal[e] \in {"sent", "yes"} /\ LoseLock(e)

-----------------------------------------------------------------------------
(* The edit.                                                                *)

\* The row is read under the lock and the change is prepared; a refusal
\* before the first router command leaves everything as it was.
Plan(e) ==
    /\ stage[e] = "plan"
    /\ before' = [before EXCEPT ![e] = record]
    /\ \/ GoTo(e, "router") /\ UNCHANGED outcome
       \/ Conclude(e, "unchanged")
    /\ UNCHANGED <<lease, queue, data, crashes>>

(* Defect: the mutation is not marked, a failed update is not undone. *)
ApplyRouterUnmarked(e) ==
    /\ stage[e] = "router" /\ asserted[e]
    /\ \/ router' = e /\ GoTo(e, "confirm") /\ UNCHANGED outcome
       \/ router' \in {router, e, Mixed} /\ Conclude(e, "unchanged")
    /\ Free(e) /\ UNCHANGED record

\* reconcileCustomerAccess: the router takes the new value, or fails on the way.
ApplyRouter(e) ==
    /\ stage[e] = "router" /\ asserted[e]
    /\ \/ router' = e /\ GoTo(e, "confirm")
       \/ router' \in {router, e, Mixed} /\ GoTo(e, "restore")
    /\ Free(e) /\ UNCHANGED <<record, outcome>>

\* The lock is asserted after the router; an unsynced router is a failure.
ConfirmRouter(e) ==
    /\ stage[e] = "confirm" /\ asserted[e]
    /\ GoTo(e, "save") \/ GoTo(e, "restore")
    /\ Free(e) /\ UNCHANGED <<data, outcome>>

\* saveRecord: saved; refused by a definite HTTP status; or failed with the
\* row written or not.
SaveRecord(e) ==
    /\ stage[e] = "save" /\ asserted[e]
    /\ \/ record' = e /\ Conclude(e, "saved")
       \/ UNCHANGED <<record, outcome>> /\ GoTo(e, "rejected")
       \/ record' \in {record, e} /\ GoTo(e, "verify") /\ UNCHANGED outcome
    /\ Free(e) /\ UNCHANGED router

(* Defect: a failed save is undone without reading the row back. *)
RestoreUnread(e) ==
    /\ stage[e] \in {"verify", "rejected"}
    /\ GoTo(e, "restore") /\ Free(e) /\ UNCHANGED <<data, outcome>>

\* The read-back: the router is restored only when the row is confirmed old
\* and the save confirmed refused.
ReadBack(e) ==
    /\ stage[e] \in {"verify", "rejected"}
    /\ \/ record = e /\ Conclude(e, "saved")
       \/ /\ record = before[e] /\ record # e /\ stage[e] = "rejected"
          /\ GoTo(e, "restore") /\ UNCHANGED outcome
       \/ /\ record # e /\ ~(record = before[e] /\ stage[e] = "rejected")
          /\ Conclude(e, "attention")
    /\ Free(e) /\ UNCHANGED data

ReadBackFails(e) ==
    /\ stage[e] \in {"verify", "rejected"}
    /\ Conclude(e, "attention") /\ Free(e) /\ UNCHANGED data

\* restoreRouter: the value of the row that was read goes back to the router.
RestoreRouter(e) ==
    /\ stage[e] = "restore" /\ asserted[e]
    /\ \/ router' = before[e] /\ Conclude(e, "restored")
       \/ router' \in {router, before[e], Mixed} /\ Conclude(e, "attention")
    /\ Free(e) /\ UNCHANGED record

\* assertLock() throws.  markMutation() has been called before it, so a
\* router that was not reached yet is restored too, and that asserts again.
AssertThrows(e) ==
    /\ stage[e] \in Asking /\ ~asserted[e] /\ lost[e]
    /\ \/ stage[e] \in {"router", "confirm"} /\ GoTo(e, "restore") /\ UNCHANGED outcome
       \/ stage[e] = "save" /\ GoTo(e, "verify") /\ UNCHANGED outcome
       \/ stage[e] = "restore" /\ Conclude(e, "attention")
       \/ stage[e] = "final" /\ GoTo(e, "release")
          /\ outcome' = [outcome EXCEPT ![e] = "lost"]
    /\ Free(e) /\ UNCHANGED data

\* The last assertLock() has returned: the answer stands.
Answer(e) ==
    /\ stage[e] = "final" /\ asserted[e]
    /\ GoTo(e, "release") /\ Free(e) /\ UNCHANGED <<data, outcome>>

(* Defect: a release that is not confirmed keeps the place in the queue. *)
ReleaseConfirmed(e) ==
    /\ stage[e] = "release" /\ renewal[e] = "none"
    /\ holder = e /\ holder' = None /\ left' = 0
    /\ Leave(e) /\ UNCHANGED outcome

\* The finally block: it awaits a renewal in flight, deletes the row if it
\* carries the token, and leaves the queue whether or not that call failed.
Release(e) ==
    /\ stage[e] = "release" /\ renewal[e] = "none"
    /\ \/ holder = e /\ holder' = None /\ left' = 0
       \/ UNCHANGED lease
    /\ Leave(e) /\ UNCHANGED outcome

-----------------------------------------------------------------------------
(* The environment.                                                         *)

\* A worker stops: its calls end where they are, its queue is forgotten.
Crash(w) ==
    /\ crashes < MaxCrashes
    /\ crashes' = crashes + 1
    /\ LET dead == {e \in Edits : worker[e] = w /\ stage[e] \notin Over}
           Lose(f, v) == [e \in Edits |-> IF e \in dead THEN v ELSE f[e]]
       IN /\ dead # {}
          /\ stage' = Lose(stage, "crashed") /\ previous' = Lose(previous, None)
          /\ renewal' = Lose(renewal, "none") /\ sent' = Lose(sent, 0)
          /\ asserted' = Lose(asserted, FALSE) /\ clock' = Lose(clock, 0)
          /\ lost' = Lose(lost, FALSE) /\ before' = Lose(before, Base)
    /\ tail' = [tail EXCEPT ![w] = None]
    /\ UNCHANGED <<lease, worker, data, outcome>>

\* Time passes, unless a renewal or a write has reached its bound.
Tick ==
    /\ \A e \in Edits : /\ renewal[e] # "none" => sent[e] < MaxCall
                        /\ asserted[e] => clock[e] < MaxCall + MaxWrite
    /\ \/ left > 0
       \/ \E e \in Edits : renewal[e] # "none" \/ asserted[e]
    /\ left' = IF left > 0 THEN left - 1 ELSE 0
    /\ sent' = [e \in Edits |-> IF renewal[e] # "none" THEN sent[e] + 1 ELSE sent[e]]
    /\ clock' = [e \in Edits |->
                   IF asserted[e] \/ (stage[e] = "acquire" /\ clock[e] < Deadline)
                   THEN clock[e] + 1 ELSE clock[e]]
    /\ UNCHANGED <<holder, queue, stage, renewal, asserted, lost, before, data, outcome, crashes>>

\* The two threads of a call: its own awaits, and its renewals.
Flow(e) ==
    \/ Enter(e) \/ Acquire(e) \/ Conflict(e)
    \/ Plan(e) \/ ApplyRouter(e) \/ ConfirmRouter(e) \/ SaveRecord(e)
    \/ ReadBack(e) \/ RestoreRouter(e) \/ AssertThrows(e) \/ Answer(e)
    \/ Release(e)
Renewing(e) == SendRenewal(e) \/ Renew(e) \/ Renewed(e) \/ RenewalRefused(e)

Next ==
    \/ \E e \in Edits, w \in Workers : Request(e, w)
    \/ \E e \in Edits : \/ Flow(e) \/ Renewing(e)
                        \/ AcquireFails(e) \/ RenewalFails(e) \/ ReadBackFails(e)
    \/ \E w \in Workers : Crash(w)
    \/ Tick

Spec == Init /\ [][Next]_vars

-----------------------------------------------------------------------------
(* What the lock is for.                                                    *)

\* A router command, a save or a restoration of the call may be under way.
Writing(e) == stage[e] \in {"router", "save", "restore"} /\ asserted[e]

\* At most one edit of the customer is writing to the router or to the row,
\* whatever workers crash, leases run out, renewals fail or answers are late,
\* as long as the lease outlives a renewal and the write behind it.
WritersExclusive == \A e, f \in Edits : Writing(e) /\ Writing(f) => e = f

\* While the row is still the call's, what the call is about to answer is so:
\* a saved edit is on the router and in the row, a restored or refused one has
\* left both as the router and the row were when it read them.
AnswerIsTrue ==
    \A e \in Edits : stage[e] = "final" /\ asserted[e] =>
        /\ outcome[e] = "saved" => router = e /\ record = e
        /\ outcome[e] = "restored" => router = before[e] /\ record = before[e]
        /\ outcome[e] = "unchanged" => record = before[e]

\* A router that differs from the row when no edit is at work has been
\* reported: an edit answered that attention is required or that its lock was
\* lost, or its worker crashed.
DivergenceReported ==
    router # record /\ (\A e \in Edits : stage[e] \notin Inside \cup {"release"})
        => \E e \in Edits : \/ stage[e] = "crashed"
                            \/ outcome[e] \in {"attention", "lost"}

\* Every request is answered unless its worker dies, though workers crash
\* holding the lease and calls of the store fail, releases included.
EveryEditEnds == \A e \in Edits : stage[e] # "idle" ~> stage[e] \in Over

\* The event loops run, requests are answered and time passes; failures and
\* crashes need not happen.
FairSpec == Spec /\ WF_vars(Tick) /\ \A e \in Edits : WF_vars(Flow(e)) /\ WF_vars(Renewing(e))
=============================================================================
