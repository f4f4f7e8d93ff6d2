# TLA+ models of the ISP platform's payments, edits, messages and migrations

This directory models the parts of the platform in which several things happen
at once and something valuable is at stake:

- how an M-Pesa payment is taken, from the click that asks for a prompt on the
  payer's phone to the settled `isp_transactions` row, the reseller's earnings,
  the customer's router access and, for a Hotspot purchase, an account that works;
- how a tenant registers and pays for its account;
- how an edit of a customer keeps router and database together, under a lock
  shared by several API workers;
- how queued messages are claimed, sent and completed;
- how one router is migrated to another through a temporary VPN tunnel.

The program is a TypeScript API server (`artifacts/api-server`) over
Supabase/PostgREST, Safaricom's Daraja API, MikroTik routers, FreeRADIUS, an
OpenVPN server and message providers. Paths below are relative to
`artifacts/api-server`; `mpesa-route.ts` is `src/routes/mpesa-route.ts`,
`auto-provision.ts` is `src/lib/auto-provision.ts`, and "the RPC" is
`settle_verified_mpesa_transaction` in
`migrations/2026_reseller_payment_gateway_bridge.sql`. Six migrations define the
RPC; `scripts/apply-deployment-migrations.mjs:84` applies this one last.

## 1. Inventory

### The payment path (modelled)

| Part | State | Operations | What makes it hard |
|---|---|---|---|
| Checkout (`POST /mpesa/stk`) | `isp_transactions`: status, `payment_intent_id`, `provider_checkout_id` | look up the intent, insert, prompt, record the checkout id, close a refused prompt | requests with one intent interleave; Daraja's response is lost after the phone rings; the record attempts are retried |
| Callback intake (`POST /mpesa/callback`) | `isp_webhook_events` | store, acknowledge, process, mark | anyone may post a body; the process dies after the acknowledgement; the callback comes before the checkout id is recorded |
| `processMpesaCallback` | none of its own: reads and writes the rows, the router, RADIUS | verify with Daraja, save the receipt, restore access, settle, undo | eight awaits between "the row is pending" and "the row is settled"; two callers at once; a rollback that meets somebody else's grant |
| Router access (`reactivatePppoeAccess`, `reactivateVlanAccess`) | PPP secret or queue, RADIUS account | grant, roll back | every step is a remote call that may fail, or act and then fail |
| The RPC | `isp_transactions`, `isp_admins.earnings_balance`, `isp_customers` | one database transaction: settle, credit, activate | must be idempotent under replays, must undo everything when it raises |
| Hotspot activation (`handleHotspotMacAccess`, `runAutomaticHotspotActivationSweep`, `claim_prepaid_hotspot_transaction_account`) | `isp_transactions.customer_id` and `notes`, `isp_customers`, the RouterOS user | read the purchase and its account, claim or save it as pending, set it up on the router, turn it active; retry from the timer | portal pages and the timer handle one purchase at once; ten awaits between reading a row and writing it back; administrators and quota checks write it meanwhile |
| Deferred sweep (`processDeferredMpesaCallbacks`) | `isp_webhook_events.status`, two cursors in memory | every 60 s: fresh batch, older batch, expired batch, purge | no busy flag, batches of 50, events that fail for 24 hours, exceptions |

The parts of the payment path meet in the rows of `isp_transactions` (the checkout writes
`initiating` and `pending`, the RPC writes `completed` and `failed`), in
`isp_webhook_events` (intake inserts, live request and sweep retire), and in
calls: the checkout drains early callbacks after recording its id, the intake
and the sweep call `processMpesaCallback`, which calls the access functions and
the RPC. There are no locks between them; the only serialisation is the
conditional update (`status=eq.initiating`, `status=eq.pending`,
`status=eq.received`; the live request marks its event without one), the unique index
on `payment_intent_id` (`migrations/2026_prepaid_checkout_idempotency.sql:27`) and the row lock of the
RPC. All of it runs in one Node process (`ecosystem.config.cjs`: one instance,
fork mode), so the interleaving points are exactly the awaits.

What each part has to guarantee:

- checkout: one prompt per intent, no promise of a checkout that cannot be
  found, no closing of a row whose phone is ringing, every request ends;
- settlement: completed means paid and receipted; a retired callback belongs to
  a closed transaction; access is never given without a confirmed payment; the
  ledger moves once per payment; a closed row stays closed; a paid transaction
  is settled eventually; a completed renewal has its access;
- sweep: nothing expires untried, nothing settleable starves, a retired event is
  never taken up again, nor a processed one ignored;
- Hotspot activation: one account per payment, its usage counters reset once, an
  active account works on its router, a suspension or a used-up allowance is not
  taken back, a paid purchase is served in the end.

### Beside the payment path (modelled)

| Part | State | Operations | What makes it hard |
|---|---|---|---|
| Registration (`POST /registration/payment`, `routes/registration-route.ts`) | `isp_admins`, its transaction, the action tokens | check the contact's capacity, spend the token, choose a subdomain, insert the account, write the payment, prompt, record, drain; settled by callback, C2B confirmation or the Super Admin | requests of one contact race for its places and names; the handler fails an account by id whatever has become of its payment; a trigger may refuse a late activation |
| Edit lock (`lib/customer-edit-lock.ts`, `lib/customer-edit-consistency.ts`) | `isp_customer_edit_locks`; per worker a map of queues | queue, acquire, renew (heartbeat and `assertLock`), release; inside: change the router, save the row, read back, restore | leases run out while a request is on its way; renewals are joined by several waiters; every step of the edit and the release may fail |
| Message outbox (`services/whatsapp`, `services/sms`) | `whatsapp_outbox`, `sms_outbox` | enqueue by trigger, claim a batch, send, complete, retry | claims expire in five minutes and completions do not name their claim; answers of the provider and of the completion are lost |
| Router migration (`routes/router-migrations-route.ts`) | `router_migration_jobs`, `..._tunnel_leases`, `..._target_leases`, the VPN server's files | allocate a pair, provision, verify, collect, upload, choose a target, review, import, revoke, sweep | handlers write by id after long awaits on routers; a provision script may run after its caller gave up; imports hold a lease that nothing renews |

Registration shares the settlement with the payment path: its rows are closed by
`processMpesaCallback` and the RPC, of which `Registration` keeps what its account
sees (`Settle`). The suspension in `HotspotActivation` is an edit of the kind
`EditLock` models. The settlement triggers the messages that `MessageOutbox`
delivers; nothing flows back. The migration shares nothing with the others.

What each has to guarantee:

- registration: an account is active when its fee is paid, and only then; a
  prompt that rings has a row that can be settled; a contact's limit and a
  token's single use hold; a paid account is activated in the end;
- edit lock: one writer at a time; what an edit answers is true; a router that
  differs from its row is known to somebody; every edit ends;
- outbox: a message marked sent was sent, in good times once; it stays sent;
  every message is settled;
- migration: no two VPN clients share an address; imports into a router exclude
  each other; one review admits one import; every tunnel ends.

### The rest of the repository (not modelled)

`PROJECT.json` lists every component with its reason. In short:

- *Vouchers* and *loyalty points* live in PL/pgSQL functions that, as written,
  have no behaviour to model: `activate_hotspot_voucher` declares a variable
  `identity_key` and the wallet functions have OUT parameters `reference`,
  `points_balance` and `points_awarded`, all names of columns the statements use
  unqualified, without `#variable_conflict`; PostgreSQL raises "column reference
  is ambiguous" when it comes to them.
- *One-time passwords* are issued and verified by one function each under a row
  lock; the tokens they lead to are in `Registration`.
- *RouterOS client, RADIUS client, VPN management, load balancing, port services*
  are mostly generation of router configuration and I/O; what the modelled parts
  need of them is a few values per account.
- *Customers, plans, portal, settings, authentication, storage governance* are
  handlers over single rows.
- *Front ends, mobile app, generated clients, deployment* hold no state of
  their own.

## 2. The modules

| Module | What it is |
|---|---|
| `StkCheckout` | the handler of `POST /mpesa/stk`, any number of concurrent requests |
| `MpesaSettlement` | callback intake, sweep, `processMpesaCallback`, access functions, the RPC |
| `PaymentPromise` | what the settlement promises, without callbacks, workers, routers or faults |
| `DeferredScan` | the timer, the queries, the cursors and the batches of the sweep |
| `MpesaPayments` | extends `StkCheckout` by `MpesaSettlement` over the same rows, prompts and process |
| `HotspotActivation` | the activation of paid Hotspot purchases by portal pages and the timer, and who else writes their accounts |
| `Registration` | the handler of a registration, the account table with its trigger, the ways a fee is settled |
| `EditLock` | queues, lease and heartbeat of the customer edit lock, and the edit under it, in real time |
| `MessageOutbox` | rows, claims and workers of the outbox |
| `RouterMigration` | requests, rows, VPN server, leases and sweep of the migration |
| `MC...` | small instances for TLC |
| `..._proofs` | theorems about `MpesaSettlement`, `MpesaPayments` (and in its first part `StkCheckout`), `HotspotActivation`, `DeferredScan`, `Registration`, `EditLock`, `MessageOutbox` and `RouterMigration` |

### StkCheckout

A request (`at`, `intent`, `tries`, `reply`) walks through the handler; each
await is one action: `CheckExisting` (the lookup in
`respondToExistingStkIntent`), `Insert` (a unique violation answers from the
row that is there), `Prompt` or `PromptRejected`, `Record` (one attempt of
`reconcileInitiatedStkRequest`, at most `MaxTries`). Between two awaits the
handler is deterministic, so one action covers the code up to the next await.
`InsertFails`, `PromptError` and `RecordFails` are the awaits that fail; each
may have acted before it failed. `SettleElsewhere` stands for the RPC. A
request names the checkout id Daraja gives it: it sends at most one prompt, and
Daraja's ids are unique. The remaining statuses the lookup accepts
(`paid`, `success`, `payment_cleared_router_pending`) are the legacy spellings
of `completed` and a customer state, and are folded into `completed`.

### MpesaSettlement

`job[w]` is one running invocation of `processMpesaCallback`, `at` the await it
is at: `select`, `verify`, `receipt`, `fetch`, `enable`, `radius`, `settle`,
`undoRadius`, `undoLine`, `save`, `mark`. `Receive` is the live request (store,
acknowledge, start an invocation), `Sweep` an invocation for a stored event.
The body of an event is reduced to what the code compares it with: `success`
with matching amount and phone, success without a receipt number, success with
another amount or phone, and failure. `Confirmed` is the code's decision after
Daraja's STK query; only this and the pending row decide whether an invocation
goes on. `granting` records that a rollback function exists, `was` the access
the rollback restores: for PPPoE the secret found on the router, for VLAN
whether the customer row was active and unexpired (expiry itself is a
nondeterministic choice).

`Settle` is the RPC: it locks the row, so it is one action. `Settles` is its
condition, `SettleCompleted` its effect on the row, the customer, the wallet and
the reseller, including the branch that finds no active PPPoE plan
(`Unapplied`) and turns the row to `failed` after the credit. `SettleFails` is
a call that fails, or that commits and whose response is lost: the code cannot
tell these apart and rolls access back in both.

Each `Faults` entry is one kind of failure and a run names the kinds it allows:

| Kind | Meaning |
|---|---|
| `daraja` | the STK query fails or cannot be parsed |
| `database` | a PostgREST call fails without acting |
| `lookup` | `sbSelect` answers an HTTP error with no rows (`supabase-client.ts:157`), or the plan lookup after a grant throws |
| `lostReply` | a call acts and its response is lost |
| `router` | a RouterOS or RADIUS step fails, or acts and then fails |
| `crash` | the process dies and every invocation with it |
| `expiry` | an event becomes older than 24 h |
| `withdrawal` | an administrator deactivates a plan, its port or the reseller |

`MaxFaults` bounds how many happen in a behaviour; with `Faults = {}` the model
is the fault-free program.

### PaymentPromise

Per transaction: the payer answers once, the checkout closes once, and closing
a paid checkout credits wallet and reseller in the same step. The refinement
maps `phase` to the row (`initiating` and `pending` are open), `answer` to
Daraja's outcome, and the two ledgers to themselves. So a replay, a lost
response or a crash may at most leave the promise alone.

### DeferredScan

Time counts periods of the 60 s timer; `age` is capped just above the expiry,
beyond which ages are not told apart. A sweep is `fresh`, `olderQuery`, `older`,
`expiredQuery`, `expired`; a query captures the cursor when it is sent (`from`)
and writes it when it is answered, which is what two overlapping sweeps can get
wrong. `Process` and `Mark` are separate because `processCallback` and the
update are two awaits. `verdict` is what `processMpesaCallback` would answer:
it settles, answers false, or throws. `SelectOlderFails` and its kin use what
`sbSelect` does: an HTTP error is an empty list, which also resets the cursor.
`Drain` is a request that processes and retires the callbacks of its own checkout,
beside a sweep that may be at the same event. `LiveMark` is the request that stored the
event: it processes it for as long as that takes and then updates the row by its id alone
(`mpesa-route.ts:2363`), so it may find it `ignored` by now. Nothing has to be kept of
these requests: one that fails, answers false or dies is one that never takes this step,
and a second update changes nothing. Answers are ordered by id and worked off
in that order, so `todo` is the set of the rows still to do and `Current` the smallest.

### MpesaPayments

`StkCheckout` extended by an instance of `MpesaSettlement` whose transactions are the
intents, over shared `status` and `outcome`. What each module names as its
surroundings is replaced by the other's code: `StkCheckout!SettleElsewhere` does not
occur, and `MpesaSettlement!Prompt`, `Refuse`, `Reconcile` do not either. The one
process runs both, so it crashes both (`ProcessCrash`); a prompt Daraja accepts appears
on the phone (`HandleAndShow`). A row that was not inserted yet is `absent` to the
handler and does not exist for the settlement: `SeenStatus` is what the settlement
sees. `CheckoutIsAsAssumed` says that the handler refines its assumptions.

### HotspotActivation

It begins where the settlement ends: transactions are completed, not linked to a
customer, and carry the note "automatic account activation is pending"
(`mpesa-route.ts:1397`). `inv[i]` is one invocation of `handleHotspotMacAccess`,
of a portal page (`Request`) or of the timer's sweep (`Select`, then `Retry` for
one selected transaction after the other), and `at` is where it is:

| `at` | Next step | Code (`mpesa-route.ts`) |
|---|---|---|
| `load` | `LoadLinked`: use the linked account again if `Entitled`, else refuse; `LoadUnlinked`: draw credentials | 2899-3135 |
| `save` | `Save`: write the account back as it was read, pending | 3164-3170 |
| `claim` | `ClaimNew` or `Adopt`: the RPC, under the lock of the transaction's row | 3172-3232 |
| `provision` | `Provision`, `ProvisionFails` | 3272-3438 |
| `reset` | `Reset`: only by the invocation that made the account (`fresh`) | 3439-3449 |
| `connect` | `Connect`: binding, login, and the note that says how far it came | 3463-3507 |
| `activate` | `Activate`, or `ActivateNone` if the row is not pending | 3509-3564 |
| `mark` | `Mark`: `markPaymentClearedRouterPending` | 311-336 |

Every step has its failing twin, which may have acted before it failed. A name
stands for a customer row with its credentials; `CHOOSE` picks any unused one, as
names are interchangeable. `note` is what the sweep's queries tell apart;
`PendingAccounts`, `UnconfirmedAccounts` and `UnlinkedPayments` are its three
sources of work, taken in that order up to `Batch`. A suspension is two steps, as
in `saveCustomerEditWithRouter`: the router (`Suspend`, after reading the
status), then the row (`SuspendSave`, or `SuspendFails`, which puts the router
back). `Deplete` is the quota check of a reconnect, `Lapse` the end of the paid
time. Failures (`Faults`): `database`, `router`, `away` (the device is not on the
Wi-Fi), `binding` (the device binding fails and is only logged) and `crash`.

`Interleaved` says whether restrictions may fall while an invocation runs. The
code has nothing that prevents it, and `HotspotSuspension` shows what follows;
with `FALSE` the other questions are asked of the activation itself.

Abstractions: the sweep's selection is one step although it is several queries
(nothing but the selected ids is kept of them, and the handler reads everything
again); the order within a batch is free; the row limits of the queries (50
customers, 100 and 30 transactions) are larger than any instance; a note is
written with the step it follows, and its failure, which is only logged, is left
out; a suspension is never lifted; an edit whose outcome cannot be confirmed,
which asks for an administrator, does not occur; two random draws do not meet.

### Registration

All requests give one contact and one company name, which is where they meet. A
request is the identity of its account and of its transaction, and `pc` the await
of the handler it is at (`routes/registration-route.ts:162-437`): `capacity`,
`token`, `subdomain`, `insert`, `transaction`, `prompt`, `record`, `drain`, `fail`.
`Counted` is what `enforce_registration_contact_limit` counts: accounts that are
not `payment_failed`; the trigger is asked on the insert and on the update that
turns a failed account active (`RoomFor`). `Settle` is the processing of a stored
callback down to the RPC, by anybody, in one step (the awaits between are
`MpesaSettlement`'s subject); `Drain` is the handler's own and may throw after it.
`Match` and `Confirm` are the C2B confirmation of a manual payment
(`routes/webhook-route.ts:79-133`, called at `181`): it finds an account that waits for
the posted amount under the posted subdomain, and settles it. Neither asks whether
anybody has paid, as the code does not, and both may happen however often a body is
posted; the rows are looked up before the RPC, hence two steps. `Verify` is the Super
Admin's, who takes any pending row. A fault is a call that fails,
done or not; `troubled` keeps which requests it hit.

### EditLock

The lock is written for several API workers, of which today's deployment starts one.
`stage[e]` is where one call of `withCustomerEditLock` is: `queued` behind
`previous[e]` in its worker, `acquire` (polling the row until `Deadline`), then
the edit: `plan`, `router`, `confirm`, `save`, `verify` or `rejected`, `restore`,
`final`, and `release`. A call is also its lease token and the value it writes.
The stages in `Asking` begin with an `assertLock()`: it joins a renewal in flight
or starts one, so a renewal is three steps that any stage may overlap
(`SendRenewal`, `Renew` in the database, `Renewed` or one of its failures), and a
heartbeat is a renewal nobody asked for. `left` is the time to `expires_at`,
`Tick` the passing of time; `MaxCall` bounds a renewal, `MaxWrite` a write after
the answer. A failed update leaves the router as it was, changed or `Mixed`; a
failed save has three kinds as in `saveCustomerEditWithRouter`: refused by a
definite status, or failed with the row written or not. `Crash` ends the calls of
one worker and forgets its queue, not its lease.

### MessageOutbox

A row has `status`, `attempts`, and three booleans for its times: `backoff`
(`available_at` lies ahead), `stale` (`locked_at` is more than five minutes old),
`old` (`created_at` is more than 48 hours old). A worker claims a batch of what is
`Due`, takes its messages up one by one, sends, and completes. `Send` and its
failures are the provider; `CompleteSentFails` is the completion inside the try
block, whose failure the catch completes again as a retryable one;
`CompleteFailedFails` the failure that is swallowed. `deliveries` counts what the
provider accepted, and `doubt` keeps why more than one may be legitimate.

### RouterMigration

`pc[r]` is the await at which request `r` is, `on[r]` its job, and `scanned`,
`exported` and `chosen` what it read before. The setup of a tunnel goes through
`insert`, `issue` (the allocator), `provision`, `script`, `open`, or `undo`,
`unavailable`, `fail`; the import through `acquire` (the target's lease), `mark`,
`preflight`, `save`, `write`, `writing`, `finish` or `abort`, `release`. `row` and
`pair` are the tunnel's row, `client` the files of the VPN server: `Provision` adds
a client under the server's lock if user and address are free, and a script whose
caller gave up stays in `late` and may still run. Rows are written by id, so a
slow request overwrites what has happened since; only the unique index on live
pairs (`Unopposed`) refuses. The sweep, the timer of the server (`TimerFires`), the
expiry of tokens and of leases (`Lapse`) are steps of their own. A lease that a
crash or a failed release left behind belongs to `"orphan"`. `Begun` lets a run
start with jobs that were exported, or failed, before.

## 3. The runs

The pass runs finish in at most four minutes with two workers.

| Run | Instance | Question | Distinct states |
|---|---|---|---|
| `StkCheckout` | 3 requests, 2 intents, 2 faults | idempotent checkout, ends | 183 068 |
| `SettlementReplays` | one transaction of any of the four services, 2 faults; or PPPoE and Hotspot together without faults; 2 events, 2 invocations | safety and refinement | 357 919 |
| `SettlementSerial` | PPPoE, 2 events, 1 invocation, 3 faults | access follows a completed renewal; a paid renewal is settled | 5 815 |
| `DeferredScan` | 3 events, batch 2, 1 sweep, draining and live requests, 1 failing query | nothing untried, nothing starved, retired is not received again | 946 114 |
| `MpesaPayments` | 1 purchase, 2 requests, 1 event, 2 invocations, 1+1 faults | the assumptions hold together, a promised payment is settled | 81 424 |
| `HotspotActivation` | 2 purchases, 1 portal request, the sweep, batch 2, 3 names, 1 fault | accounts, counters, access, restrictions, service | 355 241 |
| `Registration` | 3 registrations (2 by prompt, 1 manual) of a contact with 2 places, 2 of them sharing a token or not, 1 fault | payment, limit, token, activation | 573 648 |
| `EditLock` | 2 edits on 2 workers, lease 3, renewal and write 1 tick each, 1 crash, any call failing | exclusion, true answers, no hidden divergence, ends | 276 957 |
| `MessageOutbox` | 2 messages, 2 workers, batches of 2, 2 claims a row, 2 faults | what a row says, sent stays, settles | 136 360 |
| `RouterMigration` | one address pair; two tunnels; one tunnel with a fault; one job from tunnel to import; two imports into one router with a fault | addresses, imports, reviews, ends | 1 009 849 |

Why the bounds are enough.

- *Payments.* Two requests with one intent show every race of two writers; the
  third adds a request of another intent or a late retry. Two events and two
  invocations give a replay that is concurrent with the first, one that is late,
  and one that is swept while live. One or two faults place a failure at every
  await, in each of the invocations; the serial run allows three because a
  rollback may fail in its turn. Transactions of the settlement meet only in the
  ledger and in the customer's row, so two faults are spent on one transaction at
  a time and the pair is run without any (`OneGroup`). The portal page and the
  sweep are the two writers of one purchase; the second purchase has a router that
  stays unreachable and is a reseller's, and competes for the batch. Batches of two
  with three events force the cursor to move, to reach its end and to wrap; callbacks live
  ten periods, two rounds of the cursor (`Round`) and the two periods in which a callback
  must become settlable to have both.
- *Registration.* Three requests for two places make the limit bind, on the insert
  and on a late activation; two that share a token make its consumption race. Two
  insert attempts and two record attempts reach the end of both loops.
- *EditLock.* Two edits give a queue of two in one worker and a lease wanted by two
  workers. `MaxCall + MaxWrite` is 2 and the lease 3 ticks, the smallest lease of
  which the safety properties hold; `Deadline` is 4, a third longer than the lease as in
  the code (120 and 90 seconds), so that a dead holder's lease runs out before a waiter gives up, and a
  living holder makes it give up. `Named` only names the first call and its worker.
- *MessageOutbox.* A second claim is all that tells an early attempt from the last
  one; two workers give a late completion beside a new claim.
- *RouterMigration.* With a pool of one pair every second tunnel must take the pair
  of the first, which is the case that can go wrong; the scenarios of
  `MCRouterMigration` split the long life of a job at the point where the tunnel has
  ended and the import begins, and one runs through it.

The proofs of section 6 remove the bounds for the safety properties they cover.
Symmetry is used over events and workers only, in `SettlementReplays`, whose
properties are invariants and a step property; the liveness runs use none.
`CHECK_DEADLOCK FALSE` stands in the cfgs in which the system may really come to
rest (all requests answered, all purchases served, all messages settled); the sweep
of `DeferredScan` never rests, and its run checks deadlock.

Mutants: beside each definition that matters is an operator marked "Defect",
which a small bug would turn it into. `PROJECT.json` pairs each property of each
pass run with the defect that breaks it.

## 4. What the code does that its comments do not say

Two runs are expected to fail. Each checks a sentence of the repository.

1. `SettlementConcurrent` / `NoActiveDisabledMismatch`. Two callbacks of one
   PPPoE renewal processed at once, nothing fails. Both grant access, one
   settles, the other is told "replay" (`mpesa-route.ts:1415`) and runs its
   rollback: RADIUS is disabled and the PPP secret is put back to what it was.
   `mpesa-route.ts:2326`: "A conditional pending-to-final state change makes
   callback replay harmless."
2. `HotspotSuspension` / `RestrictionHolds`. The activation reads the customer,
   awaits, and writes the row back by id with status
   `payment_cleared_router_pending` (`mpesa-route.ts:3137-3169`, and again in
   `markPaymentClearedRouterPending`), without the edit lock the suspension
   holds. A suspension saved in between is lost and the account enabled again.
   `.agents/memory/prepaid-session-enforcement.md:6`: "payment processing must
   not clear an admin suspension"; `src/lib/prepaid-entitlement.test.ts:22`
   tests that "admin suspension and explicit data depletion remain enforcement
   boundaries", of the status alone.

`SettlementSerial` is the other side of the first: one invocation at a time,
lookups and settlement calls that are answered. `AccessFollowsRenewal` proves it for
any number of customers who have one renewal each. A second renewal is a second way to
the same mismatch, without two invocations: the first is completed, a router failure
during the second rolls back to what the rollback takes for the state before
(`auto-provision.ts:229` disables RADIUS), and the customer of the completed renewal is
cut off. `HotspotActivation` is the other
side of the second.

Worth knowing beside these; no run is spent on them.

*Payments.* The rollback at `auto-provision.ts:229` disables RADIUS also for a
customer who was active before this payment, so one router failure during an early
renewal cuts an active customer off until the retry. A plan query answered by an
HTTP error is an empty list (`supabase-client.ts:157`), taken for "not a PPPoE
plan": the renewal is settled and access never restored. An exception in
`processCallback` ends the sweep and the next one begins with the same event, so
those behind it may expire untried (`mpesa-route.ts:1542-1544`); so may the events of a
sweep that overlaps with the next one, as nothing keeps two apart. The older cursor goes
back to the first event only after a query without rows (`mpesa-route.ts:1555-1557`),
and as long as every sweep finds one callback that has just left the ten-minute window
there is none: a callback tried once is then not tried again before it expires, though
a retry would settle it and the batch is nearly empty. "The advancing ID cursor lets
repeated failures elsewhere in the old-event set make progress" (`mpesa-route.ts:1542`)
is true of the first try (`RetriedBeforeGivenUp`), of the next ones only when traffic
pauses; hence `Round`, which grows with the events and not with the batches. The RPC credits
the reseller before it looks for an active PPPoE plan, so a VLAN renewal, or one
whose plan or port was deactivated, is closed as `failed` although it was paid, its
access was restored and its reseller has earned; `LedgerBalances` and
`PaymentPromise` state this as it is.

An `ignored` callback is not final: the live request has no time limit and updates its
row without asking for `received` (`mpesa-route.ts:2363`), so one that outlasts the 24
hours turns an `ignored` row into a `processed` one. "The status predicate also protects
terminal records" (`mpesa-route.ts:1560`) is true of the sweep's updates, beside which it
stands, and not of this one; `RetiredStaysRetired` states what remains.

*Hotspot sweep.* Pending accounts are retried newest first and five per sweep, so
five newer purchases on unreachable routers starve an older one (`PaidIsServed`
holds of instances with fewer unreachable purchases than `Batch`); an active account
whose device binding failed carries a note none of the sweep's queries looks for
(`Unbound`); the accounts of a reseller's plan are refused by
`isRetryablePaidHotspotAccount` and missed by the mark, because both compare the
customer's admin with the transaction's (`Resold`).

*Registration.* The drain stands inside the handler's try block: when it throws after
settling, the account is paid and active but listed as `payment_failed`
(`ActivationFollowsPayment` allows this to a request a fault has hit). The token is
spent before the insert, so a request that fails afterwards has to verify again.
Without a usable callback URL the handler leaves a pending account that occupies a
place of its contact. A C2B confirmation (`webhook-route.ts:159-198`) is taken at its
word: unlike the STK callback, whose body the settlement has Daraja confirm
(`CompletedIsPaid`), it is matched by amount and subdomain and nothing is asked about
it. An active manual account therefore shows that a confirmation was posted or that the
Super Admin verified it, not that its fee was paid, and `ActivationFollowsPayment` speaks
of payment only for the accounts prompted over M-Pesa. The confirmation is acknowledged
before it is processed, and one that fails is left to the Super Admin. Verification of the
phone is required by settings: when their lookup fails, a registration goes on without
unless the environment or the other channel asks for it
(`registration-route.ts:270-293`), and `OneAccountPerToken` has no token to speak of. A
lost answer of the record loop is taken for a failure by the attempts behind it.

*Edit lock.* The bound `MaxCall + MaxWrite < Lease` is sharp: with `MaxCall = 2` in
this run two edits write at once. The code bounds neither renewals nor writes by a
timeout; its lease of 90 seconds and its heartbeat every 20 make the case rare, not impossible.
The settlement and the activation write the same rows and routers without the lock.

*Outbox.* A lost answer of the completion of a sent message sends it again
(`whatsapp-service.ts:878-905`); a completion is not tied to its claim, so a worker
that was slow changes a row another one holds; a crash at the eighth attempt leaves
the row `sending` for ever; an HTTP error of the customer lookup fails the message
for good as "not phone-verified" (`whatsapp-service.ts:768-775`).

*Migration.* A crash during an import leaves its job `importing` for ever. The pair
of a `server_unavailable` row is never used again (a test documents this as meant).
Nothing calls the function that renews an import's lease, so an import of more than
an hour is no longer alone (`over` in `ExclusiveImports`). A late write of the target
may rename the target of a job that has moved on, and a slow verification turns a
revoked tunnel back into a connected one, until the sweep ends it
(`EveryTunnelEnds`).

## 5. Fairness

- `StkCheckout`: weak fairness of `Handle(r)` for each request. Once a request
  is in the handler, the event loop runs its continuation when the awaited call
  is answered; every call is eventually answered or fails. Nobody is obliged to
  send a request, so `Arrive` has none.
- `MpesaSettlement`: weak fairness of `Progress(w)` for the same reason, and
  strong fairness of the sweep per event. The timer fires for ever and
  `DeferredScan` shows that it comes back to every received event
  (`SettlableIsSettled`), but in the model the workers may all be taken at a
  given moment, which the code does not know: hence strong. Failures have no
  fairness and are bounded, that is: each outage ends.
- `DeferredScan`: weak fairness of the timer and of `Run(s)` for each sweep: a due
  sweep is started and a running one goes on. No assumption is made on `Recover`.
- `HotspotActivation`: weak fairness of `Progress(i)`, of the timer (`Select`), of
  the loop over the selected transactions (`Retry`) and of the second half of an
  edit (`SuspendSave`). Nobody is obliged to open the portal page.
- `Registration`: weak fairness of `Handle(r)`, and of `SettleCallback(r)`, which the
  sweep repeats for a stored callback (that it comes back to each is
  `SettlableIsSettled`). Nothing makes a payer pay or a Super Admin look.
- `EditLock`: weak fairness of `Flow(e)` and `Renewing(e)`, the two threads of a call,
  and of `Tick`. Failures and crashes need not happen; those that do are answered by
  the timeout of the waiter and the end of the lease.
- `MessageOutbox`: weak fairness of `Work(w)`, the interval timer of each worker, and
  of the two clocks `BackoffEnds(m)` and `LockAges(m)`. The feature and its worker are
  taken to stay enabled.
- `RouterMigration`: only the sweep, `Expire` and the server's own `TimerFires`. No
  request has to be made or to come to an end, so `EveryTunnelEnds` does not rest on
  any handler.
- Crashes are followed by a restart, because PM2 restarts the process; `Sweep`
  after `Crash` is that restart's timer. Liveness runs leave out `expiry` and
  `withdrawal`: an event that expires or an offer that is withdrawn for good
  are the code's documented ways to give up.

## 6. Proofs

The eight `_proofs` modules are checked by TLAPS for all values of the constants
that satisfy the ASSUMEs of the modules: any sets of requests, intents,
transactions, accounts, names, events, workers, messages, edits, jobs and routers,
any fault kinds and any number of faults. What a theorem assumes beyond that is in
its statement: `ASSUME ~Interleaved`, `ASSUME LeaseOutlastsWrites`, the three conditions
of `AccessFollowsRenewal` and `TimeForAll`. Sets are assumed finite where money is added
up (`Tx`) or places are counted (`Request` of `Registration`), and nowhere else.

**StkCheckout** (part one of `MpesaPayments_proofs`). The safety properties are not
inductive. `IInv` adds what ties a request to its row: `OneOwner` (at most one request per intent is past
the insert or was prompted), `OwnersProgress` (its row exists, is `initiating`
until the prompt, and the prompt is known while it is recorded),
`CheckoutNamesPrompt` (the row has a checkout id from `pending` on, of a prompt
for its intent), `RepliesNameCheckout` and `TriesLeft`. `Invariance` proves
`Init => IInv` and one step per action;
`PromptedOnce`, `PromisesHold`, `ClosedUnpaid` and `RowsAdvance` follow.

**MpesaSettlement.** `IInv` is `TypeOK`, `JobsOK` (what an invocation knows at
each await: past `verify` it knows the payer's final answer, past `receipt` the
receipt of a success is stored, at `save` and `mark` the row is closed, and the
access a rollback restores was paid for), `RowsOK` (a receipt means a payment,
a closed row is not still waiting for its payer), `AccountsOK` (an account whose
row or router shows access has a paid, receipted transaction, which is what
makes the value a rollback restores harmless), `CompletedIsPaid` and
`ProcessedIsSettled`. Workers
interfere, so the proof first shows `Monotone`: what a step of anybody can never
take back (a payer's answer, a stored receipt, a closed row, an event's
transaction). The knowledge of every other invocation is preserved by
`Monotone` alone, and each action is left with its own invocation. The theorems
are `TypeCorrect`, `OnlyPaidCompletes`, `RetiredIsClosed`, `AccessIsPaidFor`,
`ClosedForGood` and `ImplementsPromise`: every step is a step of
`PaymentPromise` or a stutter under the mapping of section 2.

`LedgerIsBalanced` turns that step-wise promise into balances: wallets and earnings are
sums over all transactions. The prover has no induction over data; that every finite set
of amounts has a sum, and that a sum grows by what one member grows, is shown with a
least counterexample among the cardinalities instead. `AccessFollowsRenewal` adds
`SerialInv`: the one invocation that runs changes the router only while its renewal is
not completed, and comes to the settlement with line and RADIUS granted. It assumes
`OneAtATime`, `AlwaysAnswered` and `RenewalsApart`, each of which the code leaves open and
each of which is needed (section 4).

**MpesaPayments.** `PaymentsInv` is the invariant of `StkCheckout`, that of
`MpesaSettlement` over `SeenStatus`, and `Coupled`: a phone shows a prompt exactly when a
handler had one accepted. Every step of the composition is a step of `StkCheckout`
(`ImplementsCheckout`: a settling RPC is its `SettleElsewhere`) and a step of
`MpesaSettlement` (`ImplementsSettlement`: an accepted prompt is its `Prompt`, a recorded
checkout its `Reconcile`, a rejected one its `Refuse`), so no theorem of either is proved
again: `CompletedCheckouts` needs both sides, and `PaymentsKeepPromise` carries
`PaymentPromise` and the balances from the settlement to the whole payment.

**HotspotActivation.** `IInv` ties an invocation to its account: past `save` or
the claim it holds the name its payment is linked to (`JobInv`), a drawn name
belongs to nobody else and an account has one maker (`NamesApart`), customers and
payments name each other (`RowsOK`). Links are never changed and rows never
unmade, so a step of one invocation preserves what the others know (`JobsKept`);
the claim is the one step that makes a link, and it looks under the lock.
`OneAccount` and `ResetOnce` hold also when restrictions interleave. `QuietInv`
adds what is only true when they do not (`ASSUME ~Interleaved`): an invocation's
account is not restricted, and is enabled on the router from `reset` on.
`ActiveAccess` and `RestrictionsHold` follow.

**DeferredScan.** `RetiredForGood`: a retired event is never received again and a
processed one never ignored, whatever the cursors say and however sweeps, drains and live
requests overlap. Sweeps and drains ask for `received` when they write; the live request
does not, but writes only `processed`, and only when the callback was settled. `Typed` is
all the proof needs. `RetriedBeforeGivenUp`: no callback expires untried while
the older callbacks fit into `Pass` batches and the time between the window and the end of a callback leaves `Pass` sweeps, and as many again for every query that may
fail. With the constants of the code (window 10 minutes, life 24 hours, batches of 50, no
failing query) that is a backlog of 71 500 callbacks. `InTime` is what makes it
inductive: an untried event that has left the window is in the hands of a sweep, or in
front of the cursor with at most as many waiting events between them as the sweeps left to
it can take; a batch that leaves it out is full and takes `Batch` of these (`BatchOf`), and
a failing query may send the cursor back but pays with the pass set aside for it. The
conditions that sweeps do not overlap (`MaxLag = 0`) and no event throws are needed:
without either TLC finds a callback that expires untried.

**Registration.** `IInv` is `TypeOK`, `PaymentInv`, `TokenInv` and
`ContactLimitHolds`. `PaymentInv` is `Written`, what the handler has written by each
await (no account before the insert, no transaction before its step, an initiating one
at the prompt; at `fail`, without a fault, a refused one), and `Matched`, what account,
transaction and payer's phone say of each other, which contains the two payment
properties. `TokenInv`: a request past `token` has spent its token, and alone.
`ContactLimitHolds` is inductive by itself: every step that adds to `Counted` has asked
`RoomFor`.

**EditLock.** `WritersExclusive` is not inductive. `GrantHolds` says what a renewal that
was answered still guarantees: the row carries the call's token, and what is left of the
lease together with the time since the renewal was sent (`left + sent`, later
`left + clock` of the assertion that joined it) is at least `Lease`. As `clock` stays
within `MaxCall + MaxWrite`, `LeaseOutlastsWrites` leaves a lease that has not run out,
which nobody else can take. `HoldersProgress` says what the holder has left on router
and row at each stage, from which `Truthful` follows; `SomeoneAnswers`, that a router
that differs has a call that will answer for it or one that has reported it, from which
`NoHiddenDivergence` follows.

**MessageOutbox.** `IInv` is `TypeOK`, `HandsMatch` (where a worker stands tells what it
holds), `HeldOnce` (a message without doubt is with one worker, and its row is `sending`
under a fresh lock: the reason why a claim that the completion never checks is enough)
and `DeliveriesMarked` (a delivery is a row marked sent, or a worker about to mark it).

**RouterMigration.** `ClientsDoNotShare` rests on the server's own check, not on the
allocator: late scripts have to be refused as well. `LeaseInv`: an import holds the
lease of its target until it has outlived it. `ReviewInv`: a job in `dry_run` has a
review nobody has imported, and an import under way by that review has yet to mark it.
Nearly every step is quiet (it leaves leases, targets, reviews and imports under way
alone); the parts are shown for quiet steps once and for the few others one by one.

**Only model-checked.** Liveness (`EveryRequestEnds`, `PaidIsSettled`,
`SettlableIsSettled`, `PromisedIsSettled`, `PaidIsServed`, `PaidIsActivated`,
`EveryEditEnds`, `EveryMessageSettles`, `EveryTunnelEnds`): fairness and `ENABLED` are
beyond the prover. Of the violated runs, `SettlementConcurrent` and `HotspotSuspension`
show that the conditions of `AccessFollowsRenewal` and `RestrictionsHold` are not idle.

**Only proved.** `TypeOK` of `StkCheckout`, `MpesaSettlement`, `HotspotActivation`,
`Registration`, `EditLock` and `RouterMigration`, and the step properties
`RowsOnlyAdvance` and `SettledIsFinal`, are theorems and not repeated by the runs.

## 7. Plan

Done: the payment path in the order checkout, settlement, promise, sweep,
composition, Hotspot activation; registration, edit lock, outbox, migration; the
proofs listed above.

Left, modelled: the VLAN ingress lock (`src/lib/port-service-resources.ts:211-308`),
the same lock around another operation; the expiry dates of customers, of which
the VLAN save after the settlement and the write-back of the activation are the
hazards; `EditLock` under the suspension of `HotspotActivation`, in one module; the
storage cleanup with its claims.

Left, proved: every safety property the passing runs check is a theorem. What could
follow is `HotspotActivation` and `EditLock` in one module, as `MpesaPayments` is, and
`RetriedBeforeGivenUp` for sweeps that overlap by a bounded lag, with ages counted from
the start of the older one.

## 8. Not in the model, inside the modelled parts

- Input validation, prices, signatures of intents and the choice of the gateway
  in `POST /mpesa/stk` (they decide whether a request is refused: `Refuse`).
- The legacy `POST /mpesa/stkpush`, without an intent, and the two status
  endpoints, which change nothing a property mentions.
- The expiry dates of customers; that the VLAN customer row gets its new expiry
  after the RPC is modelled only as its `status`.
- Platform-billing checkouts, which take no branch of their own in
  `processMpesaCallback` or the RPC. A purchase without a linked customer
  credits the wallet of the customer with the payer's phone, if there is one:
  the `hotspot` service of the model. A linked purchase of a plain Hotspot plan
  behaves like a `vlan` renewal whose grant is skipped.
- The loyalty award that the Hotspot activation starts and does not await, the
  device authorisation in its answer, and the roaming reconnects.
- Registration: the plan endpoint, validation, secure links and certificates; that
  verification is required is taken as given; an answer of Daraja without a checkout
  id is folded into a lost answer; several contacts and company names.
- Edit lock: requests that are applied after their caller gave them up; writers that
  do not take the lock (settlement, activation); the other operations done under it
  (`routes/customers.ts:985`, `1744`, `3515`, `4870`: reconnects and clean-ups). The
  lock of VLAN ingress changes has the same queue and lease, but protects another
  operation, may have no shared lease at all, and lets a failed release turn a change
  that was made into an error.
- Outbox: templates, provider webhooks, the settings that turn it off. The SMS twin
  leaves queued rows that are too old as they are instead of failing them.
- Migration: what an export contains, `pre_state`, the identity and credentials of
  routers, reuse of a registration key, the cleanup of the source router when a
  tunnel is revoked, the deletion of jobs; and a second round of `failTunnelSetup` and
  of the job's update when the first update throws. `client` is what the server's files
  say; a VPN session that is already up may outlive the removal of its files. A script is
  run again with every SSH key until one succeeds (`vps-ssh.ts:129-187`), which is one
  run here.
- Rate limits, logging, health records of the gateway, message texts.

## 9. Running it

`tlc -workers 2 -config <run>.cfg <module>` for each row of "runs" in
`PROJECT.json`, and `tlapm <module>.tla` for the eight `_proofs` modules.
