--------------------------- MODULE RouterMigration ---------------------------
(***************************************************************************)
(* The migration of one MikroTik router to another.  A job opens a          *)
(* temporary VPN tunnel to its source router (a row of                      *)
(* router_migration_tunnel_leases and a client on the VPN server), verifies  *)
(* the source through it, receives its export, and, after a target has been  *)
(* chosen and a dry run reviewed, imports the export into the target under   *)
(* a lease of that router.  Handlers write job and tunnel by id, whatever    *)
(* has become of them since they were read.                                 *)
(*                                                                         *)
(* An HTTP request is a Request while it is handled; its identity is used    *)
(* again for a later one.  A job has one tunnel row and one VPN user name.   *)
(***************************************************************************)
EXTENDS Integers

CONSTANTS
    Request,       \* places for requests that are handled at the same time
    Job,           \* migration jobs
    Known,         \* those whose source is a router of the dashboard
    Reachable,     \* those whose source router runs the tunnel script
    Importable,    \* those somebody wants to import, or to adopt
    Begun,         \* what may have become of the jobs before
    Router,        \* routers an export can be imported into
    PoolSize,      \* address pairs of the migration VPN (126)
    MaxReviews,    \* dry runs asked for per job
    MaxFaults      \* database and server calls that may fail and crashes, for each
                   \* of the beginnings

ASSUME JobAssumption == /\ Known \subseteq Job
                        /\ Begun \subseteq [Job -> {"none", "exported", "failed"}]
ASSUME NameAssumption == "none" \notin Job /\ {"none", "adopt"} \cap Router = {}
                         /\ {"none", "orphan"} \cap Request = {}
ASSUME BoundAssumption == PoolSize \in Nat /\ MaxReviews \in Nat
                          /\ MaxFaults \in [Begun -> Nat]

VARIABLES
    job,         \* router_migration_jobs.status, "none" for no row
    target,      \* target_router_id, "adopt" for target_mode adopt_source
    registered,  \* jobs with a source_router_id
    row,         \* router_migration_tunnel_leases.status
    pair,        \* the address pair of assigned_ip
    due,         \* tunnels whose expires_at has passed
    token,       \* jobs with an unused collector token
    client,      \* the VPN server: the pair pushed to the job's user, 0 for none
    late,        \* provision scripts still waiting on the server for its lock
    lease,       \* router_migration_target_leases: the holder of a router
    lapsed,      \* leases whose expires_at has passed
    pc,          \* where the handler of a request is
    on,          \* the job it is about
    scanned,     \* what it read: the pairs in the server's client directory,
    exported,    \*   whether the job was exported,
    chosen,      \*   the target
    swept,       \* the sweep: the tunnel it is at,
    removed,     \*   whose client it has removed
    reviews,     \* history: the dry runs of a job,
    ticket,      \*   the one an import was admitted by,
    imported,    \*   those that have been imported,
    over,        \*   imports that outlived their lease
    faults       \* faults left

jobs == <<job, target, registered>>
tunnels == <<row, pair, due>>
server == <<client, late>>
leases == <<lease, lapsed>>
memory == <<on, scanned, exported, chosen, ticket, over>>
sweep == <<swept, removed>>
history == <<reviews, imported>>
vars == <<jobs, tunnels, token, server, leases, pc, memory, sweep, history, faults>>

Pairs == 1 .. PoolSize
Live == {"issued", "script_issued", "connected", "exported"}
Reserving == Live \cup {"server_unavailable"}
Setup == {"insert", "issue", "provision", "script", "open", "undo", "unavailable", "fail"}
Import == {"mark", "preflight", "save", "write", "writing", "finish", "abort", "release"}
Other == {"idle", "reach", "register", "connect", "connected", "reissue", "collect",
          "consume", "store", "stored", "revoke", "revoked", "choose", "review",
          "adopt", "acquire"}

JobStates == {"none", "source_pending", "tunnel_issued", "connected", "exported",
              "target_selected", "dry_run", "importing", "completed", "failed"}
RowStates == Reserving \cup {"none", "revoked", "expired"}
Places == Setup \cup Import \cup Other

TypeOK ==
    /\ job \in [Job -> JobStates]
    /\ target \in [Job -> Router \cup {"none", "adopt"}]
    /\ registered \subseteq Job
    /\ row \in [Job -> RowStates]
    /\ pair \in [Job -> 0 .. PoolSize]
    /\ due \subseteq Job
    /\ token \subseteq Job
    /\ client \in [Job -> 0 .. PoolSize]
    /\ late \subseteq Job
    /\ lease \in [Router -> Request \cup {"none", "orphan"}]
    /\ lapsed \subseteq Router
    /\ pc \in [Request -> Places]
    /\ on \in [Request -> Job \cup {"none"}]
    /\ scanned \in [Request -> SUBSET Pairs]
    /\ exported \in [Request -> BOOLEAN]
    /\ chosen \in [Request -> Router \cup {"none", "adopt"}]
    /\ swept \in Job \cup {"none"}
    /\ removed \in BOOLEAN
    /\ reviews \in [Job -> Nat]
    /\ ticket \in [Request -> Nat]
    /\ imported \in [Job -> SUBSET Nat]
    /\ over \subseteq Request
    /\ faults \in Nat

Init ==
    /\ job \in Begun
    /\ target = [j \in Job |-> "none"]
    /\ registered = Known \cup {j \in Job : job[j] = "exported"}
    /\ row = [j \in Job |-> IF job[j] = "none" THEN "none" ELSE "revoked"]
    /\ pair = [j \in Job |-> 0]
    /\ due = {j \in Job : row[j] # "none"}
    /\ token = {}
    /\ client = [j \in Job |-> 0]
    /\ late = {}
    /\ lease = [t \in Router |-> "none"]
    /\ lapsed = {}
    /\ pc = [r \in Request |-> "idle"]
    /\ on = [r \in Request |-> "none"]
    /\ scanned = [r \in Request |-> {}]
    /\ exported = [r \in Request |-> FALSE]
    /\ chosen = [r \in Request |-> "none"]
    /\ swept = "none"
    /\ removed = FALSE
    /\ reviews = [j \in Job |-> 0]
    /\ ticket = [r \in Request |-> 0]
    /\ imported = [j \in Job |-> {}]
    /\ over = {}
    /\ faults = MaxFaults[job]

-----------------------------------------------------------------------------
(* Steps of a handler.                                                      *)

Goto(r, s) == pc' = [pc EXCEPT ![r] = s] /\ UNCHANGED memory

Ends(r) ==
    /\ pc' = [pc EXCEPT ![r] = "idle"]
    /\ on' = [on EXCEPT ![r] = "none"]
    /\ scanned' = [scanned EXCEPT ![r] = {}]
    /\ exported' = [exported EXCEPT ![r] = FALSE]
    /\ chosen' = [chosen EXCEPT ![r] = "none"]
    /\ ticket' = [ticket EXCEPT ![r] = 0]
    /\ over' = over \ {r}

Proceed(r, s) == IF s = "idle" THEN Ends(r) ELSE Goto(r, s)

Begin(r, j, s) ==
    /\ pc[r] = "idle"
    /\ pc' = [pc EXCEPT ![r] = s]
    /\ on' = [on EXCEPT ![r] = j]

Fault == faults > 0 /\ faults' = faults - 1

(* updateJob: by the id alone.  When it throws, the row may have been        *)
(* written all the same.                                                    *)
SetJob(j, s) == job' = [job EXCEPT ![j] = s]

UpdateJob(r, s, next, catch) ==
    \/ SetJob(on[r], s) /\ Proceed(r, next) /\ UNCHANGED faults
    \/ Fault /\ (SetJob(on[r], s) \/ UNCHANGED job) /\ Proceed(r, catch)

(* updateTunnel: by the id alone; no two live rows may have one pair         *)
(* (router_migration_tunnel_active_pair_idx).                               *)
Unopposed(j) == \A k \in Job \ {j} : row[k] \in Live => pair[k] # pair[j]

SetRow(j, s) == (s \in Live => Unopposed(j)) /\ row' = [row EXCEPT ![j] = s]

UpdateTunnel(r, s, next, catch) ==
    \/ SetRow(on[r], s) /\ Proceed(r, next) /\ UNCHANGED faults
    \/ s \in Live /\ ~Unopposed(on[r]) /\ Proceed(r, catch) /\ UNCHANGED <<row, faults>>
    \/ Fault /\ (SetRow(on[r], s) \/ UNCHANGED row) /\ Proceed(r, catch)

(* revokeRouterMigrationVpnClient: the script removes user and address.      *)
Removed(j) == client' = [client EXCEPT ![j] = 0]

RevokeClient(r, next, catch) ==
    \/ Removed(on[r]) /\ Proceed(r, next) /\ UNCHANGED faults
    \/ Fault /\ (Removed(on[r]) \/ UNCHANGED client) /\ Proceed(r, catch)

-----------------------------------------------------------------------------
(* POST /router-migrations/jobs                                             *)

(* The scan of the server's client directory, before anything is written.    *)
Scan(r, j) ==
    /\ job[j] = "none" /\ \A s \in Request : on[s] # j
    /\ Begin(r, j, "insert")
    /\ scanned' = [scanned EXCEPT ![r] = {client[k] : k \in Job} \ {0}]
    /\ UNCHANGED <<jobs, tunnels, token, server, leases, exported, chosen, ticket, over,
                   sweep, history, faults>>

(* A job whose insert throws is not known to the handler.                   *)
InsertJob(r) ==
    /\ pc[r] = "insert"
    /\ UpdateJob(r, "source_pending", "issue", "idle")
    /\ UNCHANGED <<target, registered, tunnels, token, server, leases, sweep, history>>

(* issue_router_migration_tunnel_lease: the lowest pair that was not in the   *)
(* directory and that no row reserves.  After a lost answer, or when the new  *)
(* row cannot be read, the handler has no tunnel to undo.                     *)
Free(r) == {p \in Pairs \ scanned[r] : \A k \in Job : row[k] \in Reserving => pair[k] # p}

Take(r, p) ==
    /\ p \in Free(r) /\ \A q \in Free(r) : p <= q
    /\ row' = [row EXCEPT ![on[r]] = "issued"]
    /\ pair' = [pair EXCEPT ![on[r]] = p]

Issue(r) ==
    /\ pc[r] = "issue"
    /\ \/ \E p \in Pairs : Take(r, p) /\ Goto(r, "provision") /\ UNCHANGED faults
       \/ Free(r) = {} /\ Goto(r, "fail") /\ UNCHANGED <<row, pair, faults>>
       \/ Fault /\ Goto(r, "fail") /\ ((\E p \in Pairs : Take(r, p)) \/ UNCHANGED <<row, pair>>)
    /\ UNCHANGED <<jobs, due, token, server, leases, sweep, history>>

(* The provision script, under the server's lock: it refuses a user or an     *)
(* address that is there.                                                   *)
(* Defect: only the user name is looked up.                                *)
VacantUser(j) == client[j] = 0

Vacant(j) == client[j] = 0 /\ \A k \in Job : client[k] # pair[j]

Added(j) == Vacant(j) /\ client' = [client EXCEPT ![j] = pair[j]]

(* When the script times out or its session breaks, it may have run, or run   *)
(* later.                                                                   *)
Provision(r) ==
    /\ pc[r] = "provision"
    /\ \/ Added(on[r]) /\ Goto(r, "script") /\ UNCHANGED <<late, faults>>
       \/ ~Vacant(on[r]) /\ Goto(r, "undo") /\ UNCHANGED <<server, faults>>
       \/ Fault /\ Goto(r, "undo") /\ \/ Added(on[r]) /\ UNCHANGED late
                                      \/ late' = late \cup {on[r]} /\ UNCHANGED client
                                      \/ UNCHANGED server
    /\ UNCHANGED <<jobs, tunnels, token, leases, sweep, history>>

IssueScript(r) ==
    /\ pc[r] = "script"
    /\ UpdateTunnel(r, "script_issued", "open", "undo")
    /\ UNCHANGED <<jobs, pair, due, token, server, leases, sweep, history>>

Open(r) ==
    /\ pc[r] = "open"
    /\ UpdateJob(r, "tunnel_issued", "idle", "undo")
    /\ UNCHANGED <<target, registered, tunnels, token, server, leases, sweep, history>>

(* failTunnelSetup, then the job is failed.  The code runs both a second time   *)
(* when the first write of the job throws; here the request ends with it.     *)
Undo(r) ==
    /\ pc[r] = "undo"
    /\ RevokeClient(r, "unavailable", "fail")
    /\ UNCHANGED <<jobs, tunnels, token, late, leases, sweep, history>>

Unavailable(r) ==
    /\ pc[r] = "unavailable"
    /\ UpdateTunnel(r, "server_unavailable", "fail", "fail")
    /\ UNCHANGED <<jobs, pair, due, token, server, leases, sweep, history>>

FailJob(r) ==
    /\ pc[r] = "fail"
    /\ UpdateJob(r, "failed", "idle", "idle")
    /\ UNCHANGED <<target, registered, tunnels, token, server, leases, sweep, history>>

-----------------------------------------------------------------------------
(* POST .../verify, GET .../tunnel-script, POST .../collector-script, and the *)
(* upload of the export by the source router.                               *)

StartVerify(r, j) ==
    /\ row[j] \in {"script_issued", "connected"}
    /\ Begin(r, j, "reach")
    /\ exported' = [exported EXCEPT ![r] = job[j] = "exported"]
    /\ UNCHANGED <<jobs, tunnels, token, server, leases, scanned, chosen, ticket, over,
                   sweep, history, faults>>

(* The identity of the source is read through the tunnel, with its own API    *)
(* user: no other client answers.                                           *)
Reach(r) ==
    /\ pc[r] = "reach"
    /\ \/ client[on[r]] # 0 /\ on[r] \in Reachable
          /\ Goto(r, IF on[r] \in registered THEN "connect" ELSE "register")
       \/ Ends(r)
    /\ UNCHANGED <<jobs, tunnels, token, server, leases, sweep, history, faults>>

(* finalize_router_migration_source_registration; a serial number that is     *)
(* registered already is refused.                                           *)
Register(r) ==
    /\ pc[r] = "register"
    /\ \/ row[on[r]] \in {"script_issued", "connected"} /\ on[r] \notin due
          /\ registered' = registered \cup {on[r]}
          /\ \/ Goto(r, "connect") /\ UNCHANGED faults
             \/ Fault /\ Ends(r)
       \/ Ends(r) /\ UNCHANGED <<registered, faults>>
    /\ UNCHANGED <<job, target, tunnels, token, server, leases, sweep, history>>

Connect(r) ==
    /\ pc[r] = "connect"
    /\ UpdateTunnel(r, "connected", "connected", "idle")
    /\ UNCHANGED <<jobs, pair, due, token, server, leases, sweep, history>>

Connected(r) ==
    /\ pc[r] = "connected"
    /\ UpdateJob(r, IF exported[r] THEN "exported" ELSE "connected", "idle", "idle")
    /\ UNCHANGED <<target, registered, tunnels, token, server, leases, sweep, history>>

StartScript(r, j) ==
    /\ row[j] \in {"issued", "script_issued", "connected"} /\ j \notin due
    /\ Begin(r, j, "reissue")
    /\ UNCHANGED <<jobs, tunnels, token, server, leases, scanned, exported, chosen, ticket,
                   over, sweep, history, faults>>

Reissue(r) ==
    /\ pc[r] = "reissue"
    /\ UpdateTunnel(r, "script_issued", "idle", "idle")
    /\ UNCHANGED <<jobs, pair, due, token, server, leases, sweep, history>>

StartCollector(r, j) ==
    /\ row[j] = "connected"
    /\ Begin(r, j, "collect")
    /\ UNCHANGED <<jobs, tunnels, token, server, leases, scanned, exported, chosen, ticket,
                   over, sweep, history, faults>>

Collect(r) ==
    /\ pc[r] = "collect"
    /\ \/ token' = token \cup {on[r]} /\ (UNCHANGED faults \/ Fault)
       \/ Fault /\ UNCHANGED token
    /\ Ends(r)
    /\ UNCHANGED <<jobs, tunnels, server, leases, sweep, history>>

StartUpload(r, j) ==
    /\ j \in token /\ row[j] = "connected"
    /\ Begin(r, j, "consume")
    /\ UNCHANGED <<jobs, tunnels, token, server, leases, scanned, exported, chosen, ticket,
                   over, sweep, history, faults>>

(* consume_router_migration_collector_token                                 *)
Consume(r) ==
    /\ pc[r] = "consume"
    /\ \/ on[r] \in token /\ token' = token \ {on[r]}
          /\ \/ Goto(r, "store") /\ UNCHANGED faults
             \/ Fault /\ Ends(r)
       \/ on[r] \notin token /\ Ends(r) /\ UNCHANGED <<token, faults>>
    /\ UNCHANGED <<jobs, tunnels, server, leases, sweep, history>>

Store(r) ==
    /\ pc[r] = "store"
    /\ UpdateJob(r, "exported", "stored", "idle")
    /\ UNCHANGED <<target, registered, tunnels, token, server, leases, sweep, history>>

Stored(r) ==
    /\ pc[r] = "stored"
    /\ UpdateTunnel(r, "exported", "revoke", "idle")
    /\ UNCHANGED <<jobs, pair, due, token, server, leases, sweep, history>>

(* revokeTunnel, called by the upload, by an adoption and by POST .../revoke. *)
StartRevoke(r, j) ==
    /\ row[j] \in Live
    /\ Begin(r, j, "revoke")
    /\ UNCHANGED <<jobs, tunnels, token, server, leases, scanned, exported, chosen, ticket,
                   over, sweep, history, faults>>

Revoke(r) ==
    /\ pc[r] = "revoke"
    /\ RevokeClient(r, "revoked", "idle")
    /\ UNCHANGED <<jobs, tunnels, token, late, leases, sweep, history>>

Revoked(r) ==
    /\ pc[r] = "revoked"
    /\ UpdateTunnel(r, "revoked", "idle", "idle")
    /\ UNCHANGED <<jobs, pair, due, token, server, leases, sweep, history>>

-----------------------------------------------------------------------------
(* POST .../target, .../dry-run and .../apply                               *)

StartTarget(r, j, t) ==
    /\ j \in Importable /\ job[j] \in {"exported", "target_selected"}
    /\ j \in IF t = "adopt" THEN Known ELSE registered
    /\ Begin(r, j, "choose")
    /\ chosen' = [chosen EXCEPT ![r] = t]
    /\ UNCHANGED <<jobs, tunnels, token, server, leases, scanned, exported, ticket, over,
                   sweep, history, faults>>

(* The preflight of the target, or the write, may fail.                      *)
Choose(r) ==
    /\ pc[r] = "choose"
    /\ \/ SetJob(on[r], "target_selected") /\ target' = [target EXCEPT ![on[r]] = chosen[r]]
          /\ (UNCHANGED faults \/ Fault)
       \/ UNCHANGED <<job, target, faults>>
    /\ Ends(r)
    /\ UNCHANGED <<registered, tunnels, token, server, leases, sweep, history>>

StartReview(r, j) ==
    /\ job[j] \in {"target_selected", "dry_run"} /\ reviews[j] < MaxReviews
    /\ Begin(r, j, "review")
    /\ UNCHANGED <<jobs, tunnels, token, server, leases, scanned, exported, chosen, ticket,
                   over, sweep, history, faults>>

Review(r) ==
    /\ pc[r] = "review"
    /\ \/ SetJob(on[r], "dry_run") /\ reviews' = [reviews EXCEPT ![on[r]] = @ + 1]
          /\ (UNCHANGED faults \/ Fault)
       \/ UNCHANGED <<job, reviews>> /\ Fault
    /\ Ends(r)
    /\ UNCHANGED <<target, registered, tunnels, token, server, leases, sweep, imported>>

StartApply(r, j) ==
    /\ job[j] = "dry_run" /\ target[j] # "none"
    /\ Begin(r, j, IF target[j] = "adopt" THEN "adopt" ELSE "acquire")
    /\ chosen' = [chosen EXCEPT ![r] = target[j]]
    /\ UNCHANGED <<jobs, tunnels, token, server, leases, scanned, exported, ticket, over,
                   sweep, history, faults>>

(* The source stays; the job is done, and a live tunnel is revoked.          *)
Adopt(r) ==
    /\ pc[r] = "adopt"
    /\ UpdateJob(r, "completed", IF row[on[r]] \in Live THEN "revoke" ELSE "idle", "idle")
    /\ UNCHANGED <<target, registered, tunnels, token, server, leases, sweep, history>>

(* acquire_router_migration_target_lease: only for a job that is reviewed for *)
(* this target; removes the leases that have lapsed.                         *)
Admissible(r) == job[on[r]] = "dry_run" /\ target[on[r]] = chosen[r]

Vacated == [t \in Router |-> IF t \in lapsed THEN "none" ELSE lease[t]]

(* Defect: the insert takes the place of the lease that is there.           *)
GrantedAnyway(r) == Admissible(r)

Granted(r) == Admissible(r) /\ Vacated[chosen[r]] = "none"

Acquire(r) ==
    /\ pc[r] = "acquire"
    /\ \/ Granted(r) /\ lapsed' = {} /\ lease' = [Vacated EXCEPT ![chosen[r]] = r]
          /\ pc' = [pc EXCEPT ![r] = "mark"]
          /\ ticket' = [ticket EXCEPT ![r] = reviews[on[r]]]
          /\ UNCHANGED <<on, scanned, exported, chosen, over, faults>>
       \/ Admissible(r) /\ ~Granted(r) /\ lapsed' = {} /\ lease' = Vacated
          /\ Ends(r) /\ UNCHANGED faults
       \/ ~Admissible(r) /\ Ends(r) /\ UNCHANGED <<leases, faults>>
       \/ Granted(r) /\ lapsed' = {} /\ lease' = [Vacated EXCEPT ![chosen[r]] = "orphan"]
          /\ Fault /\ Goto(r, "fail")
       \/ Fault /\ Goto(r, "fail") /\ UNCHANGED leases
    /\ UNCHANGED <<jobs, tunnels, token, server, sweep, history>>

(* Defect: the job is marked when the import has ended.                     *)
MarkLater(r) ==
    /\ pc[r] = "mark" /\ Goto(r, "preflight")
    /\ UNCHANGED <<jobs, tunnels, token, server, leases, sweep, history, faults>>

Mark(r) ==
    /\ pc[r] = "mark"
    /\ UpdateJob(r, "importing", "preflight", "abort")
    /\ UNCHANGED <<target, registered, tunnels, token, server, leases, sweep, history>>

(* Credentials and identity of the target, the state before the import, and    *)
(* its copy in the database.                                                *)
Preflight(r) ==
    /\ pc[r] = "preflight"
    /\ Goto(r, "save") \/ Goto(r, "abort")
    /\ UNCHANGED <<jobs, tunnels, token, server, leases, sweep, history, faults>>

Save(r) ==
    /\ pc[r] = "save"
    /\ Goto(r, "write") \/ Goto(r, "abort")
    /\ UNCHANGED <<jobs, tunnels, token, server, leases, sweep, history, faults>>

(* From the first command to the last, or to the one that fails.              *)
Write(r) ==
    /\ pc[r] = "write"
    /\ Goto(r, "writing")
    /\ imported' = [imported EXCEPT ![on[r]] = @ \cup {ticket[r]}]
    /\ UNCHANGED <<jobs, tunnels, token, server, leases, sweep, reviews, faults>>

Written(r) ==
    /\ pc[r] = "writing"
    /\ Goto(r, "finish") \/ Goto(r, "abort")
    /\ UNCHANGED <<jobs, tunnels, token, server, leases, sweep, history, faults>>

Finish(r) ==
    /\ pc[r] = "finish"
    /\ UpdateJob(r, "completed", "release", "abort")
    /\ UNCHANGED <<target, registered, tunnels, token, server, leases, sweep, history>>

Abort(r) ==
    /\ pc[r] = "abort"
    /\ UpdateJob(r, "failed", "release", "release")
    /\ UNCHANGED <<target, registered, tunnels, token, server, leases, sweep, history>>

(* release_router_migration_target_lease: the handler's own lease, by its       *)
(* token.  One that could not be removed has no holder any more.               *)
HeldBy(r) == {t \in Router : lease[t] = r}

Release(r) ==
    /\ pc[r] = "release"
    /\ \/ lease' = [t \in Router |-> IF t \in HeldBy(r) THEN "none" ELSE lease[t]]
          /\ lapsed' = lapsed \ HeldBy(r) /\ UNCHANGED faults
       \/ lease' = [t \in Router |-> IF t \in HeldBy(r) THEN "orphan" ELSE lease[t]]
          /\ UNCHANGED lapsed /\ Fault
    /\ Ends(r)
    /\ UNCHANGED <<jobs, tunnels, token, server, sweep, history>>

-----------------------------------------------------------------------------
(* Timers, the server, and the sweep that runs every minute.                 *)

Expire(j) ==
    /\ row[j] # "none" /\ j \notin due
    /\ due' = due \cup {j}
    /\ UNCHANGED <<jobs, row, pair, token, server, leases, pc, memory, sweep, history, faults>>

(* Twenty minutes.                                                          *)
TokenExpires(j) ==
    /\ j \in token /\ token' = token \ {j}
    /\ UNCHANGED <<jobs, tunnels, server, leases, pc, memory, sweep, history, faults>>

(* One hour.  The handler that took the lease has marked its job by then.      *)
Lapse(t) ==
    /\ lease[t] # "none" /\ t \notin lapsed
    /\ \A r \in Request : lease[t] = r => pc[r] # "mark"
    /\ lapsed' = lapsed \cup {t}
    /\ over' = over \cup {r \in Request : lease[t] = r}
    /\ UNCHANGED <<jobs, tunnels, token, server, lease, pc, on, scanned, exported, chosen,
                   ticket, sweep, history, faults>>

(* The systemd timer of the client, 60 minutes after the script armed it.     *)
TimerFires(j) ==
    /\ j \in due /\ client[j] # 0 /\ Removed(j)
    /\ UNCHANGED <<jobs, tunnels, token, late, leases, pc, memory, sweep, history, faults>>

(* A provision script nobody waits for gets the lock, or is dropped.          *)
LateProvision(j) ==
    /\ j \in late /\ late' = late \ {j}
    /\ Added(j) \/ UNCHANGED client
    /\ UNCHANGED <<jobs, tunnels, token, leases, pc, memory, sweep, history, faults>>

(* Defect: a tunnel whose export has arrived is taken for closed.            *)
SweepReadsOpen(j) ==
    /\ swept = "none" /\ j \in due /\ row[j] \in Live \ {"exported"}
    /\ swept' = j
    /\ UNCHANGED <<jobs, tunnels, token, server, leases, pc, memory, removed, history, faults>>

(* It reads the due tunnels first; the order in which it comes to them is     *)
(* left open.                                                               *)
SweepReads(j) ==
    /\ swept = "none" /\ j \in due /\ row[j] \in Live
    /\ swept' = j
    /\ UNCHANGED <<jobs, tunnels, token, server, leases, pc, memory, removed, history, faults>>

(* A tunnel whose client or row could not be changed is left to the next one. *)
SweepRevokes ==
    /\ swept # "none" /\ ~removed
    /\ \/ Removed(swept) /\ removed' = TRUE /\ UNCHANGED <<swept, faults>>
       \/ Fault /\ swept' = "none" /\ UNCHANGED removed /\ (Removed(swept) \/ UNCHANGED client)
    /\ UNCHANGED <<jobs, tunnels, token, late, leases, pc, memory, history>>

SweepRetires ==
    /\ removed /\ removed' = FALSE /\ swept' = "none"
    /\ \/ SetRow(swept, "expired") /\ (UNCHANGED faults \/ Fault)
       \/ Fault /\ UNCHANGED row
    /\ UNCHANGED <<jobs, pair, due, token, server, leases, pc, memory, history>>

(* The API process dies and is started again.                               *)
Crash ==
    /\ Fault
    /\ pc' = [r \in Request |-> "idle"]
    /\ on' = [r \in Request |-> "none"]
    /\ scanned' = [r \in Request |-> {}]
    /\ exported' = [r \in Request |-> FALSE]
    /\ chosen' = [r \in Request |-> "none"]
    /\ ticket' = [r \in Request |-> 0]
    /\ over' = {}
    /\ late' \in SUBSET (late \cup {on[r] : r \in {q \in Request : pc[q] = "provision"}})
    /\ lease' = [t \in Router |-> IF lease[t] = "none" THEN "none" ELSE "orphan"]
    /\ swept' = "none" /\ removed' = FALSE
    /\ UNCHANGED <<jobs, tunnels, token, client, lapsed, history>>

-----------------------------------------------------------------------------
Start(r, j) ==
    \/ Scan(r, j) \/ StartVerify(r, j) \/ StartScript(r, j) \/ StartCollector(r, j)
    \/ StartUpload(r, j) \/ StartRevoke(r, j) \/ StartReview(r, j) \/ StartApply(r, j)
    \/ \E t \in Router \cup {"adopt"} : StartTarget(r, j, t)

Step(r) ==
    \/ InsertJob(r) \/ Issue(r) \/ Provision(r) \/ IssueScript(r) \/ Open(r)
    \/ Undo(r) \/ Unavailable(r) \/ FailJob(r)
    \/ Reach(r) \/ Register(r) \/ Connect(r) \/ Connected(r) \/ Reissue(r)
    \/ Collect(r) \/ Consume(r) \/ Store(r) \/ Stored(r) \/ Revoke(r) \/ Revoked(r)
    \/ Choose(r) \/ Review(r) \/ Adopt(r) \/ Acquire(r) \/ Mark(r) \/ Preflight(r)
    \/ Save(r) \/ Write(r) \/ Written(r) \/ Finish(r) \/ Abort(r) \/ Release(r)

Sweep == SweepRevokes \/ SweepRetires \/ \E j \in Job : SweepReads(j)

Next ==
    \/ \E r \in Request : Step(r) \/ \E j \in Job : Start(r, j)
    \/ \E j \in Job : Expire(j) \/ TokenExpires(j) \/ TimerFires(j) \/ LateProvision(j)
    \/ \E t \in Router : Lapse(t)
    \/ Sweep \/ Crash

Spec == Init /\ [][Next]_vars

(* Time passes, the server's timers fire, the sweep is run every minute.  No  *)
(* request need be made, and none need come to an end.                       *)
FairSpec ==
    /\ Spec /\ WF_vars(Sweep)
    /\ \A j \in Job : WF_vars(Expire(j)) /\ WF_vars(TimerFires(j))

-----------------------------------------------------------------------------
(* The server never has two clients with one address pair.  The allocator     *)
(* alone does not see to that: a row can be revoked, and its pair issued      *)
(* again, while the script that adds its client still waits.                  *)
ClientsDoNotShare ==
    \A j, k \in Job : j # k /\ client[j] # 0 => client[j] # client[k]

(* Two imports are at work on one router only if one of them has outlived      *)
(* its lease of an hour (nothing renews it), also after targets and reviews    *)
(* changed under them.                                                      *)
Importing(r) == pc[r] \in Import

ExclusiveImports ==
    \A r, s \in Request :
        r # s /\ Importing(r) /\ Importing(s) /\ chosen[r] = chosen[s] => {r, s} \cap over # {}

(* One review of a dry run admits at most one import to its first write: none  *)
(* is on its way by a review that has been imported, or that another one is    *)
(* on its way by.                                                           *)
Underway(r) == pc[r] \in {"mark", "preflight", "save", "write"}

OneImportPerReview ==
    \A r \in Request : Underway(r) =>
        /\ ticket[r] \notin imported[on[r]]
        /\ \A s \in Request \ {r} :
               Underway(s) /\ on[s] = on[r] => ticket[s] # ticket[r]

(* Every tunnel comes to an end: whatever fails and whatever rows are written   *)
(* back late, in the end no row is live and the server has no client.           *)
EveryTunnelEnds == <>[](\A j \in Job : row[j] \notin Live /\ client[j] = 0)
=============================================================================
