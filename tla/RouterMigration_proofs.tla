----------------------- MODULE RouterMigration_proofs -----------------------
(***************************************************************************)
(* What a migration promises for any number of jobs, requests, targets,      *)
(* address pairs, reviews and faults.                                       *)
(*                                                                         *)
(* Nearly every step is quiet: it starts or ends a request, or writes a row, *)
(* and leaves leases, targets, reviews and the imports under way alone.  The *)
(* parts of the invariant are shown for quiet steps once, and for the few     *)
(* others one by one.                                                       *)
(***************************************************************************)
EXTENDS RouterMigration, TLAPS

\* An import has a target; until it has outlived its lease it holds it, and
\* always while it is about to mark its job.
Holds(r) == lease[chosen[r]] = r /\ chosen[r] \notin lapsed

LeaseInv ==
    \A r \in Request :
        /\ Importing(r) \/ pc[r] = "acquire" => chosen[r] \in Router
        /\ Importing(r) /\ r \notin over => Holds(r)
        /\ pc[r] = "mark" => Holds(r)
        /\ pc[r] # "idle" => on[r] \in Job

\* A job that waits for an import in dry_run has a review nobody imported, and
\* an import under way by that review has not marked it yet.
ReviewInv ==
    /\ \A j \in Job : \A n \in imported[j] : n <= reviews[j]
    /\ \A j \in Job : job[j] = "dry_run" => reviews[j] \notin imported[j]
    /\ \A r \in Request : Underway(r) =>
          /\ on[r] \in Job
          /\ ticket[r] <= reviews[on[r]]
          /\ job[on[r]] = "dry_run" /\ ticket[r] = reviews[on[r]] =>
                pc[r] = "mark" /\ chosen[r] = target[on[r]]

IInv == TypeOK /\ ClientsDoNotShare /\ LeaseInv /\ ReviewInv /\ OneImportPerReview

-----------------------------------------------------------------------------
\* What a quiet step leaves alone.
Quiet ==
    /\ UNCHANGED <<target, lease, lapsed, reviews, imported>>
    /\ \A j \in Job : job'[j] = "dry_run" => job[j] = "dry_run"
    /\ \A r \in Request :
          /\ Importing(r)' => /\ Importing(r) /\ on'[r] = on[r] /\ ticket'[r] = ticket[r]
                              /\ chosen'[r] = chosen[r] /\ (r \in over => r \in over')
          /\ pc'[r] = "acquire" => chosen'[r] \in Router
          /\ pc'[r] = "mark" => pc[r] = "mark"
          /\ pc'[r] # "idle" => on'[r] \in Job
          /\ Underway(r)' => Underway(r)
          /\ Underway(r)' /\ pc[r] = "mark" /\ pc'[r] # "mark" => job'[on[r]] # "dry_run"

LEMMA QuietLeases == IInv /\ Quiet => LeaseInv'
BY DEF IInv, LeaseInv, Quiet, Holds, Importing, Import

LEMMA QuietReviews == IInv /\ Quiet => ReviewInv'
<1> SUFFICES ASSUME IInv, Quiet PROVE ReviewInv'
  OBVIOUS
<1>1. \A j \in Job : \A n \in imported'[j] : n <= reviews'[j]
  BY DEF IInv, ReviewInv, Quiet
<1>2. \A j \in Job : job'[j] = "dry_run" => reviews'[j] \notin imported'[j]
  BY DEF IInv, ReviewInv, Quiet
<1>3. ASSUME NEW r \in Request, Underway(r)'
      PROVE  /\ on'[r] \in Job
             /\ ticket'[r] <= reviews'[on'[r]]
             /\ job'[on'[r]] = "dry_run" /\ ticket'[r] = reviews'[on'[r]] =>
                   pc'[r] = "mark" /\ chosen'[r] = target'[on'[r]]
  <2>1. Underway(r) /\ on'[r] = on[r] /\ ticket'[r] = ticket[r] /\ chosen'[r] = chosen[r]
    BY <1>3 DEF Quiet, Underway, Importing, Import
  <2>2. on[r] \in Job /\ ticket[r] <= reviews[on[r]]
    BY <2>1 DEF IInv, ReviewInv
  <2>3. job[on[r]] = "dry_run" /\ ticket[r] = reviews[on[r]] =>
            pc[r] = "mark" /\ chosen[r] = target[on[r]]
    BY <2>1 DEF IInv, ReviewInv
  <2>. QED BY <1>3, <2>1, <2>2, <2>3 DEF Quiet
<1>. QED BY <1>1, <1>2, <1>3 DEF ReviewInv

LEMMA QuietImports == IInv /\ Quiet => OneImportPerReview'
<1> SUFFICES ASSUME IInv, Quiet, NEW r \in Request, Underway(r)'
             PROVE  /\ ticket'[r] \notin imported'[on'[r]]
                    /\ \A s \in Request \ {r} :
                           Underway(s)' /\ on'[s] = on'[r] => ticket'[s] # ticket'[r]
  BY DEF OneImportPerReview
<1>1. \A s \in Request : Underway(s)' =>
          Underway(s) /\ on'[s] = on[s] /\ ticket'[s] = ticket[s]
  BY DEF Quiet, Underway, Importing, Import
<1>. QED BY <1>1 DEF IInv, OneImportPerReview, Quiet

-----------------------------------------------------------------------------
(* What the parts of a handler's step leave of the types.                    *)

HandlersOK ==
    /\ pc \in [Request -> Places]
    /\ on \in [Request -> Job \cup {"none"}]
    /\ scanned \in [Request -> SUBSET Pairs]
    /\ exported \in [Request -> BOOLEAN]
    /\ chosen \in [Request -> Router \cup {"none", "adopt"}]
    /\ ticket \in [Request -> Nat]
    /\ over \subseteq Request

LEMMA MoveTypes ==
    ASSUME HandlersOK, NEW r \in Request, NEW s \in Places,
           Proceed(r, s) \/ Goto(r, s) \/ Ends(r)
    PROVE  HandlersOK'
<1>1. CASE Goto(r, s)
  BY <1>1 DEF HandlersOK, Goto, memory
<1>2. CASE Ends(r)
  <2>1. pc' \in [Request -> Places]
    BY <1>2 DEF HandlersOK, Ends, Places, Other
  <2>2. on' \in [Request -> Job \cup {"none"}]
    BY <1>2 DEF HandlersOK, Ends
  <2>3. scanned' \in [Request -> SUBSET Pairs]
    BY <1>2 DEF HandlersOK, Ends
  <2>4. exported' \in [Request -> BOOLEAN]
    BY <1>2 DEF HandlersOK, Ends
  <2>5. chosen' \in [Request -> Router \cup {"none", "adopt"}]
    BY <1>2 DEF HandlersOK, Ends
  <2>6. ticket' \in [Request -> Nat] /\ over' \subseteq Request
    BY <1>2 DEF HandlersOK, Ends
  <2>. QED BY <2>1, <2>2, <2>3, <2>4, <2>5, <2>6 DEF HandlersOK
<1>. QED BY <1>1, <1>2 DEF Proceed

LEMMA UpdateJobTypes ==
    ASSUME HandlersOK, job \in [Job -> JobStates], faults \in Nat, NEW r \in Request,
           NEW s \in JobStates, NEW n \in Places, NEW c \in Places, UpdateJob(r, s, n, c)
    PROVE  HandlersOK' /\ job' \in [Job -> JobStates] /\ faults' \in Nat
<1>1. HandlersOK'
  BY MoveTypes DEF UpdateJob
<1>. QED BY <1>1 DEF UpdateJob, SetJob, Fault

LEMMA UpdateTunnelTypes ==
    ASSUME HandlersOK, row \in [Job -> RowStates], faults \in Nat, NEW r \in Request,
           NEW s \in RowStates, NEW n \in Places, NEW c \in Places, UpdateTunnel(r, s, n, c)
    PROVE  HandlersOK' /\ row' \in [Job -> RowStates] /\ faults' \in Nat
<1>1. HandlersOK'
  BY MoveTypes DEF UpdateTunnel
<1>. QED BY <1>1 DEF UpdateTunnel, SetRow, Fault

LEMMA RevokeClientTypes ==
    ASSUME HandlersOK, client \in [Job -> 0 .. PoolSize], faults \in Nat, NEW r \in Request,
           NEW n \in Places, NEW c \in Places, RevokeClient(r, n, c)
    PROVE  HandlersOK' /\ client' \in [Job -> 0 .. PoolSize] /\ faults' \in Nat
<1>1. HandlersOK'
  BY MoveTypes DEF RevokeClient
<1>. QED BY <1>1, BoundAssumption DEF RevokeClient, Removed, Fault

-----------------------------------------------------------------------------
(* The quiet steps, and the types.                                          *)

LEMMA InsertJobQuiet ==
    ASSUME NEW r \in Request, IInv, InsertJob(r) PROVE Quiet /\ TypeOK'
<1>1. Quiet
  BY DEF IInv, ReviewInv, TypeOK, LeaseInv, Quiet, Importing, Underway, Import, InsertJob, UpdateJob, SetJob, Proceed, Goto, Ends, vars, jobs, tunnels, server, leases, memory, sweep, history
<1>2. HandlersOK' /\ job' \in [Job -> JobStates] /\ faults' \in Nat
  BY UpdateJobTypes DEF IInv, TypeOK, HandlersOK, InsertJob, Setup, Import, Other, Places, JobStates
<1>3. TypeOK'
  BY <1>2 DEF IInv, HandlersOK, TypeOK, vars, jobs, tunnels, server, leases, memory, sweep, history, InsertJob
<1>. QED BY <1>1, <1>3

LEMMA IssueQuiet ==
    ASSUME NEW r \in Request, IInv, Issue(r) PROVE Quiet /\ TypeOK'
<1>1. Quiet
  BY DEF IInv, ReviewInv, TypeOK, LeaseInv, Quiet, Importing, Underway, Import, Issue, Goto, Take, Fault, vars, jobs, tunnels, server, leases, memory, sweep, history
<1>2. HandlersOK'
  BY MoveTypes DEF IInv, TypeOK, HandlersOK, Issue, Setup, Import, Other, Places
<1>3. faults' \in Nat
  BY DEF IInv, TypeOK, Issue, Fault
<1>4. ASSUME NEW p \in Pairs, Take(r, p)
      PROVE  row' \in [Job -> RowStates] /\ pair' \in [Job -> 0 .. PoolSize]
  <2>1. row \in [Job -> RowStates] /\ pair \in [Job -> 0 .. PoolSize] /\ p \in 0 .. PoolSize
    BY BoundAssumption DEF IInv, TypeOK, Pairs
  <2>2. "issued" \in RowStates
    BY DEF RowStates, Live, Reserving
  <2>3. row' = [row EXCEPT ![on[r]] = "issued"] /\ pair' = [pair EXCEPT ![on[r]] = p]
    BY <1>4 DEF Take
  <2>. QED BY <2>1, <2>2, <2>3
<1>5. row' \in [Job -> RowStates] /\ pair' \in [Job -> 0 .. PoolSize]
  BY <1>4 DEF IInv, TypeOK, Issue
<1>6. TypeOK'
  BY <1>2, <1>3, <1>5 DEF IInv, HandlersOK, TypeOK, vars, jobs, server, leases, sweep, history, Issue
<1>. QED BY <1>1, <1>6

LEMMA ProvisionQuiet ==
    ASSUME NEW r \in Request, IInv, Provision(r) PROVE Quiet /\ TypeOK'
<1>1. Quiet
  BY DEF IInv, ReviewInv, TypeOK, LeaseInv, Quiet, Importing, Underway, Import, Provision, Goto, Added, vars, jobs, tunnels, server, leases, memory, sweep, history
<1>2. HandlersOK'
  BY MoveTypes DEF IInv, TypeOK, HandlersOK, Provision, Setup, Import, Other, Places
<1>3. faults' \in Nat
  BY DEF IInv, TypeOK, Provision, Fault
<1>4. client' \in [Job -> 0 .. PoolSize]
  BY DEF IInv, TypeOK, Provision, Added, server
<1>5. late' \subseteq Job
  BY DEF IInv, TypeOK, Provision, LeaseInv, server
<1>6. TypeOK'
  BY <1>2, <1>3, <1>4, <1>5 DEF IInv, HandlersOK, TypeOK, vars, jobs, tunnels, server, leases, memory, sweep, history, Provision
<1>. QED BY <1>1, <1>6

LEMMA IssueScriptQuiet ==
    ASSUME NEW r \in Request, IInv, IssueScript(r) PROVE Quiet /\ TypeOK'
<1>1. Quiet
  BY DEF IInv, ReviewInv, TypeOK, LeaseInv, Quiet, Importing, Underway, Import, IssueScript, UpdateTunnel, SetRow, Proceed, Goto, Ends, vars, jobs, tunnels, server, leases, memory, sweep, history
<1>2. HandlersOK' /\ row' \in [Job -> RowStates] /\ faults' \in Nat
  BY UpdateTunnelTypes DEF IInv, TypeOK, HandlersOK, IssueScript, Setup, Import, Other, Places, RowStates, Live, Reserving
<1>3. TypeOK'
  BY <1>2 DEF IInv, HandlersOK, TypeOK, vars, jobs, tunnels, server, leases, memory, sweep, history, IssueScript
<1>. QED BY <1>1, <1>3

LEMMA OpenQuiet ==
    ASSUME NEW r \in Request, IInv, Open(r) PROVE Quiet /\ TypeOK'
<1>1. Quiet
  BY DEF IInv, ReviewInv, TypeOK, LeaseInv, Quiet, Importing, Underway, Import, Open, UpdateJob, SetJob, Proceed, Goto, Ends, vars, jobs, tunnels, server, leases, memory, sweep, history
<1>2. HandlersOK' /\ job' \in [Job -> JobStates] /\ faults' \in Nat
  BY UpdateJobTypes DEF IInv, TypeOK, HandlersOK, Open, Setup, Import, Other, Places, JobStates
<1>3. TypeOK'
  BY <1>2 DEF IInv, HandlersOK, TypeOK, vars, jobs, tunnels, server, leases, memory, sweep, history, Open
<1>. QED BY <1>1, <1>3

LEMMA UndoQuiet ==
    ASSUME NEW r \in Request, IInv, Undo(r) PROVE Quiet /\ TypeOK'
<1>1. Quiet
  BY DEF IInv, ReviewInv, TypeOK, LeaseInv, Quiet, Importing, Underway, Import, Undo, RevokeClient, Removed, Proceed, Goto, Ends, vars, jobs, tunnels, server, leases, memory, sweep, history
<1>2. HandlersOK' /\ client' \in [Job -> 0 .. PoolSize] /\ faults' \in Nat
  BY RevokeClientTypes DEF IInv, TypeOK, HandlersOK, Undo, Setup, Import, Other, Places
<1>3. TypeOK'
  BY <1>2 DEF IInv, HandlersOK, TypeOK, vars, jobs, tunnels, server, leases, memory, sweep, history, Undo
<1>. QED BY <1>1, <1>3

LEMMA UnavailableQuiet ==
    ASSUME NEW r \in Request, IInv, Unavailable(r) PROVE Quiet /\ TypeOK'
<1>1. Quiet
  BY DEF IInv, ReviewInv, TypeOK, LeaseInv, Quiet, Importing, Underway, Import, Unavailable, UpdateTunnel, SetRow, Proceed, Goto, Ends, vars, jobs, tunnels, server, leases, memory, sweep, history
<1>2. HandlersOK' /\ row' \in [Job -> RowStates] /\ faults' \in Nat
  BY UpdateTunnelTypes DEF IInv, TypeOK, HandlersOK, Unavailable, Setup, Import, Other, Places, RowStates, Live, Reserving
<1>3. TypeOK'
  BY <1>2 DEF IInv, HandlersOK, TypeOK, vars, jobs, tunnels, server, leases, memory, sweep, history, Unavailable
<1>. QED BY <1>1, <1>3

LEMMA FailJobQuiet ==
    ASSUME NEW r \in Request, IInv, FailJob(r) PROVE Quiet /\ TypeOK'
<1>1. Quiet
  BY DEF IInv, ReviewInv, TypeOK, LeaseInv, Quiet, Importing, Underway, Import, FailJob, UpdateJob, SetJob, Proceed, Goto, Ends, vars, jobs, tunnels, server, leases, memory, sweep, history
<1>2. HandlersOK' /\ job' \in [Job -> JobStates] /\ faults' \in Nat
  BY UpdateJobTypes DEF IInv, TypeOK, HandlersOK, FailJob, Setup, Import, Other, Places, JobStates
<1>3. TypeOK'
  BY <1>2 DEF IInv, HandlersOK, TypeOK, vars, jobs, tunnels, server, leases, memory, sweep, history, FailJob
<1>. QED BY <1>1, <1>3

LEMMA ReachQuiet ==
    ASSUME NEW r \in Request, IInv, Reach(r) PROVE Quiet /\ TypeOK'
<1>1. Quiet
  BY DEF IInv, ReviewInv, TypeOK, LeaseInv, Quiet, Importing, Underway, Import, Reach, Goto, Ends, vars, jobs, tunnels, server, leases, memory, sweep, history
<1>2. HandlersOK'
  BY MoveTypes DEF IInv, TypeOK, HandlersOK, Reach, Setup, Import, Other, Places
<1>3. TypeOK'
  BY <1>2, BoundAssumption DEF IInv, HandlersOK, TypeOK, vars, jobs, tunnels, server, leases, memory, sweep, history, Reach, Fault, RowStates, Live, Reserving, JobStates, Pairs
<1>. QED BY <1>1, <1>3

LEMMA RegisterQuiet ==
    ASSUME NEW r \in Request, IInv, Register(r) PROVE Quiet /\ TypeOK'
<1>1. Quiet
  BY DEF IInv, ReviewInv, TypeOK, LeaseInv, Quiet, Importing, Underway, Import, Register, Goto, Ends, vars, jobs, tunnels, server, leases, memory, sweep, history
<1>2. HandlersOK'
  BY MoveTypes DEF IInv, TypeOK, HandlersOK, Register, Setup, Import, Other, Places
<1>3. faults' \in Nat
  BY DEF IInv, TypeOK, Register, Fault
<1>4. registered' \subseteq Job
  BY DEF IInv, TypeOK, Register, LeaseInv
<1>5. TypeOK'
  BY <1>2, <1>3, <1>4 DEF IInv, HandlersOK, TypeOK, vars, jobs, tunnels, server, leases, memory, sweep, history, Register
<1>. QED BY <1>1, <1>5

LEMMA ConnectQuiet ==
    ASSUME NEW r \in Request, IInv, Connect(r) PROVE Quiet /\ TypeOK'
<1>1. Quiet
  BY DEF IInv, ReviewInv, TypeOK, LeaseInv, Quiet, Importing, Underway, Import, Connect, UpdateTunnel, SetRow, Proceed, Goto, Ends, vars, jobs, tunnels, server, leases, memory, sweep, history
<1>2. HandlersOK' /\ row' \in [Job -> RowStates] /\ faults' \in Nat
  BY UpdateTunnelTypes DEF IInv, TypeOK, HandlersOK, Connect, Setup, Import, Other, Places, RowStates, Live, Reserving
<1>3. TypeOK'
  BY <1>2 DEF IInv, HandlersOK, TypeOK, vars, jobs, tunnels, server, leases, memory, sweep, history, Connect
<1>. QED BY <1>1, <1>3

LEMMA ConnectedQuiet ==
    ASSUME NEW r \in Request, IInv, Connected(r) PROVE Quiet /\ TypeOK'
<1>1. Quiet
  BY DEF IInv, ReviewInv, TypeOK, LeaseInv, Quiet, Importing, Underway, Import, Connected, UpdateJob, SetJob, Proceed, Goto, Ends, vars, jobs, tunnels, server, leases, memory, sweep, history
<1>2. HandlersOK' /\ job' \in [Job -> JobStates] /\ faults' \in Nat
  BY UpdateJobTypes DEF IInv, TypeOK, HandlersOK, Connected, Setup, Import, Other, Places, JobStates
<1>3. TypeOK'
  BY <1>2 DEF IInv, HandlersOK, TypeOK, vars, jobs, tunnels, server, leases, memory, sweep, history, Connected
<1>. QED BY <1>1, <1>3

LEMMA ReissueQuiet ==
    ASSUME NEW r \in Request, IInv, Reissue(r) PROVE Quiet /\ TypeOK'
<1>1. Quiet
  BY DEF IInv, ReviewInv, TypeOK, LeaseInv, Quiet, Importing, Underway, Import, Reissue, UpdateTunnel, SetRow, Proceed, Goto, Ends, vars, jobs, tunnels, server, leases, memory, sweep, history
<1>2. HandlersOK' /\ row' \in [Job -> RowStates] /\ faults' \in Nat
  BY UpdateTunnelTypes DEF IInv, TypeOK, HandlersOK, Reissue, Setup, Import, Other, Places, RowStates, Live, Reserving
<1>3. TypeOK'
  BY <1>2 DEF IInv, HandlersOK, TypeOK, vars, jobs, tunnels, server, leases, memory, sweep, history, Reissue
<1>. QED BY <1>1, <1>3

LEMMA CollectQuiet ==
    ASSUME NEW r \in Request, IInv, Collect(r) PROVE Quiet /\ TypeOK'
<1>1. Quiet
  BY DEF IInv, ReviewInv, TypeOK, LeaseInv, Quiet, Importing, Underway, Import, Collect, Ends, vars, jobs, tunnels, server, leases, memory, sweep, history
<1>2. HandlersOK'
  BY MoveTypes DEF IInv, TypeOK, HandlersOK, Collect, Setup, Import, Other, Places
<1>3. faults' \in Nat
  BY DEF IInv, TypeOK, Collect, Fault
<1>4. token' \subseteq Job
  BY DEF IInv, TypeOK, Collect, LeaseInv
<1>5. TypeOK'
  BY <1>2, <1>3, <1>4 DEF IInv, HandlersOK, TypeOK, vars, jobs, tunnels, server, leases, memory, sweep, history, Collect
<1>. QED BY <1>1, <1>5

LEMMA ConsumeQuiet ==
    ASSUME NEW r \in Request, IInv, Consume(r) PROVE Quiet /\ TypeOK'
<1>1. Quiet
  BY DEF IInv, ReviewInv, TypeOK, LeaseInv, Quiet, Importing, Underway, Import, Consume, Goto, Ends, vars, jobs, tunnels, server, leases, memory, sweep, history
<1>2. HandlersOK'
  BY MoveTypes DEF IInv, TypeOK, HandlersOK, Consume, Setup, Import, Other, Places
<1>3. TypeOK'
  BY <1>2, BoundAssumption DEF IInv, HandlersOK, TypeOK, vars, jobs, tunnels, server, leases, memory, sweep, history, Consume, Fault, RowStates, Live, Reserving, JobStates, Pairs
<1>. QED BY <1>1, <1>3

LEMMA StoreQuiet ==
    ASSUME NEW r \in Request, IInv, Store(r) PROVE Quiet /\ TypeOK'
<1>1. Quiet
  BY DEF IInv, ReviewInv, TypeOK, LeaseInv, Quiet, Importing, Underway, Import, Store, UpdateJob, SetJob, Proceed, Goto, Ends, vars, jobs, tunnels, server, leases, memory, sweep, history
<1>2. HandlersOK' /\ job' \in [Job -> JobStates] /\ faults' \in Nat
  BY UpdateJobTypes DEF IInv, TypeOK, HandlersOK, Store, Setup, Import, Other, Places, JobStates
<1>3. TypeOK'
  BY <1>2 DEF IInv, HandlersOK, TypeOK, vars, jobs, tunnels, server, leases, memory, sweep, history, Store
<1>. QED BY <1>1, <1>3

LEMMA StoredQuiet ==
    ASSUME NEW r \in Request, IInv, Stored(r) PROVE Quiet /\ TypeOK'
<1>1. Quiet
  BY DEF IInv, ReviewInv, TypeOK, LeaseInv, Quiet, Importing, Underway, Import, Stored, UpdateTunnel, SetRow, Proceed, Goto, Ends, vars, jobs, tunnels, server, leases, memory, sweep, history
<1>2. HandlersOK' /\ row' \in [Job -> RowStates] /\ faults' \in Nat
  BY UpdateTunnelTypes DEF IInv, TypeOK, HandlersOK, Stored, Setup, Import, Other, Places, RowStates, Live, Reserving
<1>3. TypeOK'
  BY <1>2 DEF IInv, HandlersOK, TypeOK, vars, jobs, tunnels, server, leases, memory, sweep, history, Stored
<1>. QED BY <1>1, <1>3

LEMMA RevokeQuiet ==
    ASSUME NEW r \in Request, IInv, Revoke(r) PROVE Quiet /\ TypeOK'
<1>1. Quiet
  BY DEF IInv, ReviewInv, TypeOK, LeaseInv, Quiet, Importing, Underway, Import, Revoke, RevokeClient, Removed, Proceed, Goto, Ends, vars, jobs, tunnels, server, leases, memory, sweep, history
<1>2. HandlersOK' /\ client' \in [Job -> 0 .. PoolSize] /\ faults' \in Nat
  BY RevokeClientTypes DEF IInv, TypeOK, HandlersOK, Revoke, Setup, Import, Other, Places
<1>3. TypeOK'
  BY <1>2 DEF IInv, HandlersOK, TypeOK, vars, jobs, tunnels, server, leases, memory, sweep, history, Revoke
<1>. QED BY <1>1, <1>3

LEMMA RevokedQuiet ==
    ASSUME NEW r \in Request, IInv, Revoked(r) PROVE Quiet /\ TypeOK'
<1>1. Quiet
  BY DEF IInv, ReviewInv, TypeOK, LeaseInv, Quiet, Importing, Underway, Import, Revoked, UpdateTunnel, SetRow, Proceed, Goto, Ends, vars, jobs, tunnels, server, leases, memory, sweep, history
<1>2. HandlersOK' /\ row' \in [Job -> RowStates] /\ faults' \in Nat
  BY UpdateTunnelTypes DEF IInv, TypeOK, HandlersOK, Revoked, Setup, Import, Other, Places, RowStates, Live, Reserving
<1>3. TypeOK'
  BY <1>2 DEF IInv, HandlersOK, TypeOK, vars, jobs, tunnels, server, leases, memory, sweep, history, Revoked
<1>. QED BY <1>1, <1>3

LEMMA AdoptQuiet ==
    ASSUME NEW r \in Request, IInv, Adopt(r) PROVE Quiet /\ TypeOK'
<1>1. Quiet
  BY DEF IInv, ReviewInv, TypeOK, LeaseInv, Quiet, Importing, Underway, Import, Adopt, UpdateJob, SetJob, Proceed, Goto, Ends, vars, jobs, tunnels, server, leases, memory, sweep, history
<1>2. HandlersOK' /\ job' \in [Job -> JobStates] /\ faults' \in Nat
  BY UpdateJobTypes DEF IInv, TypeOK, HandlersOK, Adopt, Setup, Import, Other, Places, JobStates
<1>3. TypeOK'
  BY <1>2 DEF IInv, HandlersOK, TypeOK, vars, jobs, tunnels, server, leases, memory, sweep, history, Adopt
<1>. QED BY <1>1, <1>3

LEMMA MarkQuiet ==
    ASSUME NEW r \in Request, IInv, Mark(r) PROVE Quiet /\ TypeOK'
<1>1. Quiet
  BY DEF IInv, ReviewInv, TypeOK, LeaseInv, Quiet, Importing, Underway, Import, Mark, UpdateJob, SetJob, Proceed, Goto, Ends, vars, jobs, tunnels, server, leases, memory, sweep, history
<1>2. HandlersOK' /\ job' \in [Job -> JobStates] /\ faults' \in Nat
  BY UpdateJobTypes DEF IInv, TypeOK, HandlersOK, Mark, Setup, Import, Other, Places, JobStates
<1>3. TypeOK'
  BY <1>2 DEF IInv, HandlersOK, TypeOK, vars, jobs, tunnels, server, leases, memory, sweep, history, Mark
<1>. QED BY <1>1, <1>3

LEMMA PreflightQuiet ==
    ASSUME NEW r \in Request, IInv, Preflight(r) PROVE Quiet /\ TypeOK'
<1>1. Quiet
  BY DEF IInv, ReviewInv, TypeOK, LeaseInv, Quiet, Importing, Underway, Import, Preflight, Goto, vars, jobs, tunnels, server, leases, memory, sweep, history
<1>2. HandlersOK'
  BY MoveTypes DEF IInv, TypeOK, HandlersOK, Preflight, Setup, Import, Other, Places
<1>3. TypeOK'
  BY <1>2, BoundAssumption DEF IInv, HandlersOK, TypeOK, vars, jobs, tunnels, server, leases, memory, sweep, history, Preflight, Fault, RowStates, Live, Reserving, JobStates, Pairs
<1>. QED BY <1>1, <1>3

LEMMA SaveQuiet ==
    ASSUME NEW r \in Request, IInv, Save(r) PROVE Quiet /\ TypeOK'
<1>1. Quiet
  BY DEF IInv, ReviewInv, TypeOK, LeaseInv, Quiet, Importing, Underway, Import, Save, Goto, vars, jobs, tunnels, server, leases, memory, sweep, history
<1>2. HandlersOK'
  BY MoveTypes DEF IInv, TypeOK, HandlersOK, Save, Setup, Import, Other, Places
<1>3. TypeOK'
  BY <1>2, BoundAssumption DEF IInv, HandlersOK, TypeOK, vars, jobs, tunnels, server, leases, memory, sweep, history, Save, Fault, RowStates, Live, Reserving, JobStates, Pairs
<1>. QED BY <1>1, <1>3

LEMMA WrittenQuiet ==
    ASSUME NEW r \in Request, IInv, Written(r) PROVE Quiet /\ TypeOK'
<1>1. Quiet
  BY DEF IInv, ReviewInv, TypeOK, LeaseInv, Quiet, Importing, Underway, Import, Written, Goto, vars, jobs, tunnels, server, leases, memory, sweep, history
<1>2. HandlersOK'
  BY MoveTypes DEF IInv, TypeOK, HandlersOK, Written, Setup, Import, Other, Places
<1>3. TypeOK'
  BY <1>2, BoundAssumption DEF IInv, HandlersOK, TypeOK, vars, jobs, tunnels, server, leases, memory, sweep, history, Written, Fault, RowStates, Live, Reserving, JobStates, Pairs
<1>. QED BY <1>1, <1>3

LEMMA FinishQuiet ==
    ASSUME NEW r \in Request, IInv, Finish(r) PROVE Quiet /\ TypeOK'
<1>1. Quiet
  BY DEF IInv, ReviewInv, TypeOK, LeaseInv, Quiet, Importing, Underway, Import, Finish, UpdateJob, SetJob, Proceed, Goto, Ends, vars, jobs, tunnels, server, leases, memory, sweep, history
<1>2. HandlersOK' /\ job' \in [Job -> JobStates] /\ faults' \in Nat
  BY UpdateJobTypes DEF IInv, TypeOK, HandlersOK, Finish, Setup, Import, Other, Places, JobStates
<1>3. TypeOK'
  BY <1>2 DEF IInv, HandlersOK, TypeOK, vars, jobs, tunnels, server, leases, memory, sweep, history, Finish
<1>. QED BY <1>1, <1>3

LEMMA AbortQuiet ==
    ASSUME NEW r \in Request, IInv, Abort(r) PROVE Quiet /\ TypeOK'
<1>1. Quiet
  BY DEF IInv, ReviewInv, TypeOK, LeaseInv, Quiet, Importing, Underway, Import, Abort, UpdateJob, SetJob, Proceed, Goto, Ends, vars, jobs, tunnels, server, leases, memory, sweep, history
<1>2. HandlersOK' /\ job' \in [Job -> JobStates] /\ faults' \in Nat
  BY UpdateJobTypes DEF IInv, TypeOK, HandlersOK, Abort, Setup, Import, Other, Places, JobStates
<1>3. TypeOK'
  BY <1>2 DEF IInv, HandlersOK, TypeOK, vars, jobs, tunnels, server, leases, memory, sweep, history, Abort
<1>. QED BY <1>1, <1>3

LEMMA ScanQuiet ==
    ASSUME NEW r \in Request, NEW j \in Job, IInv, Scan(r, j) PROVE Quiet /\ TypeOK'
<1>1. Quiet
  BY DEF IInv, ReviewInv, TypeOK, LeaseInv, Quiet, Importing, Underway, Import, Scan, Begin, vars, jobs, tunnels, server, leases, memory, sweep, history
<1>2. HandlersOK'
  BY DEF IInv, TypeOK, HandlersOK, Scan, Begin, Setup, Import, Other, Places, Pairs
<1>3. TypeOK'
  BY <1>2, BoundAssumption DEF IInv, HandlersOK, TypeOK, vars, jobs, tunnels, server, leases, memory, sweep, history, Scan, Fault, RowStates, Live, Reserving, JobStates, Pairs
<1>. QED BY <1>1, <1>3

LEMMA StartVerifyQuiet ==
    ASSUME NEW r \in Request, NEW j \in Job, IInv, StartVerify(r, j) PROVE Quiet /\ TypeOK'
<1>1. Quiet
  BY DEF IInv, ReviewInv, TypeOK, LeaseInv, Quiet, Importing, Underway, Import, StartVerify, Begin, vars, jobs, tunnels, server, leases, memory, sweep, history
<1>2. HandlersOK'
  BY DEF IInv, TypeOK, HandlersOK, StartVerify, Begin, Setup, Import, Other, Places
<1>3. TypeOK'
  BY <1>2, BoundAssumption DEF IInv, HandlersOK, TypeOK, vars, jobs, tunnels, server, leases, memory, sweep, history, StartVerify, Fault, RowStates, Live, Reserving, JobStates, Pairs
<1>. QED BY <1>1, <1>3

LEMMA StartScriptQuiet ==
    ASSUME NEW r \in Request, NEW j \in Job, IInv, StartScript(r, j) PROVE Quiet /\ TypeOK'
<1>1. Quiet
  BY DEF IInv, ReviewInv, TypeOK, LeaseInv, Quiet, Importing, Underway, Import, StartScript, Begin, vars, jobs, tunnels, server, leases, memory, sweep, history
<1>2. HandlersOK'
  BY DEF IInv, TypeOK, HandlersOK, StartScript, Begin, Setup, Import, Other, Places
<1>3. TypeOK'
  BY <1>2, BoundAssumption DEF IInv, HandlersOK, TypeOK, vars, jobs, tunnels, server, leases, memory, sweep, history, StartScript, Fault, RowStates, Live, Reserving, JobStates, Pairs
<1>. QED BY <1>1, <1>3

LEMMA StartCollectorQuiet ==
    ASSUME NEW r \in Request, NEW j \in Job, IInv, StartCollector(r, j) PROVE Quiet /\ TypeOK'
<1>1. Quiet
  BY DEF IInv, ReviewInv, TypeOK, LeaseInv, Quiet, Importing, Underway, Import, StartCollector, Begin, vars, jobs, tunnels, server, leases, memory, sweep, history
<1>2. HandlersOK'
  BY DEF IInv, TypeOK, HandlersOK, StartCollector, Begin, Setup, Import, Other, Places
<1>3. TypeOK'
  BY <1>2, BoundAssumption DEF IInv, HandlersOK, TypeOK, vars, jobs, tunnels, server, leases, memory, sweep, history, StartCollector, Fault, RowStates, Live, Reserving, JobStates, Pairs
<1>. QED BY <1>1, <1>3

LEMMA StartUploadQuiet ==
    ASSUME NEW r \in Request, NEW j \in Job, IInv, StartUpload(r, j) PROVE Quiet /\ TypeOK'
<1>1. Quiet
  BY DEF IInv, ReviewInv, TypeOK, LeaseInv, Quiet, Importing, Underway, Import, StartUpload, Begin, vars, jobs, tunnels, server, leases, memory, sweep, history
<1>2. HandlersOK'
  BY DEF IInv, TypeOK, HandlersOK, StartUpload, Begin, Setup, Import, Other, Places
<1>3. TypeOK'
  BY <1>2, BoundAssumption DEF IInv, HandlersOK, TypeOK, vars, jobs, tunnels, server, leases, memory, sweep, history, StartUpload, Fault, RowStates, Live, Reserving, JobStates, Pairs
<1>. QED BY <1>1, <1>3

LEMMA StartRevokeQuiet ==
    ASSUME NEW r \in Request, NEW j \in Job, IInv, StartRevoke(r, j) PROVE Quiet /\ TypeOK'
<1>1. Quiet
  BY DEF IInv, ReviewInv, TypeOK, LeaseInv, Quiet, Importing, Underway, Import, StartRevoke, Begin, vars, jobs, tunnels, server, leases, memory, sweep, history
<1>2. HandlersOK'
  BY DEF IInv, TypeOK, HandlersOK, StartRevoke, Begin, Setup, Import, Other, Places
<1>3. TypeOK'
  BY <1>2, BoundAssumption DEF IInv, HandlersOK, TypeOK, vars, jobs, tunnels, server, leases, memory, sweep, history, StartRevoke, Fault, RowStates, Live, Reserving, JobStates, Pairs
<1>. QED BY <1>1, <1>3

LEMMA StartReviewQuiet ==
    ASSUME NEW r \in Request, NEW j \in Job, IInv, StartReview(r, j) PROVE Quiet /\ TypeOK'
<1>1. Quiet
  BY DEF IInv, ReviewInv, TypeOK, LeaseInv, Quiet, Importing, Underway, Import, StartReview, Begin, vars, jobs, tunnels, server, leases, memory, sweep, history
<1>2. HandlersOK'
  BY DEF IInv, TypeOK, HandlersOK, StartReview, Begin, Setup, Import, Other, Places
<1>3. TypeOK'
  BY <1>2, BoundAssumption DEF IInv, HandlersOK, TypeOK, vars, jobs, tunnels, server, leases, memory, sweep, history, StartReview, Fault, RowStates, Live, Reserving, JobStates, Pairs
<1>. QED BY <1>1, <1>3

LEMMA StartApplyQuiet ==
    ASSUME NEW r \in Request, NEW j \in Job, IInv, StartApply(r, j) PROVE Quiet /\ TypeOK'
<1>1. Quiet
  BY DEF IInv, ReviewInv, TypeOK, LeaseInv, Quiet, Importing, Underway, Import, StartApply, Begin, vars, jobs, tunnels, server, leases, memory, sweep, history
<1>2. HandlersOK'
  BY DEF IInv, TypeOK, HandlersOK, StartApply, Begin, Setup, Import, Other, Places
<1>3. TypeOK'
  BY <1>2, BoundAssumption DEF IInv, HandlersOK, TypeOK, vars, jobs, tunnels, server, leases, memory, sweep, history, StartApply, Fault, RowStates, Live, Reserving, JobStates, Pairs
<1>. QED BY <1>1, <1>3

LEMMA StartTargetQuiet ==
    ASSUME NEW r \in Request, NEW j \in Job, NEW t \in Router \cup {"adopt"}, IInv, StartTarget(r, j, t) PROVE Quiet /\ TypeOK'
<1>1. Quiet
  BY DEF IInv, ReviewInv, TypeOK, LeaseInv, Quiet, Importing, Underway, Import, StartTarget, Begin, vars, jobs, tunnels, server, leases, memory, sweep, history
<1>2. HandlersOK'
  BY DEF IInv, TypeOK, HandlersOK, StartTarget, Begin, Setup, Import, Other, Places
<1>3. TypeOK'
  BY <1>2, BoundAssumption DEF IInv, HandlersOK, TypeOK, vars, jobs, tunnels, server, leases, memory, sweep, history, StartTarget, Fault, RowStates, Live, Reserving, JobStates, Pairs
<1>. QED BY <1>1, <1>3

LEMMA ExpireQuiet ==
    ASSUME NEW j \in Job, IInv, Expire(j) PROVE Quiet /\ TypeOK'
<1>1. Quiet
  BY DEF IInv, ReviewInv, TypeOK, LeaseInv, Quiet, Importing, Underway, Import, Expire, vars, jobs, tunnels, server, leases, memory, sweep, history
<1>2. TypeOK'
  BY BoundAssumption DEF IInv, TypeOK, vars, jobs, tunnels, server, leases, memory, sweep, history, Expire, Fault, RowStates, Live, Reserving
<1>. QED BY <1>1, <1>2

LEMMA TokenExpiresQuiet ==
    ASSUME NEW j \in Job, IInv, TokenExpires(j) PROVE Quiet /\ TypeOK'
<1>1. Quiet
  BY DEF IInv, ReviewInv, TypeOK, LeaseInv, Quiet, Importing, Underway, Import, TokenExpires, vars, jobs, tunnels, server, leases, memory, sweep, history
<1>2. TypeOK'
  BY BoundAssumption DEF IInv, TypeOK, vars, jobs, tunnels, server, leases, memory, sweep, history, TokenExpires, Fault, RowStates, Live, Reserving
<1>. QED BY <1>1, <1>2

LEMMA TimerFiresQuiet ==
    ASSUME NEW j \in Job, IInv, TimerFires(j) PROVE Quiet /\ TypeOK'
<1>1. Quiet
  BY DEF IInv, ReviewInv, TypeOK, LeaseInv, Quiet, Importing, Underway, Import, TimerFires, Removed, vars, jobs, tunnels, server, leases, memory, sweep, history
<1>2. TypeOK'
  BY BoundAssumption DEF IInv, TypeOK, vars, jobs, tunnels, server, leases, memory, sweep, history, TimerFires, Removed, Fault, RowStates, Live, Reserving
<1>. QED BY <1>1, <1>2

LEMMA LateProvisionQuiet ==
    ASSUME NEW j \in Job, IInv, LateProvision(j) PROVE Quiet /\ TypeOK'
<1>1. Quiet
  BY DEF IInv, ReviewInv, TypeOK, LeaseInv, Quiet, Importing, Underway, Import, LateProvision, Added, vars, jobs, tunnels, server, leases, memory, sweep, history
<1>2. TypeOK'
  BY BoundAssumption DEF IInv, TypeOK, vars, jobs, tunnels, server, leases, memory, sweep, history, LateProvision, Added, Fault, RowStates, Live, Reserving
<1>. QED BY <1>1, <1>2

LEMMA SweepReadsQuiet ==
    ASSUME NEW j \in Job, IInv, SweepReads(j) PROVE Quiet /\ TypeOK'
<1>1. Quiet
  BY DEF IInv, ReviewInv, TypeOK, LeaseInv, Quiet, Importing, Underway, Import, SweepReads, vars, jobs, tunnels, server, leases, memory, sweep, history
<1>2. TypeOK'
  BY BoundAssumption DEF IInv, TypeOK, vars, jobs, tunnels, server, leases, memory, sweep, history, SweepReads, Fault, RowStates, Live, Reserving
<1>. QED BY <1>1, <1>2

LEMMA SweepRevokesQuiet ==
    ASSUME IInv, SweepRevokes PROVE Quiet /\ TypeOK'
<1>1. Quiet
  BY DEF IInv, ReviewInv, TypeOK, LeaseInv, Quiet, Importing, Underway, Import, SweepRevokes, Removed, vars, jobs, tunnels, server, leases, memory, sweep, history
<1>2. HandlersOK'
  BY DEF IInv, TypeOK, HandlersOK, SweepRevokes, memory
<1>3. faults' \in Nat
  BY DEF IInv, TypeOK, SweepRevokes, Fault
<1>4. client' \in [Job -> 0 .. PoolSize]
  BY BoundAssumption DEF IInv, TypeOK, SweepRevokes, Removed
<1>5. removed' \in BOOLEAN
  BY DEF IInv, TypeOK, SweepRevokes
<1>6. swept' \in Job \cup {"none"}
  BY DEF IInv, TypeOK, SweepRevokes
<1>7. TypeOK'
  BY <1>2, <1>3, <1>4, <1>5, <1>6 DEF IInv, HandlersOK, TypeOK, vars, jobs, tunnels, server, leases, memory, sweep, history, SweepRevokes
<1>. QED BY <1>1, <1>7

LEMMA SweepRetiresQuiet ==
    ASSUME IInv, SweepRetires PROVE Quiet /\ TypeOK'
<1>1. Quiet
  BY DEF IInv, ReviewInv, TypeOK, LeaseInv, Quiet, Importing, Underway, Import, SweepRetires, SetRow, vars, jobs, tunnels, server, leases, memory, sweep, history
<1>2. HandlersOK'
  BY DEF IInv, TypeOK, HandlersOK, SweepRetires, memory
<1>3. faults' \in Nat
  BY DEF IInv, TypeOK, SweepRetires, Fault
<1>4. row' \in [Job -> RowStates]
  BY DEF IInv, TypeOK, SweepRetires, SetRow, RowStates
<1>5. TypeOK'
  BY <1>2, <1>3, <1>4 DEF IInv, HandlersOK, TypeOK, vars, jobs, tunnels, server, leases, memory, sweep, history, SweepRetires
<1>. QED BY <1>1, <1>5

-----------------------------------------------------------------------------
(* The steps that are not quiet.                                            *)

\* The request that ends leaves all parts; the others are as they were.
LEMMA EndFacts ==
    ASSUME HandlersOK, NEW r \in Request, Ends(r)
    PROVE  /\ HandlersOK' /\ pc'[r] = "idle"
           /\ \A s \in Request \ {r} :
                 /\ pc'[s] = pc[s] /\ on'[s] = on[s] /\ ticket'[s] = ticket[s]
                 /\ chosen'[s] = chosen[s] /\ (s \in over' <=> s \in over)
<1>1. HandlersOK'
  BY MoveTypes DEF Places, Other
<1>. QED BY <1>1 DEF Ends, HandlersOK

LEMMA ChooseKeeps == ASSUME NEW r \in Request, IInv, Choose(r) PROVE
    TypeOK' /\ LeaseInv' /\ ReviewInv' /\ OneImportPerReview'
<1>1. pc[r] = "choose" /\ on[r] \in Job /\ HandlersOK
  BY DEF IInv, LeaseInv, Choose, TypeOK, HandlersOK
<1>2. /\ HandlersOK' /\ pc'[r] = "idle"
      /\ \A s \in Request \ {r} :
            /\ pc'[s] = pc[s] /\ on'[s] = on[s] /\ ticket'[s] = ticket[s]
            /\ chosen'[s] = chosen[s] /\ (s \in over' <=> s \in over)
  BY <1>1, EndFacts DEF Choose
<1>3. UNCHANGED <<lease, lapsed, reviews, imported>>
  BY DEF Choose, leases, history
<1>4. \A j \in Job : \/ job'[j] = job[j] /\ target'[j] = target[j]
                     \/ job'[j] = "target_selected"
  BY <1>1 DEF Choose, SetJob, IInv, TypeOK
<1>5. TypeOK'
  <2>1. faults' \in Nat
    BY DEF Choose, Fault, IInv, TypeOK
  <2>2. job' \in [Job -> JobStates]
    BY DEF Choose, SetJob, IInv, TypeOK, JobStates
  <2>3. target' \in [Job -> Router \cup {"none", "adopt"}]
    BY DEF Choose, IInv, TypeOK
  <2>. QED BY <1>2, <2>1, <2>2, <2>3
         DEF IInv, TypeOK, HandlersOK, Choose, tunnels, server, leases, sweep, history
<1>6. LeaseInv'
  BY <1>2, <1>3 DEF IInv, LeaseInv, Holds, Importing, Import
<1>7. ReviewInv'
  BY <1>2, <1>3, <1>4 DEF IInv, ReviewInv, Underway
<1>8. OneImportPerReview'
  BY <1>2, <1>3 DEF IInv, OneImportPerReview, Underway
<1>. QED BY <1>5, <1>6, <1>7, <1>8

LEMMA ReviewKeeps == ASSUME NEW r \in Request, IInv, Review(r) PROVE
    TypeOK' /\ LeaseInv' /\ ReviewInv' /\ OneImportPerReview'
<1>1. pc[r] = "review" /\ on[r] \in Job /\ HandlersOK
  BY DEF IInv, LeaseInv, Review, TypeOK, HandlersOK
<1>2. /\ HandlersOK' /\ pc'[r] = "idle"
      /\ \A s \in Request \ {r} :
            /\ pc'[s] = pc[s] /\ on'[s] = on[s] /\ ticket'[s] = ticket[s]
            /\ chosen'[s] = chosen[s] /\ (s \in over' <=> s \in over)
  BY <1>1, EndFacts DEF Review
<1>3. UNCHANGED <<lease, lapsed, imported, target>>
  BY DEF Review, leases
<1>4. /\ reviews \in [Job -> Nat] /\ reviews' \in [Job -> Nat]
      /\ \A j \in Job : \/ job'[j] = job[j] /\ reviews'[j] = reviews[j]
                        \/ reviews'[j] = reviews[j] + 1
  BY <1>1 DEF Review, SetJob, IInv, TypeOK
<1>5. TypeOK'
  <2>1. faults' \in Nat
    BY DEF Review, Fault, IInv, TypeOK
  <2>2. job' \in [Job -> JobStates]
    BY DEF Review, SetJob, IInv, TypeOK, JobStates
  <2>. QED BY <1>2, <1>4, <2>1, <2>2
         DEF IInv, TypeOK, HandlersOK, Review, tunnels, server, leases, sweep
<1>6. LeaseInv'
  BY <1>2, <1>3 DEF IInv, LeaseInv, Holds, Importing, Import
<1>7. ReviewInv'
  <2>0. \A j \in Job : imported[j] \subseteq Nat
    BY DEF IInv, TypeOK
  <2>1. \A j \in Job : \A n \in imported'[j] : n <= reviews'[j]
    BY <1>3, <1>4, <2>0 DEF IInv, ReviewInv
  <2>2. \A j \in Job : job'[j] = "dry_run" => reviews'[j] \notin imported'[j]
    BY <1>3, <1>4, <2>0 DEF IInv, ReviewInv
  <2>3. ASSUME NEW s \in Request, Underway(s)'
        PROVE  /\ on'[s] \in Job
               /\ ticket'[s] <= reviews'[on'[s]]
               /\ job'[on'[s]] = "dry_run" /\ ticket'[s] = reviews'[on'[s]] =>
                     pc'[s] = "mark" /\ chosen'[s] = target'[on'[s]]
    <3>1. s # r /\ Underway(s)
      BY <1>2, <2>3 DEF Underway
    <3>2. on[s] \in Job /\ ticket[s] <= reviews[on[s]] /\ ticket[s] \in Nat
      BY <3>1 DEF IInv, ReviewInv, TypeOK
    <3>3. job[on[s]] = "dry_run" /\ ticket[s] = reviews[on[s]] =>
              pc[s] = "mark" /\ chosen[s] = target[on[s]]
      BY <3>1 DEF IInv, ReviewInv
    <3>. QED BY <1>2, <1>3, <1>4, <3>1, <3>2, <3>3
  <2>. QED BY <2>1, <2>2, <2>3 DEF ReviewInv
<1>8. OneImportPerReview'
  BY <1>2, <1>3 DEF IInv, OneImportPerReview, Underway
<1>. QED BY <1>5, <1>6, <1>7, <1>8

LEMMA WriteKeeps == ASSUME NEW r \in Request, IInv, Write(r) PROVE
    TypeOK' /\ LeaseInv' /\ ReviewInv' /\ OneImportPerReview'
<1>1. pc[r] = "write" /\ on[r] \in Job /\ Underway(r) /\ HandlersOK /\ ticket[r] \in Nat
  BY DEF IInv, LeaseInv, Write, TypeOK, HandlersOK, Underway
<1>2. /\ pc' = [pc EXCEPT ![r] = "writing"]
      /\ UNCHANGED <<on, chosen, ticket, over, job, target, lease, lapsed, reviews>>
  BY DEF Write, Goto, memory, jobs, leases
<1>3. \A j \in Job : imported'[j] = IF j = on[r] THEN imported[j] \cup {ticket[r]}
                                                 ELSE imported[j]
  BY DEF Write, IInv, TypeOK
<1>4. \A s \in Request : Underway(s)' => s # r /\ Underway(s) /\ pc'[s] = pc[s]
  BY <1>2 DEF Underway, IInv, TypeOK
<1>5. TypeOK'
  <2>1. HandlersOK'
    BY <1>1, MoveTypes DEF Write, Places, Import
  <2>2. imported' \in [Job -> SUBSET Nat]
    BY <1>1 DEF Write, IInv, TypeOK
  <2>. QED BY <2>1, <2>2
         DEF IInv, TypeOK, HandlersOK, Write, jobs, tunnels, server, leases, sweep
<1>6. LeaseInv'
  BY <1>1, <1>2 DEF IInv, LeaseInv, Holds, Importing, Import, TypeOK
<1>7. ReviewInv'
  <2>1. ticket[r] <= reviews[on[r]]
    BY <1>1 DEF IInv, ReviewInv
  <2>2. job[on[r]] = "dry_run" => ticket[r] # reviews[on[r]]
    BY <1>1 DEF IInv, ReviewInv
  <2>3. ASSUME NEW j \in Job, NEW n \in imported'[j] PROVE n <= reviews'[j]
    <3>1. reviews'[j] = reviews[j] /\ \A i \in imported[j] : i <= reviews[j]
      BY <1>2 DEF IInv, ReviewInv
    <3>2. n \in imported[j] \/ (j = on[r] /\ n = ticket[r])
      BY <1>3
    <3>. QED BY <2>1, <3>1, <3>2
  <2>4. ASSUME NEW j \in Job, job'[j] = "dry_run" PROVE reviews'[j] \notin imported'[j]
    <3>1. reviews'[j] = reviews[j] /\ job[j] = "dry_run" /\ reviews[j] \notin imported[j]
      BY <1>2, <2>4 DEF IInv, ReviewInv
    <3>2. CASE j = on[r]
      BY <1>3, <2>2, <3>1, <3>2
    <3>3. CASE j # on[r]
      BY <1>3, <3>1, <3>3
    <3>. QED BY <3>2, <3>3
  <2>. QED BY <1>2, <1>4, <2>3, <2>4 DEF IInv, ReviewInv
<1>8. OneImportPerReview'
  <2> SUFFICES ASSUME NEW s \in Request, Underway(s)'
               PROVE  /\ ticket'[s] \notin imported'[on'[s]]
                      /\ \A q \in Request \ {s} :
                             Underway(q)' /\ on'[q] = on'[s] => ticket'[q] # ticket'[s]
    BY DEF OneImportPerReview
  <2>1. on[s] \in Job
    BY <1>4 DEF IInv, ReviewInv
  <2>2. ticket[s] \notin imported[on[s]]
    BY <1>4 DEF IInv, OneImportPerReview
  <2>3. on[s] = on[r] => ticket[s] # ticket[r]
    BY <1>1, <1>4 DEF IInv, OneImportPerReview
  <2>4. \A q \in Request \ {s} : Underway(q) /\ on[q] = on[s] => ticket[q] # ticket[s]
    BY <1>4 DEF IInv, OneImportPerReview
  <2>5. ticket'[s] \notin imported'[on'[s]]
    BY <1>2, <1>3, <2>1, <2>2, <2>3
  <2>6. \A q \in Request \ {s} : Underway(q)' => Underway(q) /\ on'[q] = on[q] /\ ticket'[q] = ticket[q]
    BY <1>2, <1>4
  <2>. QED BY <1>2, <2>4, <2>5, <2>6
<1>. QED BY <1>5, <1>6, <1>7, <1>8

LEMMA ReleaseKeeps == ASSUME NEW r \in Request, IInv, Release(r) PROVE
    TypeOK' /\ LeaseInv' /\ ReviewInv' /\ OneImportPerReview'
<1>1. pc[r] = "release" /\ HandlersOK
  BY DEF IInv, Release, TypeOK, HandlersOK
<1>2. /\ HandlersOK' /\ pc'[r] = "idle"
      /\ \A s \in Request \ {r} :
            /\ pc'[s] = pc[s] /\ on'[s] = on[s] /\ ticket'[s] = ticket[s]
            /\ chosen'[s] = chosen[s] /\ (s \in over' <=> s \in over)
  BY <1>1, EndFacts DEF Release
<1>3. UNCHANGED <<job, target, reviews, imported>>
  BY DEF Release, jobs, history
<1>4. \A t \in Router : lease[t] # r => lease'[t] = lease[t] /\ (t \in lapsed' => t \in lapsed)
  BY DEF Release, HeldBy
<1>5. TypeOK'
  <2>1. faults' \in Nat
    BY DEF Release, Fault, IInv, TypeOK
  <2>2. lease' \in [Router -> Request \cup {"none", "orphan"}] /\ lapsed' \subseteq Router
    BY DEF Release, IInv, TypeOK
  <2>. QED BY <1>2, <2>1, <2>2
         DEF IInv, TypeOK, HandlersOK, Release, jobs, tunnels, server, sweep, history
<1>6. LeaseInv'
  <2> SUFFICES ASSUME NEW s \in Request
               PROVE  /\ Importing(s)' \/ pc'[s] = "acquire" => chosen'[s] \in Router
                      /\ Importing(s)' /\ s \notin over' => Holds(s)'
                      /\ pc'[s] = "mark" => Holds(s)'
                      /\ pc'[s] # "idle" => on'[s] \in Job
    BY DEF LeaseInv
  <2>1. CASE s = r
    BY <1>2, <2>1 DEF Importing, Import
  <2>2. CASE s # r
    <3>1. pc'[s] = pc[s] /\ on'[s] = on[s] /\ chosen'[s] = chosen[s] /\ (s \in over' <=> s \in over)
      BY <1>2, <2>2
    <3>2. Holds(s) /\ chosen[s] \in Router => Holds(s)'
      BY <1>4, <2>2, <3>1 DEF Holds
    <3>. QED BY <3>1, <3>2 DEF IInv, LeaseInv, Importing, Import
  <2>. QED BY <2>1, <2>2
<1>7. ReviewInv'
  BY <1>2, <1>3 DEF IInv, ReviewInv, Underway
<1>8. OneImportPerReview'
  BY <1>2, <1>3 DEF IInv, OneImportPerReview, Underway
<1>. QED BY <1>5, <1>6, <1>7, <1>8

LEMMA LapseKeeps == ASSUME NEW t \in Router, IInv, Lapse(t) PROVE
    TypeOK' /\ LeaseInv' /\ ReviewInv' /\ OneImportPerReview'
<1>1. TypeOK'
  BY DEF IInv, TypeOK, Lapse, jobs, tunnels, server, sweep, history
<1>2. LeaseInv'
  <2> SUFFICES ASSUME NEW s \in Request
               PROVE  /\ Importing(s)' \/ pc'[s] = "acquire" => chosen'[s] \in Router
                      /\ Importing(s)' /\ s \notin over' => Holds(s)'
                      /\ pc'[s] = "mark" => Holds(s)'
                      /\ pc'[s] # "idle" => on'[s] \in Job
    BY DEF LeaseInv
  <2>1. UNCHANGED <<pc, on, chosen, lease>>
    BY DEF Lapse
  <2>2. CASE lease[t] = s
    <3>1. pc[s] # "mark" /\ s \in over'
      BY <2>2 DEF Lapse
    <3>. QED BY <2>1, <3>1 DEF IInv, LeaseInv, Importing, Import
  <2>3. CASE lease[t] # s
    <3>1. Holds(s) => Holds(s)'
      BY <2>1, <2>3 DEF Holds, Lapse
    <3>2. s \notin over' => s \notin over
      BY DEF Lapse
    <3>. QED BY <2>1, <3>1, <3>2 DEF IInv, LeaseInv, Importing, Import
  <2>. QED BY <2>2, <2>3
<1>3. UNCHANGED <<pc, on, chosen, ticket, job, target, reviews, imported>>
  BY DEF Lapse, jobs, history
<1>4. ReviewInv' /\ OneImportPerReview'
  BY <1>3 DEF IInv, ReviewInv, OneImportPerReview, Underway
<1>. QED BY <1>1, <1>2, <1>4

LEMMA CrashKeeps == ASSUME IInv, Crash PROVE
    TypeOK' /\ LeaseInv' /\ ReviewInv' /\ OneImportPerReview'
<1>1. \A r \in Request : pc'[r] = "idle" /\ on'[r] = "none"
  BY DEF Crash
<1>2. TypeOK'
  <2>1. HandlersOK'
    BY DEF Crash, HandlersOK, Places, Other
  <2>2. \A r \in Request : pc[r] = "provision" => on[r] \in Job
    BY DEF IInv, LeaseInv
  <2>3. late' \subseteq Job
    BY <2>2 DEF Crash, IInv, TypeOK
  <2>4. lease' \in [Router -> Request \cup {"none", "orphan"}]
    BY DEF Crash, IInv, TypeOK
  <2>5. faults' \in Nat
    BY DEF Crash, Fault, IInv, TypeOK
  <2>6. removed' \in BOOLEAN /\ swept' \in Job \cup {"none"}
    BY DEF Crash
  <2>. QED BY <2>1, <2>3, <2>4, <2>5, <2>6
         DEF IInv, TypeOK, HandlersOK, Crash, jobs, tunnels, history
<1>3. LeaseInv'
  BY <1>1 DEF LeaseInv, Importing, Import
<1>4. UNCHANGED <<job, reviews, imported>>
  BY DEF Crash, jobs, history
<1>5. ReviewInv' /\ OneImportPerReview'
  BY <1>1, <1>4 DEF IInv, ReviewInv, OneImportPerReview, Underway
<1>. QED BY <1>2, <1>3, <1>5

\* Only an import of the target that has not lapsed keeps another one out, and
\* one that has not marked its job has not lapsed.
LEMMA GrantIsFresh ==
    ASSUME IInv, NEW r \in Request, pc[r] = "acquire", Granted(r)
    PROVE  /\ chosen[r] \in Router /\ on[r] \in Job
           /\ reviews[on[r]] \notin imported[on[r]]
           /\ \A s \in Request : Underway(s) /\ on[s] = on[r] => ticket[s] # reviews[on[r]]
           /\ \A s \in Request : Holds(s) => chosen[s] # chosen[r]
<1>1. chosen[r] \in Router /\ on[r] \in Job
  BY DEF IInv, LeaseInv
<1>2. job[on[r]] = "dry_run" /\ target[on[r]] = chosen[r]
  BY DEF Granted, Admissible
<1>3. lease[chosen[r]] = "none" \/ chosen[r] \in lapsed
  BY <1>1 DEF Granted, Vacated
<1>4. \A s \in Request : Holds(s) => chosen[s] # chosen[r]
  BY <1>3, NameAssumption DEF Holds
<1>5. ASSUME NEW s \in Request, Underway(s), on[s] = on[r], ticket[s] = reviews[on[r]]
      PROVE  FALSE
  <2>1. pc[s] = "mark" /\ chosen[s] = chosen[r]
    BY <1>2, <1>5 DEF IInv, ReviewInv
  <2>2. Holds(s)
    BY <2>1 DEF IInv, LeaseInv
  <2>. QED BY <1>4, <2>1, <2>2
<1>. QED BY <1>1, <1>2, <1>4, <1>5 DEF IInv, ReviewInv

LEMMA AcquireGrants ==
    ASSUME NEW r \in Request, IInv, pc[r] = "acquire", Granted(r), lapsed' = {},
           lease' = [Vacated EXCEPT ![chosen[r]] = r],
           pc' = [pc EXCEPT ![r] = "mark"],
           ticket' = [ticket EXCEPT ![r] = reviews[on[r]]],
           UNCHANGED <<on, chosen, over, job, target, reviews, imported>>
    PROVE  LeaseInv' /\ ReviewInv' /\ OneImportPerReview'
<1>1. /\ chosen[r] \in Router /\ on[r] \in Job
      /\ reviews[on[r]] \notin imported[on[r]]
      /\ \A s \in Request : Underway(s) /\ on[s] = on[r] => ticket[s] # reviews[on[r]]
      /\ \A s \in Request : Holds(s) => chosen[s] # chosen[r]
  BY GrantIsFresh
<1>2. /\ pc'[r] = "mark" /\ ticket'[r] = reviews[on[r]]
      /\ \A s \in Request \ {r} : pc'[s] = pc[s] /\ ticket'[s] = ticket[s]
  BY DEF IInv, TypeOK
<1>3. job[on[r]] = "dry_run" /\ target[on[r]] = chosen[r]
  BY DEF Granted, Admissible
<1>4. LeaseInv'
  <2> SUFFICES ASSUME NEW s \in Request
               PROVE  /\ Importing(s)' \/ pc'[s] = "acquire" => chosen'[s] \in Router
                      /\ Importing(s)' /\ s \notin over' => Holds(s)'
                      /\ pc'[s] = "mark" => Holds(s)'
                      /\ pc'[s] # "idle" => on'[s] \in Job
    BY DEF LeaseInv
  <2>1. CASE s = r
    BY <1>1, <2>1 DEF Holds, Vacated
  <2>2. CASE s # r
    <3>1. ASSUME Holds(s), chosen[s] \in Router PROVE Holds(s)'
      <4>1. chosen[s] # chosen[r] /\ Vacated[chosen[s]] = s
        BY <1>1, <3>1 DEF Holds, Vacated
      <4>. QED BY <3>1, <4>1 DEF Holds, Vacated
    <3>. QED BY <1>2, <2>2, <3>1 DEF IInv, LeaseInv, Importing, Import
  <2>. QED BY <2>1, <2>2
<1>5. ReviewInv'
  <2>1. ASSUME NEW s \in Request, Underway(s)'
        PROVE  /\ on'[s] \in Job
               /\ ticket'[s] <= reviews'[on'[s]]
               /\ job'[on'[s]] = "dry_run" /\ ticket'[s] = reviews'[on'[s]] =>
                     pc'[s] = "mark" /\ chosen'[s] = target'[on'[s]]
    <3>1. CASE s = r
      <4>1. reviews[on[r]] \in Nat
        BY <1>1 DEF IInv, TypeOK
      <4>. QED BY <1>1, <1>2, <1>3, <3>1, <4>1
    <3>2. CASE s # r
      BY <1>2, <2>1, <3>2 DEF IInv, ReviewInv, Underway
    <3>. QED BY <3>1, <3>2
  <2>. QED BY <2>1 DEF IInv, ReviewInv
<1>6. OneImportPerReview'
  <2> SUFFICES ASSUME NEW s \in Request, Underway(s)'
               PROVE  /\ ticket'[s] \notin imported'[on'[s]]
                      /\ \A q \in Request \ {s} :
                             Underway(q)' /\ on'[q] = on'[s] => ticket'[q] # ticket'[s]
    BY DEF OneImportPerReview
  <2>1. CASE s = r
    BY <1>1, <1>2, <2>1 DEF Underway
  <2>2. CASE s # r
    <3>1. Underway(s) /\ ticket'[s] = ticket[s] /\ ticket[s] \notin imported[on[s]]
      BY <1>2, <2>2 DEF Underway, IInv, OneImportPerReview
    <3>2. ASSUME NEW q \in Request \ {s}, Underway(q)', on[q] = on[s]
          PROVE  ticket'[q] # ticket[s]
      <4>1. CASE q = r
        BY <1>1, <1>2, <3>1, <3>2, <4>1
      <4>2. CASE q # r
        BY <1>2, <3>1, <3>2, <4>2 DEF Underway, IInv, OneImportPerReview
      <4>. QED BY <4>1, <4>2
    <3>. QED BY <3>1, <3>2
  <2>. QED BY <2>1, <2>2
<1>. QED BY <1>4, <1>5, <1>6

\* A call of the lease that is refused, or whose answer is lost, at most takes
\* lapsed leases away and leaves one to nobody.
LEMMA AcquireFails ==
    ASSUME NEW r \in Request, IInv, pc[r] = "acquire", HandlersOK,
           Ends(r) \/ Goto(r, "fail"),
           \/ UNCHANGED <<lease, lapsed>>
           \/ lapsed' = {} /\ lease' = Vacated
           \/ Granted(r) /\ lapsed' = {} /\ lease' = [Vacated EXCEPT ![chosen[r]] = "orphan"],
           UNCHANGED <<job, target, reviews, imported>>
    PROVE  LeaseInv' /\ ReviewInv' /\ OneImportPerReview'
<1>1. /\ pc'[r] \in {"idle", "fail"} /\ (pc'[r] = "fail" => on'[r] = on[r])
      /\ \A s \in Request \ {r} :
            /\ pc'[s] = pc[s] /\ on'[s] = on[s] /\ ticket'[s] = ticket[s]
            /\ chosen'[s] = chosen[s] /\ (s \in over' <=> s \in over)
  <2>1. CASE Ends(r)
    BY <2>1, EndFacts
  <2>2. CASE Goto(r, "fail")
    BY <2>2 DEF Goto, memory, HandlersOK
  <2>. QED BY <2>1, <2>2
<1>2. ASSUME NEW s \in Request \ {r}, Holds(s), chosen[s] \in Router PROVE Holds(s)'
  <2>1. Vacated[chosen[s]] = lease[chosen[s]]
    BY <1>2 DEF Vacated, Holds
  <2>2. Granted(r) => chosen[s] # chosen[r]
    BY <1>2, GrantIsFresh
  <2>. QED BY <1>1, <1>2, <2>1, <2>2 DEF Holds, Vacated
<1>3. LeaseInv'
  <2> SUFFICES ASSUME NEW s \in Request
               PROVE  /\ Importing(s)' \/ pc'[s] = "acquire" => chosen'[s] \in Router
                      /\ Importing(s)' /\ s \notin over' => Holds(s)'
                      /\ pc'[s] = "mark" => Holds(s)'
                      /\ pc'[s] # "idle" => on'[s] \in Job
    BY DEF LeaseInv
  <2>1. CASE s = r
    BY <1>1, <2>1 DEF IInv, LeaseInv, Importing, Import
  <2>2. CASE s # r
    BY <1>1, <1>2, <2>2 DEF IInv, LeaseInv, Importing, Import
  <2>. QED BY <2>1, <2>2
<1>4. ReviewInv'
  BY <1>1 DEF IInv, ReviewInv, Underway
<1>5. OneImportPerReview'
  BY <1>1 DEF IInv, OneImportPerReview, Underway
<1>. QED BY <1>3, <1>4, <1>5

LEMMA AcquireTypes == ASSUME NEW r \in Request, IInv, Acquire(r) PROVE TypeOK'
<1>1. HandlersOK /\ on[r] \in Job /\ reviews[on[r]] \in Nat
  BY DEF IInv, LeaseInv, Acquire, TypeOK, HandlersOK
<1>2. HandlersOK'
  <2>1. CASE /\ pc' = [pc EXCEPT ![r] = "mark"]
             /\ ticket' = [ticket EXCEPT ![r] = reviews[on[r]]]
             /\ UNCHANGED <<on, scanned, exported, chosen, over>>
    BY <1>1, <2>1 DEF HandlersOK, Places, Import
  <2>2. CASE Ends(r) \/ Goto(r, "fail")
    BY <1>1, <2>2, MoveTypes DEF Places, Setup, Other
  <2>. QED BY <2>1, <2>2 DEF Acquire
<1>3. Vacated \in [Router -> Request \cup {"none", "orphan"}]
  BY DEF Vacated, IInv, TypeOK
<1>4. lease' \in [Router -> Request \cup {"none", "orphan"}] /\ lapsed' \subseteq Router
  BY <1>3 DEF Acquire, IInv, TypeOK, leases
<1>5. faults' \in Nat
  BY DEF Acquire, Fault, IInv, TypeOK
<1>. QED BY <1>2, <1>4, <1>5
       DEF IInv, TypeOK, HandlersOK, Acquire, jobs, tunnels, server, sweep, history

LEMMA AcquireKeeps == ASSUME NEW r \in Request, IInv, Acquire(r) PROVE
    TypeOK' /\ LeaseInv' /\ ReviewInv' /\ OneImportPerReview'
<1>1. TypeOK'
  BY AcquireTypes
<1>2. pc[r] = "acquire" /\ HandlersOK /\ UNCHANGED <<job, target, reviews, imported>>
  BY DEF Acquire, IInv, TypeOK, HandlersOK, jobs, history
<1>3. CASE /\ Granted(r) /\ lapsed' = {} /\ lease' = [Vacated EXCEPT ![chosen[r]] = r]
           /\ pc' = [pc EXCEPT ![r] = "mark"]
           /\ ticket' = [ticket EXCEPT ![r] = reviews[on[r]]]
           /\ UNCHANGED <<on, chosen, over>>
  BY <1>1, <1>2, <1>3, AcquireGrants
<1>4. CASE /\ Ends(r) \/ Goto(r, "fail")
           /\ \/ UNCHANGED <<lease, lapsed>>
              \/ lapsed' = {} /\ lease' = Vacated
              \/ /\ Granted(r) /\ lapsed' = {}
                 /\ lease' = [Vacated EXCEPT ![chosen[r]] = "orphan"]
  BY <1>1, <1>2, <1>4, AcquireFails
<1>. QED BY <1>3, <1>4 DEF Acquire, leases

-----------------------------------------------------------------------------
(* Every step changes the clients of at most one job.                        *)

LEMMA RemovalKeepsApart ==
    ASSUME IInv, NEW j \in Job, Removed(j) PROVE ClientsDoNotShare'
BY DEF IInv, TypeOK, ClientsDoNotShare, Removed

LEMMA AdditionKeepsApart ==
    ASSUME IInv, NEW j \in Job, Added(j) PROVE ClientsDoNotShare'
<1>1. \A k \in Job : client'[k] = IF k = j THEN pair[j] ELSE client[k]
  BY DEF Added, IInv, TypeOK
<1>2. \A k \in Job : client[k] # pair[j]
  BY DEF Added, Vacant
<1>. QED BY <1>1, <1>2 DEF IInv, ClientsDoNotShare

LEMMA ClientsStayApart == ASSUME IInv, Next PROVE ClientsDoNotShare'
<1>1. UNCHANGED client => ClientsDoNotShare'
  BY DEF IInv, ClientsDoNotShare
<1>2. ASSUME NEW r \in Request, Step(r) PROVE ClientsDoNotShare'
  <2>1. pc[r] # "idle" => on[r] \in Job
    BY DEF IInv, LeaseInv
  <2>2. CASE Undo(r)
    BY <1>1, <2>1, <2>2, RemovalKeepsApart DEF Undo, RevokeClient
  <2>3. CASE Revoke(r)
    BY <1>1, <2>1, <2>3, RemovalKeepsApart DEF Revoke, RevokeClient
  <2>4. CASE Provision(r)
    BY <1>1, <2>1, <2>4, AdditionKeepsApart DEF Provision, server
  <2>5. CASE InsertJob(r) \/ Issue(r) \/ IssueScript(r) \/ Open(r) \/ Unavailable(r) \/
            FailJob(r) \/ Reach(r)
    BY <1>1, <2>5 DEF InsertJob, Issue, IssueScript, Open, Unavailable, FailJob, Reach, server
  <2>6. CASE Register(r) \/ Connect(r) \/ Connected(r) \/ Reissue(r) \/ Collect(r) \/
            Consume(r) \/ Store(r)
    BY <1>1, <2>6 DEF Register, Connect, Connected, Reissue, Collect, Consume, Store, server
  <2>7. CASE Stored(r) \/ Revoked(r) \/ Adopt(r) \/ Mark(r) \/ Preflight(r) \/ Save(r) \/
            Written(r)
    BY <1>1, <2>7 DEF Stored, Revoked, Adopt, Mark, Preflight, Save, Written, server
  <2>8. CASE Finish(r) \/ Abort(r) \/ Choose(r) \/ Review(r) \/ Acquire(r) \/ Write(r) \/
            Release(r)
    BY <1>1, <2>8 DEF Finish, Abort, Choose, Review, Acquire, Write, Release, server
  <2>. QED BY <1>2, <2>2, <2>3, <2>4, <2>5, <2>6, <2>7, <2>8 DEF Step
<1>3. ASSUME NEW r \in Request, NEW j \in Job, Start(r, j) PROVE ClientsDoNotShare'
  <2>1. UNCHANGED client
    BY <1>3 DEF Start, Scan, StartVerify, StartScript, StartCollector, StartUpload,
       StartRevoke, StartReview, StartApply, StartTarget, server
  <2>. QED BY <1>1, <2>1
<1>4. ASSUME NEW j \in Job, Expire(j) \/ TokenExpires(j) \/ SweepReads(j)
      PROVE  ClientsDoNotShare'
  BY <1>1, <1>4 DEF Expire, TokenExpires, SweepReads, server
<1>5. ASSUME NEW j \in Job, TimerFires(j) PROVE ClientsDoNotShare'
  BY <1>5, RemovalKeepsApart DEF TimerFires
<1>6. ASSUME NEW j \in Job, LateProvision(j) PROVE ClientsDoNotShare'
  BY <1>1, <1>6, AdditionKeepsApart DEF LateProvision
<1>7. ASSUME NEW t \in Router, Lapse(t) PROVE ClientsDoNotShare'
  BY <1>1, <1>7 DEF Lapse, server
<1>8. CASE SweepRevokes
  <2>1. swept \in Job
    BY <1>8 DEF SweepRevokes, IInv, TypeOK
  <2>. QED BY <1>1, <1>8, <2>1, RemovalKeepsApart DEF SweepRevokes
<1>9. CASE SweepRetires \/ Crash
  BY <1>1, <1>9 DEF SweepRetires, Crash, server
<1>. QED BY <1>2, <1>3, <1>4, <1>5, <1>6, <1>7, <1>8, <1>9 DEF Next, Sweep

-----------------------------------------------------------------------------
LEMMA InitHolds == Init => IInv
<1> SUFFICES ASSUME Init PROVE IInv
  OBVIOUS
<1>1. job \in [Job -> {"none", "exported", "failed"}]
  BY JobAssumption DEF Init
<1>2. TypeOK
  <2>1. job \in [Job -> JobStates]
    BY <1>1 DEF JobStates
  <2>2. faults \in Nat
    BY BoundAssumption DEF Init
  <2>3. row \in [Job -> RowStates]
    BY DEF Init, RowStates
  <2>4. registered \subseteq Job /\ due \subseteq Job
    BY JobAssumption DEF Init
  <2>5. HandlersOK
    BY DEF Init, HandlersOK, Places, Other
  <2>6. /\ target \in [Job -> Router \cup {"none", "adopt"}]
        /\ lease \in [Router -> Request \cup {"none", "orphan"}]
        /\ swept \in Job \cup {"none"}
    BY DEF Init
  <2>7. /\ pair \in [Job -> 0 .. PoolSize] /\ client \in [Job -> 0 .. PoolSize]
        /\ reviews \in [Job -> Nat] /\ imported \in [Job -> SUBSET Nat]
    BY BoundAssumption DEF Init
  <2>8. token \subseteq Job /\ late \subseteq Job /\ lapsed \subseteq Router
        /\ removed \in BOOLEAN
    BY DEF Init
  <2>. QED BY <2>1, <2>2, <2>3, <2>4, <2>5, <2>6, <2>7, <2>8 DEF HandlersOK, TypeOK
<1>3. ClientsDoNotShare
  BY DEF Init, ClientsDoNotShare
<1>4. LeaseInv
  BY DEF Init, LeaseInv, Importing, Import
<1>5. ReviewInv /\ OneImportPerReview
  BY <1>1 DEF Init, ReviewInv, OneImportPerReview, Underway
<1>. QED BY <1>2, <1>3, <1>4, <1>5 DEF IInv

LEMMA NextKeeps == ASSUME IInv, Next PROVE IInv'
<1>1. ClientsDoNotShare'
  BY ClientsStayApart
<1>2. Quiet => LeaseInv' /\ ReviewInv' /\ OneImportPerReview'
  BY QuietLeases, QuietReviews, QuietImports
<1>3. ASSUME NEW r \in Request, Step(r)
      PROVE  TypeOK' /\ LeaseInv' /\ ReviewInv' /\ OneImportPerReview'
  <2>1. CASE Choose(r)
    BY <2>1, ChooseKeeps
  <2>2. CASE Review(r)
    BY <2>2, ReviewKeeps
  <2>3. CASE Acquire(r)
    BY <2>3, AcquireKeeps
  <2>4. CASE Write(r)
    BY <2>4, WriteKeeps
  <2>5. CASE Release(r)
    BY <2>5, ReleaseKeeps
  <2>6. CASE InsertJob(r) \/ Issue(r) \/ Provision(r) \/ IssueScript(r) \/ Open(r) \/
            Undo(r) \/ Unavailable(r) \/ FailJob(r) \/ Reach(r)
    BY <1>2, <2>6, InsertJobQuiet, IssueQuiet, ProvisionQuiet, IssueScriptQuiet,
       OpenQuiet, UndoQuiet, UnavailableQuiet, FailJobQuiet, ReachQuiet
  <2>7. CASE Register(r) \/ Connect(r) \/ Connected(r) \/ Reissue(r) \/ Collect(r) \/
            Consume(r) \/ Store(r) \/ Stored(r) \/ Revoke(r)
    BY <1>2, <2>7, RegisterQuiet, ConnectQuiet, ConnectedQuiet, ReissueQuiet,
       CollectQuiet, ConsumeQuiet, StoreQuiet, StoredQuiet, RevokeQuiet
  <2>8. CASE Revoked(r) \/ Adopt(r) \/ Mark(r) \/ Preflight(r) \/ Save(r) \/ Written(r) \/
            Finish(r) \/ Abort(r)
    BY <1>2, <2>8, RevokedQuiet, AdoptQuiet, MarkQuiet, PreflightQuiet, SaveQuiet,
       WrittenQuiet, FinishQuiet, AbortQuiet
  <2>. QED BY <1>3, <2>1, <2>2, <2>3, <2>4, <2>5, <2>6, <2>7, <2>8 DEF Step
<1>4. ASSUME NEW r \in Request, NEW j \in Job, Start(r, j)
      PROVE  TypeOK' /\ LeaseInv' /\ ReviewInv' /\ OneImportPerReview'
  BY <1>2, <1>4, ScanQuiet, StartVerifyQuiet, StartScriptQuiet, StartCollectorQuiet,
     StartUploadQuiet, StartRevokeQuiet, StartReviewQuiet, StartApplyQuiet,
     StartTargetQuiet DEF Start
<1>5. ASSUME NEW j \in Job,
             Expire(j) \/ TokenExpires(j) \/ TimerFires(j) \/ LateProvision(j) \/ SweepReads(j)
      PROVE  TypeOK' /\ LeaseInv' /\ ReviewInv' /\ OneImportPerReview'
  BY <1>2, <1>5, ExpireQuiet, TokenExpiresQuiet, TimerFiresQuiet, LateProvisionQuiet,
     SweepReadsQuiet
<1>6. ASSUME NEW t \in Router, Lapse(t)
      PROVE  TypeOK' /\ LeaseInv' /\ ReviewInv' /\ OneImportPerReview'
  BY <1>6, LapseKeeps
<1>7. CASE SweepRevokes \/ SweepRetires
  <2>1. TypeOK' /\ LeaseInv' /\ ReviewInv' /\ OneImportPerReview'
    BY <1>2, <1>7, SweepRevokesQuiet, SweepRetiresQuiet
  <2>. QED BY <1>1, <2>1 DEF IInv
<1>8. CASE Crash
  <2>1. TypeOK' /\ LeaseInv' /\ ReviewInv' /\ OneImportPerReview'
    BY <1>8, CrashKeeps
  <2>. QED BY <1>1, <2>1 DEF IInv
<1>9. \/ \E r \in Request : Step(r) \/ \E j \in Job : Start(r, j)
      \/ \E j \in Job : Expire(j) \/ TokenExpires(j) \/ TimerFires(j) \/ LateProvision(j)
                        \/ SweepReads(j)
      \/ \E t \in Router : Lapse(t)
      \/ SweepRevokes \/ SweepRetires \/ Crash
  BY DEF Next, Sweep
<1>. QED BY <1>1, <1>3, <1>4, <1>5, <1>6, <1>7, <1>8, <1>9 DEF IInv

LEMMA StutterKeeps == ASSUME IInv, UNCHANGED vars PROVE IInv'
<1>1. TypeOK'
  BY DEF IInv, TypeOK, vars, jobs, tunnels, server, leases, memory, sweep, history
<1>2. Quiet
  BY DEF IInv, LeaseInv, ReviewInv, Quiet, Importing, Underway, Import, vars, jobs, leases,
     memory, history
<1>3. ClientsDoNotShare'
  BY DEF IInv, ClientsDoNotShare, vars, server
<1>. QED BY <1>1, <1>2, <1>3, QuietLeases, QuietReviews, QuietImports DEF IInv

LEMMA Invariance == Spec => []IInv
<1>1. IInv /\ [Next]_vars => IInv'
  BY NextKeeps, StutterKeeps
<1>. QED BY InitHolds, <1>1, PTL DEF Spec

\* Every variable keeps its type, whatever the numbers of jobs, requests,
\* routers, address pairs, reviews and faults.
THEOREM TypeCorrect == Spec => []TypeOK
<1>1. IInv => TypeOK
  BY DEF IInv
<1>. QED BY Invariance, <1>1, PTL

\* The VPN server never has two clients with one address pair: the provision
\* script's look at the addresses in use sees to it, also for a script that
\* runs after its row was revoked and its pair issued again.
THEOREM ClientsAreAlone == Spec => []ClientsDoNotShare
<1>1. IInv => ClientsDoNotShare
  BY DEF IInv
<1>. QED BY Invariance, <1>1, PTL

\* Two imports of one router overlap only when one has outlived its lease.
THEOREM ImportsAreExclusive == Spec => []ExclusiveImports
<1>1. IInv => ExclusiveImports
  BY DEF IInv, LeaseInv, Holds, ExclusiveImports
<1>. QED BY Invariance, <1>1, PTL

\* A reviewed dry run admits one import to its first write: marking the job
\* before anything is written spends the review.
THEOREM ReviewsAreSpentOnce == Spec => []OneImportPerReview
<1>1. IInv => OneImportPerReview
  BY DEF IInv
<1>. QED BY Invariance, <1>1, PTL
=============================================================================
