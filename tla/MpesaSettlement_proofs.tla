----------------------- MODULE MpesaSettlement_proofs -----------------------
(***************************************************************************)
(* What MpesaSettlement promises, for any number of transactions, accounts, *)
(* webhook events, concurrent invocations and faults.  What an invocation   *)
(* learnt before an await is stale after it; the inductive invariant says   *)
(* what stays true of it: that Daraja confirmed the payment, that the       *)
(* receipt is stored, and from the settlement on that the row is closed.    *)
(***************************************************************************)
EXTENDS MpesaSettlement, FiniteSetTheorems, WellFoundedInduction, TLAPS

(* The account has a payment that Daraja confirmed and that has a receipt. *)
PaidFor(a) == \E t \in Tx : /\ AccountOf[t] = a
                            /\ outcome[t] = "paid"
                            /\ receipt[t]

(* What invocation w may rely on, wherever it stands. *)
JobInv(w) ==
    /\ event[job[w].ev] \in Rows
    /\ job[w].at \in {"select", "verify"} => ~job[w].good
    /\ job[w].at \in {"receipt", "fetch", "enable", "radius", "undoRadius",
                      "undoLine", "save"} => job[w].good
    /\ job[w].granting => job[w].good
    /\ job[w].good => outcome[TxOf(w)] = "paid"
    /\ job[w].good /\ job[w].at # "receipt" => receipt[TxOf(w)]
    /\ job[w].at = "settle" /\ ~job[w].good => outcome[TxOf(w)] = "declined"
    /\ job[w].at \in {"save", "mark"} => status[TxOf(w)] \in Settled
    /\ job[w].was => PaidFor(AccOf(w))

JobsOK == \A w \in Worker : Busy(w) => JobInv(w)

(* What the row of a transaction says of its payment. *)
RowsOK == \A t \in Tx : /\ receipt[t] => outcome[t] = "paid"
                        /\ status[t] \in Settled => outcome[t] # "prompted"

(* Access, and the active status that a VLAN rollback trusts, are paid for. *)
AccountsOK == \A a \in Account :
                  line[a] \/ radius[a] \/ standing[a] = "active" => PaidFor(a)

IInv ==
    /\ TypeOK
    /\ JobsOK
    /\ RowsOK
    /\ AccountsOK
    /\ CompletedIsPaid
    /\ ProcessedIsSettled

-----------------------------------------------------------------------------
(* What an await cannot take back: stored events keep what they say, the    *)
(* payer's answer stands, receipts stay, and closed rows stay closed.       *)
Monotone ==
    /\ \A e \in Event : event[e] \in Rows =>
           /\ event'[e] \in Rows
           /\ event'[e].tx = event[e].tx
           /\ event'[e].claim = event[e].claim
    /\ \A t \in Tx :
           /\ outcome[t] \in {"paid", "declined"} => outcome'[t] = outcome[t]
           /\ receipt[t] => receipt'[t]
           /\ status[t] \in Settled => status'[t] = status[t]

LEMMA PaidForStays == ASSUME Monotone, NEW a, PaidFor(a) PROVE PaidFor(a)'
BY DEF Monotone, PaidFor

(* What an invocation relies on survives every step that is not its own. *)
LEMMA OthersKeep ==
    ASSUME IInv, Monotone, NEW w \in Worker, Busy(w), job'[w] = job[w]
    PROVE  JobInv(w)'
<1>1. JobInv(w)
  BY DEF IInv, JobsOK
<1>2. /\ event[job[w].ev] \in Rows
      /\ job[w].ev \in Event
  BY <1>1, NoOneAssumption DEF IInv, TypeOK, JobInv, Busy, Jobs, Idle
<1>3. TxOf(w)' = TxOf(w) /\ TxOf(w) \in Tx /\ event'[job[w].ev] \in Rows
  BY <1>2 DEF Monotone, TxOf, Rows
<1>4. PaidFor(AccOf(w)) => PaidFor(AccOf(w))'
  BY <1>3, PaidForStays DEF AccOf, PaidFor, Monotone
<1>5. job'[w].was => PaidFor(AccOf(w))'
  BY <1>1, <1>4 DEF JobInv
<1>. QED
  BY <1>1, <1>2, <1>3, <1>5 DEF JobInv, Monotone, Settled

LEMMA JobsFrame ==
    ASSUME IInv, Monotone, NEW w \in Worker,
           \A v \in Worker \ {w} : job'[v] = job[v],
           Busy(w)' => JobInv(w)'
    PROVE  JobsOK'
BY OthersKeep DEF JobsOK, Busy

LEMMA JobsUntouched ==
    ASSUME IInv, Monotone, UNCHANGED job PROVE JobsOK'
BY OthersKeep DEF JobsOK, Busy

(* What a busy invocation works on. *)
LEMMA BusyFacts ==
    ASSUME IInv, NEW w \in Worker, Busy(w)
    PROVE  /\ job[w] \in Jobs
           /\ job[w].ev \in Event
           /\ event[job[w].ev] \in Rows
           /\ TxOf(w) \in Tx
           /\ JobInv(w)
BY DEF IInv, TypeOK, JobsOK, JobInv, Busy, Jobs, Rows, TxOf

(* The two ways in which a step leaves an invocation. *)
LEMMA MoveToFacts ==
    ASSUME TypeOK, NEW w \in Worker, Busy(w), NEW step \in Steps,
           MoveTo(w, step)
    PROVE  /\ job' \in [Worker -> Jobs \union {Idle}]
           /\ \A v \in Worker \ {w} : job'[v] = job[v]
           /\ job'[w].at = step
           /\ job'[w].ev = job[w].ev
           /\ job'[w].good = job[w].good
           /\ job'[w].granting = job[w].granting
           /\ job'[w].was = job[w].was
BY DEF TypeOK, Busy, MoveTo, Jobs

LEMMA FinishFacts ==
    ASSUME TypeOK, NEW w \in Worker, Finish(w)
    PROVE  /\ job' \in [Worker -> Jobs \union {Idle}]
           /\ \A v \in Worker \ {w} : job'[v] = job[v]
           /\ ~Busy(w)'
BY DEF TypeOK, Finish, Busy

LEMMA UndoFacts ==
    ASSUME NEW w, Undo(w)
    PROVE  \/ Finish(w)
           \/ job[w].granting /\ MoveTo(w, "undoRadius")
           \/ job[w].granting /\ MoveTo(w, "undoLine")
BY DEF Undo

LEMMA FaultFacts ==
    ASSUME TypeOK, NEW kind, Fault(kind) PROVE faults' \in 0 .. MaxFaults
BY FaultAssumption DEF TypeOK, Fault

(* A step that ends an invocation, or moves it on, keeps what it relies on. *)
LEMMA FinishKeeps ==
    ASSUME IInv, Monotone, NEW w \in Worker, Finish(w)
    PROVE  job' \in [Worker -> Jobs \union {Idle}] /\ JobsOK'
BY FinishFacts, JobsFrame DEF IInv

LEMMA MoveToKeeps ==
    ASSUME IInv, Monotone, NEW w \in Worker, Busy(w), NEW step \in Steps,
           MoveTo(w, step),
           step # "select" /\ step # "verify" /\ step # "receipt",
           step \in {"fetch", "enable", "radius", "undoRadius", "undoLine",
                     "save"} => job[w].good,
           job[w].good => receipt'[TxOf(w)],
           step = "settle" /\ ~job[w].good => outcome[TxOf(w)] = "declined",
           step \in {"save", "mark"} => status'[TxOf(w)] \in Settled
    PROVE  job' \in [Worker -> Jobs \union {Idle}] /\ JobsOK'
<1>1. /\ job' \in [Worker -> Jobs \union {Idle}]
      /\ \A v \in Worker \ {w} : job'[v] = job[v]
      /\ job'[w].at = step
      /\ job'[w].ev = job[w].ev
      /\ job'[w].good = job[w].good
      /\ job'[w].granting = job[w].granting
      /\ job'[w].was = job[w].was
  BY MoveToFacts DEF IInv
<1>2. /\ job[w] \in Jobs
      /\ job[w].ev \in Event
      /\ event[job[w].ev] \in Rows
      /\ TxOf(w) \in Tx
      /\ JobInv(w)
  BY BusyFacts
<1>3. event'[job[w].ev] \in Rows /\ TxOf(w)' = TxOf(w)
  BY <1>1, <1>2 DEF Monotone, TxOf
<1>4. job[w].was => PaidFor(AccOf(w))'
  BY <1>2, <1>3, PaidForStays DEF JobInv, AccOf, PaidFor, Monotone
<1>5. JobInv(w)'
  BY <1>1, <1>2, <1>3, <1>4 DEF JobInv, Monotone
<1>. QED BY <1>1, <1>5, JobsFrame

LEMMA UndoKeeps ==
    ASSUME IInv, Monotone, NEW w \in Worker, Busy(w), Undo(w),
           job[w].good => receipt'[TxOf(w)]
    PROVE  job' \in [Worker -> Jobs \union {Idle}] /\ JobsOK'
<1>1. CASE Finish(w)
  BY <1>1, FinishKeeps
<1>2. job[w].granting => job[w].good
  BY DEF IInv, JobsOK, JobInv
<1>3. CASE job[w].granting /\ MoveTo(w, "undoRadius")
  BY <1>2, <1>3, MoveToKeeps DEF Steps
<1>4. CASE job[w].granting /\ MoveTo(w, "undoLine")
  BY <1>2, <1>4, MoveToKeeps DEF Steps
<1>. QED BY <1>1, <1>3, <1>4, UndoFacts

-----------------------------------------------------------------------------
(* The steps outside processMpesaCallback. *)

LEMMA PromptPreserves ==
    ASSUME IInv, NEW t \in Tx, Prompt(t) PROVE IInv' /\ Monotone
<1>1. Monotone
  BY DEF IInv, TypeOK, Monotone, Settled, NoRow, Rows, Prompt, ledger,
       offers, access
<1>2. TypeOK'
  BY NoOneAssumption, ServiceAssumption, AccountAssumption,
       ResellerAssumption, AmountAssumption, FaultAssumption DEF IInv,
       TypeOK, TxStatus, Outcomes, Rows, NoRow, Prompt, ledger, offers,
       access
<1>3. JobsOK'
  BY <1>1, JobsUntouched DEF Prompt
<1>4. RowsOK' /\ AccountsOK' /\ CompletedIsPaid' /\ ProcessedIsSettled'
  BY <1>1, NoOneAssumption, PaidForStays DEF IInv, TypeOK, Monotone,
       Settled, Rows, NoRow, RowsOK, AccountsOK, CompletedIsPaid,
       ProcessedIsSettled, Prompt, ledger, offers, access
<1>. QED BY <1>1, <1>2, <1>3, <1>4 DEF IInv

LEMMA RefusePreserves ==
    ASSUME IInv, NEW t \in Tx, Refuse(t) PROVE IInv' /\ Monotone
<1>1. Monotone
  BY DEF IInv, TypeOK, Monotone, Settled, NoRow, Rows, Refuse, ledger,
       offers, access
<1>2. TypeOK'
  BY NoOneAssumption, ServiceAssumption, AccountAssumption,
       ResellerAssumption, AmountAssumption, FaultAssumption DEF IInv,
       TypeOK, TxStatus, Outcomes, Rows, NoRow, Refuse, ledger, offers,
       access
<1>3. JobsOK'
  BY <1>1, JobsUntouched DEF Refuse
<1>4. RowsOK' /\ AccountsOK' /\ CompletedIsPaid' /\ ProcessedIsSettled'
  BY <1>1, NoOneAssumption, PaidForStays DEF IInv, TypeOK, Monotone,
       Settled, Rows, NoRow, RowsOK, AccountsOK, CompletedIsPaid,
       ProcessedIsSettled, Refuse, ledger, offers, access
<1>. QED BY <1>1, <1>2, <1>3, <1>4 DEF IInv

LEMMA ReconcilePreserves ==
    ASSUME IInv, NEW t \in Tx, Reconcile(t) PROVE IInv' /\ Monotone
<1>1. Monotone
  BY DEF IInv, TypeOK, Monotone, Settled, NoRow, Rows, Reconcile, ledger,
       offers, access
<1>2. TypeOK'
  BY NoOneAssumption, ServiceAssumption, AccountAssumption,
       ResellerAssumption, AmountAssumption, FaultAssumption DEF IInv,
       TypeOK, TxStatus, Outcomes, Rows, NoRow, Reconcile, ledger, offers,
       access
<1>3. JobsOK'
  BY <1>1, JobsUntouched DEF Reconcile
<1>4. RowsOK' /\ AccountsOK' /\ CompletedIsPaid' /\ ProcessedIsSettled'
  BY <1>1, NoOneAssumption, PaidForStays DEF IInv, TypeOK, Monotone,
       Settled, Rows, NoRow, RowsOK, AccountsOK, CompletedIsPaid,
       ProcessedIsSettled, Reconcile, ledger, offers, access
<1>. QED BY <1>1, <1>2, <1>3, <1>4 DEF IInv

LEMMA PayerAnswersPreserves ==
    ASSUME IInv, NEW t \in Tx, PayerAnswers(t) PROVE IInv' /\ Monotone
<1>1. Monotone
  BY DEF IInv, TypeOK, Monotone, Settled, NoRow, Rows, PayerAnswers, ledger,
       offers, access
<1>2. TypeOK'
  BY NoOneAssumption, ServiceAssumption, AccountAssumption,
       ResellerAssumption, AmountAssumption, FaultAssumption DEF IInv,
       TypeOK, TxStatus, Outcomes, Rows, NoRow, PayerAnswers, ledger,
       offers, access
<1>3. JobsOK'
  BY <1>1, JobsUntouched DEF PayerAnswers
<1>4. RowsOK' /\ AccountsOK' /\ CompletedIsPaid' /\ ProcessedIsSettled'
  BY <1>1, NoOneAssumption, PaidForStays DEF IInv, TypeOK, Monotone,
       Settled, Rows, NoRow, RowsOK, AccountsOK, CompletedIsPaid,
       ProcessedIsSettled, PayerAnswers, ledger, offers, access
<1>. QED BY <1>1, <1>2, <1>3, <1>4 DEF IInv

LEMMA WithdrawPreserves ==
    ASSUME IInv, NEW t \in Tx, Withdraw(t) PROVE IInv' /\ Monotone
<1>1. Monotone
  BY DEF IInv, TypeOK, Monotone, Settled, NoRow, Rows, Withdraw, ledger,
       offers, access
<1>2. TypeOK'
  <2>1. faults' \in 0 .. MaxFaults
    BY FaultFacts DEF IInv, Withdraw
  <2>. QED
    BY <2>1, NoOneAssumption DEF IInv, TypeOK, TxStatus, Outcomes, Rows,
         NoRow, Withdraw, ledger, offers, access
<1>3. JobsOK'
  BY <1>1, JobsUntouched DEF Withdraw
<1>4. RowsOK' /\ AccountsOK' /\ CompletedIsPaid' /\ ProcessedIsSettled'
  BY <1>1, NoOneAssumption, PaidForStays DEF IInv, TypeOK, Monotone,
       Settled, Rows, NoRow, RowsOK, AccountsOK, CompletedIsPaid,
       ProcessedIsSettled, Withdraw, ledger, offers, access
<1>. QED BY <1>1, <1>2, <1>3, <1>4 DEF IInv

LEMMA ReceiveUnprocessedPreserves ==
    ASSUME IInv, NEW e \in Event, NEW t \in Tx, NEW c \in Claims,
           ReceiveUnprocessed(e, t, c)
    PROVE  IInv' /\ Monotone
<1>1. Monotone
  BY DEF IInv, TypeOK, Monotone, Settled, NoRow, Rows, ReceiveUnprocessed,
       Store, ledger, offers, access
<1>2. TypeOK'
  <2>1. faults' \in 0 .. MaxFaults
    BY FaultFacts DEF IInv, ReceiveUnprocessed
  <2>. QED
    BY <2>1, NoOneAssumption DEF IInv, TypeOK, TxStatus, Outcomes, Rows,
         NoRow, ReceiveUnprocessed, Store, ledger, offers, access
<1>3. JobsOK'
  BY <1>1, JobsUntouched DEF ReceiveUnprocessed, Store
<1>4. RowsOK' /\ AccountsOK' /\ CompletedIsPaid' /\ ProcessedIsSettled'
  BY <1>1, NoOneAssumption, PaidForStays DEF IInv, TypeOK, Monotone,
       Settled, Rows, NoRow, RowsOK, AccountsOK, CompletedIsPaid,
       ProcessedIsSettled, ReceiveUnprocessed, Store, ledger, offers, access
<1>. QED BY <1>1, <1>2, <1>3, <1>4 DEF IInv

LEMMA ExpirePreserves ==
    ASSUME IInv, NEW e \in Event, Expire(e) PROVE IInv' /\ Monotone
<1>1. Monotone
  BY DEF IInv, TypeOK, Monotone, Settled, NoRow, Rows, Expire, ledger,
       offers, access
<1>2. TypeOK'
  <2>1. faults' \in 0 .. MaxFaults
    BY FaultFacts DEF IInv, Expire
  <2>. QED
    BY <2>1, NoOneAssumption DEF IInv, TypeOK, TxStatus, Outcomes, Rows,
         NoRow, Expire, ledger, offers, access
<1>3. JobsOK'
  BY <1>1, JobsUntouched DEF Expire
<1>4. RowsOK' /\ AccountsOK' /\ CompletedIsPaid' /\ ProcessedIsSettled'
  BY <1>1, NoOneAssumption, PaidForStays DEF IInv, TypeOK, Monotone,
       Settled, Rows, NoRow, RowsOK, AccountsOK, CompletedIsPaid,
       ProcessedIsSettled, Expire, ledger, offers, access
<1>. QED BY <1>1, <1>2, <1>3, <1>4 DEF IInv

-----------------------------------------------------------------------------
(* Callback intake, the sweep and a crash: invocations begin and end. *)

(* A new invocation relies on nothing but its stored event. *)
LEMMA NewJobKeeps ==
    ASSUME IInv, Monotone, NEW w \in Worker, NEW e \in Event,
           event'[e] \in Rows, NEW isLive \in BOOLEAN,
           job' = [job EXCEPT ![w] = NewJob(e, isLive)]
    PROVE  job' \in [Worker -> Jobs \union {Idle}] /\ JobsOK'
<1>1. NewJob(e, isLive) \in Jobs
  BY DEF NewJob, Jobs, Steps
<1>2. /\ job' \in [Worker -> Jobs \union {Idle}]
      /\ \A v \in Worker \ {w} : job'[v] = job[v]
      /\ job'[w] = NewJob(e, isLive)
  BY <1>1 DEF IInv, TypeOK
<1>3. JobInv(w)'
  BY <1>2 DEF NewJob, JobInv
<1>. QED BY <1>2, <1>3, JobsFrame

(* Steps that leave the rows, the receipts, the events and Daraja alone. *)
LEMMA Unmoved ==
    ASSUME IInv, UNCHANGED <<status, receipt, event, outcome>> PROVE Monotone
BY DEF IInv, TypeOK, Monotone

LEMMA AccessStep ==
    ASSUME IInv,
           UNCHANGED <<ledger, receipt, event, offers, outcome>>,
           line' \in [Account -> BOOLEAN],
           radius' \in [Account -> BOOLEAN],
           \A a \in Account : line'[a] \/ radius'[a] => PaidFor(a),
           faults' \in 0 .. MaxFaults,
           job' \in [Worker -> Jobs \union {Idle}] /\ JobsOK'
    PROVE  IInv' /\ Monotone
<1>1. Monotone
  BY Unmoved DEF ledger
<1>2. TypeOK'
  BY DEF IInv, TypeOK, ledger, offers
<1>3. AccountsOK'
  BY DEF IInv, AccountsOK, PaidFor, ledger
<1>4. RowsOK' /\ CompletedIsPaid' /\ ProcessedIsSettled'
  BY DEF IInv, RowsOK, CompletedIsPaid, ProcessedIsSettled, ledger
<1>. QED BY <1>1, <1>2, <1>3, <1>4 DEF IInv

(* The same, when access to the router is left alone too. *)
LEMMA JobStep ==
    ASSUME IInv,
           UNCHANGED <<ledger, receipt, event, offers, access, outcome>>,
           faults' \in 0 .. MaxFaults,
           job' \in [Worker -> Jobs \union {Idle}] /\ JobsOK'
    PROVE  IInv' /\ Monotone
BY AccessStep DEF IInv, TypeOK, AccountsOK, access

LEMMA FinishStep ==
    ASSUME IInv, NEW w \in Worker, Finish(w),
           UNCHANGED <<ledger, receipt, event, offers, access, outcome>>,
           faults' \in 0 .. MaxFaults
    PROVE  IInv' /\ Monotone
BY Unmoved, FinishKeeps, JobStep DEF ledger

LEMMA SweepPreserves ==
    ASSUME IInv, NEW e \in Event, NEW w \in Worker, Sweep(e, w)
    PROVE  IInv' /\ Monotone
<1>1. event'[e] \in Rows
  BY DEF IInv, TypeOK, Sweep, NoRow
<1>2. Monotone /\ faults' \in 0 .. MaxFaults
  BY Unmoved DEF IInv, TypeOK, Sweep, ledger
<1>3. job' \in [Worker -> Jobs \union {Idle}] /\ JobsOK'
  BY <1>1, <1>2, NewJobKeeps DEF Sweep
<1>. QED BY <1>2, <1>3, JobStep DEF Sweep

LEMMA ReceivePreserves ==
    ASSUME IInv, NEW e \in Event, NEW t \in Tx, NEW c \in Claims,
           NEW w \in Worker, Receive(e, t, c, w)
    PROVE  IInv' /\ Monotone
<1>1. /\ event' \in [Event -> Rows \union {NoRow}]
      /\ event'[e] \in Rows
      /\ event'[e].status = "received"
      /\ \A f \in Event \ {e} : event'[f] = event[f]
      /\ event[e] \notin Rows
  BY NoOneAssumption DEF IInv, TypeOK, Receive, Store, Rows, NoRow
<1>2. Monotone
  BY <1>1 DEF Receive, Monotone, ledger
<1>3. job' \in [Worker -> Jobs \union {Idle}] /\ JobsOK'
  BY <1>1, <1>2, NewJobKeeps DEF Receive
<1>4. TypeOK'
  BY <1>1, <1>3 DEF IInv, TypeOK, Receive, ledger, offers, access
<1>5. ProcessedIsSettled'
  BY <1>1 DEF IInv, ProcessedIsSettled, Receive, ledger
<1>6. RowsOK' /\ AccountsOK' /\ CompletedIsPaid'
  BY DEF IInv, RowsOK, AccountsOK, PaidFor, CompletedIsPaid, Receive,
     ledger, access
<1>. QED BY <1>2, <1>3, <1>4, <1>5, <1>6 DEF IInv

LEMMA CrashPreserves ==
    ASSUME IInv, Crash PROVE IInv' /\ Monotone
<1>1. job' \in [Worker -> Jobs \union {Idle}] /\ JobsOK'
  BY DEF Crash, JobsOK, Busy
<1>2. faults' \in 0 .. MaxFaults
  BY FaultFacts DEF IInv, Crash
<1>. QED BY <1>1, <1>2, JobStep DEF Crash

-----------------------------------------------------------------------------
(* processMpesaCallback, await by await. *)

LEMMA SelectPendingPreserves ==
    ASSUME IInv, NEW w \in Worker, SelectPending(w) PROVE IInv' /\ Monotone
<1>1. Busy(w) /\ event[job[w].ev] \in Rows /\ JobInv(w)
  BY BusyFacts DEF SelectPending, At
<1>2. Monotone /\ faults' \in 0 .. MaxFaults
  BY Unmoved DEF IInv, TypeOK, SelectPending, ledger
<1>3. CASE MoveTo(w, "verify")
  <2>1. /\ job' \in [Worker -> Jobs \union {Idle}]
        /\ \A v \in Worker \ {w} : job'[v] = job[v]
        /\ job'[w].at = "verify"
        /\ job'[w].ev = job[w].ev
        /\ job'[w].good = job[w].good
        /\ job'[w].granting = job[w].granting
        /\ job'[w].was = job[w].was
    BY <1>1, <1>3, MoveToFacts DEF IInv, Steps
  <2>2. JobInv(w)'
    BY <1>1, <2>1 DEF JobInv, SelectPending, At, TxOf, AccOf, PaidFor, ledger
  <2>3. JobsOK'
    BY <1>2, <2>1, <2>2, JobsFrame
  <2>. QED BY <1>2, <2>1, <2>3, JobStep DEF SelectPending
<1>4. CASE Finish(w)
  BY <1>2, <1>4, FinishStep DEF SelectPending
<1>. QED BY <1>3, <1>4 DEF SelectPending

(* Daraja's word, not the body's, is what the invocation goes on with. *)
LEMMA VerifyStkPreserves ==
    ASSUME IInv, NEW w \in Worker, VerifyStk(w) PROVE IInv' /\ Monotone
<1>1. /\ Busy(w) /\ job[w] \in Jobs /\ job[w].ev \in Event
      /\ event[job[w].ev] \in Rows /\ TxOf(w) \in Tx /\ JobInv(w)
  BY BusyFacts DEF VerifyStk, At
<1>2. Monotone /\ faults' \in 0 .. MaxFaults
  BY Unmoved DEF IInv, TypeOK, VerifyStk, ledger
<1>3. CASE /\ Confirmed(TxOf(w), ClaimOf(w)) /\ ClaimOf(w) = "success"
           /\ job' = [job EXCEPT ![w].at = "receipt", ![w].good = TRUE]
  <2>1. /\ job' \in [Worker -> Jobs \union {Idle}]
        /\ \A v \in Worker \ {w} : job'[v] = job[v]
        /\ job'[w].at = "receipt"
        /\ job'[w].ev = job[w].ev
        /\ job'[w].good
        /\ job'[w].granting = job[w].granting
        /\ job'[w].was = job[w].was
    BY <1>1, <1>3 DEF IInv, TypeOK, Jobs, Steps
  <2>2. outcome[TxOf(w)] = "paid"
    BY <1>3 DEF Confirmed
  <2>3. JobInv(w)'
    BY <1>1, <2>1, <2>2 DEF JobInv, VerifyStk, TxOf, AccOf, PaidFor, ledger
  <2>4. JobsOK'
    BY <1>2, <2>1, <2>3, JobsFrame
  <2>. QED BY <1>2, <2>1, <2>4, JobStep DEF VerifyStk
<1>4. CASE /\ Confirmed(TxOf(w), ClaimOf(w)) /\ ClaimOf(w) # "success"
           /\ MoveTo(w, "settle")
  <2>1. outcome[TxOf(w)] = "declined" /\ ~job[w].good
    BY <1>1, <1>4 DEF Confirmed, JobInv, VerifyStk, At
  <2>2. job' \in [Worker -> Jobs \union {Idle}] /\ JobsOK'
    BY <1>1, <1>2, <1>4, <2>1, MoveToKeeps DEF Steps
  <2>. QED BY <1>2, <2>2, JobStep DEF VerifyStk
<1>5. CASE Finish(w)
  BY <1>2, <1>5, FinishStep DEF VerifyStk
<1>. QED BY <1>3, <1>4, <1>5 DEF VerifyStk

LEMMA VerifyFailsPreserves ==
    ASSUME IInv, NEW w \in Worker, VerifyFails(w) PROVE IInv' /\ Monotone
<1>1. faults' \in 0 .. MaxFaults
  BY FaultFacts DEF IInv, VerifyFails
<1>. QED BY <1>1, FinishStep DEF VerifyFails

(* Storing the receipt of a pending row that Daraja confirmed. *)
LEMMA ReceiptStored ==
    ASSUME IInv, NEW w \in Worker, At(w, "receipt"),
           receipt' = [receipt EXCEPT ![TxOf(w)] = TRUE],
           UNCHANGED <<ledger, event, offers, access, outcome>>,
           faults' \in 0 .. MaxFaults
    PROVE  /\ Monotone /\ receipt'[TxOf(w)]
           /\ job' \in [Worker -> Jobs \union {Idle}] /\ JobsOK' => IInv'
<1>1. /\ event[job[w].ev] \in Rows /\ TxOf(w) \in Tx
      /\ outcome[TxOf(w)] = "paid"
  BY BusyFacts DEF JobInv, At
<1>2. /\ receipt' \in [Tx -> BOOLEAN]
      /\ receipt'[TxOf(w)]
      /\ \A t \in Tx : receipt[t] => receipt'[t]
      /\ \A t \in Tx : receipt'[t] => receipt[t] \/ t = TxOf(w)
  BY <1>1 DEF IInv, TypeOK
<1>3. Monotone
  BY <1>2 DEF Monotone, ledger
<1>4. RowsOK' /\ CompletedIsPaid' /\ ProcessedIsSettled'
  BY <1>1, <1>2 DEF IInv, RowsOK, CompletedIsPaid, ProcessedIsSettled, ledger
<1>5. AccountsOK'
  BY <1>3, PaidForStays DEF IInv, AccountsOK, ledger, access
<1>6. ASSUME job' \in [Worker -> Jobs \union {Idle}] PROVE TypeOK'
  BY <1>2, <1>6 DEF IInv, TypeOK, ledger, offers, access
<1>. QED BY <1>2, <1>3, <1>4, <1>5, <1>6 DEF IInv

LEMMA SaveReceiptPreserves ==
    ASSUME IInv, NEW w \in Worker, SaveReceipt(w) PROVE IInv' /\ Monotone
<1>1. Busy(w) /\ JobInv(w) /\ job[w].good
  BY BusyFacts DEF SaveReceipt, At, JobInv
<1>2. faults' \in 0 .. MaxFaults
  BY DEF IInv, TypeOK, SaveReceipt
<1>3. CASE /\ receipt' = [receipt EXCEPT ![TxOf(w)] = TRUE]
           /\ MoveTo(w, AfterReceipt(w))
  <2>1. /\ Monotone /\ receipt'[TxOf(w)]
        /\ job' \in [Worker -> Jobs \union {Idle}] /\ JobsOK' => IInv'
    BY <1>2, <1>3, ReceiptStored DEF SaveReceipt
  <2>2. AfterReceipt(w) \in {"fetch", "settle"}
    BY DEF AfterReceipt
  <2>3. job' \in [Worker -> Jobs \union {Idle}] /\ JobsOK'
    BY <1>1, <1>3, <2>1, <2>2, MoveToKeeps DEF Steps
  <2>. QED BY <2>1, <2>3
<1>4. CASE Finish(w) /\ UNCHANGED receipt
  BY <1>2, <1>4, FinishStep DEF SaveReceipt
<1>. QED BY <1>3, <1>4 DEF SaveReceipt

LEMMA SaveReceiptFailsPreserves ==
    ASSUME IInv, NEW w \in Worker, SaveReceiptFails(w)
    PROVE  IInv' /\ Monotone
<1>1. faults' \in 0 .. MaxFaults
  BY FaultFacts DEF IInv, SaveReceiptFails
<1>2. CASE receipt' = [receipt EXCEPT ![TxOf(w)] = TRUE]
  <2>1. /\ Monotone
        /\ job' \in [Worker -> Jobs \union {Idle}] /\ JobsOK' => IInv'
    BY <1>1, <1>2, ReceiptStored DEF SaveReceiptFails
  <2>. QED BY <2>1, FinishKeeps DEF SaveReceiptFails
<1>3. CASE UNCHANGED receipt
  BY <1>1, <1>3, FinishStep DEF SaveReceiptFails
<1>. QED BY <1>2, <1>3 DEF SaveReceiptFails

(* What is remembered of the router was paid for when it was granted. *)
LEMMA FetchAccessPreserves ==
    ASSUME IInv, NEW w \in Worker, FetchAccess(w) PROVE IInv' /\ Monotone
<1>1. /\ Busy(w) /\ job[w] \in Jobs /\ job[w].ev \in Event
      /\ event[job[w].ev] \in Rows /\ TxOf(w) \in Tx /\ JobInv(w)
  BY BusyFacts DEF FetchAccess, At
<1>2. job[w].good /\ receipt[TxOf(w)] /\ outcome[TxOf(w)] = "paid"
  BY <1>1 DEF JobInv, FetchAccess, At
<1>3. PaidFor(AccOf(w))
  BY <1>1, <1>2 DEF PaidFor, AccOf
<1>4. PICK found \in BOOLEAN :
          job' = [job EXCEPT ![w].at = "enable", ![w].granting = TRUE,
                             ![w].was = found]
  <2>1. PICK unexpired \in BOOLEAN :
            job' = [job EXCEPT ![w].at = "enable", ![w].granting = TRUE,
                               ![w].was = IF Service[TxOf(w)] = "pppoe"
                                          THEN line[AccOf(w)]
                                          ELSE /\ standing[AccOf(w)] = "active"
                                               /\ unexpired]
    BY DEF FetchAccess
  <2>2. CASE Service[TxOf(w)] = "pppoe"
    <3>1. line[AccOf(w)] \in BOOLEAN
      BY <1>1, <2>2, AccountAssumption DEF IInv, TypeOK, AccOf
    <3>. QED BY <2>1, <2>2, <3>1
  <2>3. CASE Service[TxOf(w)] # "pppoe"
    BY <2>1, <2>3
  <2>. QED BY <2>2, <2>3
<1>5. Monotone /\ faults' \in 0 .. MaxFaults
  BY Unmoved DEF IInv, TypeOK, FetchAccess, ledger
<1>6. /\ job' \in [Worker -> Jobs \union {Idle}]
      /\ \A v \in Worker \ {w} : job'[v] = job[v]
      /\ job'[w].at = "enable"
      /\ job'[w].ev = job[w].ev
      /\ job'[w].good = job[w].good
  BY <1>1, <1>4 DEF IInv, TypeOK, Jobs, Steps
<1>7. JobInv(w)'
  BY <1>1, <1>2, <1>3, <1>6 DEF JobInv, FetchAccess, TxOf, AccOf, PaidFor,
     ledger
<1>8. JobsOK'
  BY <1>5, <1>6, <1>7, JobsFrame
<1>. QED BY <1>5, <1>6, <1>8, JobStep DEF FetchAccess

LEMMA FetchFailsPreserves ==
    ASSUME IInv, NEW w \in Worker, FetchFails(w) PROVE IInv' /\ Monotone
<1>1. faults' \in 0 .. MaxFaults
  BY FaultFacts DEF IInv, FetchFails
<1>. QED BY <1>1, FinishStep DEF FetchFails

(* The plan could not be read: the settlement goes on without a grant. *)
LEMMA FetchSkipsPreserves ==
    ASSUME IInv, NEW w \in Worker, FetchSkips(w) PROVE IInv' /\ Monotone
<1>1. Busy(w) /\ job[w].good /\ receipt[TxOf(w)]
  BY BusyFacts DEF FetchSkips, At, JobInv
<1>2. Monotone
  BY Unmoved DEF FetchSkips, ledger
<1>3. faults' \in 0 .. MaxFaults
  BY FaultFacts DEF IInv, FetchSkips
<1>4. job' \in [Worker -> Jobs \union {Idle}] /\ JobsOK'
  BY <1>1, <1>2, MoveToKeeps DEF FetchSkips, Steps
<1>. QED BY <1>3, <1>4, JobStep DEF FetchSkips

LEMMA LookupThrowsPreserves ==
    ASSUME IInv, NEW w \in Worker, LookupThrows(w) PROVE IInv' /\ Monotone
<1>1. faults' \in 0 .. MaxFaults
  BY FaultFacts DEF IInv, LookupThrows
<1>. QED BY <1>1, FinishStep DEF LookupThrows

(* Granting: the invocation knows that the account is paid for. *)
LEMMA GrantFacts ==
    ASSUME IInv, NEW w \in Worker, Busy(w),
           job[w].at \in {"enable", "radius", "undoRadius", "undoLine"}
    PROVE  /\ job[w].good /\ receipt[TxOf(w)]
           /\ PaidFor(AccOf(w)) /\ job[w].was \in BOOLEAN
BY BusyFacts DEF JobInv, PaidFor, AccOf, Jobs

LEMMA LineSet ==
    ASSUME IInv, NEW w \in Worker, NEW on \in BOOLEAN, PaidFor(AccOf(w))
    PROVE  LET after == [line EXCEPT ![AccOf(w)] = on]
           IN  /\ after \in [Account -> BOOLEAN]
               /\ \A a \in Account : after[a] => PaidFor(a)
BY DEF IInv, TypeOK, AccountsOK

LEMMA RadiusSet ==
    ASSUME IInv, NEW w \in Worker, NEW on \in BOOLEAN, PaidFor(AccOf(w))
    PROVE  LET after == [radius EXCEPT ![AccOf(w)] = on]
           IN  /\ after \in [Account -> BOOLEAN]
               /\ \A a \in Account : after[a] => PaidFor(a)
BY DEF IInv, TypeOK, AccountsOK

LEMMA AccessAsBefore ==
    ASSUME IInv
    PROVE  /\ line \in [Account -> BOOLEAN]
           /\ radius \in [Account -> BOOLEAN]
           /\ \A a \in Account : line[a] \/ radius[a] => PaidFor(a)
BY DEF IInv, TypeOK, AccountsOK

LEMMA EnableLinePreserves ==
    ASSUME IInv, NEW w \in Worker, EnableLine(w) PROVE IInv' /\ Monotone
<1>1. /\ Busy(w) /\ job[w].good /\ receipt[TxOf(w)]
      /\ PaidFor(AccOf(w)) /\ job[w].was \in BOOLEAN
  BY GrantFacts DEF EnableLine, At
<1>2. Monotone
  BY Unmoved DEF EnableLine, ledger
<1>3. faults' \in 0 .. MaxFaults
  BY DEF IInv, TypeOK, EnableLine
<1>4. job' \in [Worker -> Jobs \union {Idle}] /\ JobsOK'
  BY <1>1, <1>2, MoveToKeeps DEF EnableLine, Steps
<1>5. /\ line' \in [Account -> BOOLEAN]
      /\ \A a \in Account : line'[a] => PaidFor(a)
  BY <1>1, LineSet, AccessAsBefore DEF EnableLine
<1>6. /\ radius' \in [Account -> BOOLEAN]
      /\ \A a \in Account : radius'[a] => PaidFor(a)
  BY AccessAsBefore DEF EnableLine
<1>. QED BY <1>3, <1>4, <1>5, <1>6, AccessStep DEF EnableLine

LEMMA EnableLineFailsPreserves ==
    ASSUME IInv, NEW w \in Worker, EnableLineFails(w) PROVE IInv' /\ Monotone
<1>1. /\ Busy(w) /\ job[w].good /\ receipt[TxOf(w)]
      /\ PaidFor(AccOf(w)) /\ job[w].was \in BOOLEAN
  BY GrantFacts DEF EnableLineFails, At
<1>2. Monotone
  BY Unmoved DEF EnableLineFails, ledger
<1>3. faults' \in 0 .. MaxFaults
  BY FaultFacts DEF IInv, EnableLineFails
<1>4. job' \in [Worker -> Jobs \union {Idle}] /\ JobsOK'
  BY <1>1, <1>2, UndoKeeps DEF EnableLineFails
<1>5. /\ line' \in [Account -> BOOLEAN]
      /\ \A a \in Account : line'[a] => PaidFor(a)
  BY <1>1, LineSet, AccessAsBefore DEF EnableLineFails
<1>6. /\ radius' \in [Account -> BOOLEAN]
      /\ \A a \in Account : radius'[a] => PaidFor(a)
  BY AccessAsBefore DEF EnableLineFails
<1>. QED BY <1>3, <1>4, <1>5, <1>6, AccessStep DEF EnableLineFails

LEMMA EnableRadiusPreserves ==
    ASSUME IInv, NEW w \in Worker, EnableRadius(w) PROVE IInv' /\ Monotone
<1>1. /\ Busy(w) /\ job[w].good /\ receipt[TxOf(w)]
      /\ PaidFor(AccOf(w)) /\ job[w].was \in BOOLEAN
  BY GrantFacts DEF EnableRadius, At
<1>2. Monotone
  BY Unmoved DEF EnableRadius, ledger
<1>3. faults' \in 0 .. MaxFaults
  BY DEF IInv, TypeOK, EnableRadius
<1>4. job' \in [Worker -> Jobs \union {Idle}] /\ JobsOK'
  BY <1>1, <1>2, MoveToKeeps DEF EnableRadius, Steps
<1>5. /\ radius' \in [Account -> BOOLEAN]
      /\ \A a \in Account : radius'[a] => PaidFor(a)
  BY <1>1, RadiusSet, AccessAsBefore DEF EnableRadius
<1>6. /\ line' \in [Account -> BOOLEAN]
      /\ \A a \in Account : line'[a] => PaidFor(a)
  BY AccessAsBefore DEF EnableRadius
<1>. QED BY <1>3, <1>4, <1>5, <1>6, AccessStep DEF EnableRadius

LEMMA EnableRadiusFailsPreserves ==
    ASSUME IInv, NEW w \in Worker, EnableRadiusFails(w) PROVE IInv' /\ Monotone
<1>1. /\ Busy(w) /\ job[w].good /\ receipt[TxOf(w)]
      /\ PaidFor(AccOf(w)) /\ job[w].was \in BOOLEAN
  BY GrantFacts DEF EnableRadiusFails, At
<1>2. Monotone
  BY Unmoved DEF EnableRadiusFails, ledger
<1>3. faults' \in 0 .. MaxFaults
  BY FaultFacts DEF IInv, EnableRadiusFails
<1>4. job' \in [Worker -> Jobs \union {Idle}] /\ JobsOK'
  BY <1>1, <1>2, UndoKeeps DEF EnableRadiusFails
<1>5. /\ radius' \in [Account -> BOOLEAN]
      /\ \A a \in Account : radius'[a] => PaidFor(a)
  BY <1>1, RadiusSet, AccessAsBefore DEF EnableRadiusFails
<1>6. /\ line' \in [Account -> BOOLEAN]
      /\ \A a \in Account : line'[a] => PaidFor(a)
  BY AccessAsBefore DEF EnableRadiusFails
<1>. QED BY <1>3, <1>4, <1>5, <1>6, AccessStep DEF EnableRadiusFails

LEMMA UndoRadiusPreserves ==
    ASSUME IInv, NEW w \in Worker, UndoRadius(w) PROVE IInv' /\ Monotone
<1>1. /\ Busy(w) /\ job[w].good /\ receipt[TxOf(w)]
      /\ PaidFor(AccOf(w)) /\ job[w].was \in BOOLEAN
  BY GrantFacts DEF UndoRadius, At
<1>2. Monotone
  BY Unmoved DEF UndoRadius, ledger
<1>3. faults' \in 0 .. MaxFaults
  BY DEF IInv, TypeOK, UndoRadius
<1>4. job' \in [Worker -> Jobs \union {Idle}] /\ JobsOK'
  BY <1>1, <1>2, MoveToKeeps DEF UndoRadius, Steps
<1>5. /\ radius' \in [Account -> BOOLEAN]
      /\ \A a \in Account : radius'[a] => PaidFor(a)
  BY <1>1, RadiusSet, AccessAsBefore DEF UndoRadius
<1>6. /\ line' \in [Account -> BOOLEAN]
      /\ \A a \in Account : line'[a] => PaidFor(a)
  BY AccessAsBefore DEF UndoRadius
<1>. QED BY <1>3, <1>4, <1>5, <1>6, AccessStep DEF UndoRadius

LEMMA UndoLinePreserves ==
    ASSUME IInv, NEW w \in Worker, UndoLine(w) PROVE IInv' /\ Monotone
<1>1. /\ Busy(w) /\ job[w].good /\ receipt[TxOf(w)]
      /\ PaidFor(AccOf(w)) /\ job[w].was \in BOOLEAN
  BY GrantFacts DEF UndoLine, At
<1>2. Monotone
  BY Unmoved DEF UndoLine, ledger
<1>3. faults' \in 0 .. MaxFaults
  BY DEF IInv, TypeOK, UndoLine
<1>4. job' \in [Worker -> Jobs \union {Idle}] /\ JobsOK'
  BY <1>1, <1>2, FinishKeeps DEF UndoLine, Steps
<1>5. /\ line' \in [Account -> BOOLEAN]
      /\ \A a \in Account : line'[a] => PaidFor(a)
  BY <1>1, LineSet, AccessAsBefore DEF UndoLine
<1>6. /\ radius' \in [Account -> BOOLEAN]
      /\ \A a \in Account : radius'[a] => PaidFor(a)
  BY AccessAsBefore DEF UndoLine
<1>. QED BY <1>3, <1>4, <1>5, <1>6, AccessStep DEF UndoLine

LEMMA UndoFailsPreserves ==
    ASSUME IInv, NEW w \in Worker, UndoFails(w) PROVE IInv' /\ Monotone
<1>1. faults' \in 0 .. MaxFaults
  BY FaultFacts DEF IInv, UndoFails
<1>. QED BY <1>1, FinishStep DEF UndoFails

-----------------------------------------------------------------------------
(* The settlement, and what follows it. *)

(* The RPC closes its own pending row, and completes it only when good. *)
LEMMA RpcFacts ==
    ASSUME IInv, NEW t \in Tx, NEW ok \in BOOLEAN, SettleRpc(t, ok)
    PROVE  /\ status' \in [Tx -> TxStatus]
           /\ wallet' \in [Account -> Nat]
           /\ earnings' \in [Reseller -> Nat]
           /\ standing' \in [Account -> Standings]
           /\ status'[t] \in Settled
           /\ status'[t] = "completed" => ok
           /\ \A u \in Tx \ {t} : status'[u] = status[u]
           /\ \A a \in Account : standing'[a] = "active" =>
                  standing[a] = "active" \/ (ok /\ a = AccountOf[t])
<1>1. CASE ~ok
  <2>1. SettleFailed(t)
    BY <1>1 DEF SettleRpc
  <2>2. /\ status' = [status EXCEPT ![t] = "failed"]
        /\ wallet' = wallet /\ earnings' = earnings
    BY <2>1 DEF SettleFailed
  <2>3. /\ standing' \in [Account -> Standings]
        /\ \A a \in Account : standing'[a] = "active" => standing[a] = "active"
    BY <2>1 DEF IInv, TypeOK, SettleFailed, Standings
  <2>4. /\ status' \in [Tx -> TxStatus]
        /\ status'[t] = "failed"
        /\ \A u \in Tx \ {t} : status'[u] = status[u]
    BY <2>2 DEF IInv, TypeOK, TxStatus
  <2>5. wallet' \in [Account -> Nat] /\ earnings' \in [Reseller -> Nat]
    BY <2>2 DEF IInv, TypeOK
  <2>6. status'[t] \in Settled /\ status'[t] # "completed"
    BY <2>4 DEF Settled
  <2>7. \A a \in Account : standing'[a] = "active" =>
            standing[a] = "active" \/ (ok /\ a = AccountOf[t])
    BY <2>3
  <2>8. status'[t] = "completed" => ok
    BY <2>6
  <2>. QED BY <2>3, <2>4, <2>5, <2>6, <2>7, <2>8
<1>2. CASE ok
  <2>1. /\ status' \in [Tx -> TxStatus]
        /\ status'[t] \in Settled
        /\ \A u \in Tx \ {t} : status'[u] = status[u]
    BY <1>2 DEF IInv, TypeOK, SettleRpc, SettleCompleted, TxStatus, Settled
  <2>2. standing' \in [Account -> Standings]
    BY <1>2 DEF IInv, TypeOK, SettleRpc, SettleCompleted, Standings
  <2>3. \A a \in Account : standing'[a] = "active" =>
            standing[a] = "active" \/ a = AccountOf[t]
    BY <1>2 DEF IInv, TypeOK, SettleRpc, SettleCompleted
  <2>4. Amount[t] \in Nat
    BY AmountAssumption
  <2>5. wallet' \in [Account -> Nat]
    BY <1>2, <2>4 DEF IInv, TypeOK, SettleRpc, SettleCompleted, Credit
  <2>6. earnings' \in [Reseller -> Nat]
    BY <1>2, <2>4 DEF IInv, TypeOK, SettleRpc, SettleCompleted, Credit
  <2>7. \A a \in Account : standing'[a] = "active" =>
            standing[a] = "active" \/ (ok /\ a = AccountOf[t])
    BY <1>2, <2>3
  <2>8. status'[t] = "completed" => ok
    BY <1>2
  <2>. QED BY <2>1, <2>2, <2>5, <2>6, <2>7, <2>8
<1>. QED BY <1>1, <1>2

LEMMA Settling ==
    ASSUME IInv, NEW w \in Worker, At(w, "settle"),
           Settles(TxOf(w), job[w].good), SettleRpc(TxOf(w), job[w].good),
           UNCHANGED <<receipt, event, offers, access, outcome>>,
           faults' \in 0 .. MaxFaults
    PROVE  /\ Monotone /\ status'[TxOf(w)] \in Settled
           /\ job' \in [Worker -> Jobs \union {Idle}] /\ JobsOK' => IInv'
<1>1. /\ TxOf(w) \in Tx /\ job[w].good \in BOOLEAN
      /\ job[w].good => outcome[TxOf(w)] = "paid" /\ receipt[TxOf(w)]
      /\ ~job[w].good => outcome[TxOf(w)] = "declined"
  BY BusyFacts DEF At, Jobs, JobInv
<1>2. /\ status' \in [Tx -> TxStatus]
      /\ wallet' \in [Account -> Nat]
      /\ earnings' \in [Reseller -> Nat]
      /\ standing' \in [Account -> Standings]
      /\ status'[TxOf(w)] \in Settled
      /\ status'[TxOf(w)] = "completed" => job[w].good
      /\ \A u \in Tx \ {TxOf(w)} : status'[u] = status[u]
      /\ \A a \in Account : standing'[a] = "active" =>
             standing[a] = "active" \/ (job[w].good /\ a = AccOf(w))
  BY <1>1, RpcFacts DEF AccOf
<1>3. Monotone
  BY <1>2 DEF Monotone, Settles, Settled
<1>4. RowsOK' /\ CompletedIsPaid' /\ ProcessedIsSettled'
  <2>1. RowsOK' /\ CompletedIsPaid'
    BY <1>1, <1>2 DEF IInv, RowsOK, CompletedIsPaid, Settled
  <2>2. ASSUME NEW e \in Event, event[e].status = "processed"
        PROVE  event[e].tx \in Tx
    BY <2>2 DEF IInv, TypeOK, Rows, NoRow
  <2>3. ProcessedIsSettled'
    BY <1>3, <2>2 DEF IInv, ProcessedIsSettled, Monotone
  <2>. QED BY <2>1, <2>3
<1>5. AccountsOK'
  <2>1. job[w].good => PaidFor(AccOf(w))
    BY <1>1 DEF PaidFor, AccOf
  <2>2. \A a \in Account : line'[a] \/ radius'[a] \/ standing'[a] = "active"
                               => PaidFor(a)
    BY <1>2, <2>1 DEF IInv, AccountsOK, access
  <2>. QED BY <1>3, <2>2, PaidForStays DEF AccountsOK
<1>6. ASSUME job' \in [Worker -> Jobs \union {Idle}] PROVE TypeOK'
  BY <1>2, <1>6 DEF IInv, TypeOK, offers, access
<1>. QED BY <1>2, <1>3, <1>4, <1>5, <1>6 DEF IInv

LEMMA SettlePreserves ==
    ASSUME IInv, NEW w \in Worker, Settle(w) PROVE IInv' /\ Monotone
<1>1. Busy(w) /\ JobInv(w)
  BY BusyFacts DEF Settle, At
<1>2. faults' \in 0 .. MaxFaults
  BY DEF IInv, TypeOK, Settle
<1>3. CASE /\ Settles(TxOf(w), job[w].good)
           /\ SettleRpc(TxOf(w), job[w].good)
           /\ MoveTo(w, AfterSettle(w))
  <2>1. /\ Monotone /\ status'[TxOf(w)] \in Settled
        /\ job' \in [Worker -> Jobs \union {Idle}] /\ JobsOK' => IInv'
    BY <1>2, <1>3, Settling DEF Settle
  <2>2. /\ AfterSettle(w) \in {"save", "mark"}
        /\ AfterSettle(w) = "save" => job[w].good
    BY <1>1 DEF AfterSettle, JobInv
  <2>3. job[w].good => receipt'[TxOf(w)]
    BY <1>1 DEF JobInv, Settle, At
  <2>4. job' \in [Worker -> Jobs \union {Idle}] /\ JobsOK'
    BY <1>1, <1>3, <2>1, <2>2, <2>3, MoveToKeeps DEF Steps
  <2>. QED BY <2>1, <2>4
<1>4. CASE Undo(w) /\ UNCHANGED ledger
  <2>1. Monotone
    BY <1>4, Unmoved DEF Settle, ledger
  <2>2. job[w].good => receipt'[TxOf(w)]
    BY <1>1 DEF JobInv, Settle, At
  <2>3. job' \in [Worker -> Jobs \union {Idle}] /\ JobsOK'
    BY <1>1, <1>4, <2>1, <2>2, UndoKeeps
  <2>. QED BY <1>2, <1>4, <2>3, JobStep DEF Settle
<1>. QED BY <1>3, <1>4 DEF Settle

LEMMA SettleFailsPreserves ==
    ASSUME IInv, NEW w \in Worker, SettleFails(w) PROVE IInv' /\ Monotone
<1>1. Busy(w) /\ JobInv(w)
  BY BusyFacts DEF SettleFails, At
<1>2. faults' \in 0 .. MaxFaults
  BY FaultFacts DEF IInv, SettleFails
<1>3. job[w].good => receipt'[TxOf(w)]
  BY <1>1 DEF JobInv, SettleFails, At
<1>4. CASE /\ Settles(TxOf(w), job[w].good)
           /\ SettleRpc(TxOf(w), job[w].good)
  <2>1. /\ Monotone
        /\ job' \in [Worker -> Jobs \union {Idle}] /\ JobsOK' => IInv'
    BY <1>2, <1>4, Settling DEF SettleFails
  <2>. QED BY <1>1, <1>3, <2>1, UndoKeeps DEF SettleFails
<1>5. CASE UNCHANGED ledger
  <2>1. Monotone
    BY <1>5, Unmoved DEF SettleFails, ledger
  <2>2. job' \in [Worker -> Jobs \union {Idle}] /\ JobsOK'
    BY <1>1, <1>3, <2>1, UndoKeeps DEF SettleFails
  <2>. QED BY <1>2, <1>5, <2>2, JobStep DEF SettleFails
<1>. QED BY <1>4, <1>5 DEF SettleFails

(* The VLAN customer row, once the settlement has closed the transaction. *)
LEMMA StandingStep ==
    ASSUME IInv, NEW w \in Worker, At(w, "save"), MoveTo(w, "mark"),
           standing' \in [Account -> Standings],
           \A a \in Account : standing'[a] = "active" =>
               standing[a] = "active" \/ a = AccOf(w),
           UNCHANGED <<status, wallet, earnings, receipt, event, offers,
                       access, outcome>>,
           faults' \in 0 .. MaxFaults
    PROVE  IInv' /\ Monotone
<1>1. /\ Busy(w) /\ TxOf(w) \in Tx /\ status[TxOf(w)] \in Settled
      /\ job[w].good /\ receipt[TxOf(w)] /\ outcome[TxOf(w)] = "paid"
  BY BusyFacts DEF At, JobInv
<1>2. Monotone
  BY Unmoved
<1>3. job' \in [Worker -> Jobs \union {Idle}] /\ JobsOK'
  BY <1>1, <1>2, MoveToKeeps DEF Steps
<1>4. TypeOK'
  BY <1>3 DEF IInv, TypeOK, offers, access
<1>5. RowsOK' /\ CompletedIsPaid' /\ ProcessedIsSettled'
  BY DEF IInv, RowsOK, CompletedIsPaid, ProcessedIsSettled
<1>6. AccountsOK'
  <2>1. PaidFor(AccOf(w))
    BY <1>1 DEF PaidFor, AccOf
  <2>2. \A a \in Account : line'[a] \/ radius'[a] \/ standing'[a] = "active"
                               => PaidFor(a)
    BY <2>1 DEF IInv, AccountsOK, access
  <2>. QED BY <1>2, <2>2, PaidForStays DEF AccountsOK
<1>. QED BY <1>2, <1>3, <1>4, <1>5, <1>6 DEF IInv

LEMMA SaveRenewalPreserves ==
    ASSUME IInv, NEW w \in Worker, SaveRenewal(w) PROVE IInv' /\ Monotone
<1>1. /\ standing' \in [Account -> Standings]
      /\ \A a \in Account : standing'[a] = "active" =>
             standing[a] = "active" \/ a = AccOf(w)
  BY DEF IInv, TypeOK, SaveRenewal, Standings
<1>2. faults' \in 0 .. MaxFaults
  BY DEF IInv, TypeOK, SaveRenewal
<1>. QED BY <1>1, <1>2, StandingStep DEF SaveRenewal

LEMMA SaveRenewalFailsPreserves ==
    ASSUME IInv, NEW w \in Worker, SaveRenewalFails(w)
    PROVE  IInv' /\ Monotone
<1>1. /\ standing' \in [Account -> Standings]
      /\ \A a \in Account : standing'[a] = "active" =>
             standing[a] = "active" \/ a = AccOf(w)
  BY DEF IInv, TypeOK, SaveRenewalFails, Standings
<1>2. faults' \in 0 .. MaxFaults
  BY FaultFacts DEF IInv, SaveRenewalFails
<1>. QED BY <1>1, <1>2, StandingStep DEF SaveRenewalFails

(* An event is retired by an invocation that knows its row to be closed. *)
LEMMA MarkProcessedPreserves ==
    ASSUME IInv, NEW w \in Worker, MarkProcessed(w) PROVE IInv' /\ Monotone
<1> DEFINE ev == job[w].ev
<1>1. /\ ev \in Event /\ event[ev] \in Rows
      /\ status[event[ev].tx] \in Settled
  BY BusyFacts DEF MarkProcessed, At, JobInv, TxOf
<1>2. /\ event' \in [Event -> Rows \union {NoRow}]
      /\ event'[ev] \in Rows
      /\ event'[ev].tx = event[ev].tx
      /\ event'[ev].claim = event[ev].claim
      /\ \A f \in Event \ {ev} : event'[f] = event[f]
  <2>1. PICK s \in {event[ev].status, "processed"} :
            event' = [event EXCEPT ![ev].status = s]
    BY DEF MarkProcessed
  <2>. QED BY <1>1, <2>1 DEF IInv, TypeOK, Rows
<1>3. Monotone
  BY <1>1, <1>2 DEF Monotone, MarkProcessed, ledger
<1>4. job' \in [Worker -> Jobs \union {Idle}] /\ JobsOK'
  BY <1>3, FinishKeeps DEF MarkProcessed
<1>5. faults' \in 0 .. MaxFaults
  BY DEF IInv, TypeOK, MarkProcessed
<1>6. TypeOK'
  BY <1>2, <1>4, <1>5 DEF IInv, TypeOK, MarkProcessed, ledger, offers, access
<1>7. ProcessedIsSettled'
  BY <1>1, <1>2 DEF IInv, ProcessedIsSettled, MarkProcessed, ledger
<1>8. RowsOK' /\ AccountsOK' /\ CompletedIsPaid'
  BY DEF IInv, RowsOK, AccountsOK, PaidFor, CompletedIsPaid, MarkProcessed,
     ledger, access
<1>. QED BY <1>3, <1>4, <1>6, <1>7, <1>8 DEF IInv

LEMMA MarkFailsPreserves ==
    ASSUME IInv, NEW w \in Worker, MarkFails(w) PROVE IInv' /\ Monotone
<1>1. faults' \in 0 .. MaxFaults
  BY FaultFacts DEF IInv, MarkFails
<1>. QED BY <1>1, FinishStep DEF MarkFails

-----------------------------------------------------------------------------
(* The inductive invariant. *)

LEMMA InitHolds == Init => IInv
<1>. SUFFICES ASSUME Init PROVE IInv
  OBVIOUS
<1>1. TypeOK
  BY FaultAssumption DEF Init, TypeOK, TxStatus, Standings, Outcomes
<1>2. JobsOK
  BY DEF Init, JobsOK, Busy
<1>3. RowsOK /\ AccountsOK /\ CompletedIsPaid
  BY DEF Init, RowsOK, AccountsOK, CompletedIsPaid, Settled
<1>4. ProcessedIsSettled
  BY DEF Init, ProcessedIsSettled, NoRow
<1>. QED BY <1>1, <1>2, <1>3, <1>4 DEF IInv

LEMMA StepPreserves ==
    ASSUME IInv, Next PROVE IInv' /\ Monotone
<1>1. ASSUME NEW w \in Worker, Progress(w) PROVE IInv' /\ Monotone
  BY <1>1, SelectPendingPreserves, VerifyStkPreserves, SaveReceiptPreserves,
     FetchAccessPreserves, EnableLinePreserves, EnableRadiusPreserves,
     SettlePreserves, UndoRadiusPreserves, UndoLinePreserves,
     SaveRenewalPreserves, MarkProcessedPreserves DEF Progress
<1>2. ASSUME NEW w \in Worker, Failure(w) PROVE IInv' /\ Monotone
  BY <1>2, VerifyFailsPreserves, SaveReceiptFailsPreserves,
     FetchFailsPreserves, FetchSkipsPreserves, LookupThrowsPreserves,
     EnableLineFailsPreserves,
     EnableRadiusFailsPreserves, SettleFailsPreserves, UndoFailsPreserves,
     SaveRenewalFailsPreserves, MarkFailsPreserves DEF Failure
<1>3. CASE Callbacks
  BY <1>1, <1>2, <1>3, ReceiveUnprocessedPreserves, ReceivePreserves,
     ExpirePreserves, SweepPreserves DEF Callbacks
<1>4. CASE Surroundings
  BY <1>4, PromptPreserves, RefusePreserves, ReconcilePreserves,
     PayerAnswersPreserves, WithdrawPreserves DEF Surroundings
<1>5. CASE Crash
  BY <1>5, CrashPreserves
<1>. QED BY <1>3, <1>4, <1>5 DEF Next

LEMMA NextPreserves == IInv /\ [Next]_vars => IInv'
<1>1. ASSUME IInv, UNCHANGED vars PROVE IInv'
  BY <1>1 DEF vars, ledger, offers, access, IInv, TypeOK, JobsOK, JobInv,
     Busy, TxOf, AccOf, PaidFor, RowsOK, AccountsOK, CompletedIsPaid,
     ProcessedIsSettled
<1>. QED BY <1>1, StepPreserves

(* Every reachable state satisfies the inductive invariant: what each       *)
(* invocation learnt before its awaits is still good enough to act on.      *)
THEOREM Invariance == SafetySpec => []IInv
BY InitHolds, NextPreserves, PTL DEF SafetySpec

(* Every variable keeps its type; balances never become negative. *)
THEOREM TypeCorrect == SafetySpec => []TypeOK
<1>1. IInv => TypeOK
  BY DEF IInv
<1>. QED BY <1>1, Invariance, PTL

(* No transaction is completed that Daraja did not confirm as paid, or      *)
(* without its receipt (mpesa-route.ts, the checks before the settlement).  *)
THEOREM OnlyPaidCompletes == SafetySpec => []CompletedIsPaid
<1>1. IInv => CompletedIsPaid
  BY DEF IInv
<1>. QED BY <1>1, Invariance, PTL

(* No callback is retired as processed while its transaction is open, so    *)
(* the deferred sweep cannot lose a payment that way.                       *)
THEOREM RetiredIsClosed == SafetySpec => []ProcessedIsSettled
<1>1. IInv => ProcessedIsSettled
  BY DEF IInv
<1>. QED BY <1>1, Invariance, PTL

(* No grant and no rollback ever leaves access with an account for which no *)
(* confirmed payment with a receipt exists.                                 *)
THEOREM AccessIsPaidFor == SafetySpec => []AccessFollowsReceipt
<1>1. IInv => AccessFollowsReceipt
  BY DEF IInv, AccountsOK, PaidFor, AccessFollowsReceipt
<1>. QED BY <1>1, Invariance, PTL

(* Only the two receipt steps write a receipt, and only into a pending row. *)
LEMMA ReceiptsOfClosedRows ==
    ASSUME IInv, Next, NEW t \in Tx, status[t] \in Settled
    PROVE  receipt'[t] = receipt[t]
<1>1. ASSUME NEW w \in Worker, Progress(w) PROVE receipt'[t] = receipt[t]
  BY <1>1 DEF Progress, IInv, TypeOK, Settled, SelectPending, VerifyStk,
     SaveReceipt, FetchAccess, EnableLine, EnableRadius, Settle, UndoRadius,
     UndoLine, SaveRenewal, MarkProcessed
<1>2. ASSUME NEW w \in Worker, Failure(w) PROVE receipt'[t] = receipt[t]
  BY <1>2 DEF Failure, IInv, TypeOK, Settled, VerifyFails, SaveReceiptFails,
     FetchFails, FetchSkips, LookupThrows, EnableLineFails,
     EnableRadiusFails, SettleFails, UndoFails, SaveRenewalFails, MarkFails
<1>3. CASE Callbacks
  BY <1>1, <1>2, <1>3 DEF Callbacks, ReceiveUnprocessed, Receive, Expire,
     Sweep
<1>4. CASE Surroundings
  BY <1>4 DEF Surroundings, Prompt, Refuse, Reconcile, PayerAnswers, Withdraw
<1>. QED BY <1>3, <1>4 DEF Next, Crash

(* However callbacks are replayed, a closed transaction keeps its status    *)
(* and its receipt (mpesa-route.ts, the conditional updates and the RPC).   *)
THEOREM ClosedForGood == SafetySpec => SettledIsFinal
<1>1. IInv /\ [Next]_vars =>
          [\A t \in Tx : status[t] \in Settled =>
               status'[t] = status[t] /\ receipt'[t] = receipt[t]]_vars
  <2>1. ASSUME IInv, Next
        PROVE  \A t \in Tx : status[t] \in Settled =>
                   status'[t] = status[t] /\ receipt'[t] = receipt[t]
    BY <2>1, StepPreserves, ReceiptsOfClosedRows DEF Monotone
  <2>. QED BY <2>1
<1>. QED BY <1>1, Invariance, PTL DEF SafetySpec, SettledIsFinal

-----------------------------------------------------------------------------
(* MpesaSettlement implements PaymentPromise: every step is one step of the *)
(* promise, or changes nothing that the promise is about.                   *)

PromiseStep == Promise!Next \/ UNCHANGED Promise!promise

LEMMA Stutters ==
    ASSUME IInv, IInv', UNCHANGED <<wallet, earnings>>,
           \A t \in Tx : Phase'[t] = Phase[t],
           \A t \in Tx : PayersAnswer'[t] = PayersAnswer[t]
    PROVE  PromiseStep
<1>1. Phase' = Phase
  BY DEF Phase
<1>2. PayersAnswer' = PayersAnswer
  BY DEF PayersAnswer
<1>. QED BY <1>1, <1>2 DEF PromiseStep, Promise!promise

(* The steps that leave the ledger and Daraja alone. *)
LEMMA Unseen ==
    ASSUME IInv, IInv', UNCHANGED <<status, wallet, earnings, outcome>>
    PROVE  PromiseStep
BY Stutters DEF Phase, PayersAnswer

(* How a closed row shows in the promise. *)
LEMMA PhaseCloses ==
    ASSUME IInv, IInv', NEW t \in Tx, NEW s \in Settled,
           status[t] \notin Settled, status' = [status EXCEPT ![t] = s]
    PROVE  Phase[t] = "open" /\ Phase' = [Phase EXCEPT ![t] = s]
BY DEF IInv, TypeOK, Phase

LEMMA RefuseKeepsPromise ==
    ASSUME IInv, IInv', NEW t \in Tx, Refuse(t) PROVE PromiseStep
<1>1. Phase[t] = "open" /\ Phase' = [Phase EXCEPT ![t] = "failed"]
  BY PhaseCloses DEF Refuse, Settled
<1>2. PayersAnswer[t] # "paid" /\ PayersAnswer' = PayersAnswer
  BY DEF Refuse, PayersAnswer
<1>3. Promise!CloseUnpaid(t)
  BY <1>1, <1>2 DEF Promise!CloseUnpaid, Refuse
<1>. QED BY <1>3 DEF PromiseStep, Promise!Next

(* The payer can only answer a prompt of a row that is still open. *)
LEMMA PayerAnswersKeepsPromise ==
    ASSUME IInv, IInv', NEW t \in Tx, PayerAnswers(t) PROVE PromiseStep
<1>1. PICK o \in {"paid", "declined"} : outcome' = [outcome EXCEPT ![t] = o]
  BY DEF PayerAnswers
<1>2. Phase[t] = "open" /\ Phase' = Phase
  BY DEF IInv, RowsOK, PayerAnswers, Phase, ledger
<1>3. /\ PayersAnswer[t] = "none"
      /\ PayersAnswer' = [PayersAnswer EXCEPT ![t] = o]
  BY <1>1 DEF IInv, TypeOK, PayerAnswers, PayersAnswer
<1>4. Promise!Answers(t, o)
  BY <1>2, <1>3 DEF Promise!Answers, PayerAnswers, ledger
<1>. QED BY <1>4 DEF PromiseStep, Promise!Next

(* The settlement is the one step that hands out what was paid. *)
LEMMA SettlingKeepsPromise ==
    ASSUME IInv, IInv', NEW w \in Worker, At(w, "settle"),
           Settles(TxOf(w), job[w].good), SettleRpc(TxOf(w), job[w].good),
           UNCHANGED outcome
    PROVE  PromiseStep
<1> DEFINE t == TxOf(w)
<1>1. /\ t \in Tx /\ job[w].good \in BOOLEAN
      /\ job[w].good => outcome[t] = "paid"
      /\ ~job[w].good => outcome[t] = "declined"
      /\ status[t] \notin Settled
  BY BusyFacts DEF At, Jobs, JobInv, Settles, Settled
<1>2. PayersAnswer' = PayersAnswer /\ PayersAnswer[t] = outcome[t]
  BY <1>1 DEF PayersAnswer
<1>3. CASE ~job[w].good
  <2>1. status' = [status EXCEPT ![t] = "failed"]
        /\ UNCHANGED <<wallet, earnings>>
    BY <1>3 DEF SettleRpc, SettleFailed
  <2>2. Phase[t] = "open" /\ Phase' = [Phase EXCEPT ![t] = "failed"]
    BY <1>1, <2>1, PhaseCloses DEF Settled
  <2>3. Promise!CloseUnpaid(t)
    BY <1>1, <1>2, <1>3, <2>1, <2>2 DEF Promise!CloseUnpaid
  <2>. QED BY <1>1, <2>3 DEF PromiseStep, Promise!Next
<1>4. CASE job[w].good
  <2>1. SettleCompleted(t)
    BY <1>4 DEF SettleRpc
  <2>2. PICK s \in {"completed"} \union
                   (IF Service[t] \in {"pppoe", "vlan"} THEN {"failed"}
                                                        ELSE {}) :
            status' = [status EXCEPT ![t] = s]
    BY <2>1 DEF SettleCompleted, Unapplied, Renewals
  <2>3. Phase[t] = "open" /\ Phase' = [Phase EXCEPT ![t] = s]
    BY <1>1, <2>2, PhaseCloses DEF Settled
  <2>4. Promise!ClosePaid(t)
    BY <1>1, <1>2, <1>4, <2>1, <2>2, <2>3
       DEF Promise!ClosePaid, Promise!Plus, SettleCompleted, Credit
  <2>. QED BY <1>1, <2>4 DEF PromiseStep, Promise!Next
<1>. QED BY <1>1, <1>3, <1>4

LEMMA NextKeepsPromise ==
    ASSUME IInv, IInv', Next PROVE PromiseStep
<1>1. ASSUME NEW w \in Worker, Progress(w) PROVE PromiseStep
  <2>1. CASE Settle(w)
    <3>1. CASE Settles(TxOf(w), job[w].good)
      BY <2>1, <3>1, SettlingKeepsPromise DEF Settle
    <3>2. CASE ~Settles(TxOf(w), job[w].good)
      BY <2>1, <3>2, Unseen DEF Settle, ledger
    <3>. QED BY <3>1, <3>2
  <2>2. CASE ~Settle(w)
    BY <1>1, <2>2, Unseen DEF Progress, SelectPending, VerifyStk, SaveReceipt,
       FetchAccess, EnableLine, EnableRadius, UndoRadius, UndoLine,
       SaveRenewal, MarkProcessed, ledger
  <2>. QED BY <2>1, <2>2
<1>2. ASSUME NEW w \in Worker, Failure(w) PROVE PromiseStep
  <2>1. CASE SettleFails(w)
    BY <2>1, SettlingKeepsPromise, Unseen DEF SettleFails, ledger
  <2>2. CASE ~SettleFails(w)
    BY <1>2, <2>2, Unseen DEF Failure, VerifyFails, SaveReceiptFails,
       FetchFails, FetchSkips, LookupThrows, EnableLineFails,
       EnableRadiusFails, UndoFails, SaveRenewalFails, MarkFails, ledger
  <2>. QED BY <2>1, <2>2
<1>3. CASE Callbacks
  BY <1>1, <1>2, <1>3, Unseen DEF Callbacks, ReceiveUnprocessed, Receive,
     Expire, Sweep, ledger
<1>4. ASSUME NEW t \in Tx, Prompt(t) \/ Reconcile(t) PROVE PromiseStep
  <2>1. \A u \in Tx : Phase'[u] = Phase[u]
    BY <1>4 DEF IInv, TypeOK, Phase, Prompt, Reconcile, Settled, ledger
  <2>2. \A u \in Tx : PayersAnswer'[u] = PayersAnswer[u]
    BY <1>4 DEF IInv, TypeOK, PayersAnswer, Prompt, Reconcile
  <2>. QED BY <1>4, <2>1, <2>2, Stutters DEF Prompt, Reconcile, ledger
<1>5. CASE Surroundings
  BY <1>4, <1>5, RefuseKeepsPromise, PayerAnswersKeepsPromise, Unseen
     DEF Surroundings, Withdraw, ledger
<1>6. CASE Crash
  BY <1>6, Unseen DEF Crash, ledger
<1>. QED BY <1>3, <1>5, <1>6 DEF Next

(* The settlement implements the promise of a checkout: whatever callbacks  *)
(* are posted, replayed or lost, it is closed once, and only the closing of *)
(* a paid checkout credits the wallet and the reseller, in that same step.  *)
THEOREM ImplementsPromise == SafetySpec => KeepsPromise
<1>1. Init => Promise!Init
  BY DEF Init, Promise!Init, Phase, PayersAnswer, Settled
<1>2. IInv /\ IInv' /\ [Next]_vars => [Promise!Next]_Promise!promise
  <2>1. ASSUME IInv, IInv', Next PROVE PromiseStep
    BY <2>1, NextKeepsPromise
  <2>2. ASSUME IInv, IInv', UNCHANGED vars PROVE PromiseStep
    BY <2>2, Unseen DEF vars, ledger
  <2>. QED BY <2>1, <2>2 DEF PromiseStep
<1>. QED BY <1>1, <1>2, Invariance, PTL
         DEF SafetySpec, KeepsPromise, Promise!Spec

-----------------------------------------------------------------------------
(* Sums over finite sets.  Induction is by least counterexample: a set of   *)
(* numbers that is not empty has a least element.                           *)

Below == {ss \in Nat \X Nat : ss[1] < ss[2]}

LEMMA LeastNumber ==
    ASSUME NEW N \in SUBSET Nat, N # {}
    PROVE  \E n \in N : \A m \in N : n <= m
<1>1. IsWellFoundedOn(Below, Nat)
  BY NatLessThanWellFounded DEF OpToRel, Below
<1>2. PICK n \in N : \A m \in N : <<m, n>> \notin Below
  BY <1>1, WFMin
<1>3. \A m \in N : ~(m < n)
  BY <1>2 DEF Below
<1>. QED BY <1>3

LEMMA InductiveIsNat ==
    ASSUME NEW P \in SUBSET Nat, 0 \in P, \A n \in P : n + 1 \in P
    PROVE  P = Nat
<1>1. SUFFICES ASSUME Nat \ P # {} PROVE FALSE
  OBVIOUS
<1>2. PICK n \in Nat \ P : \A m \in Nat \ P : n <= m
  BY <1>1, LeastNumber
<1>3. n # 0 /\ n - 1 \in Nat
  BY <1>2
<1>4. n - 1 \in P
  BY <1>2, <1>3
<1>. QED BY <1>2, <1>3, <1>4

(* The recursion by which the fold over S goes through its subsets. *)
Pick(S) == CHOOSE t \in S : TRUE
Unfolded(f, s) == IF s = {} THEN 0 ELSE Amount[Pick(s)] + f[s \ {Pick(s)}]
Sums(f, S) == f = [s \in SUBSET S |-> Unfolded(f, s)]

LEMMA TotalIsRecursive ==
    ASSUME NEW S \in SUBSET Tx PROVE TotalOf[S] = (CHOOSE f : Sums(f, S))[S]
BY DEF TotalOf, MapThenSumSet, MapThenFoldSet, Sums, Unfolded, Pick

LEMMA PickFacts ==
    ASSUME NEW S \in SUBSET Tx, S # {}
    PROVE  /\ Pick(S) \in S
           /\ S \ {Pick(S)} \in SUBSET Tx
           /\ Amount[Pick(S)] \in Nat
           /\ IsFiniteSet(S) /\ IsFiniteSet(S \ {Pick(S)})
           /\ Cardinality(S) \in Nat
           /\ Cardinality(S \ {Pick(S)}) \in Nat
           /\ Cardinality(S \ {Pick(S)}) = Cardinality(S) - 1
<1>1. Pick(S) \in S
  BY DEF Pick
<1>2. IsFiniteSet(S)
  BY TxAssumption, FS_Subset
<1>3. /\ IsFiniteSet(S \ {Pick(S)})
      /\ Cardinality(S \ {Pick(S)}) = Cardinality(S) - 1
  BY <1>1, <1>2, FS_RemoveElement
<1>. QED BY <1>1, <1>2, <1>3, FS_CardinalityType, AmountAssumption

LEMMA SumsExist ==
    ASSUME NEW S \in SUBSET Tx
    PROVE  \E f \in [SUBSET S -> Nat] : Sums(f, S)
<1> DEFINE Upto(f, n) == \A s \in SUBSET S :
                             Cardinality(s) <= n => f[s] = Unfolded(f, s)
           P == {n \in Nat : \E f \in [SUBSET S -> Nat] : Upto(f, n)}
<1>1. 0 \in P
  <2>1. \A s \in SUBSET S : Cardinality(s) <= 0 => s = {}
    <3>1. SUFFICES ASSUME NEW s \in SUBSET S, s # {}, Cardinality(s) <= 0
                   PROVE  FALSE
      OBVIOUS
    <3>2. IsFiniteSet(s) /\ Cardinality(s) \in Nat
      BY <3>1, PickFacts
    <3>. QED BY <3>1, <3>2, FS_EmptySet
  <2>2. Upto([s \in SUBSET S |-> 0], 0)
    BY <2>1 DEF Unfolded
  <2>. QED BY <2>2
<1>2. ASSUME NEW n \in P PROVE n + 1 \in P
  <2>1. PICK f \in [SUBSET S -> Nat] : Upto(f, n)
    OBVIOUS
  <2> DEFINE g == [s \in SUBSET S |-> Unfolded(f, s)]
  <2>2. ASSUME NEW s \in SUBSET S, s # {}
        PROVE  /\ Pick(s) \in s /\ Amount[Pick(s)] \in Nat
               /\ Cardinality(s) \in Nat
               /\ s \ {Pick(s)} \in SUBSET S
               /\ Cardinality(s \ {Pick(s)}) = Cardinality(s) - 1
    BY <2>2, PickFacts
  <2>3. ASSUME NEW s \in SUBSET S PROVE Unfolded(f, s) \in Nat
    <3>1. CASE s = {}
      BY <3>1 DEF Unfolded
    <3>2. CASE s # {}
      <4>1. Amount[Pick(s)] \in Nat /\ f[s \ {Pick(s)}] \in Nat
        BY <2>1, <2>2, <3>2
      <4>. QED BY <3>2, <4>1 DEF Unfolded
    <3>. QED BY <3>1, <3>2
  <2>4. g \in [SUBSET S -> Nat]
    BY <2>3
  <2>5. ASSUME NEW s \in SUBSET S, Cardinality(s) <= n + 1
        PROVE  g[s] = Unfolded(g, s)
    <3>1. CASE s = {}
      BY <3>1 DEF Unfolded
    <3>2. CASE s # {}
      <4> DEFINE r == s \ {Pick(s)}
      <4>1. /\ r \in SUBSET S
            /\ Cardinality(s) \in Nat /\ Cardinality(r) = Cardinality(s) - 1
        BY <2>2, <3>2
      <4>2. n \in Nat
        OBVIOUS
      <4>3. Cardinality(r) <= n
        BY <2>5, <4>1, <4>2
      <4>4. g[r] = f[r]
        BY <2>1, <4>1, <4>3
      <4>5. g[s] = Unfolded(f, s)
        OBVIOUS
      <4>. QED BY <3>2, <4>4, <4>5 DEF Unfolded
    <3>. QED BY <3>1, <3>2
  <2>6. Upto(g, n + 1)
    BY <2>5
  <2>. HIDE DEF g
  <2>. QED BY <2>4, <2>6
<1>3. P = Nat
  <2>. HIDE DEF P
  <2>1. P \in SUBSET Nat
    BY DEF P
  <2>. QED BY <1>1, <1>2, <2>1, InductiveIsNat
<1>4. IsFiniteSet(S) /\ Cardinality(S) \in P
  BY <1>3, TxAssumption, FS_Subset, FS_CardinalityType
<1>5. PICK f \in [SUBSET S -> Nat] : Upto(f, Cardinality(S))
  BY <1>4
<1>6. \A s \in SUBSET S : f[s] = Unfolded(f, s)
  BY <1>4, <1>5, FS_Subset
<1>7. f = [s \in SUBSET S |-> Unfolded(f, s)]
  BY <1>6
<1>. QED BY <1>7 DEF Sums

LEMMA SumsAgree ==
    ASSUME NEW S \in SUBSET Tx, NEW R \in SUBSET Tx, NEW f, NEW g,
           Sums(f, S), Sums(g, R)
    PROVE  \A s \in SUBSET (S \cap R) : f[s] = g[s]
<1> DEFINE C == {s \in SUBSET (S \cap R) : f[s] # g[s]}
           N == {n \in Nat : \E s \in C : Cardinality(s) = n}
<1>1. SUFFICES ASSUME C # {} PROVE FALSE
  OBVIOUS
<1>2. \A s \in C : s # {}
  BY DEF Sums, Unfolded
<1>3. N # {}
  BY <1>1, <1>2, PickFacts
<1>4. PICK n \in N : \A m \in N : n <= m
  BY <1>3, LeastNumber
<1>5. PICK s \in C : Cardinality(s) = n
  BY <1>4
<1> DEFINE r == s \ {Pick(s)}
<1>6. r \in SUBSET (S \cap R) /\ Cardinality(r) \in Nat /\ Cardinality(r) < n
  <2>1. s \in SUBSET Tx /\ s # {}
    BY <1>2, <1>5
  <2>2. Cardinality(r) \in Nat /\ Cardinality(r) = n - 1
    BY <1>5, <2>1, PickFacts
  <2>. QED BY <2>2
<1>7. f[r] = g[r]
  BY <1>4, <1>6
<1>8. f[s] = Unfolded(f, s) /\ g[s] = Unfolded(g, s)
  <2>1. s \in SUBSET S /\ s \in SUBSET R
    BY <1>5
  <2>. QED BY <2>1 DEF Sums
<1>. QED BY <1>2, <1>5, <1>7, <1>8 DEF Unfolded

(* What the fold computes: nothing for no transaction, and otherwise the    *)
(* amount of the one it takes and the total of the rest.                    *)
LEMMA TotalUnfolds ==
    ASSUME NEW S \in SUBSET Tx
    PROVE  /\ TotalOf[S] \in Nat
           /\ S = {} => TotalOf[S] = 0
           /\ S # {} => TotalOf[S] = Amount[Pick(S)] + TotalOf[S \ {Pick(S)}]
<1> DEFINE F(R) == CHOOSE f : Sums(f, R)
<1>1. ASSUME NEW R \in SUBSET Tx PROVE Sums(F(R), R) /\ TotalOf[R] = F(R)[R]
  BY SumsExist, TotalIsRecursive
<1>2. PICK f \in [SUBSET S -> Nat] : Sums(f, S)
  BY SumsExist
<1>. HIDE DEF F
<1>3. TotalOf[S] = f[S]
  BY <1>1, <1>2, SumsAgree
<1>4. TotalOf[S] = Unfolded(f, S)
  BY <1>2, <1>3 DEF Sums
<1>5. CASE S # {}
  <2> DEFINE R == S \ {Pick(S)}
  <2>1. R \in SUBSET Tx
    OBVIOUS
  <2>2. Sums(F(R), R) /\ TotalOf[R] = F(R)[R]
    BY <1>1, <2>1
  <2>3. F(R)[R] = f[R]
    BY <1>2, <2>1, <2>2, SumsAgree
  <2>. QED BY <1>2, <1>3, <1>4, <1>5, <2>2, <2>3 DEF Unfolded
<1>. QED BY <1>2, <1>3, <1>4, <1>5 DEF Unfolded

(* The order in which the fold goes through the set does not matter. *)
LEMMA TotalRemoves ==
    ASSUME NEW S \in SUBSET Tx, NEW t \in S
    PROVE  TotalOf[S] = Amount[t] + TotalOf[S \ {t}]
<1> DEFINE C == {R \in SUBSET Tx :
                   \E u \in R : TotalOf[R] # Amount[u] + TotalOf[R \ {u}]}
           N == {n \in Nat : \E R \in C : Cardinality(R) = n}
<1>1. SUFFICES ASSUME C # {} PROVE FALSE
  OBVIOUS
<1>2. N # {}
  BY <1>1, PickFacts
<1>3. PICK n \in N : \A m \in N : n <= m
  BY <1>2, LeastNumber
<1>4. PICK R \in C : Cardinality(R) = n
  BY <1>3
<1>5. PICK u \in R : TotalOf[R] # Amount[u] + TotalOf[R \ {u}]
  BY <1>4
<1> DEFINE p == Pick(R)
<1>6. TotalOf[R] = Amount[p] + TotalOf[R \ {p}]
  BY <1>4, <1>5, TotalUnfolds
<1>7. p \in R /\ p # u
  BY <1>4, <1>5, <1>6, PickFacts
<1>8. ASSUME NEW Q \in SUBSET Tx, Q \subseteq R, Q # R
      PROVE  \A q \in Q : TotalOf[Q] = Amount[q] + TotalOf[Q \ {q}]
  <2>1. IsFiniteSet(R) /\ Cardinality(Q) \in Nat /\ Cardinality(Q) < n
    BY <1>4, <1>8, TxAssumption, FS_Subset, FS_CardinalityType
  <2>2. Q \notin C
    BY <1>3, <2>1
  <2>. QED BY <2>2
<1>9. TotalOf[R \ {p}] = Amount[u] + TotalOf[(R \ {p}) \ {u}]
  BY <1>4, <1>5, <1>7, <1>8
<1>10. TotalOf[R \ {u}] = Amount[p] + TotalOf[(R \ {u}) \ {p}]
  BY <1>4, <1>5, <1>7, <1>8
<1>11. (R \ {p}) \ {u} = (R \ {u}) \ {p}
  OBVIOUS
<1> DEFINE rest == TotalOf[(R \ {u}) \ {p}]
<1>12. Amount[p] \in Nat /\ Amount[u] \in Nat /\ rest \in Nat
  BY <1>4, <1>5, <1>7, TotalUnfolds, AmountAssumption
<1>13. /\ TotalOf[R] = Amount[p] + (Amount[u] + rest)
       /\ TotalOf[R \ {u}] = Amount[p] + rest
  BY <1>6, <1>9, <1>10, <1>11
<1>14. TotalOf[R] # Amount[u] + (Amount[p] + rest)
  BY <1>5, <1>13
<1>. HIDE DEF p, rest, C, N
<1>. QED BY <1>12, <1>13, <1>14

LEMMA TotalAdds ==
    ASSUME NEW S \in SUBSET Tx, NEW t \in Tx \ S
    PROVE  TotalOf[S \union {t}] = TotalOf[S] + Amount[t]
<1>1. (S \union {t}) \ {t} = S
  OBVIOUS
<1>2. TotalOf[S \union {t}] = Amount[t] + TotalOf[S]
  BY <1>1, TotalRemoves
<1>3. Amount[t] \in Nat /\ TotalOf[S] \in Nat
  BY TotalUnfolds, AmountAssumption
<1>. QED BY <1>2, <1>3

-----------------------------------------------------------------------------
(* The balances of the promise: each wallet and each reseller's earnings    *)
(* are the sum of the payments whose closing handed out an amount to them.  *)

Bought(a) == {t \in Tx : /\ Service[t] = "hotspot"
                         /\ AccountOf[t] = a
                         /\ Phase[t] = "completed"}
Sold(r) == {t \in Tx : /\ ResellerOf[t] = r
                       /\ PayersAnswer[t] = "paid"
                       /\ Phase[t] # "open"}
Balanced == /\ \A a \in Account : wallet[a] = TotalOf[Bought(a)]
            /\ \A r \in Reseller : earnings[r] = TotalOf[Sold(r)]

LEMMA BalancedIsLedger == ASSUME TypeOK PROVE Balanced <=> LedgerBalances
<1>1. ASSUME NEW a \in Account
      PROVE  Bought(a) = {t \in Tx : /\ Service[t] = "hotspot"
                                     /\ AccountOf[t] = a
                                     /\ status[t] = "completed"}
  BY DEF Bought, Phase, Settled
<1>2. ASSUME NEW r \in Reseller
      PROVE  Sold(r) = {t \in Tx : /\ ResellerOf[t] = r
                                   /\ outcome[t] = "paid"
                                   /\ status[t] \in Settled}
  BY DEF Sold, Phase, PayersAnswer, Settled
<1>. QED BY <1>1, <1>2 DEF Balanced, LedgerBalances

(* A step that moves no transaction into a sum, and no money. *)
LEMMA SumsUntouched ==
    ASSUME Balanced, UNCHANGED <<wallet, earnings>>,
           \A a \in Account : Bought(a)' = Bought(a),
           \A r \in Reseller : Sold(r)' = Sold(r)
    PROVE  Balanced'
BY DEF Balanced

(* Plus is what Total asks for when a transaction joins the sum of who. *)
LEMMA ClosePaidBalances ==
    ASSUME TypeOK, Balanced, NEW t \in Tx, Promise!ClosePaid(t)
    PROVE  Balanced'
<1>1. PICK p \in {"completed"} \union
                 (IF Service[t] \in {"pppoe", "vlan"} THEN {"failed"} ELSE {}) :
          Phase' = [Phase EXCEPT ![t] = p]
  BY DEF Promise!ClosePaid
<1>2. /\ Phase[t] = "open" /\ PayersAnswer[t] = "paid"
      /\ PayersAnswer' = PayersAnswer
      /\ p \in {"completed", "failed"}
      /\ Service[t] = "hotspot" => p = "completed"
      /\ \A u \in Tx : Phase'[u] = IF u = t THEN p ELSE Phase[u]
  BY <1>1 DEF Promise!ClosePaid, Phase
<1>3. Amount[t] \in Nat
  BY AmountAssumption
<1>4. ASSUME NEW a \in Account PROVE wallet'[a] = TotalOf[Bought(a)']
  <2>1. CASE Service[t] = "hotspot" /\ AccountOf[t] = a
    <3>1. Bought(a)' = Bought(a) \union {t} /\ t \notin Bought(a)
      BY <1>2, <2>1 DEF Bought
    <3>2. TotalOf[Bought(a) \union {t}] = TotalOf[Bought(a)] + Amount[t]
      BY <3>1, TotalAdds DEF Bought
    <3>3. wallet'[a] = wallet[a] + Amount[t]
      BY <2>1, NoOneAssumption DEF TypeOK, Promise!ClosePaid, Promise!Plus
    <3>. QED BY <3>1, <3>2, <3>3 DEF Balanced
  <2>2. CASE ~(Service[t] = "hotspot" /\ AccountOf[t] = a)
    <3>1. Bought(a)' = Bought(a)
      BY <1>2, <2>2 DEF Bought
    <3>2. wallet'[a] = wallet[a]
      BY <2>2 DEF TypeOK, Promise!ClosePaid, Promise!Plus
    <3>. QED BY <3>1, <3>2 DEF Balanced
  <2>. QED BY <2>1, <2>2
<1>5. ASSUME NEW r \in Reseller PROVE earnings'[r] = TotalOf[Sold(r)']
  <2>1. CASE ResellerOf[t] = r
    <3>1. Sold(r)' = Sold(r) \union {t} /\ t \notin Sold(r)
      BY <1>2, <2>1 DEF Sold
    <3>2. TotalOf[Sold(r) \union {t}] = TotalOf[Sold(r)] + Amount[t]
      BY <3>1, TotalAdds DEF Sold
    <3>3. earnings'[r] = earnings[r] + Amount[t]
      BY <2>1, NoOneAssumption DEF TypeOK, Promise!ClosePaid, Promise!Plus
    <3>. QED BY <3>1, <3>2, <3>3 DEF Balanced
  <2>2. CASE ResellerOf[t] # r
    <3>1. Sold(r)' = Sold(r)
      BY <1>2, <2>2 DEF Sold
    <3>2. earnings'[r] = earnings[r]
      BY <2>2 DEF TypeOK, Promise!ClosePaid, Promise!Plus
    <3>. QED BY <3>1, <3>2 DEF Balanced
  <2>. QED BY <2>1, <2>2
<1>. QED BY <1>4, <1>5 DEF Balanced

LEMMA PromiseBalances ==
    ASSUME TypeOK, Balanced, PromiseStep PROVE Balanced'
<1>1. CASE UNCHANGED Promise!promise
  BY <1>1, SumsUntouched DEF Promise!promise, Bought, Sold
<1>2. ASSUME NEW t \in Tx, NEW a, Promise!Answers(t, a) PROVE Balanced'
  <2>1. \A u \in Tx : u # t => PayersAnswer'[u] = PayersAnswer[u]
    BY <1>2 DEF Promise!Answers, PayersAnswer
  <2>2. Phase' = Phase /\ Phase[t] = "open"
    BY <1>2 DEF Promise!Answers
  <2>. QED BY <1>2, <2>1, <2>2, SumsUntouched DEF Promise!Answers, Bought, Sold
<1>3. ASSUME NEW t \in Tx, Promise!CloseUnpaid(t) PROVE Balanced'
  <2>1. \A u \in Tx : Phase'[u] = IF u = t THEN "failed" ELSE Phase[u]
    BY <1>3 DEF Promise!CloseUnpaid, Phase
  <2>. QED BY <1>3, <2>1, SumsUntouched
           DEF Promise!CloseUnpaid, Bought, Sold
<1>. QED BY <1>1, <1>2, <1>3, ClosePaidBalances DEF PromiseStep, Promise!Next

(* Money is neither made nor lost: through any replays, lost responses and  *)
(* crashes a wallet holds exactly the Hotspot payments completed for it,    *)
(* and a reseller has earned each sale that was paid and closed, once       *)
(* (settle_verified_mpesa_transaction, the credits in its one transaction). *)
THEOREM LedgerIsBalanced == SafetySpec => []LedgerBalances
<1>1. Init => Balanced
  <2>. SUFFICES ASSUME Init PROVE Balanced
    OBVIOUS
  <2>1. \A a \in Account : Bought(a) = {}
    BY DEF Init, Bought, Phase, Settled
  <2>2. \A r \in Reseller : Sold(r) = {}
    BY DEF Init, Sold, Phase, Settled
  <2>3. TotalOf[{}] = 0
    BY TotalUnfolds
  <2>. QED BY <2>1, <2>2, <2>3 DEF Init, Balanced
<1>2. IInv /\ IInv' /\ Balanced /\ [Next]_vars => Balanced'
  <2>1. ASSUME IInv, IInv', Next PROVE PromiseStep
    BY <2>1, NextKeepsPromise
  <2>2. ASSUME IInv, IInv', UNCHANGED vars PROVE PromiseStep
    BY <2>2, Unseen DEF vars, ledger
  <2>. QED BY <2>1, <2>2, PromiseBalances DEF IInv
<1>3. IInv /\ Balanced => LedgerBalances
  BY BalancedIsLedger DEF IInv
<1>. QED BY <1>1, <1>2, <1>3, Invariance, PTL DEF SafetySpec
-----------------------------------------------------------------------------
(* One invocation at a time: no database-active/router-disabled mismatch.   *)
(* Each of the three conditions is needed, and the runs and the code show   *)
(* why: a second invocation rolls back what the first has settled, a lost   *)
(* response or a failed plan lookup settles without access, and the         *)
(* rollback of a second renewal takes the access of the first.              *)

OneAtATime == \A v, w \in Worker : v = w
AlwaysAnswered == Faults \intersect {"lostReply", "lookup"} = {}
RenewalsApart ==
    \A t, u \in Tx :
        /\ Service[t] \in Renewals /\ Service[u] \in Renewals
        /\ AccountOf[t] = AccountOf[u]
        => t = u

HasAccess(a) == line[a] /\ radius[a]

(* Where the invocation changes the router, its renewal is not completed;   *)
(* when it comes to settle a PPPoE renewal, the access has been granted.    *)
JobSerial(w) ==
    /\ job[w].at \notin {"select", "save", "mark"} =>
           status[TxOf(w)] # "completed"
    /\ job[w].at \in {"fetch", "enable", "radius", "undoRadius", "undoLine"}
       \/ job[w].granting => Service[TxOf(w)] \in Renewals
    /\ job[w].at = "radius" => line[AccOf(w)]
    /\ job[w].at = "settle" /\ job[w].good /\ Service[TxOf(w)] = "pppoe" =>
           HasAccess(AccOf(w))

Served == \A t \in Tx : Service[t] = "pppoe" /\ status[t] = "completed" =>
                            HasAccess(AccountOf[t])

SerialInv == Served /\ \A w \in Worker : Busy(w) => JobSerial(w)

(* Steps that touch neither the router nor an invocation, and close no row  *)
(* as completed.                                                            *)
LEMMA SerialFrame ==
    ASSUME IInv, Monotone, SerialInv, UNCHANGED <<line, radius, job>>,
           \A t \in Tx : status'[t] = "completed" => status[t] = "completed"
    PROVE  SerialInv'
<1>1. Served'
  BY DEF SerialInv, Served, HasAccess
<1>2. ASSUME NEW w \in Worker, Busy(w)' PROVE JobSerial(w)'
  <2>1. Busy(w)
    BY <1>2 DEF Busy
  <2>2. /\ event[job[w].ev] \in Rows /\ job[w].ev \in Event
        /\ TxOf(w) \in Tx /\ JobSerial(w)
    BY <2>1, BusyFacts DEF SerialInv
  <2>3. TxOf(w)' = TxOf(w)
    BY <2>2 DEF Monotone, TxOf
  <2>. QED BY <2>2, <2>3 DEF JobSerial, AccOf, HasAccess
<1>. QED BY <1>1, <1>2 DEF SerialInv

(* A step of the invocation itself: what it leaves behind is all there is.  *)
LEMMA SerialOwn ==
    ASSUME OneAtATime, NEW w \in Worker, Served', Busy(w)' => JobSerial(w)'
    PROVE  SerialInv'
BY DEF OneAtATime, SerialInv

LEMMA ServedStays ==
    ASSUME SerialInv, UNCHANGED <<status, line, radius>> PROVE Served'
BY DEF SerialInv, Served, HasAccess

LEMMA SerialFinish ==
    ASSUME IInv, OneAtATime, NEW w \in Worker, Served', Finish(w)
    PROVE  SerialInv'
BY FinishFacts, SerialOwn DEF IInv

(* A new invocation begins with the selection of its transaction. *)
LEMMA SerialNewJob ==
    ASSUME IInv, SerialInv, OneAtATime, NEW w \in Worker, NEW e, NEW l,
           UNCHANGED <<status, line, radius>>,
           job' = [job EXCEPT ![w] = NewJob(e, l)]
    PROVE  SerialInv'
<1>1. job'[w].at = "select" /\ job'[w].granting = FALSE
  BY DEF IInv, TypeOK, NewJob
<1>. QED BY <1>1, ServedStays, SerialOwn DEF JobSerial

LEMMA SerialMove ==
    ASSUME IInv, SerialInv, OneAtATime, UNCHANGED event, Served',
           NEW w \in Worker, Busy(w), NEW step \in Steps, MoveTo(w, step),
           step \notin {"select", "save", "mark"} =>
               status'[TxOf(w)] # "completed",
           step \in {"fetch", "enable", "radius", "undoRadius", "undoLine"} =>
               Service[TxOf(w)] \in Renewals,
           step = "radius" => line'[AccOf(w)],
           step = "settle" /\ job[w].good /\ Service[TxOf(w)] = "pppoe" =>
               line'[AccOf(w)] /\ radius'[AccOf(w)]
    PROVE  SerialInv'
<1>1. /\ job'[w].at = step
      /\ job'[w].ev = job[w].ev
      /\ job'[w].good = job[w].good
      /\ job'[w].granting = job[w].granting
  BY MoveToFacts DEF IInv
<1>2. TxOf(w)' = TxOf(w) /\ AccOf(w)' = AccOf(w)
  BY <1>1 DEF TxOf, AccOf
<1>3. JobSerial(w)
  BY DEF SerialInv
<1>4. JobSerial(w)'
  BY <1>1, <1>2, <1>3 DEF JobSerial, HasAccess
<1>. QED BY <1>4, SerialOwn

(* The rollback, or return false: the row is still open. *)
LEMMA SerialUndo ==
    ASSUME IInv, SerialInv, OneAtATime, UNCHANGED event, Served',
           NEW w \in Worker, Busy(w), Undo(w),
           status'[TxOf(w)] # "completed"
    PROVE  SerialInv'
<1>1. CASE Finish(w)
  BY <1>1, SerialFinish
<1>2. CASE job[w].granting /\ MoveTo(w, "undoRadius")
  BY <1>2, SerialMove DEF SerialInv, JobSerial, Steps
<1>3. CASE job[w].granting /\ MoveTo(w, "undoLine")
  BY <1>3, SerialMove DEF SerialInv, JobSerial, Steps
<1>. QED BY <1>1, <1>2, <1>3, UndoFacts

(* Access that is only added, or taken from an account whose renewal is not *)
(* completed, leaves the completed renewals served.                         *)
LEMMA ServedAfterGrant ==
    ASSUME IInv, SerialInv, NEW a, UNCHANGED status,
           line' \in {line, [line EXCEPT ![a] = TRUE]},
           radius' \in {radius, [radius EXCEPT ![a] = TRUE]}
    PROVE  Served'
<1>1. ASSUME NEW t \in Tx, Service[t] = "pppoe", status[t] = "completed"
      PROVE  /\ AccountOf[t] \in Account
             /\ line[AccountOf[t]] /\ radius[AccountOf[t]]
  BY <1>1, AccountAssumption DEF SerialInv, Served, HasAccess
<1>. QED BY <1>1 DEF IInv, TypeOK, Served, HasAccess

LEMMA ServedAfterUndo ==
    ASSUME IInv, SerialInv, RenewalsApart, NEW w \in Worker, Busy(w),
           job[w].at \in {"undoRadius", "undoLine"}, UNCHANGED status,
           NEW on,
           \/ line' = [line EXCEPT ![AccOf(w)] = on] /\ UNCHANGED radius
           \/ radius' = [radius EXCEPT ![AccOf(w)] = on] /\ UNCHANGED line
    PROVE  Served'
<1>1. /\ TxOf(w) \in Tx
      /\ Service[TxOf(w)] \in Renewals
      /\ status[TxOf(w)] # "completed"
  BY BusyFacts DEF SerialInv, JobSerial
<1>2. ASSUME NEW t \in Tx, Service[t] = "pppoe", status[t] = "completed"
      PROVE  /\ AccountOf[t] # AccOf(w)
             /\ AccountOf[t] \in Account
             /\ line[AccountOf[t]] /\ radius[AccountOf[t]]
  BY <1>1, <1>2, AccountAssumption
     DEF RenewalsApart, Renewals, AccOf, SerialInv, Served, HasAccess
<1>. QED BY <1>2 DEF IInv, TypeOK, Served, HasAccess

LEMMA SettleServes ==
    ASSUME IInv, SerialInv, NEW w \in Worker, Busy(w), job[w].at = "settle",
           SettleRpc(TxOf(w), job[w].good), UNCHANGED <<line, radius>>
    PROVE  Served'
<1>1. /\ TxOf(w) \in Tx /\ job[w].good \in BOOLEAN
      /\ JobSerial(w)
  BY BusyFacts DEF Jobs, SerialInv
<1>2. /\ status'[TxOf(w)] = "completed" => job[w].good
      /\ \A u \in Tx \ {TxOf(w)} : status'[u] = status[u]
  BY <1>1, RpcFacts
<1>. QED BY <1>1, <1>2 DEF SerialInv, Served, JobSerial, HasAccess, AccOf

LEMMA ProgressKeepsSerial ==
    ASSUME IInv, SerialInv, OneAtATime, AlwaysAnswered, RenewalsApart,
           NEW w \in Worker, Progress(w)
    PROVE  SerialInv'
<1>1. CASE SelectPending(w)
  BY <1>1, SerialMove, SerialFinish, ServedStays
     DEF SelectPending, At, ledger, access, Steps
<1>2. CASE VerifyStk(w)
  <2>1. /\ Busy(w) /\ job[w].at = "verify" /\ JobSerial(w)
        /\ UNCHANGED <<status, line, radius, event>>
        /\ job \in [Worker -> Jobs \union {Idle}]
    BY <1>2 DEF VerifyStk, At, SerialInv, ledger, access, IInv, TypeOK
  <2>2. Served'
    BY <2>1, ServedStays
  <2>3. ASSUME job' = [job EXCEPT ![w].at = "receipt", ![w].good = TRUE]
        PROVE  SerialInv'
    <3>1. /\ job'[w].at = "receipt"
          /\ job'[w].ev = job[w].ev
          /\ job'[w].granting = job[w].granting
      BY <2>1, <2>3 DEF Jobs, Busy
    <3>2. JobSerial(w)'
      BY <2>1, <3>1 DEF JobSerial, TxOf, AccOf
    <3>. QED BY <2>2, <3>2, SerialOwn
  <2>4. CASE MoveTo(w, "settle")
    <3>1. ~job[w].good
      BY <2>1, BusyFacts DEF JobInv
    <3>. QED BY <2>1, <2>2, <2>4, <3>1, SerialMove DEF JobSerial, Steps
  <2>5. CASE Finish(w)
    BY <2>2, <2>5, SerialFinish
  <2>. QED BY <1>2, <2>3, <2>4, <2>5 DEF VerifyStk
<1>3. CASE SaveReceipt(w)
  <2>1. /\ Busy(w) /\ job[w].at = "receipt" /\ JobSerial(w)
        /\ UNCHANGED <<status, line, radius, event>>
    BY <1>3 DEF SaveReceipt, At, SerialInv, ledger, access
  <2>2. Served'
    BY <2>1, ServedStays
  <2>3. CASE MoveTo(w, AfterReceipt(w))
    BY <2>1, <2>2, <2>3, SerialMove DEF JobSerial, AfterReceipt, Steps, Renewals
  <2>4. CASE Finish(w)
    BY <2>2, <2>4, SerialFinish
  <2>. QED BY <1>3, <2>3, <2>4 DEF SaveReceipt
<1>4. CASE FetchAccess(w)
  <2>1. /\ Busy(w) /\ job[w].at = "fetch" /\ JobSerial(w)
        /\ UNCHANGED <<status, line, radius, event>>
        /\ job \in [Worker -> Jobs \union {Idle}]
    BY <1>4 DEF FetchAccess, At, SerialInv, ledger, access, IInv, TypeOK
  <2>2. job'[w].at = "enable" /\ job'[w].ev = job[w].ev
    BY <1>4, <2>1 DEF FetchAccess, Jobs, Busy
  <2>3. JobSerial(w)'
    BY <2>1, <2>2 DEF JobSerial, TxOf, AccOf
  <2>. QED BY <2>1, <2>3, ServedStays, SerialOwn
<1>5. CASE EnableLine(w)
  <2>1. /\ Busy(w) /\ job[w].at = "enable" /\ JobSerial(w)
        /\ UNCHANGED <<status, radius, event>>
        /\ line' = [line EXCEPT ![AccOf(w)] = TRUE]
    BY <1>5 DEF EnableLine, At, SerialInv, ledger
  <2>2. Served'
    BY <2>1, ServedAfterGrant
  <2>3. AccOf(w) \in Account
    BY <2>1, BusyFacts, AccountAssumption DEF JobSerial, AccOf, Renewals
  <2>4. line'[AccOf(w)]
    BY <2>1, <2>3 DEF IInv, TypeOK
  <2>. QED BY <1>5, <2>1, <2>2, <2>4, SerialMove
           DEF EnableLine, JobSerial, Steps
<1>6. CASE EnableRadius(w)
  <2>1. /\ Busy(w) /\ job[w].at = "radius" /\ JobSerial(w)
        /\ UNCHANGED <<status, line, event>>
        /\ radius' = [radius EXCEPT ![AccOf(w)] = TRUE]
    BY <1>6 DEF EnableRadius, At, SerialInv, ledger
  <2>2. Served'
    BY <2>1, ServedAfterGrant
  <2>3. AccOf(w) \in Account
    BY <2>1, BusyFacts, AccountAssumption DEF JobSerial, AccOf, Renewals
  <2>4. radius'[AccOf(w)]
    BY <2>1, <2>3 DEF IInv, TypeOK
  <2>. QED BY <1>6, <2>1, <2>2, <2>4, SerialMove
           DEF EnableRadius, JobSerial, Steps
<1>7. CASE Settle(w)
  <2>1. /\ Busy(w) /\ job[w].at = "settle" /\ JobSerial(w)
        /\ UNCHANGED <<line, radius, event>>
    BY <1>7 DEF Settle, At, SerialInv, access
  <2>2. CASE /\ SettleRpc(TxOf(w), job[w].good)
             /\ MoveTo(w, AfterSettle(w))
    <3>1. Served'
      BY <2>1, <2>2, SettleServes
    <3>. QED BY <2>1, <2>2, <3>1, SerialMove DEF AfterSettle, Steps
  <2>3. CASE Undo(w) /\ UNCHANGED ledger
    <3>1. Served' /\ status'[TxOf(w)] # "completed"
      BY <2>1, <2>3, ServedStays DEF ledger, JobSerial
    <3>. QED BY <2>1, <2>3, <3>1, SerialUndo
  <2>. QED BY <1>7, <2>2, <2>3 DEF Settle
<1>8. CASE UndoRadius(w)
  <2>1. /\ Busy(w) /\ job[w].at = "undoRadius" /\ JobSerial(w)
        /\ UNCHANGED <<status, line, event>>
        /\ radius' = [radius EXCEPT ![AccOf(w)] = FALSE]
    BY <1>8 DEF UndoRadius, At, SerialInv, ledger
  <2>2. Served'
    BY <2>1, ServedAfterUndo
  <2>. QED BY <1>8, <2>1, <2>2, SerialMove DEF UndoRadius, JobSerial, Steps
<1>9. CASE UndoLine(w)
  <2>1. /\ Busy(w) /\ job[w].at = "undoLine"
        /\ UNCHANGED <<status, radius>>
        /\ line' = [line EXCEPT ![AccOf(w)] = job[w].was]
    BY <1>9 DEF UndoLine, At, ledger
  <2>. QED BY <1>9, <2>1, ServedAfterUndo, SerialFinish DEF UndoLine
<1>10. CASE SaveRenewal(w)
  BY <1>10, SerialMove, ServedStays DEF SaveRenewal, At, access, Steps
<1>11. CASE MarkProcessed(w)
  BY <1>11, SerialFinish, ServedStays DEF MarkProcessed, ledger, access
<1>. QED
  BY <1>1, <1>2, <1>3, <1>4, <1>5, <1>6, <1>7, <1>8, <1>9, <1>10, <1>11
     DEF Progress

LEMMA FailureKeepsSerial ==
    ASSUME IInv, SerialInv, OneAtATime, AlwaysAnswered, RenewalsApart,
           NEW w \in Worker, Failure(w)
    PROVE  SerialInv'
<1>1. ~FetchSkips(w) /\ ~LookupThrows(w)
  BY DEF AlwaysAnswered, FetchSkips, LookupThrows, Fault
<1>2. CASE \/ VerifyFails(w) \/ SaveReceiptFails(w) \/ FetchFails(w)
           \/ UndoFails(w) \/ MarkFails(w)
  BY <1>2, SerialFinish, ServedStays DEF VerifyFails, SaveReceiptFails,
     FetchFails, UndoFails, MarkFails, ledger, access
<1>3. CASE EnableLineFails(w) \/ EnableRadiusFails(w)
  <2>1. /\ Busy(w) /\ job[w].at \in {"enable", "radius"} /\ JobSerial(w)
        /\ UNCHANGED <<status, event>> /\ Undo(w)
        /\ line' \in {line, [line EXCEPT ![AccOf(w)] = TRUE]}
        /\ radius' \in {radius, [radius EXCEPT ![AccOf(w)] = TRUE]}
    BY <1>3 DEF EnableLineFails, EnableRadiusFails, At, SerialInv, ledger
  <2>2. Served'
    BY <2>1, ServedAfterGrant
  <2>3. status'[TxOf(w)] # "completed"
    BY <2>1 DEF JobSerial
  <2>. QED BY <2>1, <2>2, <2>3, SerialUndo
<1>4. CASE SettleFails(w)
  <2>1. /\ Busy(w) /\ job[w].at = "settle" /\ JobSerial(w) /\ Undo(w)
        /\ UNCHANGED <<ledger, line, radius, event>>
    BY <1>4 DEF SettleFails, At, SerialInv, access, AlwaysAnswered, Fault
  <2>2. Served' /\ status'[TxOf(w)] # "completed"
    BY <2>1, ServedStays DEF ledger, JobSerial
  <2>. QED BY <2>1, <2>2, SerialUndo
<1>5. CASE SaveRenewalFails(w)
  BY <1>5, SerialMove, ServedStays DEF SaveRenewalFails, At, access, Steps
<1>. QED BY <1>1, <1>2, <1>3, <1>4, <1>5 DEF Failure

LEMMA SerialStep ==
    ASSUME IInv, SerialInv, OneAtATime, AlwaysAnswered, RenewalsApart, Next
    PROVE  SerialInv'
<1>1. Monotone
  BY StepPreserves
<1>2. CASE Callbacks
  <2>1. ASSUME NEW e \in Event, NEW t \in Tx, NEW c \in Claims,
               ReceiveUnprocessed(e, t, c)
        PROVE  SerialInv'
    BY <1>1, <2>1, SerialFrame DEF ReceiveUnprocessed, ledger, access
  <2>2. ASSUME NEW e \in Event, Expire(e) PROVE SerialInv'
    BY <1>1, <2>2, SerialFrame DEF Expire, ledger, access
  <2>3. ASSUME NEW e \in Event, NEW t \in Tx, NEW c \in Claims,
               NEW w \in Worker, Receive(e, t, c, w)
        PROVE  SerialInv'
    BY <2>3, SerialNewJob DEF Receive, ledger, access
  <2>4. ASSUME NEW e \in Event, NEW w \in Worker, Sweep(e, w)
        PROVE  SerialInv'
    BY <2>4, SerialNewJob DEF Sweep, ledger, access
  <2>. QED
    BY <1>2, <2>1, <2>2, <2>3, <2>4, ProgressKeepsSerial, FailureKeepsSerial
       DEF Callbacks
<1>3. CASE Surroundings
  <2>1. UNCHANGED <<line, radius, job>>
    BY <1>3 DEF Surroundings, Prompt, Refuse, Reconcile, PayerAnswers,
       Withdraw, access
  <2>2. \A t \in Tx : status'[t] = "completed" => status[t] = "completed"
    BY <1>3 DEF Surroundings, Prompt, Refuse, Reconcile, PayerAnswers,
       Withdraw, ledger, IInv, TypeOK
  <2>. QED BY <1>1, <2>1, <2>2, SerialFrame
<1>4. CASE Crash
  <2>1. Served'
    BY <1>4, ServedStays DEF Crash, ledger, access
  <2>2. \A w \in Worker : ~Busy(w)'
    BY <1>4 DEF Crash, Busy
  <2>. QED BY <2>1, <2>2 DEF SerialInv
<1>. QED BY <1>2, <1>3, <1>4 DEF Next

(* Processed one at a time, with lookups and settlement calls that are      *)
(* answered, a customer whose only renewal is completed has the line and    *)
(* RADIUS, whatever else fails, expires, is withdrawn or crashes.           *)
THEOREM AccessFollowsRenewal ==
    ASSUME OneAtATime, AlwaysAnswered, RenewalsApart
    PROVE  SafetySpec => []NoActiveDisabledMismatch
<1>1. Init => SerialInv
  BY DEF Init, SerialInv, Served, Busy
<1>2. IInv /\ SerialInv /\ [Next]_vars => SerialInv'
  <2>1. ASSUME IInv, SerialInv, Next PROVE SerialInv'
    BY <2>1, SerialStep
  <2>2. ASSUME SerialInv, UNCHANGED vars PROVE SerialInv'
    BY <2>2 DEF vars, ledger, access, SerialInv, Served, HasAccess, Busy,
       JobSerial, TxOf, AccOf
  <2>. QED BY <2>1, <2>2
<1>3. SerialInv => NoActiveDisabledMismatch
  BY DEF SerialInv, Served, HasAccess, NoActiveDisabledMismatch
<1>. QED BY <1>1, <1>2, <1>3, Invariance, PTL DEF SafetySpec

=============================================================================
