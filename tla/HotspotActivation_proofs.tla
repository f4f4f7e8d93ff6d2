---------------------- MODULE HotspotActivation_proofs ----------------------
(***************************************************************************)
(* What HotspotActivation promises, for any number of payments, portal      *)
(* pages, names and failures.  The locked claim is what ties an invocation  *)
(* to its account: before it a drawn name belongs to nobody else, after it  *)
(* the payment is linked to the name for good.  What an invocation knows of *)
(* the account's state is stale after every await; only if restrictions     *)
(* fall between invocations does it stay true.                              *)
(***************************************************************************)
EXTENDS HotspotActivation, TLAPS

Job == [at : Steps, tx : Tx \union {NoTx}, name : Name \union {NoName}, fresh : BOOLEAN]

(* The steps at which the account of the payment is known. *)
Bound == {"save", "provision", "reset", "connect", "activate", "mark"}

(* The invocation made the account and has not reset its counters yet. *)
WillReset(i) == inv[i].fresh /\ inv[i].at \in {"provision", "reset"}

JobInv(i) ==
    /\ inv[i].at # "idle" => TxIn(i) \in Tx
    /\ inv[i].at \in Bound \union {"claim"} => NameIn(i) \in Name
    /\ inv[i].at \in Bound => customerOf[TxIn(i)] = NameIn(i)
    /\ inv[i].at = "claim" => customer[NameIn(i)].status = "none"
    /\ inv[i].at \in {"load", "save", "claim"} => ~inv[i].fresh
    /\ inv[i].at = "reset" => inv[i].fresh
    /\ WillReset(i) => user[NameIn(i)].resets = 0

JobsOK == \A i \in Invocation : JobInv(i)

(* A drawn name is nobody else's, and an account has one maker. *)
Apart(i, j) ==
    /\ inv[i].at = "claim" => NameIn(j) # NameIn(i)
    /\ WillReset(i) /\ WillReset(j) => NameIn(j) # NameIn(i)

NamesApart == \A i, j \in Invocation : i # j => Apart(i, j)

(* Customers and payments name each other. *)
RowsOK ==
    /\ \A n \in Name :
         /\ (customer[n].status = "none") <=> (customer[n].tx = NoTx)
         /\ customer[n].status = "none" => user[n].resets = 0 /\ edit[n] = "none"
    /\ \A t \in Tx : Linked(t) => customer[customerOf[t]].tx = t

IInv ==
    /\ TypeOK
    /\ JobsOK
    /\ NamesApart
    /\ RowsOK
    /\ OneAccountPerPayment
    /\ CountersResetOnce

(* What an invocation may also rely on if restrictions keep out of its way. *)
Kept(i) ==
    /\ inv[i].at # "idle" => \A n \in Name : edit[n] = "none"
    /\ inv[i].at \in Bound => ~Restricted(NameIn(i))
    /\ inv[i].at \in {"reset", "connect", "activate"} =>
           (customer[NameIn(i)].valid => user[NameIn(i)].enabled)

QuietInv ==
    /\ \A i \in Invocation : Kept(i)
    /\ \A n \in Name :
         /\ edit[n] # "none" => customer[n].status = edit[n]
         /\ customer[n].status = "none" => ~customer[n].depleted
    /\ ActiveHasAccess
-----------------------------------------------------------------------------
LEMMA NoTxIsNoTx == NoTx \notin Tx
BY TxAssumption DEF Tx

LEMMA InitHolds == Init => IInv
<1> SUFFICES ASSUME Init PROVE IInv
  OBVIOUS
<1> USE DEF Init
<1>1. TypeOK
  BY SizeAssumption DEF TypeOK, NoCustomer, Idle, Notes, CustomerStatus, Steps
<1>2. JobsOK /\ NamesApart
  BY DEF JobsOK, JobInv, NamesApart, Apart, WillReset, Bound, Idle
<1>3. RowsOK
  BY DEF RowsOK, NoCustomer, Linked
<1>4. OneAccountPerPayment /\ CountersResetOnce
  BY NoTxIsNoTx DEF OneAccountPerPayment, CountersResetOnce, NoCustomer
<1> QED
  BY <1>1, <1>2, <1>3, <1>4 DEF IInv

(***************************************************************************)
(* Most steps leave the links and the makers of the accounts alone.         *)
(***************************************************************************)
SameRows ==
    /\ customerOf' = customerOf
    /\ \A n \in Name :
         /\ customer'[n].tx = customer[n].tx
         /\ (customer'[n].status = "none") <=> (customer[n].status = "none")

SameResets == \A n \in Name : user'[n].resets = user[n].resets
OnlyThis(i) == \A j \in Invocation : j # i => inv'[j] = inv[j]

(* The invocation i ends, or goes on with the name it has.                  *)
Advances(i) ==
    \/ inv'[i] = Idle
    \/ /\ inv'[i].tx = inv[i].tx /\ inv'[i].name = inv[i].name
       /\ inv'[i].fresh = inv[i].fresh
       /\ inv[i].at \in Bound /\ inv'[i].at \in Bound \ {"save"}
       /\ inv'[i].at = "reset" => inv[i].fresh
       /\ inv'[i].at = "provision" => inv[i].at \in {"save", "provision"}
       /\ inv'[i].at = "reset" => inv[i].at = "provision"

(* The links, the names and the first resets the other invocations rely on  *)
(* stay as they are, and this one takes no name from them.                  *)
LEMMA JobsKept ==
  ASSUME IInv, SameRows, SameResets, NEW i \in Invocation, OnlyThis(i),
         JobInv(i)', \A j \in Invocation \ {i} : Apart(i, j)' /\ Apart(j, i)'
  PROVE  JobsOK' /\ NamesApart'
<1> USE DEF IInv, SameRows, SameResets, OnlyThis
<1>1. ASSUME NEW j \in Invocation, j # i PROVE JobInv(j)'
  BY <1>1 DEF JobsOK, JobInv, WillReset, Bound, TxIn, NameIn
<1>2. ASSUME NEW j \in Invocation, NEW k \in Invocation, j # k, j # i, k # i
      PROVE Apart(j, k)'
  BY <1>2 DEF NamesApart, Apart, WillReset, NameIn
<1>3. JobsOK'
  BY <1>1 DEF JobsOK
<1> QED
  BY <1>2, <1>3 DEF NamesApart

LEMMA AdvanceKept ==
  ASSUME IInv, SameRows, SameResets, NEW i \in Invocation, OnlyThis(i), Advances(i)
  PROVE  JobsOK' /\ NamesApart'
<1> USE DEF IInv, SameRows, SameResets, OnlyThis
<1>1. JobInv(i)'
  <2>1. CASE inv'[i] = Idle
    BY <2>1 DEF JobInv, WillReset, Bound, Idle, TxIn, NameIn
  <2>2. CASE inv'[i] # Idle
    <3>1. JobInv(i)
      BY DEF JobsOK
    <3> QED
      BY <2>2, <3>1 DEF Advances, JobInv, WillReset, Bound, TxIn, NameIn
  <2> QED
    BY <2>1, <2>2
<1>2. ASSUME NEW j \in Invocation \ {i} PROVE Apart(i, j)' /\ Apart(j, i)'
  <2>1. Apart(i, j) /\ Apart(j, i) /\ JobInv(i) /\ JobInv(j) /\ inv'[j] = inv[j]
    BY <1>2 DEF NamesApart, JobsOK
  <2>2. CASE inv'[i] = Idle
    BY <2>1, <2>2, NameAssumption DEF Apart, JobInv, WillReset, Bound, Idle, NameIn
  <2>3. CASE inv'[i] # Idle
    BY <2>1, <2>3 DEF Advances, Apart, JobInv, WillReset, Bound, NameIn
  <2> QED
    BY <2>2, <2>3
<1> QED
  BY <1>1, <1>2, JobsKept

(* What only depends on rows and counters. *)
LEMMA RowsKept ==
  ASSUME IInv, TypeOK', SameRows, SameResets, edit' = edit, answered' = answered
  PROVE  RowsOK' /\ OneAccountPerPayment' /\ CountersResetOnce'
<1> USE DEF IInv, SameRows, SameResets
<1>1. RowsOK'
  BY DEF RowsOK, Linked, TypeOK
<1>2. OneAccountPerPayment'
  BY DEF OneAccountPerPayment
<1>3. CountersResetOnce'
  BY DEF CountersResetOnce
<1> QED
  BY <1>1, <1>2, <1>3

-----------------------------------------------------------------------------
(* Who calls the handler *)

LEMMA BeginKept ==
  ASSUME IInv, SameRows, SameResets, NEW i \in Invocation, NEW t \in Tx, Begin(i, t)
  PROVE  JobsOK' /\ NamesApart'
<1> USE DEF IInv
<1>1. inv'[i] = [Idle EXCEPT !.at = "load", !.tx = t] /\ OnlyThis(i)
  BY DEF Begin, OnlyThis, TypeOK
<1>2. JobInv(i)'
  BY <1>1 DEF JobInv, WillReset, Bound, Idle, TxIn, NameIn
<1>3. ASSUME NEW j \in Invocation \ {i} PROVE Apart(i, j)' /\ Apart(j, i)'
  <2>1. JobInv(j) /\ inv'[j] = inv[j]
    BY <1>1 DEF JobsOK, OnlyThis
  <2> QED
    BY <1>1, <2>1, NameAssumption DEF Apart, JobInv, WillReset, Bound, Idle, NameIn
<1> QED
  BY <1>1, <1>2, <1>3, JobsKept

LEMMA RequestStep ==
  ASSUME IInv, NEW c \in Client, NEW t \in Tx, Request(c, t)
  PROVE  IInv'
<1> USE DEF IInv, Request
<1>1. c \in Invocation
  BY DEF Invocation
<1>2. TypeOK'
  <2>1. inv' \in [Invocation -> Job]
    BY <1>1 DEF TypeOK, Begin, Idle, Steps, Job
  <2> QED
    BY <2>1, SizeAssumption DEF TypeOK, Job
<1>3. SameRows /\ SameResets
  BY DEF SameRows, SameResets
<1>4. JobsOK' /\ NamesApart'
  BY <1>1, <1>3, BeginKept
<1> QED
  BY <1>2, <1>3, <1>4, RowsKept

LEMMA RetryStep == ASSUME IInv, Retry PROVE IInv'
<1> USE DEF IInv, Retry
<1>1. PICK t \in work : Begin(Sweeper, t)
  OBVIOUS
<1>2. Sweeper \in Invocation /\ t \in Tx
  BY DEF Invocation, TypeOK
<1>3. TypeOK'
  BY <1>1, <1>2 DEF TypeOK, Begin, Idle, Steps
<1>4. SameRows /\ SameResets
  BY DEF SameRows, SameResets
<1>5. JobsOK' /\ NamesApart'
  BY <1>1, <1>2, <1>4, BeginKept
<1> QED
  BY <1>3, <1>4, <1>5, RowsKept

LEMMA SelectStep == ASSUME IInv, Select PROVE IInv'
<1> USE DEF IInv, Select
<1>1. work' \subseteq Tx
  BY DEF Newest, Oldest, PendingAccounts, UnconfirmedAccounts, UnlinkedPayments
<1>2. TypeOK'
  BY <1>1 DEF TypeOK
<1>3. SameRows /\ SameResets
  BY DEF SameRows, SameResets
<1>4. JobsOK' /\ NamesApart'
  BY DEF JobsOK, JobInv, NamesApart, Apart, WillReset, TxIn, NameIn
<1> QED
  BY <1>2, <1>3, <1>4, RowsKept

-----------------------------------------------------------------------------
(* One invocation, await by await *)

LEMMA FinishType ==
  ASSUME IInv, NEW i \in Invocation, Finish(i)
  PROVE  /\ inv' \in [Invocation -> Job]
         /\ work' \subseteq Tx
         /\ OnlyThis(i) /\ Advances(i)
BY DEF IInv, TypeOK, Finish, Idle, Steps, Job, OnlyThis, Advances

(* An invocation goes to a step with a name it did not have. *)
LEMMA Renamed ==
  ASSUME TypeOK, NEW i \in Invocation, NEW step \in Steps, NEW n \in Name,
         inv' = [inv EXCEPT ![i].at = step, ![i].name = n]
  PROVE  /\ inv' \in [Invocation -> Job]
         /\ OnlyThis(i)
         /\ inv'[i] = [at |-> step, tx |-> inv[i].tx, name |-> n, fresh |-> inv[i].fresh]
<1>1. inv \in [Invocation -> Job]
  BY DEF TypeOK, Job
<1>2. inv[i] \in Job
  BY <1>1
<1>3. inv'[i] = [at |-> step, tx |-> inv[i].tx, name |-> n, fresh |-> inv[i].fresh]
  BY <1>1, <1>2 DEF Job
<1>4. inv'[i] \in Job
  BY <1>2, <1>3 DEF Job
<1>5. OnlyThis(i)
  BY <1>1 DEF OnlyThis
<1>6. inv' \in [Invocation -> Job]
  BY <1>1, <1>4, <1>5 DEF OnlyThis
<1> QED
  BY <1>3, <1>5, <1>6

LEMMA LoadLinkedStep ==
  ASSUME IInv, NEW i \in Invocation, LoadLinked(i)
  PROVE  IInv'
<1> USE DEF IInv, LoadLinked
<1> DEFINE n == customerOf[TxIn(i)]
<1>1. TxIn(i) \in Tx /\ n \in Name /\ customer[n].tx = TxIn(i) /\ ~inv[i].fresh
  BY DEF JobsOK, JobInv, RowsOK, Linked, TypeOK
<1>2. SameRows /\ SameResets
  BY DEF SameRows, SameResets
<1>3. CASE Finish(i)
  <2>1. TypeOK'
    BY <1>3, FinishType DEF TypeOK, Job
  <2> QED
    BY <1>2, <1>3, <2>1, FinishType, AdvanceKept, RowsKept
<1>4. CASE inv' = [inv EXCEPT ![i].at = "save", ![i].name = n] /\ UNCHANGED work
  <2>1. TypeOK'
    <3>1. inv' \in [Invocation -> Job]
      BY <1>1, <1>4, Renamed DEF Steps
    <3> QED
      BY <1>4, <3>1 DEF TypeOK, Job
  <2>2. /\ inv'[i].at = "save" /\ inv'[i].name = n
        /\ inv'[i].tx = TxIn(i) /\ ~inv'[i].fresh
    BY <1>1, <1>4 DEF TypeOK, TxIn
  <2>3. OnlyThis(i)
    BY <1>4 DEF OnlyThis, TypeOK
  <2>4. JobInv(i)'
    BY <1>1, <2>2 DEF JobInv, WillReset, TxIn, NameIn
  <2>5. ASSUME NEW j \in Invocation \ {i} PROVE Apart(i, j)' /\ Apart(j, i)'
    <3>1. JobInv(j) /\ inv'[j] = inv[j]
      BY <2>3 DEF JobsOK, OnlyThis
    <3>2. customer[n].status # "none"
      BY <1>1, NoTxIsNoTx DEF RowsOK
    <3> QED
      BY <2>2, <3>1, <3>2 DEF Apart, JobInv, WillReset, NameIn
  <2>6. JobsOK' /\ NamesApart'
    BY <1>2, <2>3, <2>4, <2>5, JobsKept
  <2> QED
    BY <1>2, <2>1, <2>6, RowsKept
<1> QED
  BY <1>3, <1>4

LEMMA LoadUnlinkedStep ==
  ASSUME IInv, NEW i \in Invocation, LoadUnlinked(i)
  PROVE  IInv'
<1> USE DEF IInv, LoadUnlinked
<1>1. TxIn(i) \in Tx /\ ~inv[i].fresh
  BY DEF JobsOK, JobInv
<1>2. SameRows /\ SameResets
  BY DEF SameRows, SameResets
<1>3. CASE Finish(i)
  <2>1. TypeOK'
    BY <1>3, FinishType DEF TypeOK, Job
  <2> QED
    BY <1>2, <1>3, <2>1, FinishType, AdvanceKept, RowsKept
<1>4. CASE Unused # {} /\ UNCHANGED work /\
           inv' = [inv EXCEPT ![i].at = "claim", ![i].name = CHOOSE n \in Unused : TRUE]
  <2>1. PICK n \in Unused : inv' = [inv EXCEPT ![i].at = "claim", ![i].name = n]
    BY <1>4
  <2>2. n \in Name /\ customer[n].status = "none" /\ user[n].resets = 0
    BY <2>1 DEF Unused, RowsOK
  <2>3. \A j \in Invocation : inv[j].name # n
    BY <2>1 DEF Unused, NameIn
  <2>4. TypeOK'
    <3>1. inv' \in [Invocation -> Job]
      BY <2>1, <2>2, Renamed DEF Steps
    <3> QED
      BY <1>4, <3>1 DEF TypeOK, Job
  <2>5. /\ inv'[i].at = "claim" /\ inv'[i].name = n
        /\ inv'[i].tx = TxIn(i) /\ ~inv'[i].fresh
    BY <1>1, <2>1 DEF TypeOK, TxIn
  <2>6. OnlyThis(i)
    BY <2>1 DEF OnlyThis, TypeOK
  <2>7. JobInv(i)'
    BY <1>1, <2>2, <2>5 DEF JobInv, WillReset, Bound, TxIn, NameIn
  <2>8. ASSUME NEW j \in Invocation \ {i} PROVE Apart(i, j)' /\ Apart(j, i)'
    BY <2>3, <2>5, <2>6 DEF OnlyThis, Apart, WillReset, NameIn
  <2>9. JobsOK' /\ NamesApart'
    BY <1>2, <2>6, <2>7, <2>8, JobsKept
  <2> QED
    BY <1>2, <2>4, <2>9, RowsKept
<1> QED
  BY <1>3, <1>4

LEMMA LoadFailsStep ==
  ASSUME IInv, NEW i \in Invocation, LoadFails(i)
  PROVE  IInv'
<1> USE DEF IInv, LoadFails
<1>1. TypeOK'
  BY FinishType, SizeAssumption DEF TypeOK, Fault, Job
<1>2. SameRows /\ SameResets
  BY DEF SameRows, SameResets
<1> QED
  BY <1>1, <1>2, FinishType, AdvanceKept, RowsKept

LEMMA GoAdvances ==
  ASSUME IInv, NEW i \in Invocation, inv[i].at \in Bound,
         NEW step \in Bound \ {"save"}, Go(i, step),
         step = "reset" => inv[i].fresh /\ inv[i].at = "provision",
         step = "provision" => inv[i].at = "save"
  PROVE  /\ inv' \in [Invocation -> Job]
         /\ OnlyThis(i) /\ Advances(i)
<1>1. step \in Steps
  BY DEF Bound, Steps
<1>2. inv \in [Invocation -> Job]
  BY DEF IInv, TypeOK, Job
<1>3. /\ inv'[i].at = step /\ inv'[i].tx = inv[i].tx
      /\ inv'[i].name = inv[i].name /\ inv'[i].fresh = inv[i].fresh
  BY <1>2 DEF Go, Job
<1>4. inv' \in [Invocation -> Job] /\ OnlyThis(i)
  BY <1>1, <1>2 DEF Go, Job, OnlyThis
<1>5. Advances(i)
  BY <1>3 DEF Advances
<1> QED
  BY <1>4, <1>5

(* The account an invocation has read or claimed is that of its payment. *)
LEMMA BoundAccount ==
  ASSUME IInv, NEW i \in Invocation, inv[i].at \in Bound
  PROVE  /\ TxIn(i) \in Tx /\ NameIn(i) \in Name
         /\ customerOf[TxIn(i)] = NameIn(i)
         /\ customer[NameIn(i)].tx = TxIn(i)
         /\ customer[NameIn(i)].status # "none"
<1>1. TxIn(i) \in Tx /\ NameIn(i) \in Name /\ customerOf[TxIn(i)] = NameIn(i)
  BY DEF IInv, JobsOK, JobInv, Bound
<1>2. customer[NameIn(i)].tx = TxIn(i)
  BY <1>1, NameAssumption DEF IInv, RowsOK, Linked
<1> QED
  BY <1>1, <1>2, NoTxIsNoTx DEF IInv, RowsOK

Rows == [status : CustomerStatus, depleted : BOOLEAN,
         valid : BOOLEAN, tx : Tx \union {NoTx}]

(* Writing a status over that of an account changes no link. *)
StatusWritten(n) ==
    /\ customer' \in [Name -> Rows]
    /\ \A m \in Name : customer'[m].tx = customer[m].tx
    /\ \A m \in Name \ {n} : customer'[m] = customer[m]
    /\ customer'[n].status # "none"

LEMMA StatusSameRows ==
  ASSUME IInv, NEW n \in Name, customer[n].status # "none",
         StatusWritten(n), customerOf' = customerOf
  PROVE  SameRows
BY DEF StatusWritten, SameRows

LEMMA SavedRows ==
  ASSUME IInv, NEW n \in Name, customer' = Saved(n)
  PROVE  StatusWritten(n)
<1>1. customer \in [Name -> Rows]
  BY DEF IInv, TypeOK, Rows
<1> QED
  BY <1>1 DEF Saved, StatusWritten, Rows, CustomerStatus, Pending

LEMMA ActivatedRows ==
  ASSUME IInv, NEW n \in Name, customer' = Activated(n)
  PROVE  StatusWritten(n)
<1>1. customer \in [Name -> Rows]
  BY DEF IInv, TypeOK, Rows
<1> QED
  BY <1>1 DEF Activated, StatusWritten, Rows, CustomerStatus

LEMMA SetStatusRows ==
  ASSUME IInv, NEW n \in Name, NEW status \in CustomerStatus \ {"none"},
         SetStatus(n, status)
  PROVE  StatusWritten(n)
<1>1. customer \in [Name -> Rows]
  BY DEF IInv, TypeOK, Rows
<1> QED
  BY <1>1 DEF SetStatus, StatusWritten, Rows

LEMMA SaveStep ==
  ASSUME IInv, NEW i \in Invocation, Save(i)
  PROVE  IInv'
<1> USE DEF IInv, Save
<1>1. inv[i].at \in Bound /\ "provision" \in Bound
  BY DEF Bound
<1>2. StatusWritten(NameIn(i)) /\ SameRows /\ SameResets
  BY <1>1, BoundAccount, SavedRows, StatusSameRows DEF SameResets
<1>3. inv' \in [Invocation -> Job] /\ OnlyThis(i) /\ Advances(i)
  BY <1>1, GoAdvances
<1>4. TypeOK'
  BY <1>1, <1>2, <1>3, BoundAccount
     DEF TypeOK, Job, StatusWritten, Rows, Note, Notes
<1> QED
  BY <1>2, <1>3, <1>4, AdvanceKept, RowsKept

LEMMA SaveFailsStep ==
  ASSUME IInv, NEW i \in Invocation, SaveFails(i)
  PROVE  IInv'
<1> USE DEF IInv, SaveFails
<1>1. inv[i].at \in Bound
  BY DEF Bound
<1>2. customer' \in [Name -> Rows] /\ SameRows /\ SameResets
  <2>1. CASE customer' = customer
    BY <2>1 DEF TypeOK, Rows, SameRows, SameResets
  <2>2. CASE customer' = Saved(NameIn(i))
    BY <1>1, <2>2, BoundAccount, SavedRows, StatusSameRows
       DEF SameResets, StatusWritten
  <2> QED
    BY <2>1, <2>2
<1>3. TypeOK'
  BY <1>2, FinishType, SizeAssumption DEF TypeOK, Job, Rows, Fault
<1> QED
  BY <1>2, <1>3, FinishType, AdvanceKept, RowsKept

LEMMA ActivateNoneStep ==
  ASSUME IInv, NEW i \in Invocation, ActivateNone(i)
  PROVE  IInv'
<1> USE DEF IInv, ActivateNone
<1>1. inv[i].at \in Bound /\ "mark" \in Bound
  BY DEF Bound
<1>2. SameRows /\ SameResets
  BY DEF SameRows, SameResets
<1>3. inv' \in [Invocation -> Job] /\ OnlyThis(i) /\ Advances(i)
  BY <1>1, GoAdvances
<1>4. TypeOK'
  BY <1>3 DEF TypeOK, Job
<1> QED
  BY <1>2, <1>3, <1>4, AdvanceKept, RowsKept

LEMMA ActivateFailsStep ==
  ASSUME IInv, NEW i \in Invocation, ActivateFails(i)
  PROVE  IInv'
<1> USE DEF IInv, ActivateFails
<1>1. inv[i].at \in Bound /\ "mark" \in Bound
  BY DEF Bound
<1>2. customer' \in [Name -> Rows] /\ SameRows /\ SameResets
  <2>1. CASE UNCHANGED customer
    BY <2>1 DEF TypeOK, Rows, SameRows, SameResets
  <2>2. CASE customer' = Activated(NameIn(i))
    BY <1>1, <2>2, BoundAccount, ActivatedRows, StatusSameRows
       DEF SameResets, StatusWritten
  <2> QED
    BY <2>1, <2>2
<1>3. inv' \in [Invocation -> Job] /\ OnlyThis(i) /\ Advances(i)
  BY <1>1, GoAdvances
<1>4. TypeOK'
  BY <1>2, <1>3, SizeAssumption DEF TypeOK, Job, Rows, Fault
<1> QED
  BY <1>2, <1>3, <1>4, AdvanceKept, RowsKept

(* An invocation that fails marks its account as pending again.             *)
LEMMA MarkedRows ==
  ASSUME IInv, NEW i \in Invocation, inv[i].at \in Bound,
         customer' \in {customer, Marked(i)}, customerOf' = customerOf
  PROVE  customer' \in [Name -> Rows] /\ SameRows
<1>1. CASE customer' = customer
  BY <1>1 DEF IInv, TypeOK, Rows, SameRows
<1>2. CASE SetStatus(NameIn(i), Pending)
  <2>1. Pending \in CustomerStatus \ {"none"}
    BY DEF CustomerStatus, Pending
  <2> QED
    BY <1>2, <2>1, BoundAccount, SetStatusRows, StatusSameRows DEF StatusWritten
<1> QED
  BY <1>1, <1>2 DEF Marked, SetStatus

LEMMA MarkStep ==
  ASSUME IInv, NEW i \in Invocation, Mark(i)
  PROVE  IInv'
<1> USE DEF IInv, Mark
<1>1. inv[i].at \in Bound
  BY DEF Bound
<1>2. customer' \in [Name -> Rows] /\ SameRows /\ SameResets
  BY <1>1, MarkedRows DEF SameResets
<1>3. TypeOK'
  BY <1>2, FinishType DEF TypeOK, Job, Rows, Note, Notes
<1> QED
  BY <1>2, <1>3, FinishType, AdvanceKept, RowsKept

LEMMA MarkFailsStep ==
  ASSUME IInv, NEW i \in Invocation, MarkFails(i)
  PROVE  IInv'
<1> USE DEF IInv, MarkFails
<1>1. inv[i].at \in Bound
  BY DEF Bound
<1>2. customer' \in [Name -> Rows] /\ SameRows /\ SameResets
  BY <1>1, MarkedRows DEF SameResets
<1>3. TypeOK'
  BY <1>2, FinishType, SizeAssumption DEF TypeOK, Job, Rows, Fault
<1> QED
  BY <1>2, <1>3, FinishType, AdvanceKept, RowsKept

-----------------------------------------------------------------------------
(* Steps on the router *)

Users == [enabled : BOOLEAN, resets : Nat]

LEMMA UserEnabled ==
  ASSUME IInv, NEW n \in Name, NEW b \in BOOLEAN,
         user' \in {user, [user EXCEPT ![n].enabled = b]}
  PROVE  user' \in [Name -> Users] /\ SameResets
<1>1. user \in [Name -> Users]
  BY DEF IInv, TypeOK, Users
<1>2. CASE user' = user
  BY <1>1, <1>2 DEF SameResets
<1>3. CASE user' = [user EXCEPT ![n].enabled = b]
  <2>1. \A m \in Name : user'[m].resets = user[m].resets /\ user'[m] \in Users
    BY <1>1, <1>3 DEF Users
  <2> QED
    BY <1>1, <1>3, <2>1 DEF SameResets
<1> QED
  BY <1>2, <1>3

LEMMA ProvisionStep ==
  ASSUME IInv, NEW i \in Invocation, Provision(i)
  PROVE  IInv'
<1> USE DEF IInv, Provision
<1>1. inv[i].at \in Bound
  BY DEF Bound
<1>2. user' \in [Name -> Users] /\ SameRows /\ SameResets
  BY <1>1, BoundAccount, UserEnabled DEF SameRows, Enabled
<1>3. inv' \in [Invocation -> Job] /\ OnlyThis(i) /\ Advances(i)
  <2>1. CASE inv[i].fresh
    <3>1. Go(i, "reset") /\ "reset" \in Bound \ {"save"}
      BY <2>1 DEF Bound
    <3> QED
      BY <1>1, <2>1, <3>1, GoAdvances
  <2>2. CASE ~inv[i].fresh
    <3>1. Go(i, "connect") /\ "connect" \in Bound \ {"save"}
      BY <2>2 DEF Bound
    <3> QED
      BY <1>1, <3>1, GoAdvances
  <2> QED
    BY <2>1, <2>2
<1>4. TypeOK'
  BY <1>2, <1>3 DEF TypeOK, Job, Users
<1> QED
  BY <1>2, <1>3, <1>4, AdvanceKept, RowsKept

LEMMA ProvisionFailsStep ==
  ASSUME IInv, NEW i \in Invocation, ProvisionFails(i)
  PROVE  IInv'
<1> USE DEF IInv, ProvisionFails
<1>1. inv[i].at \in Bound /\ "mark" \in Bound
  BY DEF Bound
<1>2. user' \in [Name -> Users] /\ SameRows /\ SameResets
  BY <1>1, BoundAccount, UserEnabled DEF SameRows, Enabled
<1>3. inv' \in [Invocation -> Job] /\ work' \subseteq Tx /\ OnlyThis(i) /\ Advances(i)
  <2>1. CASE Finish(i)
    BY <2>1, FinishType
  <2>2. CASE Go(i, "mark") /\ UNCHANGED work
    BY <1>1, <2>2, GoAdvances DEF TypeOK
  <2> QED
    BY <2>1, <2>2
<1>4. faults' \in 0 .. MaxFaults
  BY SizeAssumption DEF TypeOK, Fault
<1>5. TypeOK'
  BY <1>2, <1>3, <1>4 DEF TypeOK, Job, Users
<1> QED
  BY <1>2, <1>3, <1>5, AdvanceKept, RowsKept

LEMMA ConnectStep ==
  ASSUME IInv, NEW i \in Invocation, Connect(i)
  PROVE  IInv'
<1> USE DEF IInv, Connect
<1>1. inv[i].at \in Bound /\ "activate" \in Bound
  BY DEF Bound
<1>2. SameRows /\ SameResets
  BY DEF SameRows, SameResets
<1>3. inv' \in [Invocation -> Job] /\ OnlyThis(i) /\ Advances(i)
  BY <1>1, GoAdvances
<1>4. note' \in [Tx -> Notes] /\ faults' \in 0 .. MaxFaults
  BY <1>1, BoundAccount, SizeAssumption DEF TypeOK, Note, Notes, Fault
<1>5. TypeOK'
  BY <1>3, <1>4 DEF TypeOK, Job
<1> QED
  BY <1>2, <1>3, <1>5, AdvanceKept, RowsKept

LEMMA ConnectFailsStep ==
  ASSUME IInv, NEW i \in Invocation, ConnectFails(i)
  PROVE  IInv'
<1> USE DEF IInv, ConnectFails
<1>1. inv[i].at \in Bound /\ "mark" \in Bound
  BY DEF Bound
<1>2. SameRows /\ SameResets
  BY DEF SameRows, SameResets
<1>3. inv' \in [Invocation -> Job] /\ OnlyThis(i) /\ Advances(i)
  BY <1>1, GoAdvances
<1>4. TypeOK'
  BY <1>3, SizeAssumption DEF TypeOK, Job, Fault
<1> QED
  BY <1>2, <1>3, <1>4, AdvanceKept, RowsKept

(* The reset is the maker's, and the only one. *)
LEMMA FirstReset ==
  ASSUME IInv, NEW i \in Invocation, inv[i].at = "reset",
         OnlyThis(i), Advances(i), ~WillReset(i)',
         customerOf' = customerOf, customer' = customer,
         edit' = edit, answered' = answered, TypeOK',
         \A n \in Name \ {NameIn(i)} : user'[n].resets = user[n].resets,
         user'[NameIn(i)].resets \in 0 .. 1
  PROVE  IInv'
<1> USE DEF IInv
<1> DEFINE n == NameIn(i)
<1>1. JobInv(i) /\ inv[i].at \in Bound /\ WillReset(i)
  BY DEF JobsOK, JobInv, Bound, WillReset
<1>2. \/ inv'[i].tx = inv[i].tx /\ inv'[i].name = inv[i].name
      \/ inv'[i] = Idle
  BY DEF Advances
<1>3. ASSUME NEW j \in Invocation \ {i}
      PROVE JobInv(j)' /\ Apart(i, j)' /\ Apart(j, i)'
  <2>1. JobInv(j) /\ inv'[j] = inv[j] /\ Apart(i, j) /\ Apart(j, i)
    BY DEF JobsOK, NamesApart, OnlyThis
  <2>2. JobInv(j)'
    BY <1>1, <2>1 DEF JobInv, Apart, WillReset, TxIn, NameIn, Bound
  <2>3. inv'[i].at # "claim"
    BY <1>1 DEF Advances, Idle, Bound
  <2>4. inv[j].at = "claim" => NameIn(j) \in Name
    BY <2>1 DEF JobInv
  <2>5. Apart(i, j)'
    BY <2>3 DEF Apart
  <2>6. Apart(j, i)'
    <3>1. inv[j].at = "claim" => inv'[i].name # inv[j].name
      BY <1>2, <2>1, <2>4, NameAssumption DEF Apart, NameIn, Idle
    <3>2. ~(WillReset(j)' /\ WillReset(i)')
      OBVIOUS
    <3> QED
      BY <2>1, <3>1, <3>2 DEF Apart, NameIn
  <2> QED
    BY <2>2, <2>5, <2>6
<1>4. JobInv(i)'
  <2>1. CASE inv'[i] = Idle
    BY <2>1 DEF JobInv, WillReset, Bound, Idle, TxIn, NameIn
  <2>2. CASE inv'[i] # Idle
    <3>1. inv'[i].at \in {"connect", "activate", "mark"}
      BY <2>2 DEF Advances, Bound
    <3> QED
      BY <1>1, <1>2, <2>2, <3>1 DEF JobInv, WillReset, Bound, TxIn, NameIn
  <2> QED
    BY <2>1, <2>2
<1>5. JobsOK' /\ NamesApart'
  <2>1. ASSUME NEW j \in Invocation, NEW k \in Invocation, j # k PROVE Apart(j, k)'
    <3>1. CASE j = i \/ k = i
      BY <1>3, <2>1, <3>1
    <3>2. CASE j # i /\ k # i
      BY <2>1, <3>2 DEF NamesApart, OnlyThis, Apart, WillReset, NameIn
    <3> QED
      BY <3>1, <3>2
  <2> QED
    BY <1>3, <1>4, <2>1 DEF JobsOK, NamesApart
<1>6. RowsOK'
  <2>1. customer[n].status # "none"
    BY <1>1, BoundAccount
  <2>2. \A m \in Name : customer[m].status = "none" => user'[m].resets = user[m].resets
    BY <2>1
  <2> QED
    BY <2>2 DEF RowsOK, Linked
<1>7. OneAccountPerPayment'
  BY DEF OneAccountPerPayment
<1>8. CountersResetOnce'
  BY DEF CountersResetOnce
<1> QED
  BY <1>5, <1>6, <1>7, <1>8

LEMMA ResetStep ==
  ASSUME IInv, NEW i \in Invocation, Reset(i)
  PROVE  IInv'
<1> USE DEF IInv, Reset
<1>1. inv[i].at \in Bound /\ "connect" \in Bound
  BY DEF Bound
<1>2. inv' \in [Invocation -> Job] /\ OnlyThis(i) /\ Advances(i)
  BY <1>1, GoAdvances
<1>3. NameIn(i) \in Name /\ user[NameIn(i)].resets = 0 /\ user \in [Name -> Users]
  BY <1>1, BoundAccount DEF JobsOK, JobInv, WillReset, TypeOK, Users
<1>4. /\ user' \in [Name -> Users]
      /\ \A n \in Name \ {NameIn(i)} : user'[n].resets = user[n].resets
      /\ user'[NameIn(i)].resets \in 0 .. 1
  BY <1>3 DEF Users
<1>5. TypeOK'
  BY <1>2, <1>4 DEF TypeOK, Job, Users
<1>6. ~WillReset(i)'
  BY DEF Go, WillReset, TypeOK
<1> QED
  BY <1>2, <1>4, <1>5, <1>6, FirstReset

LEMMA ResetFailsStep ==
  ASSUME IInv, NEW i \in Invocation, ResetFails(i)
  PROVE  IInv'
<1> USE DEF IInv, ResetFails
<1>1. inv[i].at \in Bound /\ "mark" \in Bound
  BY DEF Bound
<1>2. inv' \in [Invocation -> Job] /\ OnlyThis(i) /\ Advances(i)
  BY <1>1, GoAdvances
<1>3. NameIn(i) \in Name /\ user[NameIn(i)].resets = 0 /\ user \in [Name -> Users]
  BY <1>1, BoundAccount DEF JobsOK, JobInv, WillReset, TypeOK, Users
<1>4. /\ user' \in [Name -> Users]
      /\ \A n \in Name \ {NameIn(i)} : user'[n].resets = user[n].resets
      /\ user'[NameIn(i)].resets \in 0 .. 1
  BY <1>3 DEF Users
<1>5. TypeOK'
  BY <1>2, <1>4, SizeAssumption DEF TypeOK, Job, Users, Fault
<1>6. ~WillReset(i)'
  BY DEF Go, WillReset, TypeOK
<1> QED
  BY <1>2, <1>4, <1>5, <1>6, FirstReset

-----------------------------------------------------------------------------
(* The locked claim *)

(* The payment had no account: the drawn name becomes that of the payment.  *)
LEMMA CreatedKept ==
  ASSUME IInv, NEW i \in Invocation, inv[i].at = "claim",
         Claimed(TxIn(i)) = {}, Created(i), OnlyThis(i), TypeOK',
         user' = user, edit' = edit, answered' = answered,
         inv'[i] \in {Idle, [at |-> "provision", tx |-> inv[i].tx,
                             name |-> inv[i].name, fresh |-> TRUE]}
  PROVE  IInv'
<1> USE DEF IInv
<1> DEFINE t == TxIn(i)
           n == NameIn(i)
<1>1. /\ t \in Tx /\ n \in Name
      /\ customer[n].status = "none" /\ customer[n].tx = NoTx
      /\ user[n].resets = 0 /\ edit[n] = "none"
  BY DEF JobsOK, JobInv, RowsOK
<1>2. customerOf[t] = NoName
  BY <1>1 DEF Claimed, Linked, TypeOK
<1>3. \A m \in Name : customer[m].tx # t
  BY <1>2 DEF Claimed, Linked
<1>4. answered[t] = {}
  BY <1>1, <1>2, NameAssumption DEF OneAccountPerPayment, TypeOK
<1>5. /\ customerOf'[t] = n
      /\ \A u \in Tx \ {t} : customerOf'[u] = customerOf[u]
      /\ customer'[n] = [status |-> Pending, depleted |-> FALSE, valid |-> TRUE, tx |-> t]
      /\ \A m \in Name \ {n} : customer'[m] = customer[m]
  BY <1>1 DEF Created, TypeOK
<1>6. t # NoTx /\ n # NoName
  BY <1>1, NoTxIsNoTx, NameAssumption
<1>7. \A u \in Tx : customerOf[u] # n
  BY <1>1, <1>6, NoTxIsNoTx DEF RowsOK, Linked
<1>8. RowsOK'
  <2>1. \A m \in Name : (customer'[m].status = "none") <=> (customer'[m].tx = NoTx)
    BY <1>5, <1>6 DEF RowsOK, Pending
  <2>2. \A m \in Name : customer'[m].status = "none" => user[m].resets = 0 /\ edit[m] = "none"
    BY <1>5 DEF RowsOK, Pending
  <2>3. \A u \in Tx : customerOf'[u] # NoName => customer'[customerOf'[u]].tx = u
    BY <1>1, <1>5, <1>7 DEF RowsOK, Linked, TypeOK
  <2> QED
    BY <2>1, <2>2, <2>3 DEF RowsOK, Linked
<1>9. OneAccountPerPayment'
  BY <1>1, <1>3, <1>4, <1>5 DEF OneAccountPerPayment
<1>10. CountersResetOnce'
  BY DEF CountersResetOnce
<1>11. JobInv(i)'
  BY <1>1, <1>5 DEF JobInv, WillReset, Bound, Idle, TxIn, NameIn
<1>12. ASSUME NEW j \in Invocation \ {i}
       PROVE JobInv(j)' /\ Apart(i, j)' /\ Apart(j, i)'
  <2>1. JobInv(j) /\ inv'[j] = inv[j] /\ Apart(i, j) /\ Apart(j, i)
    BY DEF JobsOK, NamesApart, OnlyThis
  <2>2. inv[j].name # n
    BY <2>1 DEF Apart, NameIn
  <2>3. inv[j].at \in Bound => inv[j].tx # t
    BY <1>2, <2>1, NameAssumption DEF JobInv, TxIn, NameIn
  <2>4. JobInv(j)'
    BY <1>5, <2>1, <2>2, <2>3 DEF JobInv, WillReset, TxIn, NameIn, Bound
  <2>5. inv'[i].name \in {n, NoName} /\ inv'[i].at # "claim"
    BY DEF NameIn, Idle
  <2>6. Apart(i, j)'
    <3>1. WillReset(i)' => inv'[i].name = n
      BY DEF WillReset, NameIn, Idle
    <3> QED
      BY <2>1, <2>2, <2>5, <3>1 DEF Apart, NameIn
  <2>7. Apart(j, i)'
    <3>1. WillReset(i)' => inv'[i].name = n
      BY DEF WillReset, NameIn, Idle
    <3>2. inv[j].at = "claim" => inv[j].name \in Name
      BY <2>1 DEF JobInv, NameIn
    <3> QED
      BY <2>1, <2>2, <2>5, <3>1, <3>2, NameAssumption DEF Apart, NameIn
  <2> QED
    BY <2>4, <2>6, <2>7
<1>13. JobsOK'
  BY <1>11, <1>12 DEF JobsOK
<1>14. NamesApart'
  <2>1. ASSUME NEW j \in Invocation, NEW k \in Invocation, j # k PROVE Apart(j, k)'
    <3>1. CASE j = i \/ k = i
      BY <1>12, <2>1, <3>1
    <3>2. CASE j # i /\ k # i
      BY <2>1, <3>2 DEF NamesApart, OnlyThis, Apart, WillReset, NameIn
    <3> QED
      BY <3>1, <3>2
  <2> QED
    BY <2>1 DEF NamesApart
<1> QED
  BY <1>8, <1>9, <1>10, <1>13, <1>14

LEMMA CreatedRows ==
  ASSUME IInv, NEW i \in Invocation, inv[i].at = "claim", Created(i)
  PROVE  /\ customerOf' \in [Tx -> Name \union {NoName}]
         /\ customer' \in [Name -> Rows]
<1>1. TxIn(i) \in Tx /\ NameIn(i) \in Name
  BY DEF IInv, JobsOK, JobInv
<1> QED
  BY <1>1 DEF IInv, TypeOK, Created, Rows, CustomerStatus, Pending

LEMMA ClaimNewStep ==
  ASSUME IInv, NEW i \in Invocation, ClaimNew(i)
  PROVE  IInv'
<1> USE DEF IInv, ClaimNew
<1> DEFINE job == [at |-> "provision", tx |-> inv[i].tx,
                   name |-> inv[i].name, fresh |-> TRUE]
<1>1. TxIn(i) \in Tx
  BY DEF JobsOK, JobInv
<1>2. inv \in [Invocation -> Job] /\ inv[i] \in Job
  BY DEF TypeOK, Job
<1>3. inv'[i] = job /\ OnlyThis(i)
  BY <1>2 DEF OnlyThis, Job
<1>4. inv' \in [Invocation -> Job]
  <2>1. job \in Job
    BY <1>2 DEF Job, Steps
  <2> QED
    BY <1>2, <1>3, <2>1 DEF OnlyThis
<1>5. TypeOK'
  BY <1>1, <1>4, CreatedRows DEF TypeOK, Job, Rows, Note, Notes
<1> QED
  BY <1>3, <1>5, CreatedKept

LEMMA ClaimFailsStep ==
  ASSUME IInv, NEW i \in Invocation, ClaimFails(i)
  PROVE  IInv'
<1> USE DEF IInv, ClaimFails
<1>1. inv' \in [Invocation -> Job] /\ work' \subseteq Tx /\ OnlyThis(i) /\ Advances(i)
  BY FinishType
<1>2. faults' \in 0 .. MaxFaults
  BY SizeAssumption DEF TypeOK, Fault
<1>3. CASE Claimed(TxIn(i)) = {} /\ Created(i)
  <2>1. TypeOK'
    BY <1>1, <1>2, <1>3, CreatedRows DEF TypeOK, Job, Rows
  <2>2. inv'[i] = Idle
    BY DEF Finish, TypeOK
  <2> QED
    BY <1>1, <1>3, <2>1, <2>2, CreatedKept
<1>4. CASE UNCHANGED <<customerOf, customer>>
  <2>1. SameRows /\ SameResets
    BY <1>4 DEF SameRows, SameResets
  <2>2. TypeOK'
    BY <1>1, <1>2, <1>4 DEF TypeOK, Job
  <2> QED
    BY <1>1, <2>1, <2>2, AdvanceKept, RowsKept
<1> QED
  BY <1>3, <1>4

(* The payment has an account: it is the one the payment is linked to.      *)
LEMMA AdoptStep ==
  ASSUME IInv, NEW i \in Invocation, Adopt(i)
  PROVE  IInv'
<1> USE DEF IInv, Adopt
<1>1. PICK n \in Claimed(TxIn(i)) :
         /\ customerOf' = [customerOf EXCEPT ![TxIn(i)] = n]
         /\ \/ /\ Entitled(n)
               /\ Note(TxIn(i), "saved")
               /\ inv' = [inv EXCEPT ![i].at = "provision", ![i].name = n]
               /\ UNCHANGED work
            \/ ~Entitled(n) /\ Finish(i) /\ UNCHANGED note
  OBVIOUS
<1>2. TxIn(i) \in Tx /\ ~inv[i].fresh /\ n \in Name
  BY <1>1 DEF JobsOK, JobInv, Claimed
<1>3. customerOf[TxIn(i)] = n
  BY <1>1, <1>2 DEF Claimed, OneAccountPerPayment
<1>4. customer[n].tx = TxIn(i)
  BY <1>2, <1>3, NameAssumption DEF RowsOK, Linked
<1>5. customerOf' = customerOf
  BY <1>1, <1>2, <1>3 DEF TypeOK
<1>6. SameRows /\ SameResets
  BY <1>5 DEF SameRows, SameResets
<1>7. CASE Finish(i) /\ UNCHANGED note
  <2>1. TypeOK'
    BY <1>5, <1>7, FinishType DEF TypeOK, Job
  <2> QED
    BY <1>5, <1>6, <1>7, <2>1, FinishType, AdvanceKept, RowsKept
<1>8. CASE /\ Note(TxIn(i), "saved")
           /\ inv' = [inv EXCEPT ![i].at = "provision", ![i].name = n]
           /\ UNCHANGED work
  <2>1. /\ inv' \in [Invocation -> Job] /\ OnlyThis(i)
        /\ inv'[i] = [at |-> "provision", tx |-> inv[i].tx, name |-> n,
                      fresh |-> inv[i].fresh]
    BY <1>2, <1>8, Renamed DEF Steps
  <2>2. TypeOK'
    BY <1>2, <1>5, <1>8, <2>1 DEF TypeOK, Job, Note, Notes
  <2>3. JobInv(i)'
    BY <1>2, <1>3, <1>5, <2>1 DEF JobInv, WillReset, TxIn, NameIn
  <2>4. ASSUME NEW j \in Invocation \ {i} PROVE Apart(i, j)' /\ Apart(j, i)'
    <3>1. JobInv(j) /\ inv'[j] = inv[j]
      BY <2>1 DEF JobsOK, OnlyThis
    <3>2. customer[n].status # "none"
      BY <1>2, <1>4, NoTxIsNoTx DEF RowsOK
    <3> QED
      BY <1>2, <2>1, <3>1, <3>2 DEF Apart, JobInv, WillReset, NameIn
  <2>5. JobsOK' /\ NamesApart'
    BY <1>6, <2>1, <2>3, <2>4, JobsKept
  <2> QED
    BY <1>6, <2>2, <2>5, RowsKept
<1> QED
  BY <1>1, <1>7, <1>8

LEMMA ActivateStep ==
  ASSUME IInv, NEW i \in Invocation, Activate(i)
  PROVE  IInv'
<1> USE DEF IInv, Activate
<1>1. inv[i].at \in Bound
  BY DEF Bound
<1>2. customer' \in [Name -> Rows] /\ SameRows /\ SameResets
  BY <1>1, BoundAccount, ActivatedRows, StatusSameRows DEF SameResets, StatusWritten
<1>3. answered' \in [Tx -> SUBSET Name]
  BY <1>1, BoundAccount DEF TypeOK
<1>4. TypeOK'
  BY <1>2, <1>3, FinishType DEF TypeOK, Job, Rows
<1>5. JobsOK' /\ NamesApart'
  BY <1>2, FinishType, AdvanceKept
<1>6. RowsOK' /\ CountersResetOnce'
  BY <1>2, <1>4 DEF RowsOK, CountersResetOnce, SameRows, SameResets, Linked, TypeOK
<1>7. OneAccountPerPayment'
  <2>1. \A t \in Tx : answered'[t] \subseteq answered[t] \union {customerOf[t]}
    <3>1. customerOf[TxIn(i)] = NameIn(i)
      BY <1>1, BoundAccount
    <3>2. answered \in [Tx -> SUBSET Name]
      BY DEF TypeOK
    <3>3. ASSUME NEW t \in Tx, t = TxIn(i)
          PROVE answered'[t] = answered[t] \union {NameIn(i)}
      BY <3>2, <3>3
    <3>4. ASSUME NEW t \in Tx, t # TxIn(i) PROVE answered'[t] = answered[t]
      BY <3>2, <3>4
    <3>5. ASSUME NEW t \in Tx
          PROVE answered'[t] \subseteq answered[t] \union {customerOf[t]}
      BY <3>1, <3>3, <3>4
    <3> QED
      BY <3>5
  <2>2. ASSUME NEW t \in Tx PROVE answered'[t] \subseteq {customerOf'[t]}
    <3>1. answered[t] \subseteq {customerOf[t]} /\ customerOf' = customerOf
      BY <1>2 DEF OneAccountPerPayment, SameRows
    <3> QED
      BY <2>1, <3>1
  <2>3. \A t \in Tx, n \in Name : customer'[n].tx = t => customerOf'[t] = n
    BY <1>2 DEF OneAccountPerPayment, SameRows
  <2> QED
    BY <2>2, <2>3 DEF OneAccountPerPayment
<1> QED
  BY <1>4, <1>5, <1>6, <1>7

LEMMA CrashStep == ASSUME IInv, Crash PROVE IInv'
<1> USE DEF IInv, Crash
<1>1. TypeOK'
  BY SizeAssumption DEF TypeOK, Idle, Steps, Fault
<1>2. SameRows /\ SameResets
  BY DEF SameRows, SameResets
<1>3. JobsOK' /\ NamesApart'
  BY DEF JobsOK, JobInv, NamesApart, Apart, WillReset, Bound, Idle
<1> QED
  BY <1>1, <1>2, <1>3, RowsKept

-----------------------------------------------------------------------------
(* Who else writes the account *)

LEMMA EndKept ==
  ASSUME IInv, TypeOK', SameRows, SameResets, inv' = inv, answered' = answered,
         \A n \in Name : customer[n].status = "none" => edit'[n] = "none"
  PROVE  IInv'
<1> USE DEF IInv, SameRows, SameResets
<1>1. JobsOK' /\ NamesApart'
  BY DEF JobsOK, JobInv, NamesApart, Apart, WillReset, Bound, TxIn, NameIn
<1>2. RowsOK'
  BY DEF RowsOK, Linked, TypeOK
<1>3. OneAccountPerPayment' /\ CountersResetOnce'
  BY DEF OneAccountPerPayment, CountersResetOnce
<1> QED
  BY <1>1, <1>2, <1>3

LEMMA EndStep ==
  ASSUME IInv, NEW n \in Name, End(n)
  PROVE  IInv'
<1> USE DEF IInv
<1>1. /\ customer \in [Name -> Rows] /\ user \in [Name -> Users]
      /\ edit \in [Name -> CustomerStatus]
  BY DEF TypeOK, Rows, Users
<1>2. edit[n] # "none" => customer[n].status # "none"
  BY DEF RowsOK
<1>3. CASE Suspend(n)
  <2>1. user' \in [Name -> Users] /\ SameResets
    BY <1>3, UserEnabled DEF Suspend
  <2>2. edit' \in [Name -> CustomerStatus] /\ SameRows
    <3>1. customer[n].status \in CustomerStatus
      BY <1>1 DEF Rows
    <3>2. edit' = [edit EXCEPT ![n] = customer[n].status] /\ SameRows
      BY <1>3 DEF Suspend, SameRows
    <3> QED
      BY <1>1, <3>1, <3>2
  <2>3. TypeOK'
    BY <1>1, <1>3, <2>1, <2>2 DEF Suspend, TypeOK, Rows, Users
  <2>4. \A m \in Name : customer[m].status = "none" => edit'[m] = "none"
    BY <1>1, <1>3 DEF Suspend, RowsOK
  <2> QED
    BY <1>3, <2>1, <2>2, <2>3, <2>4, EndKept DEF Suspend
<1>4. CASE SuspendSave(n)
  <2>1. "suspended" \in CustomerStatus \ {"none"}
    BY DEF CustomerStatus
  <2>2. customer' \in [Name -> Rows] /\ SameRows /\ SameResets
    BY <1>2, <1>4, <2>1, SetStatusRows, StatusSameRows
       DEF SuspendSave, StatusWritten, SameResets
  <2>3. TypeOK'
    BY <1>1, <1>4, <2>2 DEF SuspendSave, TypeOK, Rows, Users, CustomerStatus
  <2>4. \A m \in Name : customer[m].status = "none" => edit'[m] = "none"
    BY <1>1, <1>4 DEF SuspendSave, RowsOK
  <2> QED
    BY <1>4, <2>2, <2>3, <2>4, EndKept DEF SuspendSave
<1>5. CASE SuspendFails(n)
  <2>1. (edit[n] = "active" /\ customer[n].valid) \in BOOLEAN
    OBVIOUS
  <2>2. user' \in [Name -> Users] /\ SameResets
    BY <1>5, <2>1, UserEnabled DEF SuspendFails
  <2>3. SameRows
    BY <1>5 DEF SuspendFails, SameRows
  <2>4. edit' \in [Name -> CustomerStatus] /\ faults' \in 0 .. MaxFaults
    BY <1>1, <1>5, SizeAssumption DEF SuspendFails, TypeOK, Fault, CustomerStatus
  <2>5. TypeOK'
    BY <1>1, <1>5, <2>2, <2>4 DEF SuspendFails, TypeOK, Rows, Users
  <2>6. \A m \in Name : customer[m].status = "none" => edit'[m] = "none"
    BY <1>1, <1>5 DEF SuspendFails, RowsOK
  <2> QED
    BY <1>5, <2>2, <2>3, <2>5, <2>6, EndKept DEF SuspendFails
<1>6. CASE Deplete(n)
  <2>1. StatusWritten(n)
    BY <1>1, <1>6, ZenonT(40) DEF Deplete, StatusWritten, Rows, CustomerStatus
  <2>2. customer[n].status # "none"
    BY <1>6 DEF Deplete, Entitled, Pending
  <2>3. SameRows /\ SameResets
    BY <1>6, <2>1, <2>2, StatusSameRows DEF Deplete, SameResets
  <2>4. TypeOK'
    BY <1>1, <1>6, <2>1 DEF Deplete, StatusWritten, TypeOK, Rows, Users
  <2> QED
    BY <1>6, <2>3, <2>4, EndKept DEF Deplete, RowsOK
<1>7. CASE Lapse(n)
  <2>1. user' \in [Name -> Users] /\ SameResets
    BY <1>7, UserEnabled DEF Lapse
  <2>2. customer' \in [Name -> Rows] /\ SameRows
    BY <1>1, <1>7 DEF Lapse, Rows, SameRows
  <2>3. TypeOK'
    BY <1>1, <1>7, <2>1, <2>2 DEF Lapse, TypeOK, Rows, Users
  <2> QED
    BY <1>7, <2>1, <2>2, <2>3, EndKept DEF Lapse, RowsOK
<1> QED
  BY <1>3, <1>4, <1>5, <1>6, <1>7 DEF End

-----------------------------------------------------------------------------
(* The theorems *)

LEMMA NextHolds == IInv /\ [Next]_vars => IInv'
<1> SUFFICES ASSUME IInv, [Next]_vars PROVE IInv'
  OBVIOUS
<1>1. CASE \E c \in Client, t \in Tx : Request(c, t)
  BY <1>1, RequestStep
<1>2. CASE Select
  BY <1>2, SelectStep
<1>3. CASE Retry
  BY <1>3, RetryStep
<1>4. ASSUME NEW i \in Invocation, Progress(i) PROVE IInv'
  BY <1>4, LoadLinkedStep, LoadUnlinkedStep, SaveStep, ClaimNewStep, AdoptStep,
     ProvisionStep, ProvisionFailsStep, ResetStep, ConnectStep, ActivateStep,
     ActivateNoneStep, MarkStep DEF Progress
<1>5. ASSUME NEW i \in Invocation, Fails(i) PROVE IInv'
  BY <1>5, LoadFailsStep, SaveFailsStep, ClaimFailsStep, ResetFailsStep,
     ConnectFailsStep, ActivateFailsStep, MarkFailsStep DEF Fails
<1>6. CASE Crash
  BY <1>6, CrashStep
<1>7. ASSUME NEW n \in Name, End(n) PROVE IInv'
  BY <1>7, EndStep
<1>8. CASE UNCHANGED vars
  BY <1>8 DEF vars, IInv, TypeOK, JobsOK, JobInv, NamesApart, Apart, WillReset,
     RowsOK, Linked, OneAccountPerPayment, CountersResetOnce, TxIn, NameIn
<1> QED
  BY <1>1, <1>2, <1>3, <1>4, <1>5, <1>6, <1>7, <1>8 DEF Next

(* Through every interleaving, failure and crash, an invocation past its    *)
(* claim holds the account its payment is linked to.                        *)
THEOREM Invariance == Spec => []IInv
<1> QED
  BY InitHolds, NextHolds, PTL DEF Spec

(* Every variable keeps its type. *)
THEOREM TypeCorrect == Spec => []TypeOK
<1>1. IInv => TypeOK
  BY DEF IInv
<1> QED
  BY <1>1, Invariance, PTL

(* One payment makes one customer and stays linked to it, however many      *)
(* portal pages and sweeps handle it at once, and whatever fails.           *)
THEOREM OneAccount == Spec => []OneAccountPerPayment
<1>1. IInv => OneAccountPerPayment
  BY DEF IInv
<1> QED
  BY <1>1, Invariance, PTL

(* A retry never resets the counters of the account it finds.               *)
THEOREM ResetOnce == Spec => []CountersResetOnce
<1>1. IInv => CountersResetOnce
  BY DEF IInv
<1> QED
  BY <1>1, Invariance, PTL

-----------------------------------------------------------------------------
(***************************************************************************)
(* If restrictions fall between invocations, none of them takes one back    *)
(* and every account they turn active works.                                *)
(***************************************************************************)
NoRestrictionLifted == \A n \in Name : Restricted(n) => Restricted(n)'

(* What the steps of an invocation do to the accounts. *)
Eased == \A n \in Name :
    /\ Restricted(n)' <=> Restricted(n)
    /\ user[n].enabled => user'[n].enabled
    /\ customer'[n].valid => customer[n].valid \/ customer[n].status = "none"
    /\ customer'[n].status = "none" => customer[n].status = "none"
    /\ customer'[n].status = "active" =>
           /\ customer[n].status # "none"
           /\ \/ customer[n].status = "active"
              \/ customer[n].valid => user[n].enabled

LEMMA QuietInit == Init => QuietInv
BY DEF Init, QuietInv, Kept, Idle, NoCustomer, ActiveHasAccess, Bound

LEMMA QuietKept ==
  ASSUME IInv, QuietInv, NEW i \in Invocation, inv[i].at # "idle",
         OnlyThis(i), Eased, edit' = edit, Kept(i)'
  PROVE  QuietInv' /\ NoRestrictionLifted
<1> USE DEF QuietInv
<1>1. \A n \in Name : edit[n] = "none"
  BY DEF Kept
<1>2. ASSUME NEW j \in Invocation, j # i PROVE Kept(j)'
  <2>1. Kept(j) /\ inv'[j] = inv[j]
    BY <1>2 DEF OnlyThis
  <2>2. inv[j].at \in Bound => NameIn(j) \in Name /\ customer[NameIn(j)].status # "none"
    BY BoundAccount
  <2>3. inv[j].at \in {"reset", "connect", "activate"} => inv[j].at \in Bound
    BY DEF Bound
  <2>4. inv[j].at \in Bound => ~Restricted(NameIn(j))'
    BY <2>1, <2>2 DEF Kept, Eased, NameIn, Restricted
  <2>5. inv[j].at \in {"reset", "connect", "activate"} =>
           (customer'[NameIn(j)].valid => user'[NameIn(j)].enabled)
    BY <2>1, <2>2, <2>3 DEF Kept, Eased
  <2> QED
    BY <1>1, <2>1, <2>4, <2>5 DEF Kept, NameIn, Restricted, Bound
<1>3. ActiveHasAccess'
  BY <1>1 DEF ActiveHasAccess, Eased
<1>4. \A n \in Name : customer'[n].status = "none" => ~customer'[n].depleted
  BY DEF Eased, Restricted
<1>5. NoRestrictionLifted
  BY DEF NoRestrictionLifted, Eased
<1> QED
  BY <1>1, <1>2, <1>3, <1>4, <1>5

LEMMA AdvanceQuiet ==
  ASSUME IInv, QuietInv, NEW i \in Invocation, inv[i].at # "idle",
         OnlyThis(i), Advances(i), Eased, edit' = edit,
         inv'[i].at \in {"reset", "connect", "activate"} =>
             inv[i].at \in {"reset", "connect"} \/ user'[NameIn(i)].enabled
  PROVE  QuietInv' /\ NoRestrictionLifted
<1>1. Kept(i) /\ \A n \in Name : edit[n] = "none"
  BY DEF QuietInv, Kept
<1>2. CASE inv'[i] = Idle
  <2>1. Kept(i)'
    BY <1>2 DEF Kept, Idle, Bound
  <2> QED
    BY <2>1, QuietKept
<1>3. CASE inv'[i] # Idle
  <2>1. inv[i].at \in Bound /\ inv'[i].name = inv[i].name
    BY <1>3 DEF Advances
  <2>2. NameIn(i) \in Name /\ customer[NameIn(i)].status # "none"
    BY <2>1, BoundAccount
  <2>3. ~Restricted(NameIn(i)) /\ NameIn(i)' = NameIn(i)
    BY <1>1, <2>1 DEF Kept, NameIn
  <2>4. ~Restricted(NameIn(i))'
    BY <2>1, <2>2, <2>3 DEF Eased, NameIn, Restricted
  <2>5. inv'[i].at \in {"reset", "connect", "activate"} =>
           (customer'[NameIn(i)].valid => user'[NameIn(i)].enabled)
    BY <1>1, <2>2 DEF Kept, Eased
  <2>6. Kept(i)'
    BY <1>1, <2>1, <2>4, <2>5 DEF Kept, NameIn
  <2> QED
    BY <2>6, QuietKept
<1> QED
  BY <1>2, <1>3

LEMMA SameEased ==
  ASSUME customer' = customer,
         \A n \in Name : user[n].enabled => user'[n].enabled
  PROVE  Eased
BY DEF Eased, Restricted

(* An account that is not restricted is written back as pending or active.  *)
LEMMA WrittenEased ==
  ASSUME IInv, NEW n \in Name, StatusWritten(n), ~Restricted(n), user' = user,
         customer[n].status # "none",
         customer'[n].status # "suspended", customer'[n].depleted = FALSE,
         customer'[n].valid = customer[n].valid,
         customer'[n].status = "active" => (customer[n].valid => user[n].enabled)
  PROVE  Eased
BY DEF StatusWritten, Eased, Restricted

(* Begin waits for edits to be over. *)
LEMMA BeginQuiet ==
  ASSUME IInv, QuietInv, ~Interleaved, NEW i \in Invocation, NEW t \in Tx, Begin(i, t),
         UNCHANGED <<customer, user, edit>>
  PROVE  QuietInv' /\ NoRestrictionLifted
<1>1. inv'[i].at = "load" /\ OnlyThis(i) /\ \A n \in Name : edit[n] = "none"
  BY DEF Begin, Idle, OnlyThis, IInv, TypeOK
<1>2. Kept(i)'
  BY <1>1 DEF Kept, Bound
<1>3. ASSUME NEW j \in Invocation, j # i PROVE Kept(j)'
  BY <1>1, <1>3 DEF QuietInv, Kept, OnlyThis, Restricted, NameIn, Bound
<1> QED
  BY <1>2, <1>3 DEF QuietInv, ActiveHasAccess, NoRestrictionLifted, Restricted

LEMMA MarkedEased ==
  ASSUME IInv, QuietInv, NEW i \in Invocation, inv[i].at \in Bound,
         customer' \in {customer, Marked(i)}, user' = user
  PROVE  Eased
<1> DEFINE n == NameIn(i)
<1>1. CASE customer' = customer
  BY <1>1, SameEased
<1>2. CASE SetStatus(n, Pending)
  <2>1. n \in Name /\ customer[n].status # "none" /\ ~Restricted(n)
    BY BoundAccount DEF QuietInv, Kept
  <2>2. Pending \in CustomerStatus \ {"none"}
    BY DEF CustomerStatus, Pending
  <2>3. StatusWritten(n)
    BY <1>2, <2>1, <2>2, SetStatusRows
  <2>4. /\ customer'[n].status = Pending /\ customer'[n].depleted = FALSE
        /\ customer'[n].valid = customer[n].valid
    BY <1>2, <2>1 DEF SetStatus, Restricted, IInv, TypeOK
  <2> QED
    BY <2>1, <2>3, <2>4, WrittenEased DEF Pending
<1> QED
  BY <1>1, <1>2 DEF Marked, SetStatus

LEMMA ProgressQuiet ==
  ASSUME IInv, QuietInv, NEW i \in Invocation, Progress(i)
  PROVE  QuietInv' /\ NoRestrictionLifted
<1> USE DEF IInv
<1> DEFINE n == NameIn(i)
           t == TxIn(i)
<1>1. /\ inv \in [Invocation -> Job] /\ customer \in [Name -> Rows]
      /\ user \in [Name -> Users]
  BY DEF TypeOK, Job, Rows, Users
<1>2. inv[i].at \in Bound => /\ n \in Name /\ customer[n].status # "none"
                             /\ ~Restricted(n)
  BY BoundAccount DEF QuietInv, Kept
<1>3. inv[i].at # "idle" => \A m \in Name : edit[m] = "none"
  BY DEF QuietInv, Kept
<1>4. inv[i].at # "idle" => t \in Tx
  BY DEF JobsOK, JobInv
<1>5. CASE LoadLinked(i)
  <2>1. Eased
    BY <1>5, SameEased DEF LoadLinked
  <2>2. CASE Finish(i)
    <3>1. inv'[i] = Idle
      BY <2>2 DEF Finish, TypeOK
    <3> QED
      BY <1>5, <2>1, <2>2, <3>1, FinishType, AdvanceQuiet DEF LoadLinked, Idle
  <2>3. CASE ~Finish(i)
    <3>1. /\ Entitled(customerOf[t])
          /\ inv' = [inv EXCEPT ![i].at = "save", ![i].name = customerOf[t]]
      BY <1>5, <2>3 DEF LoadLinked
    <3>2. customerOf[t] \in Name
      BY <1>4, <1>5 DEF LoadLinked, Linked, TypeOK
    <3>3. OnlyThis(i) /\ inv'[i].at = "save" /\ inv'[i].name = customerOf[t]
      <4>1. "save" \in Steps
        BY DEF Steps
      <4>2. /\ OnlyThis(i)
            /\ inv'[i] = [at |-> "save", tx |-> inv[i].tx, name |-> customerOf[t],
                          fresh |-> inv[i].fresh]
        BY <3>1, <3>2, <4>1, Renamed, ZenonT(40)
      <4> QED
        BY <4>2
    <3>4. Kept(i)'
      BY <1>3, <1>5, <3>1, <3>3
         DEF LoadLinked, Kept, NameIn, Restricted, Entitled, Bound, Pending
    <3> QED
      BY <1>5, <2>1, <3>3, <3>4, QuietKept DEF LoadLinked
  <2> QED
    BY <2>2, <2>3
<1>6. CASE LoadUnlinked(i)
  <2>1. Eased
    BY <1>6, SameEased DEF LoadUnlinked
  <2>2. CASE Finish(i)
    <3>1. inv'[i] = Idle
      BY <2>2 DEF Finish, TypeOK
    <3> QED
      BY <1>6, <2>1, <2>2, <3>1, FinishType, AdvanceQuiet DEF LoadUnlinked, Idle
  <2>3. CASE ~Finish(i)
    <3>1. PICK m \in Unused : inv' = [inv EXCEPT ![i].at = "claim", ![i].name = m]
      BY <1>6, <2>3 DEF LoadUnlinked
    <3>2. OnlyThis(i) /\ inv'[i].at = "claim"
      <4>1. "claim" \in Steps /\ m \in Name
        BY DEF Steps, Unused
      <4>2. /\ OnlyThis(i)
            /\ inv'[i] = [at |-> "claim", tx |-> inv[i].tx, name |-> m,
                          fresh |-> inv[i].fresh]
        BY <3>1, <4>1, Renamed, ZenonT(40)
      <4> QED
        BY <4>2
    <3>3. Kept(i)'
      BY <1>3, <1>6, <3>2 DEF LoadUnlinked, Kept, Bound
    <3> QED
      BY <1>6, <2>1, <3>2, <3>3, QuietKept DEF LoadUnlinked
  <2> QED
    BY <2>2, <2>3
<1>7. CASE Save(i)
  <2>1. inv[i].at \in Bound /\ "provision" \in Bound \ {"save"}
    BY <1>7 DEF Save, Bound
  <2>2. StatusWritten(n)
    BY <1>2, <1>7, <2>1, SavedRows DEF Save
  <2>3. /\ customer'[n].status = Pending /\ customer'[n].depleted = FALSE
        /\ customer'[n].valid = customer[n].valid
    BY <1>1, <1>2, <1>7, <2>1 DEF Save, Saved, Rows
  <2>4. Eased
    BY <1>2, <1>7, <2>1, <2>2, <2>3, WrittenEased DEF Save, Pending
  <2>5. OnlyThis(i) /\ Advances(i) /\ inv'[i].at = "provision"
    BY <1>1, <1>7, <2>1, GoAdvances DEF Save, Go, Job
  <2> QED
    BY <1>7, <2>4, <2>5, AdvanceQuiet DEF Save
<1>8. CASE ClaimNew(i)
  <2>1. n \in Name /\ customer[n].status = "none" /\ ~customer[n].depleted
    BY <1>8 DEF ClaimNew, JobsOK, JobInv, QuietInv
  <2>2. /\ customer'[n] = [status |-> Pending, depleted |-> FALSE, valid |-> TRUE, tx |-> t]
        /\ \A m \in Name \ {n} : customer'[m] = customer[m]
        /\ user' = user
    BY <1>1, <1>8, <2>1 DEF ClaimNew, Created
  <2>3. Eased
    BY <2>1, <2>2 DEF Eased, Restricted, Pending
  <2>4. OnlyThis(i) /\ inv'[i].at = "provision" /\ inv'[i].name = n
    BY <1>1, <1>8 DEF ClaimNew, OnlyThis, Job, NameIn
  <2>5. Kept(i)'
    BY <1>3, <1>8, <2>2, <2>4 DEF ClaimNew, Kept, NameIn, Restricted, Pending
  <2> QED
    BY <1>8, <2>3, <2>4, <2>5, QuietKept DEF ClaimNew
<1>9. CASE Adopt(i)
  <2>1. Eased
    BY <1>9, SameEased DEF Adopt
  <2>2. CASE Finish(i)
    <3>1. inv'[i] = Idle
      BY <2>2 DEF Finish, TypeOK
    <3> QED
      BY <1>9, <2>1, <2>2, <3>1, FinishType, AdvanceQuiet DEF Adopt, Idle
  <2>3. CASE ~Finish(i)
    <3>1. PICK m \in Claimed(t) :
            Entitled(m) /\ inv' = [inv EXCEPT ![i].at = "provision", ![i].name = m]
      BY <1>9, <2>3 DEF Adopt
    <3>2. m \in Name
      BY DEF Claimed
    <3>3. OnlyThis(i) /\ inv'[i].at = "provision" /\ inv'[i].name = m
      <4>1. "provision" \in Steps
        BY DEF Steps
      <4>2. /\ OnlyThis(i)
            /\ inv'[i] = [at |-> "provision", tx |-> inv[i].tx, name |-> m,
                          fresh |-> inv[i].fresh]
        BY <3>1, <3>2, <4>1, Renamed, ZenonT(40)
      <4> QED
        BY <4>2
    <3>4. Kept(i)'
      BY <1>3, <1>9, <3>1, <3>3 DEF Adopt, Kept, NameIn, Restricted, Entitled, Pending
    <3> QED
      BY <1>9, <2>1, <3>3, <3>4, QuietKept DEF Adopt
  <2> QED
    BY <2>2, <2>3
<1>10. CASE Provision(i)
  <2>1. inv[i].at \in Bound
    BY <1>10 DEF Provision, Bound
  <2>2. user'[n].enabled /\ \A m \in Name : user[m].enabled => user'[m].enabled
    BY <1>1, <1>2, <1>10, <2>1 DEF Provision, Enabled, Users
  <2>3. OnlyThis(i) /\ Advances(i)
    <3>1. CASE inv[i].fresh
      BY <1>10, <2>1, <3>1, GoAdvances DEF Provision, Bound
    <3>2. CASE ~inv[i].fresh
      BY <1>10, <2>1, <3>2, GoAdvances DEF Provision, Bound
    <3> QED
      BY <3>1, <3>2
  <2>4. Eased
    BY <1>10, <2>2, SameEased DEF Provision
  <2> QED
    BY <1>10, <2>2, <2>3, <2>4, AdvanceQuiet DEF Provision
<1>11. CASE ProvisionFails(i)
  <2>1. inv[i].at \in Bound /\ "mark" \in Bound
    BY <1>11 DEF ProvisionFails, Bound
  <2>2. \A m \in Name : user[m].enabled => user'[m].enabled
    BY <1>1, <1>2, <1>11, <2>1 DEF ProvisionFails, Enabled, Users
  <2>3. OnlyThis(i) /\ Advances(i) /\ inv'[i].at \in {"idle", "mark"}
    BY <1>1, <1>11, <2>1, FinishType, GoAdvances DEF ProvisionFails, Finish, Go, Idle, Job
  <2>4. Eased
    BY <1>11, <2>2, SameEased DEF ProvisionFails
  <2> QED
    BY <1>11, <2>3, <2>4, AdvanceQuiet DEF ProvisionFails
<1>12. CASE Reset(i)
  <2>1. inv[i].at \in Bound /\ "connect" \in Bound
    BY <1>12 DEF Reset, Bound
  <2>2. \A m \in Name : user[m].enabled => user'[m].enabled
    BY <1>1, <1>2, <1>12, <2>1 DEF Reset, Users
  <2>3. OnlyThis(i) /\ Advances(i)
    BY <1>12, <2>1, GoAdvances DEF Reset
  <2>4. Eased
    BY <1>12, <2>2, SameEased DEF Reset
  <2> QED
    BY <1>12, <2>3, <2>4, AdvanceQuiet DEF Reset
<1>13. CASE Connect(i)
  <2>1. inv[i].at \in Bound /\ "activate" \in Bound
    BY <1>13 DEF Connect, Bound
  <2>2. OnlyThis(i) /\ Advances(i)
    BY <1>13, <2>1, GoAdvances DEF Connect
  <2>3. Eased
    BY <1>13, SameEased DEF Connect
  <2> QED
    BY <1>13, <2>2, <2>3, AdvanceQuiet DEF Connect
<1>14. CASE Activate(i)
  <2>1. inv[i].at \in Bound
    BY <1>14 DEF Activate, Bound
  <2>2. StatusWritten(n)
    BY <1>2, <1>14, <2>1, ActivatedRows DEF Activate
  <2>3. /\ customer'[n].status = "active" /\ customer'[n].depleted = FALSE
        /\ customer'[n].valid = customer[n].valid
    BY <1>1, <1>2, <1>14, <2>1 DEF Activate, Activated, Rows
  <2>4. customer[n].valid => user[n].enabled
    BY <1>14 DEF Activate, QuietInv, Kept
  <2>5. Eased
    BY <1>2, <1>14, <2>1, <2>2, <2>3, <2>4, WrittenEased DEF Activate
  <2>6. inv'[i].at = "idle"
    BY <1>1, <1>14 DEF Activate, Finish, Idle
  <2> QED
    BY <1>14, <2>5, <2>6, FinishType, AdvanceQuiet DEF Activate
<1>15. CASE ActivateNone(i)
  <2>1. inv[i].at \in Bound /\ "mark" \in Bound
    BY <1>15 DEF ActivateNone, Bound
  <2>2. OnlyThis(i) /\ Advances(i) /\ inv'[i].at = "mark"
    <3>1. OnlyThis(i) /\ Advances(i)
      BY <1>15, <2>1, GoAdvances DEF ActivateNone
    <3>2. inv'[i].at = "mark"
      BY <1>1, <1>15 DEF ActivateNone, Go, Job
    <3> QED
      BY <3>1, <3>2
  <2>3. Eased
    BY <1>15, SameEased DEF ActivateNone
  <2> QED
    BY <1>15, <2>2, <2>3, AdvanceQuiet DEF ActivateNone
<1>16. CASE Mark(i)
  <2>1. inv[i].at \in Bound
    BY <1>16 DEF Mark, Bound
  <2>2. Eased
    BY <1>16, <2>1, MarkedEased DEF Mark
  <2>3. inv'[i].at = "idle"
    BY <1>1, <1>16 DEF Mark, Finish, Idle
  <2> QED
    BY <1>16, <2>2, <2>3, FinishType, AdvanceQuiet DEF Mark
<1> QED
  BY <1>5, <1>6, <1>7, <1>8, <1>9, <1>10, <1>11, <1>12, <1>13, <1>14, <1>15, <1>16
     DEF Progress

LEMMA FailsQuiet ==
  ASSUME IInv, QuietInv, NEW i \in Invocation, Fails(i)
  PROVE  QuietInv' /\ NoRestrictionLifted
<1> USE DEF IInv
<1> DEFINE n == NameIn(i)
<1>1. /\ inv \in [Invocation -> Job] /\ customer \in [Name -> Rows]
      /\ user \in [Name -> Users]
  BY DEF TypeOK, Job, Rows, Users
<1>2. inv[i].at \in Bound => /\ n \in Name /\ customer[n].status # "none"
                             /\ ~Restricted(n)
  BY BoundAccount DEF QuietInv, Kept
<1>3. ASSUME inv[i].at # "idle", Finish(i), Eased, edit' = edit
      PROVE  QuietInv' /\ NoRestrictionLifted
  <2>1. inv'[i].at = "idle"
    BY <1>1, <1>3 DEF Finish, Idle
  <2> QED
    BY <1>3, <2>1, FinishType, AdvanceQuiet
<1>4. ASSUME inv[i].at \in Bound, Go(i, "mark"), Eased, edit' = edit
      PROVE  QuietInv' /\ NoRestrictionLifted
  <2>1. "mark" \in Bound \ {"save"} /\ inv[i].at # "idle"
    BY <1>4 DEF Bound
  <2>2. OnlyThis(i) /\ Advances(i)
    BY <1>4, <2>1, GoAdvances
  <2>3. inv'[i].at = "mark"
    BY <1>1, <1>4 DEF Go, Job
  <2> QED
    BY <1>4, <2>1, <2>2, <2>3, AdvanceQuiet
<1>5. CASE LoadFails(i)
  BY <1>3, <1>5, SameEased DEF LoadFails
<1>6. CASE SaveFails(i)
  <2>1. inv[i].at \in Bound
    BY <1>6 DEF SaveFails, Bound
  <2>2. CASE customer' = customer
    BY <1>3, <1>6, <2>2, SameEased DEF SaveFails
  <2>3. CASE customer' = Saved(n)
    <3>1. StatusWritten(n)
      BY <1>2, <2>1, <2>3, SavedRows
    <3>2. /\ customer'[n].status = Pending /\ customer'[n].depleted = FALSE
          /\ customer'[n].valid = customer[n].valid
      BY <1>1, <1>2, <2>1, <2>3 DEF Saved, Rows
    <3>3. Eased
      BY <1>2, <1>6, <2>1, <3>1, <3>2, WrittenEased DEF SaveFails, Pending
    <3> QED
      BY <1>3, <1>6, <3>3 DEF SaveFails
  <2> QED
    BY <1>6, <2>2, <2>3 DEF SaveFails
<1>7. CASE ClaimFails(i)
  <2>1. CASE UNCHANGED <<customerOf, customer>>
    BY <1>3, <1>7, <2>1, SameEased DEF ClaimFails
  <2>2. CASE Created(i)
    <3>1. n \in Name /\ customer[n].status = "none" /\ ~customer[n].depleted
      BY <1>7 DEF ClaimFails, JobsOK, JobInv, QuietInv
    <3>2. /\ customer'[n] = [status |-> Pending, depleted |-> FALSE, valid |-> TRUE,
                             tx |-> TxIn(i)]
          /\ \A m \in Name \ {n} : customer'[m] = customer[m]
          /\ user' = user
      BY <1>1, <1>7, <2>2, <3>1 DEF ClaimFails, Created
    <3>3. Eased
      BY <3>1, <3>2 DEF Eased, Restricted, Pending
    <3> QED
      BY <1>3, <1>7, <3>3 DEF ClaimFails
  <2> QED
    BY <1>7, <2>1, <2>2 DEF ClaimFails
<1>8. CASE ResetFails(i)
  <2>1. inv[i].at \in Bound
    BY <1>8 DEF ResetFails, Bound
  <2>2. \A m \in Name : user[m].enabled => user'[m].enabled
    BY <1>1, <1>2, <1>8, <2>1 DEF ResetFails, Users
  <2> QED
    BY <1>4, <1>8, <2>1, <2>2, SameEased DEF ResetFails
<1>9. CASE ConnectFails(i)
  <2>1. inv[i].at \in Bound
    BY <1>9 DEF ConnectFails, Bound
  <2> QED
    BY <1>4, <1>9, <2>1, SameEased DEF ConnectFails
<1>10. CASE ActivateFails(i)
  <2>1. inv[i].at \in Bound
    BY <1>10 DEF ActivateFails, Bound
  <2>2. CASE UNCHANGED customer
    BY <1>4, <1>10, <2>1, <2>2, SameEased DEF ActivateFails
  <2>3. CASE customer' = Activated(n)
    <3>1. StatusWritten(n)
      BY <1>2, <2>1, <2>3, ActivatedRows
    <3>2. /\ customer'[n].status = "active" /\ customer'[n].depleted = FALSE
          /\ customer'[n].valid = customer[n].valid
      BY <1>1, <1>2, <2>1, <2>3 DEF Activated, Rows
    <3>3. customer[n].valid => user[n].enabled
      BY <1>10 DEF ActivateFails, QuietInv, Kept
    <3>4. Eased
      BY <1>2, <1>10, <2>1, <3>1, <3>2, <3>3, WrittenEased DEF ActivateFails
    <3> QED
      BY <1>4, <1>10, <2>1, <3>4 DEF ActivateFails
  <2> QED
    BY <1>10, <2>2, <2>3 DEF ActivateFails
<1>11. CASE MarkFails(i)
  <2>1. inv[i].at \in Bound
    BY <1>11 DEF MarkFails, Bound
  <2>2. Eased
    BY <1>11, <2>1, MarkedEased DEF MarkFails
  <2> QED
    BY <1>3, <1>11, <2>2 DEF MarkFails
<1> QED
  BY <1>5, <1>6, <1>7, <1>8, <1>9, <1>10, <1>11 DEF Fails

(* Restrictions start between invocations; an edit is over before the next. *)
LEMMA EndQuiet ==
  ASSUME IInv, QuietInv, ~Interleaved, NEW n \in Name, End(n)
  PROVE  QuietInv' /\ NoRestrictionLifted
<1> USE DEF IInv
<1>1. /\ customer \in [Name -> Rows] /\ user \in [Name -> Users]
      /\ edit \in [Name -> CustomerStatus]
  BY DEF TypeOK, Rows, Users
<1>2. ASSUME inv' = inv, \A i \in Invocation : inv[i].at = "idle"
      PROVE  \A i \in Invocation : Kept(i)'
  BY <1>2 DEF Kept, Bound
<1>3. edit[n] # "none" => \A i \in Invocation : inv[i].at = "idle"
  BY DEF QuietInv, Kept
<1>4. CASE Suspend(n)
  <2>1. /\ edit'[n] = customer[n].status /\ \A m \in Name \ {n} : edit'[m] = edit[m]
        /\ \A m \in Name \ {n} : user'[m] = user[m]
        /\ customer' = customer /\ inv' = inv
    BY <1>1, <1>4 DEF Suspend
  <2>2. \A i \in Invocation : Kept(i)'
    BY <1>2, <1>4, <2>1 DEF Suspend, MayEnd
  <2>3. ActiveHasAccess'
    BY <1>4, <2>1 DEF QuietInv, ActiveHasAccess, Suspend
  <2> QED
    BY <2>1, <2>2, <2>3 DEF QuietInv, NoRestrictionLifted, Restricted
<1>5. CASE SuspendSave(n)
  <2>1. /\ customer'[n].status = "suspended" /\ edit'[n] = "none"
        /\ \A m \in Name \ {n} : customer'[m] = customer[m] /\ edit'[m] = edit[m]
        /\ user' = user /\ inv' = inv
    BY <1>1, <1>5 DEF SuspendSave, SetStatus, Rows
  <2>2. \A i \in Invocation : Kept(i)'
    BY <1>2, <1>3, <1>5, <2>1 DEF SuspendSave
  <2>3. ActiveHasAccess'
    BY <2>1 DEF QuietInv, ActiveHasAccess
  <2> QED
    BY <2>1, <2>2, <2>3 DEF QuietInv, NoRestrictionLifted, Restricted
<1>6. CASE SuspendFails(n)
  <2>1. /\ user'[n].enabled = (edit[n] = "active" /\ customer[n].valid)
        /\ edit'[n] = "none" /\ customer' = customer /\ inv' = inv
        /\ \A m \in Name \ {n} : user'[m] = user[m] /\ edit'[m] = edit[m]
    BY <1>1, <1>6 DEF SuspendFails, Users
  <2>2. \A i \in Invocation : Kept(i)'
    BY <1>2, <1>3, <1>6, <2>1 DEF SuspendFails
  <2>3. ActiveHasAccess'
    <3>1. customer[n].status = edit[n]
      BY <1>6 DEF QuietInv, SuspendFails
    <3>2. customer[n].status = "active" /\ customer[n].valid => user'[n].enabled
      BY <2>1, <3>1
    <3> QED
      BY <2>1, <3>2 DEF QuietInv, ActiveHasAccess
  <2> QED
    BY <2>1, <2>2, <2>3 DEF QuietInv, NoRestrictionLifted, Restricted
<1>7. CASE Deplete(n)
  <2>1. /\ customer'[n].status = "expired" /\ customer'[n].depleted = TRUE
        /\ \A m \in Name \ {n} : customer'[m] = customer[m]
        /\ user' = user /\ edit' = edit /\ inv' = inv /\ edit[n] = "none"
    BY <1>1, <1>7 DEF Deplete, Rows
  <2>2. \A i \in Invocation : Kept(i)'
    BY <1>2, <1>7, <2>1 DEF Deplete, MayEnd
  <2>3. ActiveHasAccess'
    BY <2>1 DEF QuietInv, ActiveHasAccess
  <2> QED
    BY <2>1, <2>2, <2>3 DEF QuietInv, NoRestrictionLifted, Restricted
<1>8. CASE Lapse(n)
  <2>1. /\ customer'[n].status = customer[n].status
        /\ customer'[n].depleted = customer[n].depleted /\ customer'[n].valid = FALSE
        /\ \A m \in Name \ {n} : customer'[m] = customer[m] /\ user'[m] = user[m]
        /\ edit' = edit /\ inv' = inv
    BY <1>1, <1>8 DEF Lapse, Rows
  <2>2. ASSUME NEW i \in Invocation PROVE Kept(i)'
    <3>1. inv[i].at \in Bound => NameIn(i) \in Name
      BY BoundAccount
    <3>2. inv[i].at \in {"reset", "connect", "activate"} => inv[i].at \in Bound
      BY DEF Bound
    <3> QED
      BY <2>1, <3>1, <3>2 DEF QuietInv, Kept, NameIn, Restricted
  <2>3. ActiveHasAccess'
    BY <2>1 DEF QuietInv, ActiveHasAccess
  <2> QED
    BY <2>1, <2>2, <2>3 DEF QuietInv, NoRestrictionLifted, Restricted
<1> QED
  BY <1>4, <1>5, <1>6, <1>7, <1>8 DEF End

LEMMA QuietNext ==
  ASSUME ~Interleaved, IInv, QuietInv, [Next]_vars
  PROVE  QuietInv' /\ NoRestrictionLifted
<1> USE DEF IInv
<1>1. ASSUME NEW c \in Client, NEW t \in Tx, Request(c, t)
      PROVE  QuietInv' /\ NoRestrictionLifted
  BY <1>1, BeginQuiet DEF Request, Invocation
<1>2. ASSUME UNCHANGED <<customer, user, edit, inv>>
      PROVE  QuietInv' /\ NoRestrictionLifted
  BY <1>2 DEF QuietInv, Kept, ActiveHasAccess, NoRestrictionLifted, Restricted, NameIn
<1>3. CASE Retry
  <2>1. PICK t \in work : Begin(Sweeper, t)
    BY <1>3 DEF Retry
  <2>2. Sweeper \in Invocation /\ t \in Tx
    BY DEF Invocation, TypeOK
  <2> QED
    BY <1>3, <2>1, <2>2, BeginQuiet DEF Retry
<1>4. CASE Crash
  <2>1. \A i \in Invocation : Kept(i)'
    BY <1>4 DEF Crash, Kept, Idle, Bound
  <2> QED
    BY <1>4, <2>1 DEF Crash, QuietInv, ActiveHasAccess, NoRestrictionLifted, Restricted
<1> QED
  BY <1>1, <1>2, <1>3, <1>4, ProgressQuiet, FailsQuiet, EndQuiet DEF Next, Select, vars

(* Where restrictions fall between invocations, an account shown as active  *)
(* has been set up on its router, whatever fails and however often it is    *)
(* tried again.                                                             *)
THEOREM ActiveAccess ==
  ASSUME ~Interleaved
  PROVE  Spec => []ActiveHasAccess
<1>1. Init => QuietInv
  BY QuietInit
<1>2. IInv /\ QuietInv /\ [Next]_vars => QuietInv'
  BY QuietNext
<1>3. QuietInv => ActiveHasAccess
  BY DEF QuietInv
<1> QED
  BY <1>1, <1>2, <1>3, Invariance, PTL DEF Spec

(* ... and no step of an activation takes a restriction back.               *)
THEOREM RestrictionsHold ==
  ASSUME ~Interleaved
  PROVE  Spec => RestrictionHolds
<1>1. Init => QuietInv
  BY QuietInit
<1>2. IInv /\ QuietInv /\ [Next]_vars => QuietInv'
  BY QuietNext
<1>3. IInv /\ QuietInv /\ [Next]_vars
        => [\A n \in Name : Restricted(n) => Restricted(n)']_vars
  BY QuietNext DEF NoRestrictionLifted
<1> QED
  BY <1>1, <1>2, <1>3, Invariance, PTL DEF Spec, RestrictionHolds
=============================================================================
