------------------------ MODULE MpesaPayments_proofs ------------------------
(***************************************************************************)
(* What StkCheckout promises, for any number of intents, requests, faults   *)
(* and attempts, and what it promises together with MpesaSettlement.        *)
(*                                                                         *)
(* Part one is StkCheckout alone.  None of its three invariants is          *)
(* inductive: they rest on who owns an intent's row.  The request whose     *)
(* insert created the row is the only one that can prompt for it, record    *)
(* its checkout id or close it.                                             *)
(*                                                                         *)
(* Part two is the composition.  Every step of it is a step of StkCheckout  *)
(* and a step of MpesaSettlement as the settlement sees the rows, or leaves *)
(* the one or the other alone; so the invariants of both hold of it, and    *)
(* with them what neither can say by itself.                                *)
(***************************************************************************)
EXTENDS MpesaPayments, TLAPS

(* The handler of r has created the row of its intent. *)
Owns(r) == at[r] \in {"prompt", "reject", "record"} \/ r \in prompts

OneOwner ==
    \A p, q \in Request : Owns(p) /\ Owns(q) /\ intent[p] = intent[q] => p = q

(* How far the row has come, as long as its owner is at work. *)
OwnersProgress ==
    \A r \in Request :
        /\ Owns(r) => status[intent[r]] # "absent"
        /\ at[r] \in {"prompt", "reject"} =>
               status[intent[r]] = "initiating" /\ r \notin prompts
        /\ at[r] = "record" => r \in prompts

(* The checkout id is there from pending on, and names a prompt of the row. *)
CheckoutNamesPrompt ==
    \A i \in Intent :
        /\ status[i] \in {"absent", "initiating"} => checkout[i] = NoCheckout
        /\ status[i] \in {"pending", "completed"} => checkout[i] # NoCheckout
        /\ checkout[i] # NoCheckout => /\ checkout[i] \in prompts
                                       /\ intent[checkout[i]] = i

RepliesNameCheckout ==
    \A r \in Request : reply[r] \in {"accepted", "reused"} =>
                           checkout[intent[r]] # NoCheckout

TriesLeft == \A r \in Request : at[r] # "done" => tries[r] < MaxTries

IInv ==
    /\ TypeOK
    /\ TriesLeft
    /\ OneOwner
    /\ OwnersProgress
    /\ CheckoutNamesPrompt
    /\ RepliesNameCheckout
    /\ ClosedCheckoutWasNeverPrompted

-----------------------------------------------------------------------------
(* The invariants that the runs check follow from the inductive one. *)

LEMMA InvariantsFollow ==
    IInv => OnePromptPerIntent /\ PromisedCheckoutExists
<1>1. IInv => OnePromptPerIntent
  BY DEF IInv, TypeOK, OneOwner, Owns, OnePromptPerIntent
<1>2. IInv => PromisedCheckoutExists
  <2> SUFFICES ASSUME IInv, NEW r \in Request, reply[r] \in {"accepted", "reused"}
               PROVE  /\ status[intent[r]] \in {"pending", "completed", "failed"}
                      /\ checkout[intent[r]] \in prompts
                      /\ intent[checkout[intent[r]]] = intent[r]
    BY DEF PromisedCheckoutExists
  <2>1. intent[r] \in Intent /\ status[intent[r]] \in RowStatus
    BY DEF IInv, TypeOK
  <2>2. checkout[intent[r]] # NoCheckout
    BY DEF IInv, RepliesNameCheckout
  <2>. QED
    BY <2>1, <2>2 DEF IInv, CheckoutNamesPrompt, RowStatus
<1>. QED BY <1>1, <1>2

LEMMA InitHolds == Init => IInv
<1> SUFFICES ASSUME Init PROVE IInv
  OBVIOUS
<1>1. TypeOK
  BY TriesAssumption, FaultAssumption DEF Init, TypeOK, RowStatus, Steps, Replies
<1>2. \A r \in Request : ~Owns(r)
  BY DEF Init, Owns
<1>3. CheckoutNamesPrompt /\ ClosedCheckoutWasNeverPrompted
  BY DEF Init, CheckoutNamesPrompt, ClosedCheckoutWasNeverPrompted
<1>4. RepliesNameCheckout
  BY DEF Init, RepliesNameCheckout
<1>5. TriesLeft
  BY TriesAssumption DEF Init, TriesLeft
<1>. QED
  BY <1>1, <1>2, <1>3, <1>4, <1>5
     DEF IInv, OneOwner, OwnersProgress, Owns, Init

-----------------------------------------------------------------------------
(* Every step of a request preserves it. *)

LEMMA ArrivePreserves ==
    ASSUME IInv, NEW r \in Request, Arrive(r) PROVE IInv'
<1>1. TypeOK' /\ TriesLeft'
  BY NoCheckoutAssumption, TriesAssumption, FaultAssumption DEF IInv,
       TypeOK, TriesLeft, RowStatus, Steps, Replies, Arrive, MoveTo
<1>2. OneOwner' /\ OwnersProgress'
  BY DEF IInv, TypeOK, OneOwner, OwnersProgress, Owns, Arrive, MoveTo
<1>3. CheckoutNamesPrompt' /\ ClosedCheckoutWasNeverPrompted'
  BY NoCheckoutAssumption DEF IInv, TypeOK, OneOwner, OwnersProgress, Owns,
       CheckoutNamesPrompt, ClosedCheckoutWasNeverPrompted, Arrive, MoveTo
<1>4. RepliesNameCheckout'
  BY NoCheckoutAssumption DEF IInv, TypeOK, CheckoutNamesPrompt,
       RepliesNameCheckout, Arrive, MoveTo
<1>. QED BY <1>1, <1>2, <1>3, <1>4 DEF IInv

LEMMA CheckExistingPreserves ==
    ASSUME IInv, NEW r \in Request, CheckExisting(r) PROVE IInv'
<1>1. TypeOK' /\ TriesLeft'
  BY NoCheckoutAssumption, TriesAssumption, FaultAssumption DEF IInv,
       TypeOK, TriesLeft, RowStatus, Steps, Replies, CheckExisting, MoveTo,
       Answer, AnswerToExisting
<1>2. OneOwner' /\ OwnersProgress'
  BY DEF IInv, TypeOK, OneOwner, OwnersProgress, Owns, CheckExisting,
       MoveTo, Answer, AnswerToExisting
<1>3. CheckoutNamesPrompt' /\ ClosedCheckoutWasNeverPrompted'
  BY NoCheckoutAssumption DEF IInv, TypeOK, OneOwner, OwnersProgress, Owns,
       CheckoutNamesPrompt, ClosedCheckoutWasNeverPrompted, CheckExisting,
       MoveTo, Answer, AnswerToExisting
<1>4. RepliesNameCheckout'
  BY NoCheckoutAssumption DEF IInv, TypeOK, CheckoutNamesPrompt,
       RepliesNameCheckout, CheckExisting, MoveTo, Answer, AnswerToExisting
<1>. QED BY <1>1, <1>2, <1>3, <1>4 DEF IInv

LEMMA CheckFailsPreserves ==
    ASSUME IInv, NEW r \in Request, CheckFails(r) PROVE IInv'
<1>1. TypeOK' /\ TriesLeft'
  BY NoCheckoutAssumption, TriesAssumption, FaultAssumption DEF IInv,
       TypeOK, TriesLeft, RowStatus, Steps, Replies, CheckFails, Fault,
       Answer
<1>2. OneOwner' /\ OwnersProgress'
  BY DEF IInv, TypeOK, OneOwner, OwnersProgress, Owns, CheckFails, Fault,
       Answer
<1>3. CheckoutNamesPrompt' /\ ClosedCheckoutWasNeverPrompted'
  BY NoCheckoutAssumption DEF IInv, TypeOK, OneOwner, OwnersProgress, Owns,
       CheckoutNamesPrompt, ClosedCheckoutWasNeverPrompted, CheckFails,
       Fault, Answer
<1>4. RepliesNameCheckout'
  BY NoCheckoutAssumption DEF IInv, TypeOK, CheckoutNamesPrompt,
       RepliesNameCheckout, CheckFails, Fault, Answer
<1>. QED BY <1>1, <1>2, <1>3, <1>4 DEF IInv

LEMMA RefusePreserves ==
    ASSUME IInv, NEW r \in Request, Refuse(r) PROVE IInv'
<1>1. TypeOK' /\ TriesLeft'
  BY NoCheckoutAssumption, TriesAssumption, FaultAssumption DEF IInv,
       TypeOK, TriesLeft, RowStatus, Steps, Replies, Refuse, Answer
<1>2. OneOwner' /\ OwnersProgress'
  BY DEF IInv, TypeOK, OneOwner, OwnersProgress, Owns, Refuse, Answer
<1>3. CheckoutNamesPrompt' /\ ClosedCheckoutWasNeverPrompted'
  BY NoCheckoutAssumption DEF IInv, TypeOK, OneOwner, OwnersProgress, Owns,
       CheckoutNamesPrompt, ClosedCheckoutWasNeverPrompted, Refuse, Answer
<1>4. RepliesNameCheckout'
  BY NoCheckoutAssumption DEF IInv, TypeOK, CheckoutNamesPrompt,
       RepliesNameCheckout, Refuse, Answer
<1>. QED BY <1>1, <1>2, <1>3, <1>4 DEF IInv

LEMMA InsertPreserves ==
    ASSUME IInv, NEW r \in Request, Insert(r) PROVE IInv'
<1>1. TypeOK' /\ TriesLeft'
  BY NoCheckoutAssumption, TriesAssumption, FaultAssumption DEF IInv,
       TypeOK, TriesLeft, RowStatus, Steps, Replies, Insert, MoveTo, Answer,
       AnswerToExisting
<1>2. OneOwner' /\ OwnersProgress'
  BY DEF IInv, TypeOK, OneOwner, OwnersProgress, Owns, Insert, MoveTo,
       Answer, AnswerToExisting
<1>3. CheckoutNamesPrompt' /\ ClosedCheckoutWasNeverPrompted'
  BY NoCheckoutAssumption DEF IInv, TypeOK, OneOwner, OwnersProgress, Owns,
       CheckoutNamesPrompt, ClosedCheckoutWasNeverPrompted, Insert, MoveTo,
       Answer, AnswerToExisting
<1>4. RepliesNameCheckout'
  BY NoCheckoutAssumption DEF IInv, TypeOK, CheckoutNamesPrompt,
       RepliesNameCheckout, Insert, MoveTo, Answer, AnswerToExisting
<1>. QED BY <1>1, <1>2, <1>3, <1>4 DEF IInv

LEMMA InsertFailsPreserves ==
    ASSUME IInv, NEW r \in Request, InsertFails(r) PROVE IInv'
<1>1. TypeOK' /\ TriesLeft'
  BY NoCheckoutAssumption, TriesAssumption, FaultAssumption DEF IInv,
       TypeOK, TriesLeft, RowStatus, Steps, Replies, InsertFails, Fault,
       Answer
<1>2. OneOwner' /\ OwnersProgress'
  BY DEF IInv, TypeOK, OneOwner, OwnersProgress, Owns, InsertFails, Fault,
       Answer
<1>3. CheckoutNamesPrompt' /\ ClosedCheckoutWasNeverPrompted'
  BY NoCheckoutAssumption DEF IInv, TypeOK, OneOwner, OwnersProgress, Owns,
       CheckoutNamesPrompt, ClosedCheckoutWasNeverPrompted, InsertFails,
       Fault, Answer
<1>4. RepliesNameCheckout'
  BY NoCheckoutAssumption DEF IInv, TypeOK, CheckoutNamesPrompt,
       RepliesNameCheckout, InsertFails, Fault, Answer
<1>. QED BY <1>1, <1>2, <1>3, <1>4 DEF IInv

LEMMA PromptPreserves ==
    ASSUME IInv, NEW r \in Request, Prompt(r) PROVE IInv'
<1>1. TypeOK' /\ TriesLeft'
  BY NoCheckoutAssumption, TriesAssumption, FaultAssumption DEF IInv,
       TypeOK, TriesLeft, RowStatus, Steps, Replies, Prompt, MoveTo
<1>2. OneOwner' /\ OwnersProgress'
  BY DEF IInv, TypeOK, OneOwner, OwnersProgress, Owns, Prompt, MoveTo
<1>3. CheckoutNamesPrompt' /\ ClosedCheckoutWasNeverPrompted'
  BY NoCheckoutAssumption DEF IInv, TypeOK, OneOwner, OwnersProgress, Owns,
       CheckoutNamesPrompt, ClosedCheckoutWasNeverPrompted, Prompt, MoveTo
<1>4. RepliesNameCheckout'
  BY NoCheckoutAssumption DEF IInv, TypeOK, CheckoutNamesPrompt,
       RepliesNameCheckout, Prompt, MoveTo
<1>. QED BY <1>1, <1>2, <1>3, <1>4 DEF IInv

LEMMA PromptRejectedPreserves ==
    ASSUME IInv, NEW r \in Request, PromptRejected(r) PROVE IInv'
<1>1. TypeOK' /\ TriesLeft'
  BY NoCheckoutAssumption, TriesAssumption, FaultAssumption DEF IInv,
       TypeOK, TriesLeft, RowStatus, Steps, Replies, PromptRejected, MoveTo
<1>2. OneOwner' /\ OwnersProgress'
  BY DEF IInv, TypeOK, OneOwner, OwnersProgress, Owns, PromptRejected,
       MoveTo
<1>3. CheckoutNamesPrompt' /\ ClosedCheckoutWasNeverPrompted'
  BY NoCheckoutAssumption DEF IInv, TypeOK, OneOwner, OwnersProgress, Owns,
       CheckoutNamesPrompt, ClosedCheckoutWasNeverPrompted, PromptRejected,
       MoveTo
<1>4. RepliesNameCheckout'
  BY NoCheckoutAssumption DEF IInv, TypeOK, CheckoutNamesPrompt,
       RepliesNameCheckout, PromptRejected, MoveTo
<1>. QED BY <1>1, <1>2, <1>3, <1>4 DEF IInv

LEMMA PromptErrorPreserves ==
    ASSUME IInv, NEW r \in Request, PromptError(r) PROVE IInv'
<1>1. TypeOK' /\ TriesLeft'
  BY NoCheckoutAssumption, TriesAssumption, FaultAssumption DEF IInv,
       TypeOK, TriesLeft, RowStatus, Steps, Replies, PromptError, Fault,
       Answer
<1>2. OneOwner' /\ OwnersProgress'
  BY DEF IInv, TypeOK, OneOwner, OwnersProgress, Owns, PromptError, Fault,
       Answer
<1>3. CheckoutNamesPrompt' /\ ClosedCheckoutWasNeverPrompted'
  BY NoCheckoutAssumption DEF IInv, TypeOK, OneOwner, OwnersProgress, Owns,
       CheckoutNamesPrompt, ClosedCheckoutWasNeverPrompted, PromptError,
       Fault, Answer
<1>4. RepliesNameCheckout'
  BY NoCheckoutAssumption DEF IInv, TypeOK, CheckoutNamesPrompt,
       RepliesNameCheckout, PromptError, Fault, Answer
<1>. QED BY <1>1, <1>2, <1>3, <1>4 DEF IInv

LEMMA RejectPreserves ==
    ASSUME IInv, NEW r \in Request, Reject(r) PROVE IInv'
<1>1. TypeOK' /\ TriesLeft'
  BY NoCheckoutAssumption, TriesAssumption, FaultAssumption DEF IInv,
       TypeOK, TriesLeft, RowStatus, Steps, Replies, Reject, Fault, Answer
<1>2. OneOwner' /\ OwnersProgress'
  BY DEF IInv, TypeOK, OneOwner, OwnersProgress, Owns, Reject, Fault, Answer
<1>3. CheckoutNamesPrompt' /\ ClosedCheckoutWasNeverPrompted'
  BY NoCheckoutAssumption DEF IInv, TypeOK, OneOwner, OwnersProgress, Owns,
       CheckoutNamesPrompt, ClosedCheckoutWasNeverPrompted, Reject, Fault,
       Answer
<1>4. RepliesNameCheckout'
  BY NoCheckoutAssumption DEF IInv, TypeOK, CheckoutNamesPrompt,
       RepliesNameCheckout, Reject, Fault, Answer
<1>. QED BY <1>1, <1>2, <1>3, <1>4 DEF IInv

LEMMA RecordPreserves ==
    ASSUME IInv, NEW r \in Request, Record(r) PROVE IInv'
<1>1. TypeOK' /\ TriesLeft'
  BY NoCheckoutAssumption, TriesAssumption, FaultAssumption DEF IInv,
       TypeOK, TriesLeft, RowStatus, Steps, Replies, Record, SetPending,
       Answer, Retry, rowVars
<1>2. OneOwner' /\ OwnersProgress'
  BY DEF IInv, TypeOK, OneOwner, OwnersProgress, Owns, Record, SetPending,
       Answer, Retry, rowVars
<1>3. CheckoutNamesPrompt' /\ ClosedCheckoutWasNeverPrompted'
  BY NoCheckoutAssumption DEF IInv, TypeOK, OneOwner, OwnersProgress, Owns,
       CheckoutNamesPrompt, ClosedCheckoutWasNeverPrompted, Record,
       SetPending, Answer, Retry, rowVars
<1>4. RepliesNameCheckout'
  BY NoCheckoutAssumption DEF IInv, TypeOK, CheckoutNamesPrompt,
       RepliesNameCheckout, Record, SetPending, Answer, Retry, rowVars
<1>. QED BY <1>1, <1>2, <1>3, <1>4 DEF IInv

LEMMA RecordFailsPreserves ==
    ASSUME IInv, NEW r \in Request, RecordFails(r) PROVE IInv'
<1>1. TypeOK' /\ TriesLeft'
  BY NoCheckoutAssumption, TriesAssumption, FaultAssumption DEF IInv,
       TypeOK, TriesLeft, RowStatus, Steps, Replies, RecordFails, Fault,
       SetPending, Answer, Retry, rowVars
<1>2. OneOwner' /\ OwnersProgress'
  BY DEF IInv, TypeOK, OneOwner, OwnersProgress, Owns, RecordFails, Fault,
       SetPending, Answer, Retry, rowVars
<1>3. CheckoutNamesPrompt' /\ ClosedCheckoutWasNeverPrompted'
  BY NoCheckoutAssumption DEF IInv, TypeOK, OneOwner, OwnersProgress, Owns,
       CheckoutNamesPrompt, ClosedCheckoutWasNeverPrompted, RecordFails,
       Fault, SetPending, Answer, Retry, rowVars
<1>4. RepliesNameCheckout'
  BY NoCheckoutAssumption DEF IInv, TypeOK, CheckoutNamesPrompt,
       RepliesNameCheckout, RecordFails, Fault, SetPending, Answer, Retry,
       rowVars
<1>. QED BY <1>1, <1>2, <1>3, <1>4 DEF IInv

-----------------------------------------------------------------------------
(* So do the steps of the rest of the system. *)

LEMMA SettleElsewherePreserves ==
    ASSUME IInv, NEW i \in Intent, SettleElsewhere(i) PROVE IInv'
<1>1. TypeOK' /\ TriesLeft'
  BY NoCheckoutAssumption, TriesAssumption, FaultAssumption DEF IInv,
       TypeOK, TriesLeft, RowStatus, Steps, Replies, SettleElsewhere
<1>2. OneOwner' /\ OwnersProgress'
  BY DEF IInv, TypeOK, OneOwner, OwnersProgress, Owns, SettleElsewhere
<1>3. CheckoutNamesPrompt' /\ ClosedCheckoutWasNeverPrompted'
  BY NoCheckoutAssumption DEF IInv, TypeOK, OneOwner, OwnersProgress, Owns,
       CheckoutNamesPrompt, ClosedCheckoutWasNeverPrompted, SettleElsewhere
<1>4. RepliesNameCheckout'
  BY NoCheckoutAssumption DEF IInv, TypeOK, CheckoutNamesPrompt,
       RepliesNameCheckout, SettleElsewhere
<1>. QED BY <1>1, <1>2, <1>3, <1>4 DEF IInv

LEMMA CrashPreserves ==
    ASSUME IInv, Crash PROVE IInv'
<1>1. TypeOK' /\ TriesLeft'
  BY NoCheckoutAssumption, TriesAssumption, FaultAssumption DEF IInv,
       TypeOK, TriesLeft, RowStatus, Steps, Replies, Crash, Fault
<1>2. OneOwner' /\ OwnersProgress'
  BY DEF IInv, TypeOK, OneOwner, OwnersProgress, Owns, Crash, Fault
<1>3. CheckoutNamesPrompt' /\ ClosedCheckoutWasNeverPrompted'
  BY NoCheckoutAssumption DEF IInv, TypeOK, OneOwner, OwnersProgress, Owns,
       CheckoutNamesPrompt, ClosedCheckoutWasNeverPrompted, Crash, Fault
<1>4. RepliesNameCheckout'
  BY NoCheckoutAssumption DEF IInv, TypeOK, CheckoutNamesPrompt,
       RepliesNameCheckout, Crash, Fault
<1>. QED BY <1>1, <1>2, <1>3, <1>4 DEF IInv

LEMMA StutterPreserves == IInv /\ UNCHANGED vars => IInv'
BY DEF vars, IInv, TypeOK, TriesLeft, OneOwner, OwnersProgress, Owns,
     CheckoutNamesPrompt, RepliesNameCheckout,
     ClosedCheckoutWasNeverPrompted

LEMMA NextPreserves == IInv /\ [Next]_vars => IInv'
<1> SUFFICES ASSUME IInv, [Next]_vars PROVE IInv'
  OBVIOUS
<1>1. CASE \E r \in Request : Arrive(r) \/ Handle(r)
  BY <1>1, ArrivePreserves, CheckExistingPreserves, CheckFailsPreserves,
       RefusePreserves, InsertPreserves, InsertFailsPreserves,
       PromptPreserves, PromptRejectedPreserves, PromptErrorPreserves,
       RejectPreserves, RecordPreserves, RecordFailsPreserves DEF Handle
<1>2. CASE \E i \in Intent : SettleElsewhere(i)
  BY <1>2, SettleElsewherePreserves
<1>3. CASE Crash
  BY <1>3, CrashPreserves
<1>4. CASE UNCHANGED vars
  BY <1>4, StutterPreserves
<1>. QED BY <1>1, <1>2, <1>3, <1>4 DEF Next

(* In every reachable state one request owns an intent's row, and the row   *)
(* and the prompt are as far as its owner has taken them in POST /mpesa/stk. *)
THEOREM Invariance == SafetySpec => []IInv
<1>. QED BY InitHolds, NextPreserves, PTL DEF SafetySpec

-----------------------------------------------------------------------------
(* The theorems a reader should know of. *)

(* The variables keep their types: in particular no request ever tries to   *)
(* record its checkout more than MaxTries times.                            *)
THEOREM TypeCorrect == Spec => []TypeOK
<1>1. IInv => TypeOK
  BY DEF IInv
<1>. QED BY <1>1, Invariance, PTL DEF Spec

(* However many requests carry an intent, its phone is prompted at most     *)
(* once: the unique index makes the inserting request the only owner.       *)
THEOREM PromptedOnce == Spec => []OnePromptPerIntent
<1>. QED BY InvariantsFollow, Invariance, PTL DEF Spec

(* A client that is told to wait for a payment can always find it.          *)
THEOREM PromisesHold == Spec => []PromisedCheckoutExists
<1>. QED BY InvariantsFollow, Invariance, PTL DEF Spec

(* A row closed without a checkout id never had a prompt that could be paid.*)
THEOREM ClosedUnpaid == Spec => []ClosedCheckoutWasNeverPrompted
<1>1. IInv => ClosedCheckoutWasNeverPrompted
  BY DEF IInv
<1>. QED BY <1>1, Invariance, PTL DEF Spec

(* A recorded checkout id is never replaced, a row never goes back.         *)
LEMMA StepsAdvance ==
    ASSUME IInv, Next, NEW i \in Intent
    PROVE  /\ status'[i] # status[i] => Rank(status'[i]) > Rank(status[i])
           /\ checkout[i] # NoCheckout => checkout'[i] = checkout[i]
<1>1. CASE \E r \in Request : Arrive(r) \/ Handle(r)
  <2>1. PICK r \in Request : Arrive(r) \/ Handle(r)
    BY <1>1
  <2>2. CASE Record(r) \/ RecordFails(r)
    <3>1. \/ UNCHANGED rowVars
          \/ status[intent[r]] = "initiating" /\ SetPending(intent[r], r)
      BY <2>2 DEF Record, RecordFails
    <3>2. checkout[intent[r]] # NoCheckout => status[intent[r]] # "initiating"
      BY DEF IInv, TypeOK, CheckoutNamesPrompt
    <3>. QED BY <3>1, <3>2 DEF IInv, TypeOK, SetPending, rowVars, Rank
  <2>3. CASE ~(Record(r) \/ RecordFails(r))
    <3>1. UNCHANGED checkout
      BY <2>1, <2>3 DEF Handle, Arrive, CheckExisting, CheckFails, Refuse,
                        Insert, InsertFails, Prompt, PromptRejected,
                        PromptError, Reject
    <3>2. \/ UNCHANGED status
          \/ /\ status[intent[r]] = "absent"
             /\ status' = [status EXCEPT ![intent[r]] = "initiating"]
          \/ /\ status[intent[r]] = "initiating"
             /\ status' = [status EXCEPT ![intent[r]] = "failed"]
      BY <2>1, <2>3 DEF IInv, TypeOK, OwnersProgress, Handle, Arrive,
                        CheckExisting, CheckFails, Refuse, Insert,
                        InsertFails, Prompt, PromptRejected, PromptError,
                        Reject
    <3>. QED BY <3>1, <3>2 DEF IInv, TypeOK, Rank
  <2>. QED BY <2>2, <2>3
<1>2. CASE \E j \in Intent : SettleElsewhere(j)
  BY <1>2 DEF IInv, TypeOK, SettleElsewhere, Rank
<1>3. CASE Crash
  BY <1>3 DEF Crash, Rank
<1>. QED BY <1>1, <1>2, <1>3 DEF Next

(* A row goes on to a later status or stays, and never changes the checkout *)
(* id it was given, whoever writes it and however often a write is retried. *)
THEOREM RowsAdvance == Spec => RowsOnlyAdvance
<1>1. IInv /\ [Next]_vars =>
          [\A i \in Intent :
              /\ status'[i] # status[i] => Rank(status'[i]) > Rank(status[i])
              /\ checkout[i] # NoCheckout => checkout'[i] = checkout[i]]_vars
  BY StepsAdvance
<1>. QED BY <1>1, Invariance, PTL DEF Spec, SafetySpec, RowsOnlyAdvance

-----------------------------------------------------------------------------
(* Part two: the composition.  The results about the settlement are used    *)
(* of its view of the rows.                                                 *)

View == INSTANCE MpesaSettlement_proofs WITH
    Tx <- Intent, Faults <- JobFaults, MaxFaults <- MaxJobFaults,
    faults <- jobFaults, status <- SeenStatus

(* A phone shows a prompt for an intent exactly when the handler of one of  *)
(* its requests had one accepted.                                           *)
Coupled == \A i \in Intent :
               outcome[i] # "none" <=> \E p \in prompts : intent[p] = i

PaymentsInv == IInv /\ View!IInv /\ Coupled

(* One invocation of processMpesaCallback sees the rows as they are: a row  *)
(* that is absent is no pending row, and is not written.                    *)
LEMMA JobsSeen ==
    ASSUME status \in [Intent -> RowStatus], NEW w \in Worker,
           Settlement!TxOf(w) \in Intent,
           Settlement!Progress(w) \/ Settlement!Failure(w)
    PROVE  View!Progress(w) \/ View!Failure(w)
<1>. USE DEF SeenStatus,
       Settlement!At, Settlement!Busy, Settlement!Idle, Settlement!TxOf,
       Settlement!ClaimOf, Settlement!AccOf, Settlement!MoveTo,
       Settlement!Finish, Settlement!Fault, Settlement!Renewals,
       Settlement!ledger, Settlement!offers, Settlement!access,
       View!At, View!Busy, View!Idle, View!TxOf, View!ClaimOf, View!AccOf,
       View!MoveTo, View!Finish, View!Fault, View!Renewals, View!ledger,
       View!offers, View!access
<1>1. Settlement!SelectPending(w) => View!SelectPending(w)
  BY DEF Settlement!SelectPending, View!SelectPending
<1>2. Settlement!VerifyStk(w) => View!VerifyStk(w)
  BY DEF Settlement!VerifyStk, Settlement!Confirmed, View!VerifyStk,
         View!Confirmed
<1>3. Settlement!SaveReceipt(w) => View!SaveReceipt(w)
  BY DEF Settlement!SaveReceipt, Settlement!AfterReceipt, View!SaveReceipt,
         View!AfterReceipt
<1>4. Settlement!FetchAccess(w) => View!FetchAccess(w)
  BY DEF Settlement!FetchAccess, View!FetchAccess
<1>5. Settlement!EnableLine(w) => View!EnableLine(w)
  BY DEF Settlement!EnableLine, View!EnableLine
<1>6. Settlement!EnableRadius(w) => View!EnableRadius(w)
  BY DEF Settlement!EnableRadius, View!EnableRadius
<1>7. Settlement!Settle(w) => View!Settle(w)
  BY DEF Settlement!Settle, Settlement!Settles, Settlement!SettleRpc,
         Settlement!AfterSettle, Settlement!Undo,
         Settlement!SettleCompleted, Settlement!SettleFailed,
         Settlement!Credit, Settlement!Unapplied, Settlement!Raises,
         View!Settle, View!Settles, View!SettleRpc, View!AfterSettle,
         View!Undo, View!SettleCompleted, View!SettleFailed, View!Credit,
         View!Unapplied, View!Raises
<1>8. Settlement!UndoRadius(w) => View!UndoRadius(w)
  BY DEF Settlement!UndoRadius, View!UndoRadius
<1>9. Settlement!UndoLine(w) => View!UndoLine(w)
  BY DEF Settlement!UndoLine, View!UndoLine
<1>10. Settlement!SaveRenewal(w) => View!SaveRenewal(w)
  BY DEF Settlement!SaveRenewal, View!SaveRenewal
<1>11. Settlement!MarkProcessed(w) => View!MarkProcessed(w)
  BY DEF Settlement!MarkProcessed, View!MarkProcessed
<1>12. Settlement!VerifyFails(w) => View!VerifyFails(w)
  BY DEF Settlement!VerifyFails, View!VerifyFails
<1>13. Settlement!SaveReceiptFails(w) => View!SaveReceiptFails(w)
  BY DEF Settlement!SaveReceiptFails, View!SaveReceiptFails
<1>14. Settlement!FetchFails(w) => View!FetchFails(w)
  BY DEF Settlement!FetchFails, View!FetchFails
<1>15. Settlement!FetchSkips(w) => View!FetchSkips(w)
  BY DEF Settlement!FetchSkips, View!FetchSkips
<1>16. Settlement!LookupThrows(w) => View!LookupThrows(w)
  BY DEF Settlement!LookupThrows, View!LookupThrows
<1>17. Settlement!EnableLineFails(w) => View!EnableLineFails(w)
  BY DEF Settlement!EnableLineFails, Settlement!Undo, View!EnableLineFails,
         View!Undo
<1>18. Settlement!EnableRadiusFails(w) => View!EnableRadiusFails(w)
  BY DEF Settlement!EnableRadiusFails, Settlement!Undo,
         View!EnableRadiusFails, View!Undo
<1>19. Settlement!SettleFails(w) => View!SettleFails(w)
  BY DEF Settlement!SettleFails, Settlement!Settles, Settlement!SettleRpc,
         Settlement!Undo, Settlement!SettleCompleted,
         Settlement!SettleFailed, Settlement!Credit, Settlement!Unapplied,
         Settlement!Raises, View!SettleFails, View!Settles, View!SettleRpc,
         View!Undo, View!SettleCompleted, View!SettleFailed, View!Credit,
         View!Unapplied, View!Raises
<1>20. Settlement!UndoFails(w) => View!UndoFails(w)
  BY DEF Settlement!UndoFails, View!UndoFails
<1>21. Settlement!SaveRenewalFails(w) => View!SaveRenewalFails(w)
  BY DEF Settlement!SaveRenewalFails, View!SaveRenewalFails
<1>22. Settlement!MarkFails(w) => View!MarkFails(w)
  BY DEF Settlement!MarkFails, View!MarkFails
<1>. QED
  BY <1>1, <1>2, <1>3, <1>4, <1>5, <1>6, <1>7, <1>8, <1>9, <1>10, <1>11,
     <1>12, <1>13, <1>14, <1>15, <1>16, <1>17, <1>18, <1>19, <1>20, <1>21,
     <1>22
     DEF Settlement!Progress, Settlement!Failure, View!Progress, View!Failure

(* So are the steps that belong to no invocation. *)
LEMMA IntakeSeen ==
    /\ \A e \in Event, t \in Intent, c \in Settlement!Claims :
           /\ Settlement!ReceiveUnprocessed(e, t, c) =>
                  View!ReceiveUnprocessed(e, t, c)
           /\ \A w \in Worker : Settlement!Receive(e, t, c, w) =>
                                    View!Receive(e, t, c, w)
    /\ \A e \in Event :
           /\ Settlement!Expire(e) => View!Expire(e)
           /\ \A w \in Worker : Settlement!Sweep(e, w) => View!Sweep(e, w)
    /\ \A t \in Intent :
           /\ Settlement!PayerAnswers(t) => View!PayerAnswers(t)
           /\ Settlement!Withdraw(t) => View!Withdraw(t)
    /\ Settlement!Crash => View!Crash
<1>. USE DEF SeenStatus,
       Settlement!Busy, Settlement!Idle, Settlement!NoRow, Settlement!NewJob,
       Settlement!Store, Settlement!Fault,
       Settlement!ledger, Settlement!offers, Settlement!access,
       View!Busy, View!Idle, View!NoRow, View!NewJob, View!Store, View!Fault,
       View!ledger, View!offers, View!access
<1>1. ASSUME NEW e \in Event, NEW t \in Intent, NEW c \in Settlement!Claims,
             Settlement!ReceiveUnprocessed(e, t, c)
      PROVE  View!ReceiveUnprocessed(e, t, c)
  BY <1>1 DEF Settlement!ReceiveUnprocessed, View!ReceiveUnprocessed
<1>2. ASSUME NEW e \in Event, NEW t \in Intent, NEW c \in Settlement!Claims,
             NEW w \in Worker, Settlement!Receive(e, t, c, w)
      PROVE  View!Receive(e, t, c, w)
  BY <1>2 DEF Settlement!Receive, View!Receive
<1>3. ASSUME NEW e \in Event, Settlement!Expire(e) PROVE View!Expire(e)
  BY <1>3 DEF Settlement!Expire, View!Expire
<1>4. ASSUME NEW e \in Event, NEW w \in Worker, Settlement!Sweep(e, w)
      PROVE  View!Sweep(e, w)
  BY <1>4 DEF Settlement!Sweep, View!Sweep
<1>5. ASSUME NEW t \in Intent, Settlement!PayerAnswers(t)
      PROVE  View!PayerAnswers(t)
  BY <1>5 DEF Settlement!PayerAnswers, View!PayerAnswers
<1>6. ASSUME NEW t \in Intent, Settlement!Withdraw(t) PROVE View!Withdraw(t)
  BY <1>6 DEF Settlement!Withdraw, View!Withdraw
<1>7. Settlement!Crash => View!Crash
  BY DEF Settlement!Crash, View!Crash
<1>. QED BY <1>1, <1>2, <1>3, <1>4, <1>5, <1>6, <1>7

(* The transaction of an invocation at work is one of the intents. *)
LEMMA JobsHaveIntents ==
    ASSUME View!IInv, NEW w \in Worker,
           Settlement!Progress(w) \/ Settlement!Failure(w)
    PROVE  Settlement!TxOf(w) \in Intent
<1>1. Settlement!Busy(w)
  BY DEF Settlement!Progress, Settlement!Failure, Settlement!At,
     Settlement!SelectPending, Settlement!VerifyStk, Settlement!SaveReceipt,
     Settlement!FetchAccess, Settlement!EnableLine, Settlement!EnableRadius,
     Settlement!Settle, Settlement!UndoRadius, Settlement!UndoLine,
     Settlement!SaveRenewal, Settlement!MarkProcessed,
     Settlement!VerifyFails, Settlement!SaveReceiptFails,
     Settlement!FetchFails, Settlement!FetchSkips, Settlement!LookupThrows,
     Settlement!EnableLineFails, Settlement!EnableRadiusFails,
     Settlement!SettleFails, Settlement!UndoFails,
     Settlement!SaveRenewalFails, Settlement!MarkFails
<1>2. View!Busy(w)
  BY <1>1 DEF Settlement!Busy, Settlement!Idle, View!Busy, View!Idle
<1>3. event[job[w].ev] \in View!Rows
  BY <1>2 DEF View!IInv, View!JobsOK, View!JobInv
<1>. QED BY <1>3 DEF View!Rows, Settlement!TxOf

LEMMA ProcessingSeen ==
    ASSUME IInv, View!IInv, Processing PROVE View!Callbacks \/ View!Surroundings
<1>1. status \in [Intent -> RowStatus]
  BY DEF IInv, TypeOK
<1>2. ASSUME NEW w \in Worker, Settlement!Progress(w) \/ Settlement!Failure(w)
      PROVE  View!Progress(w) \/ View!Failure(w)
  BY <1>1, <1>2, JobsSeen, JobsHaveIntents
<1>3. Settlement!Claims = View!Claims
  BY DEF Settlement!Claims, View!Claims
<1>4. CASE Settlement!Callbacks
  BY <1>2, <1>3, <1>4, IntakeSeen DEF Settlement!Callbacks, View!Callbacks
<1>5. CASE \E t \in Intent : Settlement!PayerAnswers(t) \/ Settlement!Withdraw(t)
  BY <1>5, IntakeSeen DEF View!Surroundings
<1>. QED BY <1>4, <1>5 DEF Processing

(* To the checkout handlers, the processing of callbacks is a settlement    *)
(* elsewhere: it closes a pending row, or it leaves the rows alone.         *)
LEMMA ProcessingSettles ==
    ASSUME IInv, View!IInv, Processing
    PROVE  UNCHANGED vars \/ \E i \in Intent : SettleElsewhere(i)
<1>. USE DEF Settlement!ledger
<1>1. UNCHANGED handler
  BY DEF Processing
<1>2. ASSUME NEW w \in Worker, Settlement!Settle(w) \/ Settlement!SettleFails(w),
             Settlement!TxOf(w) \in Intent
      PROVE  \/ UNCHANGED status
             \/ \E i \in Intent :
                   /\ status[i] = "pending"
                   /\ status' \in {[status EXCEPT ![i] = s] :
                                       s \in {"completed", "failed"}}
  BY <1>2 DEF Settlement!Settle, Settlement!SettleFails, Settlement!Settles,
     Settlement!SettleRpc, Settlement!SettleCompleted, Settlement!SettleFailed
<1>3. ASSUME NEW w \in Worker, Settlement!Progress(w) \/ Settlement!Failure(w)
      PROVE  \/ UNCHANGED status
             \/ \E i \in Intent :
                   /\ status[i] = "pending"
                   /\ status' \in {[status EXCEPT ![i] = s] :
                                       s \in {"completed", "failed"}}
  <2>1. CASE Settlement!Settle(w) \/ Settlement!SettleFails(w)
    BY <1>2, <1>3, <2>1, JobsHaveIntents
  <2>2. CASE ~(Settlement!Settle(w) \/ Settlement!SettleFails(w))
    BY <1>3, <2>2 DEF Settlement!Progress, Settlement!Failure,
     Settlement!SelectPending, Settlement!VerifyStk, Settlement!SaveReceipt,
     Settlement!FetchAccess, Settlement!EnableLine, Settlement!EnableRadius,
     Settlement!UndoRadius, Settlement!UndoLine,
     Settlement!SaveRenewal, Settlement!MarkProcessed,
     Settlement!VerifyFails, Settlement!SaveReceiptFails,
     Settlement!FetchFails, Settlement!FetchSkips, Settlement!LookupThrows,
     Settlement!EnableLineFails, Settlement!EnableRadiusFails,
     Settlement!UndoFails, Settlement!SaveRenewalFails, Settlement!MarkFails
  <2>. QED BY <2>1, <2>2
<1>4. CASE Settlement!Callbacks
  <2>1. \/ \E w \in Worker : Settlement!Progress(w) \/ Settlement!Failure(w)
        \/ UNCHANGED status
    BY <1>4 DEF Settlement!Callbacks, Settlement!Receive,
       Settlement!ReceiveUnprocessed, Settlement!Expire, Settlement!Sweep
  <2>. QED BY <1>1, <1>3, <2>1 DEF handler, vars, SettleElsewhere
<1>5. CASE \E t \in Intent : Settlement!PayerAnswers(t) \/ Settlement!Withdraw(t)
  <2>1. UNCHANGED status
    BY <1>5 DEF Settlement!PayerAnswers, Settlement!Withdraw
  <2>. QED BY <1>1, <2>1 DEF handler, vars
<1>. QED BY <1>4, <1>5 DEF Processing

(* What a step of a handler does to the rows and the phones: nothing that   *)
(* the settlement can see, a prompt, a refusal or a recorded checkout, and  *)
(* each of the three only where the handler owns the row.                   *)
LEMMA HandlerSteps ==
    ASSUME IInv, NEW r \in Request, Handle(r) \/ Arrive(r)
    PROVE  \/ /\ prompts' = prompts
              /\ SeenStatus' = SeenStatus
           \/ /\ at[r] = "prompt"
              /\ prompts' = prompts \union {r}
              /\ status' = status
           \/ /\ at[r] = "reject"
              /\ prompts' = prompts
              /\ status' = [status EXCEPT ![intent[r]] = "failed"]
           \/ /\ at[r] = "record"
              /\ status[intent[r]] = "initiating"
              /\ prompts' = prompts
              /\ status' = [status EXCEPT ![intent[r]] = "pending"]
<1>1. /\ status \in [Intent -> RowStatus]
      /\ intent[r] \in Intent
  BY DEF IInv, TypeOK
<1>2. CASE Arrive(r) \/ CheckExisting(r) \/ CheckFails(r) \/ Refuse(r)
           \/ PromptRejected(r)
  BY <1>2 DEF Arrive, CheckExisting, CheckFails, Refuse, PromptRejected,
              SeenStatus
<1>3. CASE Insert(r) \/ InsertFails(r)
  <2>1. /\ prompts' = prompts
        /\ \/ status' = status
           \/ /\ status[intent[r]] = "absent"
              /\ status' = [status EXCEPT ![intent[r]] = "initiating"]
    BY <1>1, <1>3 DEF Insert, InsertFails
  <2>. QED BY <1>1, <2>1 DEF SeenStatus
<1>4. CASE Prompt(r) \/ PromptError(r)
  BY <1>4 DEF Prompt, PromptError, SeenStatus
<1>5. CASE Reject(r)
  <2>1. status[intent[r]] = "initiating"
    BY <1>5 DEF IInv, OwnersProgress, Reject
  <2>. QED BY <1>1, <1>5, <2>1 DEF Reject, SeenStatus
<1>6. CASE Record(r) \/ RecordFails(r)
  BY <1>6 DEF Record, RecordFails, SetPending, rowVars, SeenStatus
<1>. QED BY <1>2, <1>3, <1>4, <1>5, <1>6 DEF Handle

(* A request that is about to prompt or to close its row is the only owner  *)
(* of the row and has not prompted: no phone shows a prompt for the intent. *)
LEMMA NotYetPrompted ==
    ASSUME IInv, Coupled, NEW r \in Request, at[r] \in {"prompt", "reject"}
    PROVE  /\ status[intent[r]] = "initiating"
           /\ r \notin prompts
           /\ outcome[intent[r]] = "none"
<1>1. /\ status[intent[r]] = "initiating"
      /\ r \notin prompts
      /\ intent[r] \in Intent
  BY DEF IInv, TypeOK, OwnersProgress
<1>2. ASSUME NEW p \in prompts, intent[p] = intent[r] PROVE FALSE
  BY <1>1, <1>2 DEF IInv, TypeOK, OneOwner, Owns
<1>. QED BY <1>1, <1>2 DEF Coupled

(* Each of them is the step that the settlement expects of the checkout:    *)
(* only a prompted row becomes pending, only an unprompted one is closed.   *)
LEMMA HandlerSeen ==
    ASSUME PaymentsInv, NEW r \in Request, Handle(r) \/ Arrive(r), ShowPrompts
    PROVE  /\ View!Surroundings \/ UNCHANGED View!vars
           /\ Coupled'
<1>. USE DEF PaymentsInv
<1>1. /\ outcome = [i \in Intent |-> outcome[i]]
      /\ status \in [Intent -> RowStatus]
      /\ prompts \subseteq Request
      /\ intent[r] \in Intent
  BY DEF View!IInv, View!TypeOK, IInv, TypeOK
<1>2. intent' = intent
  BY DEF Handle, Arrive, CheckExisting, CheckFails, Refuse, Insert,
     InsertFails, Prompt, PromptRejected, PromptError, Reject, Record,
     RecordFails, MoveTo, Answer, Retry
<1>3. /\ outcome' = [i \in Intent |->
                        IF \E p \in prompts' \ prompts : intent[p] = i
                        THEN "prompted" ELSE outcome[i]]
      /\ UNCHANGED callbacks
  BY DEF ShowPrompts
<1>4. CASE prompts' = prompts
  <2>1. outcome' = outcome
    BY <1>1, <1>3, <1>4
  <2>2. Coupled'
    BY <1>2, <1>4, <2>1 DEF Coupled
  <2>3. CASE SeenStatus' = SeenStatus
    <3>1. UNCHANGED <<View!ledger, View!offers, View!access>>
      BY <1>3, <2>3 DEF callbacks, View!ledger, View!offers, View!access
    <3>2. UNCHANGED <<receipt, event, outcome, job, jobFaults>>
      BY <1>3, <2>1 DEF callbacks
    <3>3. UNCHANGED View!vars
      BY <3>1, <3>2 DEF View!vars
    <3>. QED BY <2>2, <3>3
  <2>4. CASE /\ at[r] = "reject"
             /\ status' = [status EXCEPT ![intent[r]] = "failed"]
    <3>1. /\ SeenStatus[intent[r]] = "initiating"
          /\ outcome[intent[r]] = "none"
          /\ SeenStatus' = [SeenStatus EXCEPT ![intent[r]] = "failed"]
      BY <1>1, <2>4, NotYetPrompted DEF SeenStatus
    <3>2. View!Refuse(intent[r])
      BY <1>3, <2>1, <3>1 DEF callbacks, View!Refuse, View!offers, View!access
    <3>. QED BY <1>1, <2>2, <3>2 DEF View!Surroundings
  <2>5. CASE /\ at[r] = "record"
             /\ status[intent[r]] = "initiating"
             /\ status' = [status EXCEPT ![intent[r]] = "pending"]
    <3>1. outcome[intent[r]] # "none"
      BY <1>1, <2>5 DEF Coupled, IInv, OwnersProgress
    <3>2. /\ SeenStatus[intent[r]] = "initiating"
          /\ SeenStatus' = [SeenStatus EXCEPT ![intent[r]] = "pending"]
      BY <1>1, <2>5 DEF SeenStatus
    <3>3. View!Reconcile(intent[r])
      BY <1>3, <2>1, <3>1, <3>2 DEF callbacks, View!Reconcile, View!offers,
         View!access
    <3>. QED BY <1>1, <2>2, <3>3 DEF View!Surroundings
  <2>6. CASE at[r] = "prompt" /\ status' = status
    BY <2>3, <2>6, <2>2 DEF SeenStatus
  <2>. QED BY <1>4, <2>2, <2>3, <2>4, <2>5, <2>6, HandlerSteps
<1>5. CASE prompts' # prompts
  <2>1. /\ at[r] = "prompt"
        /\ prompts' = prompts \union {r}
        /\ status' = status
    BY <1>5, HandlerSteps
  <2>2. /\ status[intent[r]] = "initiating"
        /\ r \notin prompts
        /\ outcome[intent[r]] = "none"
    BY <2>1, NotYetPrompted
  <2>3. outcome' = [outcome EXCEPT ![intent[r]] = "prompted"]
    BY <1>1, <1>3, <2>1, <2>2
  <2>4. /\ SeenStatus[intent[r]] = "initiating"
        /\ SeenStatus' = SeenStatus
    BY <1>1, <2>1, <2>2 DEF SeenStatus
  <2>5. View!Prompt(intent[r])
    BY <1>3, <2>2, <2>3, <2>4 DEF callbacks, View!Prompt, View!ledger,
       View!offers, View!access
  <2>6. Coupled'
    BY <1>1, <1>2, <2>1, <2>3 DEF Coupled
  <2>. QED BY <1>1, <2>5, <2>6 DEF View!Surroundings
<1>. QED BY <1>4, <1>5

(* The processing neither prompts nor forgets a prompt. *)
LEMMA ProcessingKeepsPrompts ==
    ASSUME PaymentsInv, Processing PROVE Coupled'
<1>1. UNCHANGED <<prompts, intent>>
  BY DEF Processing, handler
<1>2. \A i \in Intent : outcome'[i] # "none" <=> outcome[i] # "none"
  <2>1. ASSUME NEW w \in Worker, Settlement!Progress(w) \/ Settlement!Failure(w)
        PROVE  UNCHANGED outcome
    BY <2>1 DEF Settlement!Progress, Settlement!Failure,
     Settlement!SelectPending, Settlement!VerifyStk, Settlement!SaveReceipt,
     Settlement!FetchAccess, Settlement!EnableLine, Settlement!EnableRadius,
     Settlement!Settle, Settlement!UndoRadius, Settlement!UndoLine,
     Settlement!SaveRenewal, Settlement!MarkProcessed,
     Settlement!VerifyFails, Settlement!SaveReceiptFails,
     Settlement!FetchFails, Settlement!FetchSkips, Settlement!LookupThrows,
     Settlement!EnableLineFails, Settlement!EnableRadiusFails,
     Settlement!SettleFails, Settlement!UndoFails,
     Settlement!SaveRenewalFails, Settlement!MarkFails
  <2>2. CASE Settlement!Callbacks
    BY <2>1, <2>2 DEF Settlement!Callbacks, Settlement!Receive,
       Settlement!ReceiveUnprocessed, Settlement!Expire, Settlement!Sweep
  <2>3. ASSUME NEW t \in Intent, Settlement!PayerAnswers(t)
        PROVE  \A i \in Intent : outcome'[i] # "none" <=> outcome[i] # "none"
    <3>1. outcome \in [Intent -> View!Outcomes]
      BY DEF PaymentsInv, View!IInv, View!TypeOK
    <3>. QED BY <2>3, <3>1 DEF Settlement!PayerAnswers
  <2>4. ASSUME NEW t \in Intent, Settlement!Withdraw(t) PROVE UNCHANGED outcome
    BY <2>4 DEF Settlement!Withdraw
  <2>. QED BY <2>2, <2>3, <2>4 DEF Processing
<1>. QED BY <1>1, <1>2 DEF PaymentsInv, Coupled

(* The constants satisfy the assumptions of the settlement, so its results  *)
(* hold of its view.                                                        *)
LEMMA ViewAssumptions ==
    /\ View!IsFiniteSet(Intent)
    /\ NoOne \notin Account \union Reseller \union Event \union Intent
    /\ Service \in [Intent -> View!Services]
    /\ AccountOf \in [Intent -> Account \union {NoOne}]
    /\ \A t \in Intent : Service[t] # "hotspot" => AccountOf[t] \in Account
    /\ ResellerOf \in [Intent -> Reseller \union {NoOne}]
    /\ Amount \in [Intent -> Nat \ {0}]
    /\ MaxJobFaults \in Nat
BY SettlementAssumption DEF View!Services, View!IsFiniteSet, IsFiniteSet

LEMMA ViewInvariant ==
    /\ View!Init => View!IInv
    /\ View!IInv /\ [View!Next]_View!vars => View!IInv'
<1>1. View!Init => View!IInv
  BY View!InitHolds, ViewAssumptions
<1>2. View!IInv /\ [View!Next]_View!vars => View!IInv'
  BY View!NextPreserves, ViewAssumptions
<1>. QED BY <1>1, <1>2

(* The settlement of the properties is the one of the proofs. *)
LEMMA SeenIsView ==
    /\ Seen!Init <=> View!Init
    /\ Seen!vars = View!vars
BY DEF Seen!Init, View!Init, Seen!vars, View!vars, Seen!ledger, View!ledger,
   Seen!offers, View!offers, Seen!access, View!access, Seen!Idle, View!Idle,
   Seen!NoRow, View!NoRow

LEMMA PaymentsInitHolds == PaymentsInit => PaymentsInv
<1>. SUFFICES ASSUME PaymentsInit PROVE PaymentsInv
  OBVIOUS
<1>1. IInv
  BY InitHolds DEF PaymentsInit
<1>2. View!IInv
  BY ViewInvariant, SeenIsView DEF PaymentsInit
<1>3. Coupled
  BY DEF PaymentsInit, Init, Seen!Init, Coupled
<1>. QED BY <1>1, <1>2, <1>3 DEF PaymentsInv

(* A step of the composition is a step of both, or of one and a stutter of  *)
(* the other.                                                               *)
LEMMA PaymentsStep ==
    ASSUME PaymentsInv, PaymentsNext
    PROVE  /\ [Next]_vars
           /\ [View!Next]_View!vars
           /\ Coupled'
<1>1. CASE Handler
  <2>1. PICK r \in Request : /\ Handle(r) \/ Arrive(r)
                             /\ ShowPrompts
    BY <1>1 DEF Handler, HandleAndShow
  <2>. QED BY <2>1, HandlerSeen DEF Next, View!Next
<1>2. CASE Processing
  <2>1. Next \/ UNCHANGED vars
    BY <1>2, ProcessingSettles DEF PaymentsInv, Next
  <2>2. View!Next
    BY <1>2, ProcessingSeen DEF PaymentsInv, View!Next
  <2>. QED BY <1>2, <2>1, <2>2, ProcessingKeepsPrompts
<1>3. CASE ProcessCrash
  <2>1. Crash /\ View!Crash
    BY <1>3, IntakeSeen DEF ProcessCrash
  <2>2. UNCHANGED <<prompts, intent, outcome>>
    BY <1>3 DEF ProcessCrash, Crash, Settlement!Crash
  <2>. QED BY <2>1, <2>2 DEF Next, View!Next, PaymentsInv, Coupled
<1>. QED BY <1>1, <1>2, <1>3 DEF PaymentsNext

LEMMA PaymentsStutter ==
    ASSUME UNCHANGED paymentsVars
    PROVE  UNCHANGED vars /\ UNCHANGED View!vars
<1>1. UNCHANGED vars
  BY DEF paymentsVars, handler, vars
<1>2. UNCHANGED <<View!ledger, View!offers, View!access>>
  BY DEF paymentsVars, callbacks, SeenStatus, View!ledger, View!offers,
         View!access
<1>3. UNCHANGED <<receipt, event, outcome, job, jobFaults>>
  BY DEF paymentsVars, callbacks
<1>4. UNCHANGED View!vars
  BY <1>2, <1>3 DEF View!vars
<1>. QED BY <1>1, <1>4

LEMMA PaymentsNextHolds ==
    PaymentsInv /\ [PaymentsNext]_paymentsVars =>
        /\ [Next]_vars
        /\ [View!Next]_View!vars
        /\ PaymentsInv'
<1>. SUFFICES ASSUME PaymentsInv, [PaymentsNext]_paymentsVars
              PROVE  /\ [Next]_vars
                     /\ [View!Next]_View!vars
                     /\ PaymentsInv'
  OBVIOUS
<1>1. [Next]_vars /\ [View!Next]_View!vars
  BY PaymentsStep, PaymentsStutter
<1>2. Coupled'
  <2>1. CASE PaymentsNext
    BY <2>1, PaymentsStep
  <2>2. CASE UNCHANGED paymentsVars
    BY <2>2 DEF paymentsVars, handler, PaymentsInv, Coupled
  <2>. QED BY <2>1, <2>2
<1>3. IInv'
  BY <1>1, NextPreserves DEF PaymentsInv
<1>4. View!IInv'
  BY <1>1, ViewInvariant DEF PaymentsInv
<1>. QED BY <1>1, <1>2, <1>3, <1>4 DEF PaymentsInv

(* Whatever requests, callbacks, invocations, faults and crashes do to each *)
(* other, both inductive invariants and the link between the rows and the   *)
(* phones hold.                                                             *)
THEOREM PaymentsInvariance == PaymentsSafety => []PaymentsInv
BY PaymentsInitHolds, PaymentsNextHolds, PTL DEF PaymentsSafety

-----------------------------------------------------------------------------
(* The theorems about the composition. *)

(* A step of the one is a step of the other. *)
LEMMA NextSeenIsView == View!Next => Seen!Next
BY Zenon
   DEF Seen!ledger, Seen!offers, Seen!access, Seen!Renewals, Seen!Claims,
       Seen!Idle, Seen!NoRow, Seen!Busy, Seen!TxOf, Seen!ClaimOf,
       Seen!AccOf, Seen!At, Seen!MoveTo, Seen!Finish, Seen!Undo, Seen!Fault,
       Seen!Prompt, Seen!Refuse, Seen!Reconcile, Seen!PayerAnswers,
       Seen!Withdraw, Seen!NewJob, Seen!Store, Seen!Receive,
       Seen!ReceiveUnprocessed, Seen!Sweep, Seen!Expire, Seen!SelectPending,
       Seen!Confirmed, Seen!VerifyStk, Seen!VerifyFails, Seen!AfterReceipt,
       Seen!SaveReceipt, Seen!SaveReceiptFails, Seen!FetchAccess,
       Seen!FetchFails, Seen!FetchSkips, Seen!LookupThrows, Seen!EnableLine,
       Seen!EnableLineFails, Seen!EnableRadius, Seen!EnableRadiusFails,
       Seen!Unapplied, Seen!Raises, Seen!Credit, Seen!SettleFailed,
       Seen!SettleCompleted, Seen!SettleRpc, Seen!Settles, Seen!AfterSettle,
       Seen!Settle, Seen!SettleFails, Seen!UndoRadius, Seen!UndoLine,
       Seen!UndoFails, Seen!SaveRenewal, Seen!SaveRenewalFails,
       Seen!MarkProcessed, Seen!MarkFails, Seen!Crash, Seen!Progress,
       Seen!Failure, Seen!Callbacks, Seen!Surroundings, Seen!Next,
       View!ledger, View!offers, View!access, View!Renewals, View!Claims,
       View!Idle, View!NoRow, View!Busy, View!TxOf, View!ClaimOf,
       View!AccOf, View!At, View!MoveTo, View!Finish, View!Undo, View!Fault,
       View!Prompt, View!Refuse, View!Reconcile, View!PayerAnswers,
       View!Withdraw, View!NewJob, View!Store, View!Receive,
       View!ReceiveUnprocessed, View!Sweep, View!Expire, View!SelectPending,
       View!Confirmed, View!VerifyStk, View!VerifyFails, View!AfterReceipt,
       View!SaveReceipt, View!SaveReceiptFails, View!FetchAccess,
       View!FetchFails, View!FetchSkips, View!LookupThrows, View!EnableLine,
       View!EnableLineFails, View!EnableRadius, View!EnableRadiusFails,
       View!Unapplied, View!Raises, View!Credit, View!SettleFailed,
       View!SettleCompleted, View!SettleRpc, View!Settles, View!AfterSettle,
       View!Settle, View!SettleFails, View!UndoRadius, View!UndoLine,
       View!UndoFails, View!SaveRenewal, View!SaveRenewalFails,
       View!MarkProcessed, View!MarkFails, View!Crash, View!Progress,
       View!Failure, View!Callbacks, View!Surroundings, View!Next

(* Together with the callback processing the checkout keeps to StkCheckout: *)
(* every theorem of part one holds of the composition too.                  *)
THEOREM ImplementsCheckout == PaymentsSafety => SafetySpec
<1>1. PaymentsInit => Init
  BY DEF PaymentsInit
<1>. QED
  BY <1>1, PaymentsInvariance, PaymentsNextHolds, PTL
     DEF PaymentsSafety, SafetySpec

(* What MpesaSettlement takes for granted of its surroundings the checkout  *)
(* handlers provide, however requests, callbacks, failures and crashes      *)
(* interleave: only a prompted row becomes pending, only an unprompted one  *)
(* is closed by its handler, and a settled row is never written again.      *)
THEOREM ImplementsSettlement == PaymentsSafety => CheckoutIsAsAssumed
<1>1. PaymentsInit => Seen!Init
  BY DEF PaymentsInit
<1>2. [View!Next]_View!vars => [Seen!Next]_Seen!vars
  <2>1. UNCHANGED View!vars => UNCHANGED Seen!vars
    BY DEF Seen!vars, View!vars, Seen!ledger, View!ledger, Seen!offers,
           View!offers, Seen!access, View!access
  <2>. QED BY <2>1, NextSeenIsView
<1>. QED
  BY <1>1, <1>2, PaymentsInvariance, PaymentsNextHolds, PTL
     DEF PaymentsSafety, CheckoutIsAsAssumed, Seen!SafetySpec

(* The same in the words of the module that holds the proofs. *)
LEMMA PaymentsSettle == PaymentsSafety => View!SafetySpec
<1>1. PaymentsInit => View!Init
  BY SeenIsView DEF PaymentsInit
<1>. QED
  BY <1>1, PaymentsInvariance, PaymentsNextHolds, PTL
     DEF PaymentsSafety, View!SafetySpec

(* A completed row is the payment of the prompt it names, and that prompt   *)
(* was sent for its own intent.                                             *)
THEOREM CompletedCheckouts == PaymentsSafety => []CompletedHasItsCheckout
<1>1. PaymentsInv => CompletedHasItsCheckout
  <2>. SUFFICES ASSUME PaymentsInv, NEW t \in Intent, status[t] = "completed"
                PROVE  /\ checkout[t] \in prompts
                       /\ intent[checkout[t]] = t
                       /\ outcome[t] = "paid"
    BY DEF CompletedHasItsCheckout
  <2>1. checkout[t] \in prompts /\ intent[checkout[t]] = t
    BY DEF PaymentsInv, IInv, CheckoutNamesPrompt
  <2>2. SeenStatus[t] = "completed"
    BY DEF SeenStatus
  <2>. QED
    BY <2>1, <2>2 DEF PaymentsInv, View!IInv, View!CompletedIsPaid
<1>. QED BY <1>1, PaymentsInvariance, PTL

(* From the signed intent to the ledger: with the checkout handlers in the  *)
(* place of the assumptions, each payment is closed once and handed out     *)
(* once, and the balances are the sums of what was paid.                    *)
THEOREM PaymentsKeepPromise ==
    PaymentsSafety => View!KeepsPromise /\ []View!LedgerBalances
<1>1. View!SafetySpec => View!KeepsPromise
  BY View!ImplementsPromise, ViewAssumptions
<1>2. View!SafetySpec => []View!LedgerBalances
  BY View!LedgerIsBalanced, ViewAssumptions
<1>. QED BY <1>1, <1>2, PaymentsSettle, PTL
=============================================================================
