------------------------ MODULE MessageOutbox_proofs ------------------------
(***************************************************************************)
(* What the outbox promises, for any number of messages, workers, claims    *)
(* and faults.                                                              *)
(*                                                                         *)
(* RowTellsDelivery is not inductive.  It rests on the reason why a claim   *)
(* that the completion never checks is still enough: as long as nothing is  *)
(* in doubt, a message in a worker's hands is a "sending" row whose lock is *)
(* fresh, so no other worker has it.                                        *)
(***************************************************************************)
EXTENDS MessageOutbox, TLAPS

\* Where a worker stands tells what it holds.
HandsMatch ==
    \A w \in Workers :
        /\ at[w] \in {"sent", "retry", "final"} <=> item[w] # None
        /\ at[w] = "idle" => todo[w] = {}
        /\ item[w] \notin todo[w]

\* A message in the hands of a worker, and nobody's doubt, is its alone.
HeldOnce ==
    \A m \in Messages : ~doubt[m] =>
        \A w \in Workers : m \in Held(w) =>
            /\ status[m] = "sending" /\ ~stale[m]
            /\ \A v \in Workers : m \in Held(v) => v = w

\* A delivery is a row marked sent, or a worker about to mark it.
Marked(m) == status[m] = "sent" \/ \E w \in Workers : at[w] = "sent" /\ item[w] = m

DeliveriesMarked ==
    \A m \in Messages :
        /\ Marked(m) => deliveries[m] > 0
        /\ ~doubt[m] => deliveries[m] <= 1
        /\ ~doubt[m] /\ deliveries[m] > 0 => Marked(m)

IInv == TypeOK /\ HandsMatch /\ HeldOnce /\ DeliveriesMarked

-----------------------------------------------------------------------------
LEMMA InitHolds == Init => IInv
<1> SUFFICES ASSUME Init PROVE IInv
  OBVIOUS
<1>1. TypeOK
  BY BoundAssumption DEF Init, TypeOK, Status, Places
<1>2. HandsMatch
  BY DEF Init, HandsMatch
<1>3. HeldOnce
  BY NoneAssumption DEF Init, HeldOnce, Held
<1>4. DeliveriesMarked
  BY DEF Init, DeliveriesMarked, Marked
<1>. QED BY <1>1, <1>2, <1>3, <1>4 DEF IInv

LEMMA BatchesAreDue ==
    ASSUME NEW batch \in Batches
    PROVE  batch \subseteq Messages /\ \A m \in batch : Due(m)
BY DEF Batches

\* TypeOK in two parts: the rows, and the rest.
RowTypes ==
    /\ status \in [Messages -> Status]
    /\ attempts \in [Messages -> 0 .. MaxAttempts]
    /\ backoff \in [Messages -> BOOLEAN] /\ stale \in [Messages -> BOOLEAN]

LEMMA TakeTypes ==
    ASSUME TypeOK, NEW batch \in Batches, Take(batch) PROVE RowTypes'
<1>1. \A m \in batch : attempts[m] + 1 \in 0 .. MaxAttempts
  BY BatchesAreDue, BoundAssumption DEF TypeOK, Due
<1>2. attempts' \in [Messages -> 0 .. MaxAttempts]
  BY <1>1 DEF Take, TypeOK
<1>3. status' \in [Messages -> Status]
  <2>1. \A m \in Messages :
           (CASE m \in batch -> "sending"
              [] status[m] = "queued" /\ old[m] -> "failed"
              [] OTHER -> status[m]) \in Status
    BY DEF TypeOK, Status
  <2>. QED BY <2>1 DEF Take
<1>4. stale' \in [Messages -> BOOLEAN] /\ backoff' = backoff
  BY DEF Take
<1>. QED BY <1>2, <1>3, <1>4 DEF TypeOK, RowTypes

LEMMA SetFailedTypes ==
    ASSUME TypeOK, NEW m \in Messages, NEW r \in BOOLEAN, SetFailed(m, r)
    PROVE  RowTypes'
<1>1. backoff' \in [Messages -> BOOLEAN]
  <2>. DEFINE b == backoff[m] \/ (r /\ Again(m))
  <2>1. b \in BOOLEAN
    OBVIOUS
  <2>2. backoff' = [backoff EXCEPT ![m] = b]
    BY Zenon DEF SetFailed
  <2>. HIDE DEF b
  <2>. QED BY <2>1, <2>2 DEF TypeOK
<1>. QED BY <1>1 DEF SetFailed, TypeOK, RowTypes, Status

LEMMA TypeStep == TypeOK /\ HandsMatch /\ [Next]_vars => TypeOK'
<1> SUFFICES ASSUME TypeOK, HandsMatch, [Next]_vars PROVE TypeOK'
  OBVIOUS
<1> USE NoneAssumption, BoundAssumption
<1>1. ASSUME NEW w \in Workers, Claim(w) PROVE TypeOK'
  <2>1. PICK batch \in Batches : Take(batch) /\ todo' = [todo EXCEPT ![w] = batch]
    BY <1>1 DEF Claim
  <2>2. RowTypes' /\ batch \subseteq Messages
    BY <2>1, TakeTypes, BatchesAreDue
  <2>. QED BY <1>1, <2>1, <2>2 DEF Claim, TypeOK, RowTypes, Places
<1>2. ASSUME NEW w \in Workers, ClaimUnanswered(w) PROVE TypeOK'
  <2>1. PICK batch \in Batches : Take(batch)
    BY <1>2 DEF ClaimUnanswered
  <2>2. RowTypes'
    BY <2>1, TakeTypes
  <2>. QED BY <1>2, <2>2 DEF ClaimUnanswered, Fault, TypeOK, RowTypes, worker
<1>3. ASSUME NEW w \in Workers, ClaimNothing(w) PROVE TypeOK'
  BY <1>3 DEF ClaimNothing, TypeOK, Status, worker
<1>4. ASSUME NEW w \in Workers, NEW m \in Messages, Send(w, m) PROVE TypeOK'
  BY <1>4 DEF Send, TakeUp, Goes, Deliver, TypeOK, Places, row
<1>5. ASSUME NEW w \in Workers, NEW m \in Messages, SendFails(w, m) PROVE TypeOK'
  BY <1>5 DEF SendFails, TakeUp, Goes, TypeOK, Places, row
<1>6. ASSUME NEW w \in Workers, NEW m \in Messages, SendUnanswered(w, m) PROVE TypeOK'
  BY <1>6 DEF SendUnanswered, TakeUp, Goes, Deliver, Doubt, Fault, TypeOK, Places, row
<1>7. ASSUME NEW w \in Workers, CompleteSent(w) PROVE TypeOK'
  <2>1. item[w] \in Messages
    BY <1>7 DEF CompleteSent, HandsMatch, TypeOK
  <2>. QED BY <1>7, <2>1 DEF CompleteSent, SetSent, Continue, Goes, TypeOK, Places, Status
<1>8. ASSUME NEW w \in Workers, CompleteSentFails(w) PROVE TypeOK'
  <2>1. item[w] \in Messages
    BY <1>8 DEF CompleteSentFails, HandsMatch, TypeOK
  <2>2. CASE SetSent(item[w])
    BY <1>8, <2>1, <2>2
       DEF CompleteSentFails, SetSent, Doubt, Fault, Goes, TypeOK, Places, Status
  <2>3. CASE UNCHANGED row
    BY <1>8, <2>1, <2>3
       DEF CompleteSentFails, row, Doubt, Fault, Goes, TypeOK, Places
  <2>. QED BY <1>8, <2>2, <2>3 DEF CompleteSentFails
<1>9. ASSUME NEW w \in Workers, CompleteFailed(w) PROVE TypeOK'
  <2>1. item[w] \in Messages
    BY <1>9 DEF CompleteFailed, HandsMatch, TypeOK
  <2>2. RowTypes'
    BY <1>9, <2>1, SetFailedTypes DEF CompleteFailed
  <2>. QED BY <1>9, <2>2 DEF CompleteFailed, Continue, Goes, TypeOK, RowTypes, Places
<1>10. ASSUME NEW w \in Workers, CompleteFailedFails(w) PROVE TypeOK'
  BY <1>10 DEF CompleteFailedFails, Continue, Goes, Fault, TypeOK, Places, row
<1>11. ASSUME NEW w \in Workers, Crash(w) PROVE TypeOK'
  <2>1. doubt' \in [Messages -> BOOLEAN]
    BY <1>11 DEF Crash
  <2>. QED BY <1>11, <2>1 DEF Crash, Goes, Fault, TypeOK, Places, row
<1>12. ASSUME NEW m \in Messages, Enqueue(m) PROVE TypeOK'
  BY <1>12 DEF Enqueue, TypeOK, Status, worker
<1>13. ASSUME NEW m \in Messages, BackoffEnds(m) PROVE TypeOK'
  BY <1>13 DEF BackoffEnds, TypeOK, worker
<1>14. ASSUME NEW m \in Messages, LockAges(m) PROVE TypeOK'
  <2>. DEFINE b == doubt[m] \/ \E w \in Workers : m \in Held(w)
  <2>1. b \in BOOLEAN
    OBVIOUS
  <2>2. doubt' = [doubt EXCEPT ![m] = b]
    BY <1>14, Zenon DEF LockAges
  <2>. HIDE DEF b
  <2>3. doubt' \in [Messages -> BOOLEAN]
    BY <2>1, <2>2 DEF TypeOK
  <2>. QED BY <1>14, <2>3 DEF LockAges, TypeOK, worker
<1>15. ASSUME NEW m \in Messages, RowAges(m) PROVE TypeOK'
  BY <1>15 DEF RowAges, TypeOK, worker, row
<1>16. CASE UNCHANGED vars
  BY <1>16 DEF TypeOK, vars, row, worker
<1>. QED
  BY <1>1, <1>2, <1>3, <1>4, <1>5, <1>6, <1>7, <1>8, <1>9, <1>10, <1>11, <1>12,
     <1>13, <1>14, <1>15, <1>16 DEF Next, Work

LEMMA HandsStep == TypeOK /\ HandsMatch /\ [Next]_vars => HandsMatch'
<1> SUFFICES ASSUME TypeOK, HandsMatch, [Next]_vars PROVE HandsMatch'
  OBVIOUS
<1> USE NoneAssumption
<1>1. ASSUME NEW w \in Workers, Claim(w) PROVE HandsMatch'
  <2>1. PICK batch \in Batches : todo' = [todo EXCEPT ![w] = batch]
    BY <1>1 DEF Claim
  <2>2. batch \subseteq Messages
    BY BatchesAreDue
  <2>. QED BY <1>1, <2>1, <2>2 DEF Claim, HandsMatch, TypeOK
<1>2. ASSUME NEW w \in Workers, ClaimUnanswered(w) PROVE HandsMatch'
  BY <1>2 DEF ClaimUnanswered, HandsMatch, worker
<1>3. ASSUME NEW w \in Workers, ClaimNothing(w) PROVE HandsMatch'
  BY <1>3 DEF ClaimNothing, HandsMatch, worker
<1>4. ASSUME NEW w \in Workers, NEW m \in Messages, Send(w, m) PROVE HandsMatch'
  BY <1>4 DEF Send, TakeUp, Goes, HandsMatch, TypeOK
<1>5. ASSUME NEW w \in Workers, NEW m \in Messages, SendFails(w, m) PROVE HandsMatch'
  BY <1>5 DEF SendFails, TakeUp, Goes, HandsMatch, TypeOK
<1>6. ASSUME NEW w \in Workers, NEW m \in Messages, SendUnanswered(w, m) PROVE HandsMatch'
  BY <1>6 DEF SendUnanswered, TakeUp, Goes, HandsMatch, TypeOK
<1>7. ASSUME NEW w \in Workers, CompleteSent(w) PROVE HandsMatch'
  BY <1>7 DEF CompleteSent, Continue, Goes, HandsMatch, TypeOK
<1>8. ASSUME NEW w \in Workers, CompleteSentFails(w) PROVE HandsMatch'
  BY <1>8 DEF CompleteSentFails, Goes, HandsMatch, TypeOK
<1>9. ASSUME NEW w \in Workers, CompleteFailed(w) PROVE HandsMatch'
  BY <1>9 DEF CompleteFailed, Continue, Goes, HandsMatch, TypeOK
<1>10. ASSUME NEW w \in Workers, CompleteFailedFails(w) PROVE HandsMatch'
  BY <1>10 DEF CompleteFailedFails, Continue, Goes, HandsMatch, TypeOK
<1>11. ASSUME NEW w \in Workers, Crash(w) PROVE HandsMatch'
  BY <1>11 DEF Crash, Goes, HandsMatch, TypeOK
<1>12. ASSUME NEW m \in Messages, Enqueue(m) PROVE HandsMatch'
  BY <1>12 DEF Enqueue, HandsMatch, worker
<1>13. ASSUME NEW m \in Messages, BackoffEnds(m) PROVE HandsMatch'
  BY <1>13 DEF BackoffEnds, HandsMatch, worker
<1>14. ASSUME NEW m \in Messages, LockAges(m) PROVE HandsMatch'
  BY <1>14 DEF LockAges, HandsMatch, worker
<1>15. ASSUME NEW m \in Messages, RowAges(m) PROVE HandsMatch'
  BY <1>15 DEF RowAges, HandsMatch, worker
<1>16. CASE UNCHANGED vars
  BY <1>16 DEF vars, HandsMatch, worker
<1>. QED
  BY <1>1, <1>2, <1>3, <1>4, <1>5, <1>6, <1>7, <1>8, <1>9, <1>10, <1>11, <1>12,
     <1>13, <1>14, <1>15, <1>16 DEF Next, Work

\* What a worker holds changes only by a claim; taking a message up keeps it.
LEMMA HeldKept ==
    ASSUME UNCHANGED worker PROVE \A w \in Workers : Held(w)' = Held(w)
BY DEF worker, Held

LEMMA HeldTakenUp ==
    ASSUME TypeOK, HandsMatch, NEW w \in Workers, NEW m \in Messages, NEW place,
           TakeUp(w, m), Goes(w, m, place)
    PROVE  \A v \in Workers : Held(v)' = Held(v)
BY NoneAssumption DEF TakeUp, Goes, Held, HandsMatch, TypeOK

LEMMA HeldLetGo ==
    ASSUME TypeOK, HandsMatch, NEW w \in Workers, Continue(w)
    PROVE  /\ \A v \in Workers : Held(v)' \subseteq Held(v)
           /\ Held(w)' = Held(w) \ {item[w]}
BY NoneAssumption DEF Continue, Goes, Held, HandsMatch, TypeOK

\* A step that hands nothing out, and leaves the rows that are still held.
LEMMA HeldOnceKept ==
    ASSUME HeldOnce,
           \A v \in Workers : Held(v)' \subseteq Held(v),
           \A m \in Messages : ~doubt'[m] => ~doubt[m],
           \A m \in Messages, v \in Workers :
               ~doubt'[m] /\ m \in Held(v)' =>
                   status'[m] = status[m] /\ stale'[m] = stale[m]
    PROVE  HeldOnce'
BY DEF HeldOnce

LEMMA HeldStep == TypeOK /\ HandsMatch /\ HeldOnce /\ [Next]_vars => HeldOnce'
<1> SUFFICES ASSUME TypeOK, HandsMatch, HeldOnce, [Next]_vars PROVE HeldOnce'
  OBVIOUS
<1>1. ASSUME NEW w \in Workers, Claim(w) PROVE HeldOnce'
  <2>1. PICK batch \in Batches : Take(batch) /\ todo' = [todo EXCEPT ![w] = batch]
    BY <1>1 DEF Claim
  <2>2. batch \subseteq Messages /\ \A m \in batch : Due(m)
    BY BatchesAreDue
  <2>3. /\ Held(w) = {} /\ Held(w)' = batch
        /\ \A v \in Workers \ {w} : Held(v)' = Held(v)
    BY <1>1, <2>1 DEF Claim, Held, HandsMatch, TypeOK
  <2>4. \A m \in batch : ~doubt[m] => \A v \in Workers : m \notin Held(v)
    BY <2>2 DEF HeldOnce, Due
  <2> SUFFICES ASSUME NEW m \in Messages, ~doubt'[m], NEW v \in Workers, m \in Held(v)'
               PROVE  /\ status'[m] = "sending" /\ ~stale'[m]
                      /\ \A u \in Workers : m \in Held(u)' => u = v
    BY DEF HeldOnce
  <2>5. ~doubt[m]
    BY <1>1 DEF Claim
  <2>6. CASE m \in batch
    <3>1. v = w /\ \A u \in Workers : m \in Held(u)' => u = w
      BY <2>3, <2>4, <2>5, <2>6
    <3>2. status'[m] = "sending"
      <4>1. status'[m] = CASE m \in batch -> "sending"
                           [] status[m] = "queued" /\ old[m] -> "failed"
                           [] OTHER -> status[m]
        BY <2>1, Zenon DEF Take
      <4>2. ~old[m]
        BY <2>2, <2>6 DEF Due
      <4>. QED BY <2>6, <4>1, <4>2
    <3>3. ~stale'[m]
      BY <2>1, <2>6, Zenon DEF Take
    <3>. QED BY <3>1, <3>2, <3>3
  <2>7. CASE m \notin batch
    <3>1. m \in Held(v) /\ v # w
      BY <2>3, <2>7
    <3>2. status[m] = "sending" /\ ~stale[m]
      BY <2>5, <3>1 DEF HeldOnce
    <3>3. status'[m] = "sending"
      <4>1. status'[m] = CASE m \in batch -> "sending"
                           [] status[m] = "queued" /\ old[m] -> "failed"
                           [] OTHER -> status[m]
        BY <2>1, Zenon DEF Take
      <4>. QED BY <2>7, <3>2, <4>1
    <3>4. ~stale'[m]
      <4>1. stale'[m] = (stale[m] /\ m \notin batch)
        BY <2>1, Zenon DEF Take
      <4>. QED BY <3>2, <4>1
    <3>5. \A u \in Workers : m \in Held(u)' => u = v
      BY <2>3, <2>5, <2>7, <3>1 DEF HeldOnce
    <3>. QED BY <3>3, <3>4, <3>5
  <2>. QED BY <2>6, <2>7
<1>2. ASSUME NEW w \in Workers, ClaimUnanswered(w) PROVE HeldOnce'
  <2>1. PICK batch \in Batches : Take(batch)
    BY <1>2 DEF ClaimUnanswered
  <2>2. \A m \in Messages : ~doubt[m] => \A v \in Workers : m \in Held(v) =>
           m \notin batch /\ status[m] = "sending"
    BY BatchesAreDue DEF HeldOnce, Due
  <2>3. doubt' = doubt /\ \A v \in Workers : Held(v)' = Held(v)
    BY <1>2, HeldKept DEF ClaimUnanswered
  <2>4. \A m \in Messages, v \in Workers : ~doubt'[m] /\ m \in Held(v)' =>
           status'[m] = status[m] /\ stale'[m] = stale[m]
    BY <2>1, <2>2, <2>3 DEF Take, TypeOK
  <2>. QED BY <2>3, <2>4, HeldOnceKept
<1>3. ASSUME NEW w \in Workers, ClaimNothing(w) PROVE HeldOnce'
  <2>1. doubt' = doubt /\ stale' = stale /\ \A v \in Workers : Held(v)' = Held(v)
    BY <1>3, HeldKept DEF ClaimNothing
  <2>2. \A m \in Messages, v \in Workers : ~doubt'[m] /\ m \in Held(v)' =>
           status'[m] = status[m]
    BY <1>3, <2>1 DEF ClaimNothing, HeldOnce, TypeOK
  <2>. QED BY <2>1, <2>2, HeldOnceKept
<1>4. ASSUME NEW w \in Workers, NEW m \in Messages, Send(w, m) PROVE HeldOnce'
  <2>1. \A v \in Workers : Held(v)' = Held(v)
    BY <1>4, HeldTakenUp DEF Send
  <2>. QED BY <1>4, <2>1, HeldOnceKept DEF Send, row
<1>5. ASSUME NEW w \in Workers, NEW m \in Messages, SendFails(w, m) PROVE HeldOnce'
  <2>1. \A v \in Workers : Held(v)' = Held(v)
    BY <1>5, HeldTakenUp DEF SendFails
  <2>. QED BY <1>5, <2>1, HeldOnceKept DEF SendFails, row
<1>6. ASSUME NEW w \in Workers, NEW m \in Messages, SendUnanswered(w, m) PROVE HeldOnce'
  <2>1. \A v \in Workers : Held(v)' = Held(v)
    BY <1>6, HeldTakenUp DEF SendUnanswered
  <2>2. \A n \in Messages : ~doubt'[n] => ~doubt[n]
    BY <1>6 DEF SendUnanswered, Doubt, TypeOK
  <2>. QED BY <1>6, <2>1, <2>2, HeldOnceKept DEF SendUnanswered, row
<1>7. ASSUME NEW w \in Workers, CompleteSent(w) PROVE HeldOnce'
  <2>1. item[w] \in Messages
    BY <1>7 DEF CompleteSent, HandsMatch, TypeOK
  <2>2. doubt' = doubt /\ \A v \in Workers : Held(v)' \subseteq Held(v)
    BY <1>7, HeldLetGo DEF CompleteSent
  <2>3. ~doubt[item[w]] => \A v \in Workers : item[w] \notin Held(v)'
    BY <1>7, <2>1, <2>2, HeldLetGo, NoneAssumption DEF CompleteSent, HeldOnce, Held
  <2>4. \A m \in Messages : m # item[w] => status'[m] = status[m] /\ stale'[m] = stale[m]
    BY <1>7, <2>1 DEF CompleteSent, SetSent, TypeOK
  <2>. QED BY <2>2, <2>3, <2>4, HeldOnceKept
<1>8. ASSUME NEW w \in Workers, CompleteSentFails(w) PROVE HeldOnce'
  <2>1. item[w] \in Messages
    BY <1>8 DEF CompleteSentFails, HandsMatch, TypeOK
  <2>2. \A v \in Workers : Held(v)' = Held(v)
    BY <1>8, <2>1 DEF CompleteSentFails, Goes, Held, TypeOK
  <2>3. \A m \in Messages : ~doubt'[m] => ~doubt[m] /\ m # item[w]
    BY <1>8, <2>1 DEF CompleteSentFails, Doubt, TypeOK
  <2>4. \A m \in Messages : m # item[w] => status'[m] = status[m] /\ stale'[m] = stale[m]
    BY <1>8, <2>1 DEF CompleteSentFails, SetSent, row, TypeOK
  <2>. QED BY <2>2, <2>3, <2>4, HeldOnceKept
<1>9. ASSUME NEW w \in Workers, CompleteFailed(w) PROVE HeldOnce'
  <2>1. item[w] \in Messages
    BY <1>9 DEF CompleteFailed, HandsMatch, TypeOK
  <2>2. doubt' = doubt /\ \A v \in Workers : Held(v)' \subseteq Held(v)
    BY <1>9, HeldLetGo DEF CompleteFailed
  <2>3. ~doubt[item[w]] => \A v \in Workers : item[w] \notin Held(v)'
    BY <1>9, <2>1, <2>2, HeldLetGo, NoneAssumption DEF CompleteFailed, HeldOnce, Held
  <2>4. \A m \in Messages : m # item[w] => status'[m] = status[m] /\ stale'[m] = stale[m]
    BY <1>9, <2>1 DEF CompleteFailed, SetFailed, TypeOK
  <2>. QED BY <2>2, <2>3, <2>4, HeldOnceKept
<1>10. ASSUME NEW w \in Workers, CompleteFailedFails(w) PROVE HeldOnce'
  <2>1. \A v \in Workers : Held(v)' \subseteq Held(v)
    BY <1>10, HeldLetGo DEF CompleteFailedFails
  <2>. QED BY <1>10, <2>1, HeldOnceKept DEF CompleteFailedFails, row
<1>11. ASSUME NEW w \in Workers, Crash(w) PROVE HeldOnce'
  <2>1. \A v \in Workers : Held(v)' \subseteq Held(v)
    BY <1>11, NoneAssumption DEF Crash, Goes, Held, TypeOK
  <2>. QED BY <1>11, <2>1, HeldOnceKept DEF Crash, row
<1>12. ASSUME NEW m \in Messages, Enqueue(m) PROVE HeldOnce'
  <2>1. doubt' = doubt /\ stale' = stale /\ \A v \in Workers : Held(v)' = Held(v)
    BY <1>12, HeldKept DEF Enqueue
  <2>2. \A n \in Messages, v \in Workers : ~doubt'[n] /\ n \in Held(v)' =>
           status'[n] = status[n]
    BY <1>12, <2>1 DEF Enqueue, HeldOnce, TypeOK
  <2>. QED BY <2>1, <2>2, HeldOnceKept
<1>13. ASSUME NEW m \in Messages, BackoffEnds(m) PROVE HeldOnce'
  BY <1>13, HeldKept, HeldOnceKept DEF BackoffEnds
<1>14. ASSUME NEW m \in Messages, LockAges(m) PROVE HeldOnce'
  <2>1. status' = status /\ \A v \in Workers : Held(v)' = Held(v)
    BY <1>14, HeldKept DEF LockAges
  <2>2. \A n \in Messages : ~doubt'[n] =>
           ~doubt[n] /\ (n = m => \A v \in Workers : m \notin Held(v))
    BY <1>14 DEF LockAges, TypeOK
  <2>3. \A n \in Messages : n # m => stale'[n] = stale[n]
    BY <1>14 DEF LockAges, TypeOK
  <2>. QED BY <2>1, <2>2, <2>3, HeldOnceKept
<1>15. ASSUME NEW m \in Messages, RowAges(m) PROVE HeldOnce'
  BY <1>15, HeldKept, HeldOnceKept DEF RowAges, row
<1>16. CASE UNCHANGED vars
  BY <1>16, HeldKept, HeldOnceKept DEF vars, row
<1>. QED
  BY <1>1, <1>2, <1>3, <1>4, <1>5, <1>6, <1>7, <1>8, <1>9, <1>10, <1>11, <1>12,
     <1>13, <1>14, <1>15, <1>16 DEF Next, Work

\* A step that marks and sends nothing, and unmarks at most what is in doubt.
LEMMA MarksKept ==
    ASSUME DeliveriesMarked, deliveries' = deliveries,
           \A m \in Messages : ~doubt'[m] => ~doubt[m],
           \A m \in Messages : Marked(m)' => Marked(m),
           \A m \in Messages : ~doubt'[m] /\ Marked(m) => Marked(m)'
    PROVE  DeliveriesMarked'
BY DEF DeliveriesMarked

LEMMA MarksSame ==
    ASSUME \A m \in Messages : status'[m] = "sent" <=> status[m] = "sent",
           UNCHANGED worker
    PROVE  \A m \in Messages : Marked(m)' <=> Marked(m)
BY DEF Marked, worker

LEMMA TakeMarks ==
    ASSUME TypeOK, NEW batch \in Batches, Take(batch)
    PROVE  \A m \in Messages : status'[m] = "sent" <=> status[m] = "sent"
<1> SUFFICES ASSUME NEW m \in Messages
             PROVE  status'[m] = "sent" <=> status[m] = "sent"
  OBVIOUS
<1>1. CASE m \in batch
  BY <1>1, BatchesAreDue DEF Take, Due
<1>2. CASE m \notin batch
  BY <1>2 DEF Take
<1>. QED BY <1>1, <1>2

LEMMA DeliveryStep == IInv /\ [Next]_vars => DeliveriesMarked'
<1> SUFFICES ASSUME IInv, [Next]_vars PROVE DeliveriesMarked'
  OBVIOUS
<1> USE DEF IInv
<1>1. ASSUME NEW w \in Workers, Claim(w) PROVE DeliveriesMarked'
  <2>1. PICK batch \in Batches : Take(batch)
    BY <1>1 DEF Claim
  <2>2. \A m \in Messages : status'[m] = "sent" <=> status[m] = "sent"
    BY <2>1, TakeMarks
  <2>3. \A v \in Workers : item'[v] = item[v] /\ (at'[v] = "sent" <=> at[v] = "sent")
    BY <1>1 DEF Claim, TypeOK
  <2>4. \A m \in Messages : Marked(m)' <=> Marked(m)
    BY <2>2, <2>3 DEF Marked
  <2>. QED BY <1>1, <2>4, MarksKept DEF Claim
<1>2. ASSUME NEW w \in Workers, ClaimUnanswered(w) PROVE DeliveriesMarked'
  <2>1. PICK batch \in Batches : Take(batch)
    BY <1>2 DEF ClaimUnanswered
  <2>2. \A m \in Messages : Marked(m)' <=> Marked(m)
    BY <1>2, <2>1, TakeMarks, MarksSame DEF ClaimUnanswered
  <2>. QED BY <1>2, <2>2, MarksKept DEF ClaimUnanswered
<1>3. ASSUME NEW w \in Workers, ClaimNothing(w) PROVE DeliveriesMarked'
  <2>1. \A m \in Messages : Marked(m)' <=> Marked(m)
    BY <1>3, MarksSame DEF ClaimNothing
  <2>. QED BY <1>3, <2>1, MarksKept DEF ClaimNothing
<1>4. ASSUME NEW w \in Workers, NEW m \in Messages, Send(w, m) PROVE DeliveriesMarked'
  <2>1. \A v \in Workers : v # w => item'[v] = item[v] /\ at'[v] = at[v]
    BY <1>4 DEF Send, Goes, TypeOK
  <2>2. at[w] = "busy" /\ at'[w] = "sent" /\ item'[w] = m
    BY <1>4 DEF Send, TakeUp, Goes, TypeOK
  <2>3. \A n \in Messages : Marked(n)' <=> Marked(n) \/ n = m
    BY <1>4, <2>1, <2>2 DEF Marked, Send, row
  <2>4. m \in Held(w) /\ item[w] = None
    BY <1>4, <2>2 DEF Send, TakeUp, Held, HandsMatch
  <2>5. ~doubt[m] => ~Marked(m)
    <3>1. SUFFICES ASSUME ~doubt[m] PROVE ~Marked(m)
      OBVIOUS
    <3>2. status[m] = "sending" /\ \A v \in Workers : m \in Held(v) => v = w
      BY <2>4, <3>1 DEF HeldOnce
    <3>. QED BY <2>2, <3>2, NoneAssumption DEF Marked, Held
  <2>6. /\ deliveries'[m] = deliveries[m] + 1 /\ doubt' = doubt
        /\ \A n \in Messages : n # m => deliveries'[n] = deliveries[n]
    BY <1>4 DEF Send, Deliver, TypeOK
  <2>7. deliveries[m] \in Nat
    BY DEF TypeOK
  <2> SUFFICES ASSUME NEW n \in Messages
               PROVE  /\ Marked(n)' => deliveries'[n] > 0
                      /\ ~doubt'[n] => deliveries'[n] <= 1
                      /\ ~doubt'[n] /\ deliveries'[n] > 0 => Marked(n)'
    BY DEF DeliveriesMarked
  <2>8. CASE n = m
    <3>1. Marked(n)' /\ deliveries'[n] > 0
      BY <2>3, <2>6, <2>7, <2>8
    <3>2. ~doubt[m] => deliveries[m] = 0
      BY <2>5, <2>7 DEF DeliveriesMarked
    <3>. QED BY <2>6, <2>7, <2>8, <3>1, <3>2
  <2>9. CASE n # m
    BY <2>3, <2>6, <2>9 DEF DeliveriesMarked
  <2>. QED BY <2>8, <2>9
<1>5. ASSUME NEW w \in Workers, NEW m \in Messages, SendFails(w, m) PROVE DeliveriesMarked'
  <2>1. \A v \in Workers : /\ at'[v] = "sent" <=> at[v] = "sent"
                           /\ at[v] = "sent" => item'[v] = item[v]
    BY <1>5 DEF SendFails, TakeUp, Goes, TypeOK
  <2>2. \A n \in Messages : Marked(n)' <=> Marked(n)
    BY <1>5, <2>1 DEF Marked, SendFails, row
  <2>. QED BY <1>5, <2>2, MarksKept DEF SendFails
<1>6. ASSUME NEW w \in Workers, NEW m \in Messages, SendUnanswered(w, m) PROVE DeliveriesMarked'
  <2>1. \A v \in Workers : /\ at'[v] = "sent" <=> at[v] = "sent"
                           /\ at[v] = "sent" => item'[v] = item[v]
    BY <1>6 DEF SendUnanswered, TakeUp, Goes, TypeOK
  <2>2. \A n \in Messages : Marked(n)' <=> Marked(n)
    BY <1>6, <2>1 DEF Marked, SendUnanswered, row
  <2>3. /\ deliveries'[m] = deliveries[m] + 1 /\ doubt'[m]
        /\ \A n \in Messages : n # m =>
              deliveries'[n] = deliveries[n] /\ doubt'[n] = doubt[n]
    BY <1>6 DEF SendUnanswered, Deliver, Doubt, TypeOK
  <2>4. deliveries[m] \in Nat
    BY DEF TypeOK
  <2>. QED BY <2>2, <2>3, <2>4 DEF DeliveriesMarked
<1>7. ASSUME NEW w \in Workers, CompleteSent(w) PROVE DeliveriesMarked'
  <2>1. item[w] \in Messages /\ at[w] = "sent"
    BY <1>7 DEF CompleteSent, HandsMatch, TypeOK
  <2>2. \A v \in Workers : v # w => item'[v] = item[v] /\ at'[v] = at[v]
    BY <1>7 DEF CompleteSent, Continue, Goes, TypeOK
  <2>3. at'[w] # "sent" /\ status'[item[w]] = "sent"
    BY <1>7, <2>1 DEF CompleteSent, Continue, Goes, SetSent, TypeOK
  <2>4. \A m \in Messages : m # item[w] => status'[m] = status[m]
    BY <1>7, <2>1 DEF CompleteSent, SetSent, TypeOK
  <2>5. \A m \in Messages : Marked(m)' <=> Marked(m)
    BY <2>1, <2>2, <2>3, <2>4 DEF Marked
  <2>. QED BY <1>7, <2>5, MarksKept DEF CompleteSent
<1>8. ASSUME NEW w \in Workers, CompleteSentFails(w) PROVE DeliveriesMarked'
  <2>1. item[w] \in Messages /\ at[w] = "sent" /\ doubt'[item[w]]
    BY <1>8 DEF CompleteSentFails, Doubt, HandsMatch, TypeOK
  <2>2. \A v \in Workers : v # w => item'[v] = item[v] /\ at'[v] = at[v]
    BY <1>8 DEF CompleteSentFails, Goes, TypeOK
  <2>3. at'[w] # "sent"
    BY <1>8 DEF CompleteSentFails, Goes, TypeOK
  <2>4. \A m \in Messages : m # item[w] =>
           status'[m] = status[m] /\ doubt'[m] = doubt[m]
    BY <1>8, <2>1 DEF CompleteSentFails, SetSent, Doubt, row, TypeOK
  <2>5. \A m \in Messages : Marked(m)' => Marked(m)
    BY <2>1, <2>2, <2>3, <2>4 DEF Marked
  <2>6. \A m \in Messages : m # item[w] => (Marked(m)' <=> Marked(m))
    BY <2>1, <2>2, <2>3, <2>4 DEF Marked
  <2>. QED BY <1>8, <2>1, <2>4, <2>5, <2>6, MarksKept DEF CompleteSentFails
<1>9. ASSUME NEW w \in Workers, CompleteFailed(w) PROVE DeliveriesMarked'
  <2>1. item[w] \in Messages /\ at[w] \in {"retry", "final"}
    BY <1>9 DEF CompleteFailed, HandsMatch, TypeOK
  <2>2. \A v \in Workers : v # w => item'[v] = item[v] /\ at'[v] = at[v]
    BY <1>9 DEF CompleteFailed, Continue, Goes, TypeOK
  <2>3. at'[w] # "sent" /\ status'[item[w]] # "sent"
    BY <1>9, <2>1 DEF CompleteFailed, Continue, Goes, SetFailed, TypeOK
  <2>4. doubt' = doubt /\ \A m \in Messages : m # item[w] => status'[m] = status[m]
    BY <1>9, <2>1 DEF CompleteFailed, SetFailed, TypeOK
  <2>5. ~doubt[item[w]] => status[item[w]] # "sent"
    BY <2>1, NoneAssumption DEF HeldOnce, Held
  <2>6. \A m \in Messages : Marked(m)' => Marked(m)
    BY <2>1, <2>2, <2>3, <2>4 DEF Marked
  <2>7. \A m \in Messages : ~doubt'[m] /\ Marked(m) => Marked(m)'
    BY <2>1, <2>2, <2>3, <2>4, <2>5 DEF Marked
  <2>. QED BY <1>9, <2>4, <2>6, <2>7, MarksKept DEF CompleteFailed
<1>10. ASSUME NEW w \in Workers, CompleteFailedFails(w) PROVE DeliveriesMarked'
  <2>1. \A v \in Workers : /\ at'[v] = "sent" <=> at[v] = "sent"
                           /\ at[v] = "sent" => item'[v] = item[v]
    BY <1>10 DEF CompleteFailedFails, Continue, Goes, TypeOK
  <2>2. \A n \in Messages : Marked(n)' <=> Marked(n)
    BY <1>10, <2>1 DEF Marked, CompleteFailedFails, row
  <2>. QED BY <1>10, <2>2, MarksKept DEF CompleteFailedFails
<1>11. ASSUME NEW w \in Workers, Crash(w) PROVE DeliveriesMarked'
  <2>1. \A v \in Workers : v # w => item'[v] = item[v] /\ at'[v] = at[v]
    BY <1>11 DEF Crash, Goes, TypeOK
  <2>2. at'[w] = "idle" /\ status' = status
    BY <1>11 DEF Crash, Goes, TypeOK, row
  <2>3. \A m \in Messages : Marked(m)' => Marked(m)
    BY <2>1, <2>2 DEF Marked
  <2>4. \A m \in Messages : ~doubt'[m] => ~doubt[m] /\ item[w] # m
    BY <1>11, NoneAssumption DEF Crash, Held
  <2>5. \A m \in Messages : ~doubt'[m] /\ Marked(m) => Marked(m)'
    BY <2>1, <2>2, <2>4 DEF Marked
  <2>. QED BY <1>11, <2>3, <2>4, <2>5, MarksKept DEF Crash
<1>12. ASSUME NEW m \in Messages, Enqueue(m) PROVE DeliveriesMarked'
  <2>1. \A n \in Messages : Marked(n)' <=> Marked(n)
    BY <1>12, MarksSame DEF Enqueue, TypeOK
  <2>. QED BY <1>12, <2>1, MarksKept DEF Enqueue
<1>13. ASSUME NEW m \in Messages, BackoffEnds(m) PROVE DeliveriesMarked'
  <2>1. \A n \in Messages : Marked(n)' <=> Marked(n)
    BY <1>13, MarksSame DEF BackoffEnds
  <2>. QED BY <1>13, <2>1, MarksKept DEF BackoffEnds
<1>14. ASSUME NEW m \in Messages, LockAges(m) PROVE DeliveriesMarked'
  <2>1. \A n \in Messages : Marked(n)' <=> Marked(n)
    BY <1>14, MarksSame DEF LockAges
  <2>2. \A n \in Messages : ~doubt'[n] => ~doubt[n]
    BY <1>14 DEF LockAges, TypeOK
  <2>. QED BY <1>14, <2>1, <2>2, MarksKept DEF LockAges
<1>15. ASSUME NEW m \in Messages, RowAges(m) PROVE DeliveriesMarked'
  <2>1. \A n \in Messages : Marked(n)' <=> Marked(n)
    BY <1>15, MarksSame DEF RowAges, row
  <2>. QED BY <1>15, <2>1, MarksKept DEF RowAges
<1>16. CASE UNCHANGED vars
  <2>1. \A n \in Messages : Marked(n)' <=> Marked(n)
    BY <1>16, MarksSame DEF vars, row
  <2>. QED BY <1>16, <2>1, MarksKept DEF vars
<1>. QED
  BY <1>1, <1>2, <1>3, <1>4, <1>5, <1>6, <1>7, <1>8, <1>9, <1>10, <1>11, <1>12,
     <1>13, <1>14, <1>15, <1>16 DEF Next, Work

\* What SentStays says of a step.
SentStep ==
    \A m \in Messages : status[m] = "sent" /\ ~doubt'[m] => status'[m] = "sent"

LEMMA SentStepHolds == IInv /\ [Next]_vars => SentStep
<1> SUFFICES ASSUME IInv, [Next]_vars PROVE SentStep
  OBVIOUS
<1> USE DEF IInv
<1>1. ASSUME NEW w \in Workers, Claim(w) PROVE SentStep
  <2>1. PICK batch \in Batches : Take(batch)
    BY <1>1 DEF Claim
  <2>. QED BY <2>1, TakeMarks DEF SentStep
<1>2. ASSUME NEW w \in Workers, ClaimUnanswered(w) PROVE SentStep
  <2>1. PICK batch \in Batches : Take(batch)
    BY <1>2 DEF ClaimUnanswered
  <2>. QED BY <2>1, TakeMarks DEF SentStep
<1>3. ASSUME NEW w \in Workers, ClaimNothing(w) PROVE SentStep
  BY <1>3 DEF ClaimNothing, SentStep
<1>4. ASSUME NEW w \in Workers, NEW m \in Messages, Send(w, m) PROVE SentStep
  BY <1>4 DEF Send, row, SentStep
<1>5. ASSUME NEW w \in Workers, NEW m \in Messages, SendFails(w, m) PROVE SentStep
  BY <1>5 DEF SendFails, row, SentStep
<1>6. ASSUME NEW w \in Workers, NEW m \in Messages, SendUnanswered(w, m) PROVE SentStep
  BY <1>6 DEF SendUnanswered, row, SentStep
<1>7. ASSUME NEW w \in Workers, CompleteSent(w) PROVE SentStep
  <2>1. item[w] \in Messages
    BY <1>7 DEF CompleteSent, HandsMatch, TypeOK
  <2>. QED BY <1>7, <2>1 DEF CompleteSent, SetSent, SentStep, TypeOK
<1>8. ASSUME NEW w \in Workers, CompleteSentFails(w) PROVE SentStep
  <2>1. item[w] \in Messages
    BY <1>8 DEF CompleteSentFails, HandsMatch, TypeOK
  <2>. QED BY <1>8, <2>1 DEF CompleteSentFails, SetSent, row, SentStep, TypeOK
<1>9. ASSUME NEW w \in Workers, CompleteFailed(w) PROVE SentStep
  <2>1. item[w] \in Messages
    BY <1>9 DEF CompleteFailed, HandsMatch, TypeOK
  <2>2. ~doubt[item[w]] => status[item[w]] = "sending"
    BY <2>1, NoneAssumption DEF HeldOnce, Held
  <2>3. doubt' = doubt /\ \A n \in Messages : n # item[w] => status'[n] = status[n]
    BY <1>9, <2>1 DEF CompleteFailed, SetFailed, TypeOK
  <2>. QED BY <2>1, <2>2, <2>3 DEF SentStep
<1>10. ASSUME NEW w \in Workers, CompleteFailedFails(w) PROVE SentStep
  BY <1>10 DEF CompleteFailedFails, row, SentStep
<1>11. ASSUME NEW w \in Workers, Crash(w) PROVE SentStep
  BY <1>11 DEF Crash, row, SentStep
<1>12. ASSUME NEW m \in Messages, Enqueue(m) PROVE SentStep
  BY <1>12 DEF Enqueue, SentStep, TypeOK
<1>13. ASSUME NEW m \in Messages, BackoffEnds(m) PROVE SentStep
  BY <1>13 DEF BackoffEnds, row, SentStep
<1>14. ASSUME NEW m \in Messages, LockAges(m) PROVE SentStep
  BY <1>14 DEF LockAges, row, SentStep
<1>15. ASSUME NEW m \in Messages, RowAges(m) PROVE SentStep
  BY <1>15 DEF RowAges, row, SentStep
<1>16. CASE UNCHANGED vars
  BY <1>16 DEF vars, row, SentStep
<1>. QED
  BY <1>1, <1>2, <1>3, <1>4, <1>5, <1>6, <1>7, <1>8, <1>9, <1>10, <1>11, <1>12,
     <1>13, <1>14, <1>15, <1>16 DEF Next, Work

LEMMA Inductive == IInv /\ [Next]_vars => IInv'
BY TypeStep, HandsStep, HeldStep, DeliveryStep DEF IInv

LEMMA Invariance == Spec => []IInv
<1>1. IInv /\ [Next]_vars => IInv'
  BY Inductive
<1>. QED BY InitHolds, <1>1, PTL DEF Spec

-----------------------------------------------------------------------------
\* Every variable keeps its type (the rows of claim_whatsapp_outbox, the
\* worker's batch): no row is claimed more often than MaxAttempts.
THEOREM TypeCorrect == Spec => []TypeOK
<1>1. IInv => TypeOK
  BY DEF IInv
<1>. QED BY Invariance, <1>1, PTL

\* A row marked sent was delivered; a message that nothing put in doubt is
\* delivered once at most, and not at all if its row is marked failed.
THEOREM TruthfulRows == Spec => []RowTellsDelivery
<1>1. IInv => RowTellsDelivery
  <2> SUFFICES ASSUME IInv, NEW m \in Messages
               PROVE  /\ status[m] = "sent" => deliveries[m] > 0
                      /\ ~doubt[m] => /\ deliveries[m] <= 1
                                      /\ status[m] = "failed" => deliveries[m] = 0
    BY DEF RowTellsDelivery
  <2>1. status[m] = "sent" => deliveries[m] > 0
    BY DEF IInv, DeliveriesMarked, Marked
  <2>2. ~doubt[m] => deliveries[m] <= 1
    BY DEF IInv, DeliveriesMarked
  <2>3. ASSUME ~doubt[m], status[m] = "failed" PROVE deliveries[m] = 0
    <3>1. ~Marked(m)
      <4>1. \A w \in Workers : m \notin Held(w)
        BY <2>3 DEF IInv, HeldOnce
      <4>. QED BY <2>3, <4>1, NoneAssumption DEF Marked, Held
    <3>2. deliveries[m] \in Nat
      BY DEF IInv, TypeOK
    <3>. QED BY <2>3, <3>1, <3>2 DEF IInv, DeliveriesMarked
  <2>. QED BY <2>1, <2>2, <2>3
<1>. QED BY Invariance, <1>1, PTL

\* A late report of another worker does not put a sent message back in the
\* queue, whatever the interleaving, unless the message was put in doubt.
THEOREM SentIsKept == Spec => SentStays
<1>1. IInv /\ [Next]_vars =>
         [\A m \in Messages : status[m] = "sent" /\ ~doubt'[m] => status'[m] = "sent"]_vars
  BY SentStepHolds DEF SentStep
<1>. QED BY Invariance, <1>1, PTL DEF Spec, SentStays
=============================================================================
