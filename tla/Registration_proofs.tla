------------------------ MODULE Registration_proofs ------------------------
(***************************************************************************)
(* What a registration promises, for any number of requests, tokens, faults *)
(* and crashes, and any limit.                                              *)
(*                                                                         *)
(* The payment properties are inductive once they say where the handler is  *)
(* when its rows are in each state, and that a request no fault has hit     *)
(* reaches Fail only with a refused payment.  The token property needs to   *)
(* know that a request past the token holds it spent, and alone.            *)
(***************************************************************************)
EXTENDS Registration, FiniteSetTheorems, TLAPS

\* Where the handler is, and what it has written by then.
Written(r) ==
    /\ pc[r] \in {"capacity", "token", "subdomain", "insert"} => admin[r] = "none"
    /\ pc[r] \in {"capacity", "token", "subdomain", "insert", "transaction"} =>
           tx[r] = "none"
    /\ tx[r] = "none" => prompt[r] = "none"
    /\ pc[r] = "transaction" \/ tx[r] # "none" => admin[r] # "none"
    /\ pc[r] = "prompt" => tx[r] = "initiating" /\ prompt[r] = "none"
    /\ pc[r] = "record" => prompt[r] # "none"
    /\ pc[r] = "record" /\ r \notin troubled => tx[r] = "initiating"
    /\ pc[r] = "fail" /\ r \notin troubled => tx[r] = "failed"

\* What the rows and the customer's side say of each other.
Matched(r) ==
    /\ active[r] <=> tx[r] = "completed"
    /\ tx[r] = "completed" /\ r \notin Manual => prompt[r] = "paid"
    /\ callback[r] = "matched" => r \in Manual
    /\ tx[r] = "completed" /\ r \notin troubled => admin[r] = "active"
    /\ prompt[r] \in {"open", "paid"} => tx[r] \in {"initiating", "pending", "completed"}

PaymentInv == \A r \in Request : Written(r) /\ Matched(r)

\* A request that has spent a token, and may hold an account for it.
Past(r) == pc[r] \notin {"capacity", "token", "done"} \/ admin[r] # "none"

TokenInv ==
    \A r \in Request : Past(r) =>
        /\ token[shows[r]] = "consumed"
        /\ \A s \in Request : Past(s) /\ shows[s] = shows[r] => s = r

IInv == TypeOK /\ PaymentInv /\ TokenInv /\ ContactLimitHolds

-----------------------------------------------------------------------------
LEMMA InitHolds == Init => IInv
<1> SUFFICES ASSUME Init PROVE IInv
  OBVIOUS
<1>1. TypeOK
  BY LimitAssumption, ShownAssumption DEF Init, TypeOK, Stages
<1>2. PaymentInv
  BY DEF Init, PaymentInv, Written, Matched
<1>3. TokenInv
  BY DEF Init, TokenInv, Past
<1>4. Counted = {}
  BY DEF Init, Counted
<1>5. ContactLimitHolds
  BY <1>4, FS_EmptySet, LimitAssumption DEF ContactLimitHolds
<1>. QED BY <1>1, <1>2, <1>3, <1>5 DEF IInv

-----------------------------------------------------------------------------
LEMMA GotoType ==
    ASSUME TypeOK, NEW r \in Request, NEW s \in Stages, Goto(r, s)
    PROVE  pc' \in [Request -> Stages]
BY DEF TypeOK, Goto

LEMMA FaultType ==
    ASSUME TypeOK, NEW r \in Request, Fault(r) \/ NoFault
    PROVE  faults' \in 0 .. MaxFaults /\ troubled' \subseteq Request
BY LimitAssumption DEF TypeOK, Fault, NoFault

LEMMA TxType ==
    ASSUME TypeOK, NEW r \in Request,
           NEW s \in {"initiating", "pending", "completed", "failed"}, SetTx(r, s)
    PROVE  tx' \in [Request -> {"none", "initiating", "pending", "completed", "failed"}]
BY DEF TypeOK, SetTx

\* The three columns a settlement writes.
RowTypes ==
    /\ admin \in [Request -> {"none", "pending_payment", "payment_failed", "active"}]
    /\ active \in [Request -> BOOLEAN]
    /\ tx \in [Request -> {"none", "initiating", "pending", "completed", "failed"}]

LEMMA SettleTypes ==
    ASSUME TypeOK, NEW r \in Request,
           Activate(r) \/ Decline(r) \/ UNCHANGED <<admin, active, tx>>
    PROVE  RowTypes'
<1>1. CASE Activate(r)
  BY <1>1, TxType DEF Activate, TypeOK, RowTypes
<1>2. CASE Decline(r)
  BY <1>2, TxType DEF Decline, TypeOK, RowTypes
<1>3. CASE UNCHANGED <<admin, active, tx>>
  BY <1>3 DEF TypeOK, RowTypes
<1>. QED BY <1>1, <1>2, <1>3

LEMMA TypeStep == TypeOK /\ [Next]_vars => TypeOK'
<1> SUFFICES ASSUME TypeOK, [Next]_vars PROVE TypeOK'
  OBVIOUS
<1>1. ASSUME NEW r \in Request, CheckCapacity(r) PROVE TypeOK'
  <2>1. \E s \in Stages : Goto(r, s)
    BY <1>1 DEF CheckCapacity, Stages
  <2>2. Fault(r) \/ NoFault
    BY <1>1 DEF CheckCapacity
  <2>3. /\ pc' \in [Request -> Stages]
        /\ faults' \in 0 .. MaxFaults /\ troubled' \subseteq Request
    BY <2>1, <2>2, GotoType, FaultType
  <2>. QED BY <1>1, <2>3 DEF CheckCapacity, TypeOK, tables
<1>2. ASSUME NEW r \in Request, ConsumeToken(r) PROVE TypeOK'
  <2>1. \E s \in Stages : Goto(r, s)
    BY <1>2 DEF ConsumeToken, Stages
  <2>2. Fault(r) \/ NoFault
    BY <1>2 DEF ConsumeToken
  <2>3. /\ pc' \in [Request -> Stages]
        /\ faults' \in 0 .. MaxFaults /\ troubled' \subseteq Request
    BY <2>1, <2>2, GotoType, FaultType
  <2>4. token' \in [Token -> {"live", "consumed", "expired"}]
    BY <1>2 DEF ConsumeToken, TypeOK
  <2>. QED BY <1>2, <2>3, <2>4 DEF ConsumeToken, TypeOK, tables
<1>3. ASSUME NEW r \in Request, ChooseSubdomain(r) PROVE TypeOK'
  <2>1. \E s \in Stages : Goto(r, s)
    BY <1>3 DEF ChooseSubdomain, Stages
  <2>2. Fault(r) \/ NoFault
    BY <1>3 DEF ChooseSubdomain
  <2>3. /\ pc' \in [Request -> Stages]
        /\ faults' \in 0 .. MaxFaults /\ troubled' \subseteq Request
    BY <2>1, <2>2, GotoType, FaultType
  <2>4. name' \in [Request -> Nat]
    BY <1>3 DEF ChooseSubdomain, Names, TypeOK
  <2>. QED BY <1>3, <2>3, <2>4 DEF ChooseSubdomain, TypeOK, tables
<1>4. ASSUME NEW r \in Request, InsertAdmin(r) PROVE TypeOK'
  <2>1. \E s \in Stages : Goto(r, s)
    BY <1>4 DEF InsertAdmin, Stages
  <2>2. Fault(r) \/ NoFault
    BY <1>4 DEF InsertAdmin
  <2>3. /\ pc' \in [Request -> Stages]
        /\ faults' \in 0 .. MaxFaults /\ troubled' \subseteq Request
    BY <2>1, <2>2, GotoType, FaultType
  <2>4. tries' \in [Request -> Nat]
    BY <1>4 DEF InsertAdmin, TypeOK
  <2>5. admin' \in [Request -> {"none", "pending_payment", "payment_failed", "active"}]
    BY <1>4 DEF InsertAdmin, AddAdmin, TypeOK
  <2>. QED BY <1>4, <2>3, <2>4, <2>5 DEF InsertAdmin, TypeOK, tables
<1>5. ASSUME NEW r \in Request, InsertTransaction(r) PROVE TypeOK'
  <2>1. \E s \in Stages : Goto(r, s)
    BY <1>5 DEF InsertTransaction, Stages
  <2>2. Fault(r) \/ NoFault
    BY <1>5 DEF InsertTransaction
  <2>3. /\ pc' \in [Request -> Stages]
        /\ faults' \in 0 .. MaxFaults /\ troubled' \subseteq Request
    BY <2>1, <2>2, GotoType, FaultType
  <2>4. tx' \in [Request -> {"none", "initiating", "pending", "completed", "failed"}]
    BY <1>5, TxType DEF InsertTransaction, TypeOK
  <2>. QED BY <1>5, <2>3, <2>4 DEF InsertTransaction, TypeOK, tables
<1>6. ASSUME NEW r \in Request, SendPrompt(r) PROVE TypeOK'
  <2>1. \E s \in Stages : Goto(r, s)
    BY <1>6 DEF SendPrompt, Stages
  <2>2. Fault(r) \/ NoFault
    BY <1>6 DEF SendPrompt
  <2>3. /\ pc' \in [Request -> Stages]
        /\ faults' \in 0 .. MaxFaults /\ troubled' \subseteq Request
    BY <2>1, <2>2, GotoType, FaultType
  <2>4. prompt' \in [Request -> {"none", "open", "paid", "declined"}]
    BY <1>6 DEF SendPrompt, TypeOK
  <2>. QED BY <1>6, <2>3, <2>4 DEF SendPrompt, TypeOK, tables
<1>7. ASSUME NEW r \in Request, PromptRefused(r) PROVE TypeOK'
  <2>1. \E s \in Stages : Goto(r, s)
    BY <1>7 DEF PromptRefused, Stages
  <2>2. Fault(r) \/ NoFault
    BY <1>7 DEF PromptRefused
  <2>3. /\ pc' \in [Request -> Stages]
        /\ faults' \in 0 .. MaxFaults /\ troubled' \subseteq Request
    BY <2>1, <2>2, GotoType, FaultType
  <2>4. tx' \in [Request -> {"none", "initiating", "pending", "completed", "failed"}]
    BY <1>7, TxType DEF PromptRefused, TypeOK
  <2>. QED BY <1>7, <2>3, <2>4 DEF PromptRefused, TypeOK, tables
<1>8. ASSUME NEW r \in Request, Record(r) PROVE TypeOK'
  <2>1. \E s \in Stages : Goto(r, s)
    BY <1>8 DEF Record, Stages, TryAgain
  <2>2. Fault(r) \/ NoFault
    BY <1>8 DEF Record
  <2>3. /\ pc' \in [Request -> Stages]
        /\ faults' \in 0 .. MaxFaults /\ troubled' \subseteq Request
    BY <2>1, <2>2, GotoType, FaultType
  <2>4. tx' \in [Request -> {"none", "initiating", "pending", "completed", "failed"}]
    BY <1>8, TxType DEF Record, TypeOK
  <2>5. tries' \in [Request -> Nat]
    BY <1>8 DEF Record, TryAgain, TypeOK
  <2>. QED BY <1>8, <2>3, <2>4, <2>5 DEF Record, TypeOK, tables
<1>9. ASSUME NEW r \in Request, Drain(r) PROVE TypeOK'
  <2>1. \E s \in Stages : Goto(r, s)
    BY <1>9 DEF Drain, Stages
  <2>2. Fault(r) \/ NoFault
    BY <1>9 DEF Drain
  <2>3. /\ pc' \in [Request -> Stages]
        /\ faults' \in 0 .. MaxFaults /\ troubled' \subseteq Request
    BY <2>1, <2>2, GotoType, FaultType
  <2>4. RowTypes' /\ name' = name
    BY <1>9, SettleTypes DEF Drain, Settle, tables
  <2>. QED BY <1>9, <2>3, <2>4 DEF Drain, TypeOK, RowTypes
<1>10. ASSUME NEW r \in Request, Fail(r) PROVE TypeOK'
  <2>1. \E s \in Stages : Goto(r, s)
    BY <1>10 DEF Fail, Stages
  <2>2. Fault(r) \/ NoFault
    BY <1>10 DEF Fail
  <2>3. /\ pc' \in [Request -> Stages]
        /\ faults' \in 0 .. MaxFaults /\ troubled' \subseteq Request
    BY <2>1, <2>2, GotoType, FaultType
  <2>4. admin' \in [Request -> {"none", "pending_payment", "payment_failed", "active"}]
    BY <1>10 DEF Fail, TypeOK
  <2>. QED BY <1>10, <2>3, <2>4 DEF Fail, TypeOK, tables
<1>11. ASSUME NEW r \in Request, SettleCallback(r) PROVE TypeOK'
  <2>1. RowTypes' /\ name' = name
    BY <1>11, SettleTypes DEF SettleCallback, Settle
  <2>. QED BY <1>11, <2>1 DEF SettleCallback, TypeOK, RowTypes
<1>12. ASSUME NEW r \in Request, Answer(r) PROVE TypeOK'
  BY <1>12 DEF Answer, tables, TypeOK
<1>13. ASSUME NEW r \in Request, Post(r) PROVE TypeOK'
  BY <1>13 DEF Post, tables, TypeOK
<1>14. ASSUME NEW r \in Request, Match(r) \/ Confirm(r) PROVE TypeOK'
  <2>1. CASE Match(r)
    BY <2>1 DEF Match, tables, TypeOK
  <2>2. CASE Confirm(r)
    <3>1. RowTypes'
      BY <2>2, SettleTypes DEF Confirm
    <3>. QED BY <2>2, <3>1 DEF Confirm, TypeOK, RowTypes
  <2>. QED BY <1>14, <2>1, <2>2
<1>15. ASSUME NEW r \in Request, Verify(r) PROVE TypeOK'
  <2>1. RowTypes'
    BY <1>15, SettleTypes DEF Verify
  <2>. QED BY <1>15, <2>1 DEF Verify, TypeOK, RowTypes
<1>16. ASSUME Crash PROVE TypeOK'
  <2>1. pc' \in [Request -> Stages]
    BY <1>16 DEF Crash, TypeOK, Stages
  <2>2. faults' \in 0 .. MaxFaults /\ troubled' \subseteq Request
    BY <1>16, LimitAssumption DEF Crash, TypeOK
  <2>. QED BY <1>16, <2>1, <2>2 DEF Crash, tables, TypeOK
<1>17. CASE UNCHANGED vars
  BY <1>17 DEF vars, tables, TypeOK
<1>. QED
  BY <1>1, <1>2, <1>3, <1>4, <1>5, <1>6, <1>7, <1>8, <1>9, <1>10, <1>11, <1>12,
     <1>13, <1>14, <1>15, <1>16, <1>17 DEF Next, Handle
-----------------------------------------------------------------------------
LEMMA PaymentStep == TypeOK /\ PaymentInv /\ [Next]_vars => PaymentInv'
<1> SUFFICES ASSUME TypeOK, PaymentInv, [Next]_vars, NEW x \in Request
             PROVE  (Written(x) /\ Matched(x))'
  BY DEF PaymentInv
<1>a. Written(x) /\ Matched(x)
  BY DEF PaymentInv
<1>1. ASSUME NEW r \in Request, CheckCapacity(r) PROVE (Written(x) /\ Matched(x))'
  BY <1>a, <1>1 DEF CheckCapacity, Goto, Fault, NoFault, tables, TypeOK,
      Written, Matched
<1>2. ASSUME NEW r \in Request, ConsumeToken(r) PROVE (Written(x) /\ Matched(x))'
  BY <1>a, <1>2 DEF ConsumeToken, Goto, Fault, NoFault, tables, TypeOK,
      Written, Matched
<1>3. ASSUME NEW r \in Request, ChooseSubdomain(r) PROVE (Written(x) /\ Matched(x))'
  BY <1>a, <1>3 DEF ChooseSubdomain, Goto, Fault, NoFault, TypeOK, Written, Matched
<1>4. ASSUME NEW r \in Request, InsertAdmin(r) PROVE (Written(x) /\ Matched(x))'
  BY <1>a, <1>4 DEF InsertAdmin, AddAdmin, Goto, Fault, NoFault, TypeOK,
      Written, Matched
<1>5. ASSUME NEW r \in Request, InsertTransaction(r) PROVE (Written(x) /\ Matched(x))'
  BY <1>a, <1>5 DEF InsertTransaction, SetTx, Goto, Fault, NoFault, TypeOK,
      Written, Matched
<1>6. ASSUME NEW r \in Request, SendPrompt(r) PROVE (Written(x) /\ Matched(x))'
  BY <1>a, <1>6 DEF SendPrompt, Goto, Fault, NoFault, tables, TypeOK,
      Written, Matched
<1>7. ASSUME NEW r \in Request, PromptRefused(r) PROVE (Written(x) /\ Matched(x))'
  BY <1>a, <1>7 DEF PromptRefused, SetTx, Goto, Fault, NoFault, TypeOK,
      Written, Matched
<1>8. ASSUME NEW r \in Request, Record(r) PROVE (Written(x) /\ Matched(x))'
  BY <1>a, <1>8 DEF Record, TryAgain, SetTx, Goto, Fault, NoFault, TypeOK,
      Written, Matched
<1>9. ASSUME NEW r \in Request, Drain(r) PROVE (Written(x) /\ Matched(x))'
  BY <1>a, <1>9 DEF Drain, Settle, Activate, Decline, SetTx, Goto, Fault,
      NoFault, tables, TypeOK, Written, Matched
<1>10. ASSUME NEW r \in Request, Fail(r) PROVE (Written(x) /\ Matched(x))'
  BY <1>a, <1>10 DEF Fail, Goto, Fault, NoFault, TypeOK, Written, Matched
<1>11. ASSUME NEW r \in Request, SettleCallback(r) PROVE (Written(x) /\ Matched(x))'
  BY <1>a, <1>11 DEF SettleCallback, Settle, Activate, Decline, SetTx,
      TypeOK, Written, Matched
<1>12. ASSUME NEW r \in Request, Answer(r) PROVE (Written(x) /\ Matched(x))'
  BY <1>a, <1>12 DEF Answer, tables, TypeOK, Written, Matched
<1>13. ASSUME NEW r \in Request, Post(r) PROVE (Written(x) /\ Matched(x))'
  BY <1>a, <1>13 DEF Post, tables, TypeOK, Written, Matched
<1>14. ASSUME NEW r \in Request, Match(r) \/ Confirm(r)
       PROVE  (Written(x) /\ Matched(x))'
  <2>1. CASE Match(r)
    BY <1>a, <2>1 DEF Match, tables, TypeOK, Written, Matched
  <2>2. CASE Confirm(r)
    <3>1. r \in Manual
      BY <2>2 DEF Confirm, PaymentInv, Matched
    <3>. QED BY <1>a, <2>2, <3>1 DEF Confirm, Activate, SetTx, TypeOK, Written, Matched
  <2>. QED BY <1>14, <2>1, <2>2
<1>15. ASSUME NEW r \in Request, Verify(r) PROVE (Written(x) /\ Matched(x))'
  BY <1>a, <1>15 DEF Verify, Activate, SetTx, TypeOK, Written, Matched
<1>16. ASSUME Crash PROVE (Written(x) /\ Matched(x))'
  BY <1>a, <1>16 DEF Crash, tables, TypeOK, Written, Matched
<1>17. CASE UNCHANGED vars
  BY <1>a, <1>17 DEF vars, tables, Written, Matched
<1>. QED
  BY <1>1, <1>2, <1>3, <1>4, <1>5, <1>6, <1>7, <1>8, <1>9, <1>10, <1>11, <1>12,
     <1>13, <1>14, <1>15, <1>16, <1>17 DEF Next, Handle
-----------------------------------------------------------------------------
\* Every step but the spending of a token keeps the tokens, and lets nobody
\* past that was not past before.
TokenFrame ==
    token' = token /\ shows' = shows /\ \A x \in Request : Past(x)' => Past(x)

LEMMA TokenStep == TypeOK /\ PaymentInv /\ TokenInv /\ [Next]_vars => TokenInv'
<1> SUFFICES ASSUME TypeOK, PaymentInv, TokenInv, [Next]_vars PROVE TokenInv'
  OBVIOUS
<1>0. ASSUME TokenFrame PROVE TokenInv'
  BY <1>0 DEF TokenFrame, TokenInv
<1>1. ASSUME NEW r \in Request, CheckCapacity(r) PROVE TokenInv'
  BY <1>0, <1>1 DEF CheckCapacity, Goto, tables, TypeOK, TokenFrame, Past
<1>2. ASSUME NEW r \in Request, ConsumeToken(r) PROVE TokenInv'
  <2>. DEFINE t == shows[r]
  <2>1. t \in Token /\ shows' = shows /\ admin' = admin
    BY <1>2 DEF ConsumeToken, tables, TypeOK
  <2>2. CASE token[t] = "live" /\ token' = [token EXCEPT ![t] = "consumed"]
    <3>1. \A x \in Request : Past(x) => shows[x] # t
      BY <2>2 DEF TokenInv
    <3>2. \A x \in Request : Past(x)' => Past(x) \/ x = r
      BY <1>2, <2>1 DEF ConsumeToken, Goto, TypeOK, Past
    <3>3. \A x \in Request : token'[shows[x]] = IF shows[x] = t THEN "consumed"
                                                 ELSE token[shows[x]]
      BY <2>1, <2>2 DEF TypeOK
    <3>. QED BY <2>1, <3>1, <3>2, <3>3 DEF TokenInv
  <2>3. CASE ~(token[t] = "live" /\ token' = [token EXCEPT ![t] = "consumed"])
    <3>1. \A x \in Request : Past(x)' => Past(x)
      BY <1>2, <2>1, <2>3 DEF ConsumeToken, Goto, TypeOK, Past
    <3>2. token' = token \/ (token[t] = "live" /\ token' = [token EXCEPT ![t] = "expired"])
      BY <1>2, <2>3 DEF ConsumeToken
    <3>3. \A x \in Request : token[shows[x]] = "consumed" => token'[shows[x]] = "consumed"
      BY <2>1, <3>2 DEF TypeOK
    <3>. QED BY <2>1, <3>1, <3>3 DEF TokenInv
  <2>. QED BY <2>2, <2>3
<1>3. ASSUME NEW r \in Request, ChooseSubdomain(r) PROVE TokenInv'
  BY <1>0, <1>3 DEF ChooseSubdomain, Goto, TypeOK, TokenFrame, Past
<1>4. ASSUME NEW r \in Request, InsertAdmin(r) PROVE TokenInv'
  BY <1>0, <1>4 DEF InsertAdmin, AddAdmin, Goto, TypeOK, TokenFrame, Past
<1>5. ASSUME NEW r \in Request, InsertTransaction(r) PROVE TokenInv'
  BY <1>0, <1>5 DEF InsertTransaction, Goto, TypeOK, TokenFrame, Past
<1>6. ASSUME NEW r \in Request, SendPrompt(r) PROVE TokenInv'
  BY <1>0, <1>6 DEF SendPrompt, Goto, tables, TypeOK, TokenFrame, Past
<1>7. ASSUME NEW r \in Request, PromptRefused(r) PROVE TokenInv'
  BY <1>0, <1>7 DEF PromptRefused, Goto, TypeOK, TokenFrame, Past
<1>8. ASSUME NEW r \in Request, Record(r) PROVE TokenInv'
  BY <1>0, <1>8 DEF Record, TryAgain, Goto, TypeOK, TokenFrame, Past
<1>9. ASSUME NEW r \in Request, Drain(r) PROVE TokenInv'
  BY <1>0, <1>9 DEF Drain, Settle, Activate, Decline, Goto, tables, TypeOK,
      PaymentInv, Written, TokenFrame, Past
<1>10. ASSUME NEW r \in Request, Fail(r) PROVE TokenInv'
  BY <1>0, <1>10 DEF Fail, Goto, TypeOK, PaymentInv, Written, TokenFrame, Past
<1>11. ASSUME NEW r \in Request, SettleCallback(r) PROVE TokenInv'
  BY <1>0, <1>11 DEF SettleCallback, Settle, Activate, Decline, TypeOK,
      PaymentInv, Written, TokenFrame, Past
<1>12. ASSUME NEW r \in Request, Answer(r) PROVE TokenInv'
  BY <1>0, <1>12 DEF Answer, tables, TypeOK, TokenFrame, Past
<1>13. ASSUME NEW r \in Request, Post(r) PROVE TokenInv'
  BY <1>0, <1>13 DEF Post, tables, TypeOK, TokenFrame, Past
<1>14. ASSUME NEW r \in Request, Match(r) \/ Confirm(r) PROVE TokenInv'
  BY <1>0, <1>14 DEF Match, Confirm, Activate, tables, TypeOK, PaymentInv, Written,
      TokenFrame, Past
<1>15. ASSUME NEW r \in Request, Verify(r) PROVE TokenInv'
  BY <1>0, <1>15 DEF Verify, Activate, TypeOK, PaymentInv, Written, TokenFrame, Past
<1>16. ASSUME Crash PROVE TokenInv'
  BY <1>0, <1>16 DEF Crash, tables, TypeOK, TokenFrame, Past
<1>17. CASE UNCHANGED vars
  BY <1>0, <1>17 DEF vars, tables, TokenFrame, Past
<1>. QED
  BY <1>1, <1>2, <1>3, <1>4, <1>5, <1>6, <1>7, <1>8, <1>9, <1>10, <1>11, <1>12,
     <1>13, <1>14, <1>15, <1>16, <1>17 DEF Next, Handle

-----------------------------------------------------------------------------
\* A row that found room keeps the contact within its limit ...
LEMMA RoomIsEnough ==
    ASSUME NEW r \in Request, RoomFor(r), NEW S, S \subseteq Counted \union {r}
    PROVE  Cardinality(S) <= Limit
<1>. DEFINE Others == Counted \ {r}
<1>. DEFINE More == Others \union {r}
<1>0. Others \in SUBSET Request /\ S \in SUBSET More
  BY DEF Counted
<1>1. IsFiniteSet(Others) /\ Cardinality(Others) \in Nat
  <2>1. IsFiniteSet(Others)
    BY <1>0, RequestAssumption, FS_Subset
  <2>. HIDE DEF Others
  <2>. QED BY <2>1, FS_CardinalityType
<1>2. IsFiniteSet(More) /\ Cardinality(More) <= Cardinality(Others) + 1
  <2>. HIDE DEF Others
  <2>1. /\ IsFiniteSet(More)
        /\ Cardinality(More) = IF r \in Others THEN Cardinality(Others)
                                              ELSE Cardinality(Others) + 1
    BY <1>1, FS_AddElement
  <2>. HIDE DEF More
  <2>. QED BY <1>1, <2>1
<1>4. IsFiniteSet(S) /\ Cardinality(S) <= Cardinality(More)
  BY <1>0, <1>2, FS_Subset
<1>5. Cardinality(Others) < Limit
  BY DEF RoomFor
<1>. HIDE DEF Others, More
<1>6. Cardinality(S) \in Nat /\ Cardinality(More) \in Nat
  BY <1>2, <1>4, FS_CardinalityType
<1>. QED BY <1>1, <1>2, <1>4, <1>5, <1>6, LimitAssumption

\* ... and so does a step that counts no new one.
LEMMA FewerAreEnough ==
    ASSUME ContactLimitHolds, NEW S, S \subseteq Counted
    PROVE  Cardinality(S) <= Limit
<1>0. Counted \in SUBSET Request /\ S \in SUBSET Counted
  BY DEF Counted
<1>1. IsFiniteSet(Counted)
  BY <1>0, RequestAssumption, FS_Subset
<1>2. IsFiniteSet(S) /\ Cardinality(S) <= Cardinality(Counted)
  BY <1>0, <1>1, FS_Subset
<1>3. Cardinality(S) \in Nat /\ Cardinality(Counted) \in Nat
  BY <1>1, <1>2, FS_CardinalityType
<1>. QED BY <1>2, <1>3, LimitAssumption DEF ContactLimitHolds

LEMMA LimitStep == TypeOK /\ ContactLimitHolds /\ [Next]_vars => ContactLimitHolds'
<1> SUFFICES ASSUME TypeOK, ContactLimitHolds, [Next]_vars PROVE ContactLimitHolds'
  OBVIOUS
<1>1. ASSUME Counted' \subseteq Counted PROVE ContactLimitHolds'
  BY <1>1, FewerAreEnough DEF ContactLimitHolds
<1>2. ASSUME NEW r \in Request, RoomFor(r), Counted' \subseteq Counted \union {r}
      PROVE  ContactLimitHolds'
  BY <1>2, RoomIsEnough DEF ContactLimitHolds
<1>3. ASSUME UNCHANGED admin PROVE ContactLimitHolds'
  BY <1>1, <1>3 DEF Counted
<1>4. ASSUME NEW r \in Request, Activate(r) PROVE ContactLimitHolds'
  BY <1>2, <1>4 DEF Activate, Counted, TypeOK
<1>5. ASSUME NEW r \in Request, Decline(r) PROVE ContactLimitHolds'
  BY <1>1, <1>5 DEF Decline, Counted, TypeOK
<1>6. ASSUME NEW r \in Request, InsertAdmin(r) PROVE ContactLimitHolds'
  <2>1. CASE UNCHANGED admin
    BY <1>3, <2>1
  <2>2. CASE RoomFor(r) /\ AddAdmin(r)
    BY <1>2, <2>2 DEF AddAdmin, Counted, TypeOK
  <2>. QED BY <1>6, <2>1, <2>2 DEF InsertAdmin
<1>7. ASSUME NEW r \in Request, Fail(r) PROVE ContactLimitHolds'
  BY <1>1, <1>7 DEF Fail, Counted, TypeOK
<1>8. ASSUME NEW r \in Request, Drain(r) \/ SettleCallback(r) PROVE ContactLimitHolds'
  BY <1>3, <1>4, <1>5, <1>8 DEF Drain, SettleCallback, Settle, tables
<1>9. ASSUME NEW r \in Request, Confirm(r) \/ Verify(r) PROVE ContactLimitHolds'
  BY <1>4, <1>9 DEF Confirm, Verify
<1>10. ASSUME NEW r \in Request,
              \/ CheckCapacity(r) \/ ConsumeToken(r) \/ ChooseSubdomain(r)
              \/ InsertTransaction(r) \/ SendPrompt(r) \/ PromptRefused(r)
              \/ Record(r) \/ Answer(r) \/ Post(r) \/ Match(r)
       PROVE  ContactLimitHolds'
  BY <1>3, <1>10 DEF CheckCapacity, ConsumeToken, ChooseSubdomain,
      InsertTransaction,
                    SendPrompt, PromptRefused, Record, Answer, Post, Match, tables
<1>11. CASE Crash \/ UNCHANGED vars
  BY <1>3, <1>11 DEF Crash, vars, tables
<1>. QED BY <1>6, <1>7, <1>8, <1>9, <1>10, <1>11 DEF Next, Handle

-----------------------------------------------------------------------------
LEMMA Invariance == Spec => []IInv
<1>1. IInv /\ [Next]_vars => IInv'
  BY TypeStep, PaymentStep, TokenStep, LimitStep DEF IInv
<1>. QED BY InitHolds, <1>1, PTL DEF Spec

\* Every variable keeps its type: the columns of isp_admins and
\* isp_transactions, the handler's place, the customer's side.
THEOREM TypeCorrect == Spec => []TypeOK
<1>1. IInv => TypeOK
  BY DEF IInv
<1>. QED BY Invariance, <1>1, PTL

\* An account is active exactly when its fee is settled; one asked for over
\* M-Pesa is settled only when it was paid, a manual one by any confirmation that
\* finds it or by the Super Admin.  No interleaving of handler, callback, sweep,
\* confirmation and Super Admin fails a settled account unless a fault hit its
\* request.
THEOREM ActivationAsSettled == Spec => []ActivationFollowsPayment
<1>1. IInv => ActivationFollowsPayment
  BY DEF IInv, PaymentInv, Matched, ActivationFollowsPayment
<1>. QED BY Invariance, <1>1, PTL

\* A prompt that can be or was paid has a transaction that was not failed.
THEOREM NoPromptWithoutRow == Spec => []PromptKeepsItsRow
<1>1. IInv => PromptKeepsItsRow
  BY DEF IInv, PaymentInv, Matched, PromptKeepsItsRow
<1>. QED BY Invariance, <1>1, PTL

\* The trigger alone keeps every contact within its limit.
THEOREM LimitIsKept == Spec => []ContactLimitHolds
<1>1. IInv => ContactLimitHolds
  BY DEF IInv
<1>. QED BY Invariance, <1>1, PTL

\* One phone verification never makes two accounts.
THEOREM TokenIsSingleUse == Spec => []OneAccountPerToken
<1>1. IInv => OneAccountPerToken
  BY DEF IInv, TokenInv, Past, OneAccountPerToken
<1>. QED BY Invariance, <1>1, PTL
=============================================================================
