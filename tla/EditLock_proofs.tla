-------------------------- MODULE EditLock_proofs --------------------------
(***************************************************************************)
(* What the lock promises, for any number of calls and workers and for any  *)
(* lease that outlives a renewal and the write behind it.                   *)
(*                                                                         *)
(* WritersExclusive is not inductive.  It rests on what an assertion that   *)
(* has returned still guarantees: the row carries the token of the call,    *)
(* and its lease had been extended after the renewal left.                  *)
(***************************************************************************)
EXTENDS EditLock, TLAPS

(* What an answered renewal, and an assertion that joined it, still hold.   *)
GrantHolds ==
    \A e \in Edits :
        /\ renewal[e] = "yes" => holder = e /\ left + sent[e] >= Lease
        /\ renewal[e] # "none" => sent[e] <= MaxCall
        /\ asserted[e] => /\ stage[e] \in Asking /\ holder = e
                          /\ left + clock[e] >= Lease
                          /\ clock[e] <= MaxCall + MaxWrite

(* What the call that holds the row has left on the router and in the row.  *)
HoldersProgress ==
    \A e \in Edits : holder = e =>
        /\ stage[e] \in {"router", "restore"} => record = before[e]
        /\ stage[e] \in {"confirm", "save", "rejected"} =>
               router = e /\ record = before[e]
        /\ stage[e] = "verify" => router = e /\ record \in {before[e], e}
        /\ stage[e] = "final" =>
               /\ outcome[e] = "saved" => router = e /\ record = e
               /\ outcome[e] = "restored" =>
                      router = before[e] /\ record = before[e]
               /\ outcome[e] = "unchanged" => record = before[e]

(* A call that may have changed the router and has not yet answered for it. *)
Answerable(e) ==
    \/ stage[e] \in {"router", "confirm", "save", "verify", "rejected", "restore"}
    \/ stage[e] = "final" /\ outcome[e] \in {"saved", "restored"}

Reported(e) == stage[e] = "crashed" \/ outcome[e] \in {"attention", "lost"}

SomeoneAnswers ==
    /\ router # record => \E e \in Edits : Answerable(e) \/ Reported(e)
    /\ \A e \in Edits : outcome[e] \in {"attention", "lost"} =>
           stage[e] \in {"final", "release", "ended", "crashed"}

IInv == TypeOK /\ GrantHolds /\ HoldersProgress /\ SomeoneAnswers

-----------------------------------------------------------------------------
(* TypeOK in four parts, so that a step is checked against one at a time.   *)
LockTypes ==
    /\ holder \in Edits \cup {None} /\ left \in 0 .. Lease
    /\ tail \in [Workers -> Edits \cup {None}]
    /\ worker \in [Edits -> Workers \cup {None}]
    /\ previous \in [Edits -> Edits \cup {None}]
    /\ crashes \in 0 .. MaxCrashes
StageTypes ==
    stage \in [Edits -> Stages] /\ outcome \in [Edits -> Outcomes]
GuardTypes ==
    /\ renewal \in [Edits -> {"none", "sent", "yes", "no"}]
    /\ sent \in [Edits -> Nat] /\ clock \in [Edits -> Nat]
    /\ asserted \in [Edits -> BOOLEAN] /\ lost \in [Edits -> BOOLEAN]
DataTypes ==
    /\ before \in [Edits -> Value]
    /\ router \in Value \cup {Mixed} /\ record \in Value

LEMMA TypeParts ==
    LockTypes' /\ StageTypes' /\ GuardTypes' /\ DataTypes' => TypeOK'
BY DEF TypeOK, LockTypes, StageTypes, GuardTypes, DataTypes

LEMMA GoToGuards ==
    ASSUME TypeOK, NEW e \in Edits, NEW s, GoTo(e, s) PROVE GuardTypes'
<1>1. asserted' \in [Edits -> BOOLEAN] /\ lost' \in [Edits -> BOOLEAN]
  BY DEF GoTo, TypeOK
<1>2. clock' \in [Edits -> Nat]
  BY DEF GoTo, TypeOK
<1>. QED BY <1>1, <1>2 DEF GoTo, TypeOK, GuardTypes

LEMMA LeaveGuards ==
    ASSUME TypeOK, NEW e \in Edits, Leave(e) PROVE GuardTypes'
<1>1. asserted' \in [Edits -> BOOLEAN] /\ lost' \in [Edits -> BOOLEAN]
  BY DEF Leave, TypeOK
<1>2. clock' \in [Edits -> Nat]
  BY DEF Leave, TypeOK
<1>. QED BY <1>1, <1>2 DEF Leave, TypeOK, GuardTypes

LEMMA LeaveLock ==
    ASSUME TypeOK, NEW e \in Edits, Leave(e)
    PROVE  /\ tail' \in [Workers -> Edits \cup {None}]
           /\ worker' \in [Edits -> Workers \cup {None}]
           /\ previous' \in [Edits -> Edits \cup {None}]
           /\ crashes' \in 0 .. MaxCrashes
<1>1. tail' \in [Workers -> Edits \cup {None}]
  <2>1. CASE tail[worker[e]] = e
    <3>1. tail' = [tail EXCEPT ![worker[e]] = None]
      BY <2>1 DEF Leave
    <3>. QED BY <3>1 DEF TypeOK
  <2>2. CASE tail[worker[e]] # e
    BY <2>2 DEF Leave, TypeOK
  <2>. QED BY <2>1, <2>2
<1>2. previous' \in [Edits -> Edits \cup {None}]
  BY DEF Leave, TypeOK
<1>. QED BY <1>1, <1>2 DEF Leave, TypeOK

LEMMA InitHolds == Init => IInv
<1> SUFFICES ASSUME Init PROVE IInv
  OBVIOUS
<1>1. TypeOK
  BY TimeAssumption, CrashAssumption
     DEF Init, TypeOK, Value, Stages, Outcomes, Inside, Asking, Over
<1>2. GrantHolds
  BY DEF Init, GrantHolds
<1>3. HoldersProgress
  BY DEF Init, HoldersProgress
<1>4. SomeoneAnswers
  BY DEF Init, SomeoneAnswers
<1>. QED BY <1>1, <1>2, <1>3, <1>4 DEF IInv

LEMMA TypeStep == TypeOK /\ [Next]_vars => TypeOK'
<1> SUFFICES ASSUME TypeOK, [Next]_vars PROVE TypeOK'
  OBVIOUS
<1> USE NameAssumption, TimeAssumption, CrashAssumption
<1>1. ASSUME NEW e \in Edits, NEW w \in Workers, Request(e, w) PROVE TypeOK'
  BY <1>1
     DEF Request, TypeOK, Value, Stages, Outcomes, Inside, Asking, Over,
          lease, queue, guard, data
<1>2. ASSUME NEW e \in Edits, Enter(e) PROVE TypeOK'
  BY <1>2
     DEF Enter, GoTo, Free, TypeOK, Value, Stages, Outcomes, Inside, Asking,
          Over, lease, queue, guard, data
<1>3. ASSUME NEW e \in Edits, Acquire(e) PROVE TypeOK'
  BY <1>3
     DEF Acquire, Take, Obtainable, GoTo, TypeOK, Value, Stages, Outcomes,
          Inside, Asking, Over, lease, queue, guard, data
<1>4. ASSUME NEW e \in Edits, AcquireFails(e) PROVE TypeOK'
  <2>1. LockTypes'
    BY <1>4, LeaveLock
       DEF AcquireFails, Take, Obtainable, TypeOK, LockTypes, lease, queue,
            guard, data
  <2>2. StageTypes'
    <3>1. stage' \in [Edits -> Stages]
      BY <1>4
         DEF AcquireFails, Take, Obtainable, Leave, TypeOK, Stages, Outcomes,
              Inside, Asking, Over, lease, queue, guard, data
    <3>2. outcome' \in [Edits -> Outcomes]
      BY <1>4
         DEF AcquireFails, Take, Obtainable, Leave, TypeOK, Outcomes
    <3>. QED BY <3>1, <3>2 DEF StageTypes
  <2>3. GuardTypes'
    BY <1>4, LeaveGuards DEF AcquireFails
  <2>4. DataTypes'
    BY <1>4
       DEF AcquireFails, Take, Obtainable, Leave, TypeOK, DataTypes, Value,
            lease, queue, guard, data
  <2>. QED BY <2>1, <2>2, <2>3, <2>4, TypeParts
<1>5. ASSUME NEW e \in Edits, Conflict(e) PROVE TypeOK'
  <2>1. LockTypes'
    BY <1>5, LeaveLock
       DEF Conflict, TypeOK, LockTypes, lease, queue, guard, data
  <2>2. StageTypes'
    <3>1. stage' \in [Edits -> Stages]
      BY <1>5
         DEF Conflict, Leave, TypeOK, Stages, Outcomes, Inside, Asking, Over,
              lease, queue, guard, data
    <3>2. outcome' \in [Edits -> Outcomes]
      BY <1>5
         DEF Conflict, Leave, TypeOK, Outcomes
    <3>. QED BY <3>1, <3>2 DEF StageTypes
  <2>3. GuardTypes'
    BY <1>5, LeaveGuards DEF Conflict
  <2>4. DataTypes'
    BY <1>5
       DEF Conflict, Leave, TypeOK, DataTypes, Value, lease, queue, guard,
            data
  <2>. QED BY <2>1, <2>2, <2>3, <2>4, TypeParts
<1>6. ASSUME NEW e \in Edits, SendRenewal(e) PROVE TypeOK'
  BY <1>6
     DEF SendRenewal, TypeOK, Value, Stages, Outcomes, Inside, Asking, Over,
          lease, queue, guard, data
<1>7. ASSUME NEW e \in Edits, Renew(e) PROVE TypeOK'
  BY <1>7
     DEF Renew, Renewable, TypeOK, Value, Stages, Outcomes, Inside, Asking,
          Over, lease, queue, guard, data
<1>8. ASSUME NEW e \in Edits, Renewed(e) PROVE TypeOK'
  <2>1. asserted' \in [Edits -> BOOLEAN] /\ lost' \in [Edits -> BOOLEAN]
    BY <1>8 DEF Renewed, TypeOK
  <2>2. /\ renewal' \in [Edits -> {"none", "sent", "yes", "no"}]
        /\ sent' \in [Edits -> Nat] /\ clock' \in [Edits -> Nat]
    BY <1>8 DEF Renewed, TypeOK
  <2>. QED BY <1>8, <2>1, <2>2 DEF Renewed, TypeOK, lease, queue, data
<1>9. ASSUME NEW e \in Edits, RenewalRefused(e) PROVE TypeOK'
  BY <1>9
     DEF RenewalRefused, LoseLock, TypeOK, Value, Stages, Outcomes, Inside,
          Asking, Over, lease, queue, guard, data
<1>10. ASSUME NEW e \in Edits, RenewalFails(e) PROVE TypeOK'
  BY <1>10
     DEF RenewalFails, LoseLock, TypeOK, Value, Stages, Outcomes, Inside,
          Asking, Over, lease, queue, guard, data
<1>11. ASSUME NEW e \in Edits, Plan(e) PROVE TypeOK'
  <2>1. LockTypes'
    BY <1>11
       DEF Plan, GoTo, Conclude, TypeOK, LockTypes, lease, queue, guard, data
  <2>2. StageTypes'
    <3>1. stage' \in [Edits -> Stages]
      BY <1>11
         DEF Plan, GoTo, Conclude, TypeOK, Stages, Outcomes, Inside, Asking,
              Over, lease, queue, guard, data
    <3>2. outcome' \in [Edits -> Outcomes]
      BY <1>11
         DEF Plan, GoTo, Conclude, TypeOK, Outcomes
    <3>. QED BY <3>1, <3>2 DEF StageTypes
  <2>3. GuardTypes'
    BY <1>11, GoToGuards DEF Plan, Conclude
  <2>4. DataTypes'
    BY <1>11
       DEF Plan, GoTo, Conclude, TypeOK, DataTypes, Value, lease, queue,
            guard, data
  <2>. QED BY <2>1, <2>2, <2>3, <2>4, TypeParts
<1>12. ASSUME NEW e \in Edits, ApplyRouter(e) PROVE TypeOK'
  <2>1. LockTypes'
    BY <1>12
       DEF ApplyRouter, GoTo, Free, TypeOK, LockTypes, lease, queue, guard,
            data
  <2>2. StageTypes'
    <3>1. stage' \in [Edits -> Stages]
      BY <1>12
         DEF ApplyRouter, GoTo, Free, TypeOK, Stages, Outcomes, Inside,
              Asking, Over, lease, queue, guard, data
    <3>2. outcome' \in [Edits -> Outcomes]
      BY <1>12
         DEF ApplyRouter, GoTo, Free, TypeOK, Outcomes
    <3>. QED BY <3>1, <3>2 DEF StageTypes
  <2>3. GuardTypes'
    BY <1>12, GoToGuards DEF ApplyRouter
  <2>4. DataTypes'
    BY <1>12
       DEF ApplyRouter, GoTo, Free, TypeOK, DataTypes, Value, lease, queue,
            guard, data
  <2>. QED BY <2>1, <2>2, <2>3, <2>4, TypeParts
<1>13. ASSUME NEW e \in Edits, ConfirmRouter(e) PROVE TypeOK'
  <2>1. LockTypes'
    BY <1>13
       DEF ConfirmRouter, GoTo, Free, TypeOK, LockTypes, lease, queue, guard,
            data
  <2>2. StageTypes'
    <3>1. stage' \in [Edits -> Stages]
      BY <1>13
         DEF ConfirmRouter, GoTo, Free, TypeOK, Stages, Outcomes, Inside,
              Asking, Over, lease, queue, guard, data
    <3>2. outcome' \in [Edits -> Outcomes]
      BY <1>13
         DEF ConfirmRouter, GoTo, Free, TypeOK, Outcomes
    <3>. QED BY <3>1, <3>2 DEF StageTypes
  <2>3. GuardTypes'
    BY <1>13, GoToGuards DEF ConfirmRouter
  <2>4. DataTypes'
    BY <1>13
       DEF ConfirmRouter, GoTo, Free, TypeOK, DataTypes, Value, lease, queue,
            guard, data
  <2>. QED BY <2>1, <2>2, <2>3, <2>4, TypeParts
<1>14. ASSUME NEW e \in Edits, SaveRecord(e) PROVE TypeOK'
  <2>1. LockTypes'
    BY <1>14
       DEF SaveRecord, GoTo, Conclude, Free, TypeOK, LockTypes, lease, queue,
            guard, data
  <2>2. StageTypes'
    <3>1. stage' \in [Edits -> Stages]
      BY <1>14
         DEF SaveRecord, GoTo, Conclude, Free, TypeOK, Stages, Outcomes,
              Inside, Asking, Over, lease, queue, guard, data
    <3>2. outcome' \in [Edits -> Outcomes]
      BY <1>14
         DEF SaveRecord, GoTo, Conclude, Free, TypeOK, Outcomes
    <3>. QED BY <3>1, <3>2 DEF StageTypes
  <2>3. GuardTypes'
    BY <1>14, GoToGuards DEF SaveRecord, Conclude
  <2>4. DataTypes'
    BY <1>14
       DEF SaveRecord, GoTo, Conclude, Free, TypeOK, DataTypes, Value, lease,
            queue, guard, data
  <2>. QED BY <2>1, <2>2, <2>3, <2>4, TypeParts
<1>15. ASSUME NEW e \in Edits, ReadBack(e) PROVE TypeOK'
  <2>1. LockTypes'
    BY <1>15
       DEF ReadBack, GoTo, Conclude, Free, TypeOK, LockTypes, lease, queue,
            guard, data
  <2>2. StageTypes'
    <3>1. stage' \in [Edits -> Stages]
      BY <1>15
         DEF ReadBack, GoTo, Conclude, Free, TypeOK, Stages, Outcomes, Inside,
              Asking, Over, lease, queue, guard, data
    <3>2. outcome' \in [Edits -> Outcomes]
      BY <1>15
         DEF ReadBack, GoTo, Conclude, Free, TypeOK, Outcomes
    <3>. QED BY <3>1, <3>2 DEF StageTypes
  <2>3. GuardTypes'
    BY <1>15, GoToGuards DEF ReadBack, Conclude
  <2>4. DataTypes'
    BY <1>15
       DEF ReadBack, GoTo, Conclude, Free, TypeOK, DataTypes, Value, lease,
            queue, guard, data
  <2>. QED BY <2>1, <2>2, <2>3, <2>4, TypeParts
<1>16. ASSUME NEW e \in Edits, ReadBackFails(e) PROVE TypeOK'
  <2>1. LockTypes'
    BY <1>16
       DEF ReadBackFails, Conclude, GoTo, Free, TypeOK, LockTypes, lease,
            queue, guard, data
  <2>2. StageTypes'
    <3>1. stage' \in [Edits -> Stages]
      BY <1>16
         DEF ReadBackFails, Conclude, GoTo, Free, TypeOK, Stages, Outcomes,
              Inside, Asking, Over, lease, queue, guard, data
    <3>2. outcome' \in [Edits -> Outcomes]
      BY <1>16
         DEF ReadBackFails, Conclude, GoTo, Free, TypeOK, Outcomes
    <3>. QED BY <3>1, <3>2 DEF StageTypes
  <2>3. GuardTypes'
    BY <1>16, GoToGuards DEF ReadBackFails, Conclude
  <2>4. DataTypes'
    BY <1>16
       DEF ReadBackFails, Conclude, GoTo, Free, TypeOK, DataTypes, Value,
            lease, queue, guard, data
  <2>. QED BY <2>1, <2>2, <2>3, <2>4, TypeParts
<1>17. ASSUME NEW e \in Edits, RestoreRouter(e) PROVE TypeOK'
  <2>1. LockTypes'
    BY <1>17
       DEF RestoreRouter, GoTo, Conclude, Free, TypeOK, LockTypes, lease,
            queue, guard, data
  <2>2. StageTypes'
    <3>1. stage' \in [Edits -> Stages]
      BY <1>17
         DEF RestoreRouter, GoTo, Conclude, Free, TypeOK, Stages, Outcomes,
              Inside, Asking, Over, lease, queue, guard, data
    <3>2. outcome' \in [Edits -> Outcomes]
      BY <1>17
         DEF RestoreRouter, GoTo, Conclude, Free, TypeOK, Outcomes
    <3>. QED BY <3>1, <3>2 DEF StageTypes
  <2>3. GuardTypes'
    BY <1>17, GoToGuards DEF RestoreRouter, Conclude
  <2>4. DataTypes'
    BY <1>17
       DEF RestoreRouter, GoTo, Conclude, Free, TypeOK, DataTypes, Value,
            lease, queue, guard, data
  <2>. QED BY <2>1, <2>2, <2>3, <2>4, TypeParts
<1>18. ASSUME NEW e \in Edits, AssertThrows(e) PROVE TypeOK'
  <2>1. LockTypes'
    BY <1>18
       DEF AssertThrows, GoTo, Conclude, Free, TypeOK, LockTypes, lease,
            queue, guard, data
  <2>2. StageTypes'
    <3>1. stage' \in [Edits -> Stages]
      BY <1>18
         DEF AssertThrows, GoTo, Conclude, Free, TypeOK, Stages, Outcomes,
              Inside, Asking, Over, lease, queue, guard, data
    <3>2. outcome' \in [Edits -> Outcomes]
      BY <1>18
         DEF AssertThrows, GoTo, Conclude, Free, TypeOK, Outcomes
    <3>. QED BY <3>1, <3>2 DEF StageTypes
  <2>3. GuardTypes'
    BY <1>18, GoToGuards DEF AssertThrows, Conclude
  <2>4. DataTypes'
    BY <1>18
       DEF AssertThrows, GoTo, Conclude, Free, TypeOK, DataTypes, Value,
            lease, queue, guard, data
  <2>. QED BY <2>1, <2>2, <2>3, <2>4, TypeParts
<1>19. ASSUME NEW e \in Edits, Answer(e) PROVE TypeOK'
  BY <1>19
     DEF Answer, GoTo, Free, TypeOK, Value, Stages, Outcomes, Inside, Asking,
          Over, lease, queue, guard, data
<1>20. ASSUME NEW e \in Edits, Release(e) PROVE TypeOK'
  <2>1. LockTypes'
    BY <1>20, LeaveLock
       DEF Release, TypeOK, LockTypes, lease, queue, guard, data
  <2>2. StageTypes'
    <3>1. stage' \in [Edits -> Stages]
      BY <1>20
         DEF Release, Leave, TypeOK, Stages, Outcomes, Inside, Asking, Over,
              lease, queue, guard, data
    <3>2. outcome' \in [Edits -> Outcomes]
      BY <1>20
         DEF Release, Leave, TypeOK, Outcomes
    <3>. QED BY <3>1, <3>2 DEF StageTypes
  <2>3. GuardTypes'
    BY <1>20, LeaveGuards DEF Release
  <2>4. DataTypes'
    BY <1>20
       DEF Release, Leave, TypeOK, DataTypes, Value, lease, queue, guard, data
  <2>. QED BY <2>1, <2>2, <2>3, <2>4, TypeParts
<1>21. ASSUME NEW w \in Workers, Crash(w) PROVE TypeOK'
  <2>1. asserted' \in [Edits -> BOOLEAN] /\ lost' \in [Edits -> BOOLEAN]
    BY <1>21, Zenon DEF Crash, TypeOK
  <2>2. /\ renewal' \in [Edits -> {"none", "sent", "yes", "no"}]
        /\ sent' \in [Edits -> Nat] /\ clock' \in [Edits -> Nat]
    BY <1>21 DEF Crash, TypeOK
  <2>3. /\ stage' \in [Edits -> Stages]
        /\ previous' \in [Edits -> Edits \cup {None}]
        /\ before' \in [Edits -> Value]
    BY <1>21 DEF Crash, TypeOK, Stages, Over, Value
  <2>4. tail' \in [Workers -> Edits \cup {None}] /\ crashes' \in 0 ..
       MaxCrashes
    BY <1>21 DEF Crash, TypeOK
  <2>. QED BY <1>21, <2>1, <2>2, <2>3, <2>4 DEF Crash, TypeOK, lease, data
<1>22. CASE Tick
  BY <1>22
     DEF Tick, TypeOK, Value, Stages, Outcomes, Inside, Asking, Over, lease,
          queue, guard, data
<1>23. CASE UNCHANGED vars
  BY <1>23
     DEF vars, TypeOK, Value, Stages, Outcomes, Inside, Asking, Over, lease,
          queue, guard, data
<1>. QED
  BY <1>1, <1>2, <1>3, <1>4, <1>5, <1>6, <1>7, <1>8, <1>9, <1>10,
     <1>11, <1>12, <1>13, <1>14, <1>15, <1>16, <1>17, <1>18, <1>19,
     <1>20, <1>21, <1>22, <1>23
     DEF Next, Flow, Renewing

-----------------------------------------------------------------------------
LEMMA GrantStep ==
    ASSUME LeaseOutlastsWrites, TypeOK, GrantHolds, [Next]_vars
    PROVE  GrantHolds'
<1> USE NameAssumption, TimeAssumption
<1>1. ASSUME NEW e \in Edits, NEW w \in Workers, Request(e, w) PROVE
     GrantHolds'
  BY <1>1
     DEF Request, TypeOK, GrantHolds, LeaseOutlastsWrites, Inside, Asking,
          Over, lease, queue, guard, data
<1>2. ASSUME NEW e \in Edits, Enter(e) PROVE GrantHolds'
  BY <1>2
     DEF Enter, GoTo, Free, TypeOK, GrantHolds, LeaseOutlastsWrites, Inside,
          Asking, Over, lease, queue, guard, data
<1>3. ASSUME NEW e \in Edits, Acquire(e) PROVE GrantHolds'
  BY <1>3
     DEF Acquire, Take, Obtainable, GoTo, TypeOK, GrantHolds,
          LeaseOutlastsWrites, Inside, Asking, Over, lease, queue, guard, data
<1>4. ASSUME NEW e \in Edits, AcquireFails(e) PROVE GrantHolds'
  BY <1>4
     DEF AcquireFails, Take, Obtainable, Leave, TypeOK, GrantHolds,
          LeaseOutlastsWrites, Inside, Asking, Over, lease, queue, guard, data
<1>5. ASSUME NEW e \in Edits, Conflict(e) PROVE GrantHolds'
  BY <1>5
     DEF Conflict, Leave, TypeOK, GrantHolds, LeaseOutlastsWrites, Inside,
          Asking, Over, lease, queue, guard, data
<1>6. ASSUME NEW e \in Edits, SendRenewal(e) PROVE GrantHolds'
  BY <1>6
     DEF SendRenewal, TypeOK, GrantHolds, LeaseOutlastsWrites, Inside, Asking,
          Over, lease, queue, guard, data
<1>7. ASSUME NEW e \in Edits, Renew(e) PROVE GrantHolds'
  BY <1>7
     DEF Renew, Renewable, TypeOK, GrantHolds, LeaseOutlastsWrites, Inside,
          Asking, Over, lease, queue, guard, data
<1>8. ASSUME NEW e \in Edits, Renewed(e) PROVE GrantHolds'
  BY <1>8
     DEF Renewed, TypeOK, GrantHolds, LeaseOutlastsWrites, Inside, Asking,
          Over, lease, queue, guard, data
<1>9. ASSUME NEW e \in Edits, RenewalRefused(e) PROVE GrantHolds'
  BY <1>9
     DEF RenewalRefused, LoseLock, TypeOK, GrantHolds, LeaseOutlastsWrites,
          Inside, Asking, Over, lease, queue, guard, data
<1>10. ASSUME NEW e \in Edits, RenewalFails(e) PROVE GrantHolds'
  BY <1>10
     DEF RenewalFails, LoseLock, TypeOK, GrantHolds, LeaseOutlastsWrites,
          Inside, Asking, Over, lease, queue, guard, data
<1>11. ASSUME NEW e \in Edits, Plan(e) PROVE GrantHolds'
  BY <1>11
     DEF Plan, GoTo, Conclude, TypeOK, GrantHolds, LeaseOutlastsWrites,
          Inside, Asking, Over, lease, queue, guard, data
<1>12. ASSUME NEW e \in Edits, ApplyRouter(e) PROVE GrantHolds'
  BY <1>12
     DEF ApplyRouter, GoTo, Free, TypeOK, GrantHolds, LeaseOutlastsWrites,
          Inside, Asking, Over, lease, queue, guard, data
<1>13. ASSUME NEW e \in Edits, ConfirmRouter(e) PROVE GrantHolds'
  BY <1>13
     DEF ConfirmRouter, GoTo, Free, TypeOK, GrantHolds, LeaseOutlastsWrites,
          Inside, Asking, Over, lease, queue, guard, data
<1>14. ASSUME NEW e \in Edits, SaveRecord(e) PROVE GrantHolds'
  BY <1>14
     DEF SaveRecord, GoTo, Conclude, Free, TypeOK, GrantHolds,
          LeaseOutlastsWrites, Inside, Asking, Over, lease, queue, guard, data
<1>15. ASSUME NEW e \in Edits, ReadBack(e) PROVE GrantHolds'
  BY <1>15
     DEF ReadBack, GoTo, Conclude, Free, TypeOK, GrantHolds,
          LeaseOutlastsWrites, Inside, Asking, Over, lease, queue, guard, data
<1>16. ASSUME NEW e \in Edits, ReadBackFails(e) PROVE GrantHolds'
  BY <1>16
     DEF ReadBackFails, Conclude, GoTo, Free, TypeOK, GrantHolds,
          LeaseOutlastsWrites, Inside, Asking, Over, lease, queue, guard, data
<1>17. ASSUME NEW e \in Edits, RestoreRouter(e) PROVE GrantHolds'
  BY <1>17
     DEF RestoreRouter, GoTo, Conclude, Free, TypeOK, GrantHolds,
          LeaseOutlastsWrites, Inside, Asking, Over, lease, queue, guard, data
<1>18. ASSUME NEW e \in Edits, AssertThrows(e) PROVE GrantHolds'
  BY <1>18
     DEF AssertThrows, GoTo, Conclude, Free, TypeOK, GrantHolds,
          LeaseOutlastsWrites, Inside, Asking, Over, lease, queue, guard, data
<1>19. ASSUME NEW e \in Edits, Answer(e) PROVE GrantHolds'
  BY <1>19
     DEF Answer, GoTo, Free, TypeOK, GrantHolds, LeaseOutlastsWrites, Inside,
          Asking, Over, lease, queue, guard, data
<1>20. ASSUME NEW e \in Edits, Release(e) PROVE GrantHolds'
  BY <1>20
     DEF Release, Leave, TypeOK, GrantHolds, LeaseOutlastsWrites, Inside,
          Asking, Over, lease, queue, guard, data
<1>21. ASSUME NEW w \in Workers, Crash(w) PROVE GrantHolds'
  BY <1>21
     DEF Crash, TypeOK, GrantHolds, LeaseOutlastsWrites, Inside, Asking, Over,
          lease, queue, guard, data
<1>22. CASE Tick
  BY <1>22
     DEF Tick, TypeOK, GrantHolds, LeaseOutlastsWrites, Inside, Asking, Over,
          lease, queue, guard, data
<1>23. CASE UNCHANGED vars
  BY <1>23
     DEF vars, TypeOK, GrantHolds, LeaseOutlastsWrites, Inside, Asking, Over,
          lease, queue, guard, data
<1>. QED
  BY <1>1, <1>2, <1>3, <1>4, <1>5, <1>6, <1>7, <1>8, <1>9, <1>10,
     <1>11, <1>12, <1>13, <1>14, <1>15, <1>16, <1>17, <1>18, <1>19,
     <1>20, <1>21, <1>22, <1>23
     DEF Next, Flow, Renewing

-----------------------------------------------------------------------------
LEMMA HolderStep ==
    ASSUME TypeOK, GrantHolds, HoldersProgress, [Next]_vars
    PROVE  HoldersProgress'
<1> USE NameAssumption
<1>1. ASSUME NEW e \in Edits, NEW w \in Workers, Request(e, w) PROVE
     HoldersProgress'
  BY <1>1
     DEF Request, TypeOK, GrantHolds, HoldersProgress, Asking, Inside, Over,
          lease, queue, guard, data
<1>2. ASSUME NEW e \in Edits, Enter(e) PROVE HoldersProgress'
  BY <1>2
     DEF Enter, GoTo, Free, TypeOK, GrantHolds, HoldersProgress, Asking,
          Inside, Over, lease, queue, guard, data
<1>3. ASSUME NEW e \in Edits, Acquire(e) PROVE HoldersProgress'
  BY <1>3
     DEF Acquire, Take, Obtainable, GoTo, TypeOK, GrantHolds, HoldersProgress,
          Asking, Inside, Over, lease, queue, guard, data
<1>4. ASSUME NEW e \in Edits, AcquireFails(e) PROVE HoldersProgress'
  BY <1>4
     DEF AcquireFails, Take, Obtainable, Leave, TypeOK, GrantHolds,
          HoldersProgress, Asking, Inside, Over, lease, queue, guard, data
<1>5. ASSUME NEW e \in Edits, Conflict(e) PROVE HoldersProgress'
  BY <1>5
     DEF Conflict, Leave, TypeOK, GrantHolds, HoldersProgress, Asking, Inside,
          Over, lease, queue, guard, data
<1>6. ASSUME NEW e \in Edits, SendRenewal(e) PROVE HoldersProgress'
  BY <1>6
     DEF SendRenewal, TypeOK, GrantHolds, HoldersProgress, Asking, Inside,
          Over, lease, queue, guard, data
<1>7. ASSUME NEW e \in Edits, Renew(e) PROVE HoldersProgress'
  BY <1>7
     DEF Renew, Renewable, TypeOK, GrantHolds, HoldersProgress, Asking,
          Inside, Over, lease, queue, guard, data
<1>8. ASSUME NEW e \in Edits, Renewed(e) PROVE HoldersProgress'
  BY <1>8
     DEF Renewed, TypeOK, GrantHolds, HoldersProgress, Asking, Inside, Over,
          lease, queue, guard, data
<1>9. ASSUME NEW e \in Edits, RenewalRefused(e) PROVE HoldersProgress'
  BY <1>9
     DEF RenewalRefused, LoseLock, TypeOK, GrantHolds, HoldersProgress,
          Asking, Inside, Over, lease, queue, guard, data
<1>10. ASSUME NEW e \in Edits, RenewalFails(e) PROVE HoldersProgress'
  BY <1>10
     DEF RenewalFails, LoseLock, TypeOK, GrantHolds, HoldersProgress, Asking,
          Inside, Over, lease, queue, guard, data
<1>11. ASSUME NEW e \in Edits, Plan(e) PROVE HoldersProgress'
  BY <1>11
     DEF Plan, GoTo, Conclude, TypeOK, GrantHolds, HoldersProgress, Asking,
          Inside, Over, lease, queue, guard, data
<1>12. ASSUME NEW e \in Edits, ApplyRouter(e) PROVE HoldersProgress'
  BY <1>12
     DEF ApplyRouter, GoTo, Free, TypeOK, GrantHolds, HoldersProgress, Asking,
          Inside, Over, lease, queue, guard, data
<1>13. ASSUME NEW e \in Edits, ConfirmRouter(e) PROVE HoldersProgress'
  BY <1>13
     DEF ConfirmRouter, GoTo, Free, TypeOK, GrantHolds, HoldersProgress,
          Asking, Inside, Over, lease, queue, guard, data
<1>14. ASSUME NEW e \in Edits, SaveRecord(e) PROVE HoldersProgress'
  BY <1>14
     DEF SaveRecord, GoTo, Conclude, Free, TypeOK, GrantHolds,
          HoldersProgress, Asking, Inside, Over, lease, queue, guard, data
<1>15. ASSUME NEW e \in Edits, ReadBack(e) PROVE HoldersProgress'
  BY <1>15
     DEF ReadBack, GoTo, Conclude, Free, TypeOK, GrantHolds, HoldersProgress,
          Asking, Inside, Over, lease, queue, guard, data
<1>16. ASSUME NEW e \in Edits, ReadBackFails(e) PROVE HoldersProgress'
  BY <1>16
     DEF ReadBackFails, Conclude, GoTo, Free, TypeOK, GrantHolds,
          HoldersProgress, Asking, Inside, Over, lease, queue, guard, data
<1>17. ASSUME NEW e \in Edits, RestoreRouter(e) PROVE HoldersProgress'
  BY <1>17
     DEF RestoreRouter, GoTo, Conclude, Free, TypeOK, GrantHolds,
          HoldersProgress, Asking, Inside, Over, lease, queue, guard, data
<1>18. ASSUME NEW e \in Edits, AssertThrows(e) PROVE HoldersProgress'
  BY <1>18
     DEF AssertThrows, GoTo, Conclude, Free, TypeOK, GrantHolds,
          HoldersProgress, Asking, Inside, Over, lease, queue, guard, data
<1>19. ASSUME NEW e \in Edits, Answer(e) PROVE HoldersProgress'
  BY <1>19
     DEF Answer, GoTo, Free, TypeOK, GrantHolds, HoldersProgress, Asking,
          Inside, Over, lease, queue, guard, data
<1>20. ASSUME NEW e \in Edits, Release(e) PROVE HoldersProgress'
  BY <1>20
     DEF Release, Leave, TypeOK, GrantHolds, HoldersProgress, Asking, Inside,
          Over, lease, queue, guard, data
<1>21. ASSUME NEW w \in Workers, Crash(w) PROVE HoldersProgress'
  BY <1>21
     DEF Crash, TypeOK, GrantHolds, HoldersProgress, Asking, Inside, Over,
          lease, queue, guard, data
<1>22. CASE Tick
  BY <1>22
     DEF Tick, TypeOK, GrantHolds, HoldersProgress, Asking, Inside, Over,
          lease, queue, guard, data
<1>23. CASE UNCHANGED vars
  BY <1>23
     DEF vars, TypeOK, GrantHolds, HoldersProgress, Asking, Inside, Over,
          lease, queue, guard, data
<1>. QED
  BY <1>1, <1>2, <1>3, <1>4, <1>5, <1>6, <1>7, <1>8, <1>9, <1>10,
     <1>11, <1>12, <1>13, <1>14, <1>15, <1>16, <1>17, <1>18, <1>19,
     <1>20, <1>21, <1>22, <1>23
     DEF Next, Flow, Renewing

-----------------------------------------------------------------------------
LEMMA AnswerStep ==
    ASSUME TypeOK, GrantHolds, HoldersProgress, SomeoneAnswers, [Next]_vars
    PROVE  SomeoneAnswers'
<1> USE NameAssumption
<1>1. ASSUME NEW e \in Edits, NEW w \in Workers, Request(e, w) PROVE
     SomeoneAnswers'
  BY <1>1
     DEF Request, TypeOK, GrantHolds, HoldersProgress, SomeoneAnswers,
          Answerable, Reported, Asking, Inside, Over, lease, queue, guard,
          data
<1>2. ASSUME NEW e \in Edits, Enter(e) PROVE SomeoneAnswers'
  BY <1>2
     DEF Enter, GoTo, Free, TypeOK, GrantHolds, HoldersProgress,
          SomeoneAnswers, Answerable, Reported, Asking, Inside, Over, lease,
          queue, guard, data
<1>3. ASSUME NEW e \in Edits, Acquire(e) PROVE SomeoneAnswers'
  BY <1>3
     DEF Acquire, Take, Obtainable, GoTo, TypeOK, GrantHolds, HoldersProgress,
          SomeoneAnswers, Answerable, Reported, Asking, Inside, Over, lease,
          queue, guard, data
<1>4. ASSUME NEW e \in Edits, AcquireFails(e) PROVE SomeoneAnswers'
  BY <1>4
     DEF AcquireFails, Take, Obtainable, Leave, TypeOK, GrantHolds,
          HoldersProgress, SomeoneAnswers, Answerable, Reported, Asking,
          Inside, Over, lease, queue, guard, data
<1>5. ASSUME NEW e \in Edits, Conflict(e) PROVE SomeoneAnswers'
  BY <1>5
     DEF Conflict, Leave, TypeOK, GrantHolds, HoldersProgress, SomeoneAnswers,
          Answerable, Reported, Asking, Inside, Over, lease, queue, guard,
          data
<1>6. ASSUME NEW e \in Edits, SendRenewal(e) PROVE SomeoneAnswers'
  BY <1>6
     DEF SendRenewal, TypeOK, GrantHolds, HoldersProgress, SomeoneAnswers,
          Answerable, Reported, Asking, Inside, Over, lease, queue, guard,
          data
<1>7. ASSUME NEW e \in Edits, Renew(e) PROVE SomeoneAnswers'
  BY <1>7
     DEF Renew, Renewable, TypeOK, GrantHolds, HoldersProgress,
          SomeoneAnswers, Answerable, Reported, Asking, Inside, Over, lease,
          queue, guard, data
<1>8. ASSUME NEW e \in Edits, Renewed(e) PROVE SomeoneAnswers'
  BY <1>8
     DEF Renewed, TypeOK, GrantHolds, HoldersProgress, SomeoneAnswers,
          Answerable, Reported, Asking, Inside, Over, lease, queue, guard,
          data
<1>9. ASSUME NEW e \in Edits, RenewalRefused(e) PROVE SomeoneAnswers'
  BY <1>9
     DEF RenewalRefused, LoseLock, TypeOK, GrantHolds, HoldersProgress,
          SomeoneAnswers, Answerable, Reported, Asking, Inside, Over, lease,
          queue, guard, data
<1>10. ASSUME NEW e \in Edits, RenewalFails(e) PROVE SomeoneAnswers'
  BY <1>10
     DEF RenewalFails, LoseLock, TypeOK, GrantHolds, HoldersProgress,
          SomeoneAnswers, Answerable, Reported, Asking, Inside, Over, lease,
          queue, guard, data
<1>11. ASSUME NEW e \in Edits, Plan(e) PROVE SomeoneAnswers'
  BY <1>11
     DEF Plan, GoTo, Conclude, TypeOK, GrantHolds, HoldersProgress,
          SomeoneAnswers, Answerable, Reported, Asking, Inside, Over, lease,
          queue, guard, data
<1>12. ASSUME NEW e \in Edits, ApplyRouter(e) PROVE SomeoneAnswers'
  BY <1>12
     DEF ApplyRouter, GoTo, Free, TypeOK, GrantHolds, HoldersProgress,
          SomeoneAnswers, Answerable, Reported, Asking, Inside, Over, lease,
          queue, guard, data
<1>13. ASSUME NEW e \in Edits, ConfirmRouter(e) PROVE SomeoneAnswers'
  BY <1>13
     DEF ConfirmRouter, GoTo, Free, TypeOK, GrantHolds, HoldersProgress,
          SomeoneAnswers, Answerable, Reported, Asking, Inside, Over, lease,
          queue, guard, data
<1>14. ASSUME NEW e \in Edits, SaveRecord(e) PROVE SomeoneAnswers'
  BY <1>14
     DEF SaveRecord, GoTo, Conclude, Free, TypeOK, GrantHolds,
          HoldersProgress, SomeoneAnswers, Answerable, Reported, Asking,
          Inside, Over, lease, queue, guard, data
<1>15. ASSUME NEW e \in Edits, ReadBack(e) PROVE SomeoneAnswers'
  BY <1>15
     DEF ReadBack, GoTo, Conclude, Free, TypeOK, GrantHolds, HoldersProgress,
          SomeoneAnswers, Answerable, Reported, Asking, Inside, Over, lease,
          queue, guard, data
<1>16. ASSUME NEW e \in Edits, ReadBackFails(e) PROVE SomeoneAnswers'
  BY <1>16
     DEF ReadBackFails, Conclude, GoTo, Free, TypeOK, GrantHolds,
          HoldersProgress, SomeoneAnswers, Answerable, Reported, Asking,
          Inside, Over, lease, queue, guard, data
<1>17. ASSUME NEW e \in Edits, RestoreRouter(e) PROVE SomeoneAnswers'
  BY <1>17
     DEF RestoreRouter, GoTo, Conclude, Free, TypeOK, GrantHolds,
          HoldersProgress, SomeoneAnswers, Answerable, Reported, Asking,
          Inside, Over, lease, queue, guard, data
<1>18. ASSUME NEW e \in Edits, AssertThrows(e) PROVE SomeoneAnswers'
  BY <1>18
     DEF AssertThrows, GoTo, Conclude, Free, TypeOK, GrantHolds,
          HoldersProgress, SomeoneAnswers, Answerable, Reported, Asking,
          Inside, Over, lease, queue, guard, data
<1>19. ASSUME NEW e \in Edits, Answer(e) PROVE SomeoneAnswers'
  BY <1>19
     DEF Answer, GoTo, Free, TypeOK, GrantHolds, HoldersProgress,
          SomeoneAnswers, Answerable, Reported, Asking, Inside, Over, lease,
          queue, guard, data
<1>20. ASSUME NEW e \in Edits, Release(e) PROVE SomeoneAnswers'
  BY <1>20
     DEF Release, Leave, TypeOK, GrantHolds, HoldersProgress, SomeoneAnswers,
          Answerable, Reported, Asking, Inside, Over, lease, queue, guard,
          data
<1>21. ASSUME NEW w \in Workers, Crash(w) PROVE SomeoneAnswers'
  BY <1>21
     DEF Crash, TypeOK, GrantHolds, HoldersProgress, SomeoneAnswers,
          Answerable, Reported, Asking, Inside, Over, lease, queue, guard,
          data
<1>22. CASE Tick
  BY <1>22
     DEF Tick, TypeOK, GrantHolds, HoldersProgress, SomeoneAnswers,
          Answerable, Reported, Asking, Inside, Over, lease, queue, guard,
          data
<1>23. CASE UNCHANGED vars
  BY <1>23
     DEF vars, TypeOK, GrantHolds, HoldersProgress, SomeoneAnswers,
          Answerable, Reported, Asking, Inside, Over, lease, queue, guard,
          data
<1>. QED
  BY <1>1, <1>2, <1>3, <1>4, <1>5, <1>6, <1>7, <1>8, <1>9, <1>10,
     <1>11, <1>12, <1>13, <1>14, <1>15, <1>16, <1>17, <1>18, <1>19,
     <1>20, <1>21, <1>22, <1>23
     DEF Next, Flow, Renewing

-----------------------------------------------------------------------------

LEMMA StepPreserves ==
    ASSUME LeaseOutlastsWrites PROVE IInv /\ [Next]_vars => IInv'
BY TypeStep, GrantStep, HolderStep, AnswerStep DEF IInv

(* The state of the lock, of the calls and of the customer stays well-typed. *)
THEOREM TypeCorrect == Spec => []TypeOK
<1>1. Init => TypeOK
  BY InitHolds DEF IInv
<1>. QED BY <1>1, TypeStep, PTL DEF Spec

LEMMA Inductive == ASSUME LeaseOutlastsWrites PROVE Spec => []IInv
BY InitHolds, StepPreserves, PTL DEF Spec

(* No two edits of a customer write at once: withCustomerEditLock, for every *)
(* number of calls, workers and crashes, as long as the lease outlives a     *)
(* renewal and the write that follows it.                                    *)
THEOREM Exclusion == ASSUME LeaseOutlastsWrites PROVE Spec => []WritersExclusive
<1>1. IInv => WritersExclusive
  BY DEF IInv, GrantHolds, WritersExclusive, Writing
<1>. QED BY <1>1, Inductive, PTL

(* What an edit answers about the router and the row is so when it answers:  *)
(* saveCustomerEditWithRouter under the lock.                                *)
THEOREM Truthful == ASSUME LeaseOutlastsWrites PROVE Spec => []AnswerIsTrue
<1>1. IInv => AnswerIsTrue
  BY DEF IInv, GrantHolds, HoldersProgress, AnswerIsTrue
<1>. QED BY <1>1, Inductive, PTL

(* A router left different from the row has been reported, or its worker has *)
(* died: no path of the edit hides a divergence.                             *)
THEOREM NoHiddenDivergence ==
    ASSUME LeaseOutlastsWrites PROVE Spec => []DivergenceReported
<1>1. IInv => DivergenceReported
  BY DEF IInv, SomeoneAnswers, Answerable, Reported, DivergenceReported,
         Inside, Asking
<1>. QED BY <1>1, Inductive, PTL
=============================================================================
