------------------------ MODULE DeferredScan_proofs ------------------------
(***************************************************************************)
(* What the sweeps promise of the rows of retired callbacks, for any number *)
(* of events, of overlapping sweeps, of drains and of live requests, however *)
(* long they last.                                                          *)
(***************************************************************************)
EXTENDS DeferredScan, FiniteSetTheorems, WellFoundedInduction, NaturalsInduction, TLAPS

Terminal == {"processed", "ignored"}

StatusOK == status \in [Event -> EventStatus]

\* A conditional update changes received rows only, whichever event a sweep is at.
LEMMA RetireKeepsTerminal ==
    ASSUME StatusOK, NEW d, NEW final \in Terminal, Retire(d, final)
    PROVE  /\ StatusOK'
           /\ \A e \in Event : status[e] \in Terminal => status'[e] = status[e]
BY DEF StatusOK, Retire, Terminal, EventStatus

\* What may still become of a retired row.
StaysRetired(e) ==
    /\ status[e] = "processed" => status'[e] \in {"processed", "purged"}
    /\ status[e] = "ignored" =>
           \/ status'[e] \in {"ignored", "purged"}
           \/ status'[e] = "processed" /\ verdict'[e] = "settles"

Keeps == StatusOK' /\ \A e \in Event : StaysRetired(e)

LEMMA StillKeeps == ASSUME StatusOK, UNCHANGED status PROVE Keeps
BY DEF StatusOK, Keeps, StaysRetired

LEMMA RunKeeps == ASSUME StatusOK, NEW s \in Sweep, Run(s) PROVE Keeps
<1>1. CASE Start(s) \/ Process(s)
  BY <1>1, StillKeeps DEF Start, Process
<1>2. CASE QueryOlder(s) \/ SelectOlder(s) \/ QueryExpired(s) \/ SelectExpired(s)
  BY <1>2, StillKeeps DEF QueryOlder, SelectOlder, QueryExpired, SelectExpired
<1>3. CASE Mark(s)
  BY <1>3, RetireKeepsTerminal DEF Mark, Keeps, StaysRetired, Terminal
<1>4. CASE Ignore(s)
  BY <1>4, RetireKeepsTerminal DEF Ignore, Keeps, StaysRetired, Terminal
<1>5. CASE End(s)
  <2>1. CASE UNCHANGED status
    BY <2>1, StillKeeps
  <2>2. CASE status' = [e \in Event |->
                           IF /\ status[e] \in {"processed", "ignored"}
                              /\ AgeAt(s, e) > MaxAge
                           THEN "purged" ELSE status[e]]
    BY <2>2 DEF StatusOK, EventStatus, Keeps, StaysRetired
  <2>. QED BY <1>5, <2>1, <2>2 DEF End
<1>. QED BY <1>1, <1>2, <1>3, <1>4, <1>5 DEF Run

LEMMA NextKeeps ==
    ASSUME StatusOK, verdict \in [Event -> Verdicts], [Next]_vars PROVE Keeps
<1>1. ASSUME NEW e \in Event, Post(e) PROVE Keeps
  BY <1>1 DEF Post, StatusOK, EventStatus, Keeps, StaysRetired
<1>2. ASSUME NEW e \in Event, Recover(e) PROVE Keeps
  BY <1>2, StillKeeps DEF Recover
<1>3. ASSUME NEW e \in Event, Drain(e) PROVE Keeps
  BY <1>3, RetireKeepsTerminal DEF Drain, Keeps, StaysRetired, Terminal
<1>4. CASE Tick \/ UNCHANGED vars
  BY <1>4, StillKeeps DEF Tick, vars
<1>5. ASSUME NEW s \in Sweep, QueryFails(s) PROVE Keeps
  BY <1>5, StillKeeps DEF QueryFails, StartFails, SelectOlderFails, SelectExpiredFails
<1>6. ASSUME NEW e \in Event, LiveMark(e) PROVE Keeps
  BY <1>6 DEF LiveMark, StatusOK, EventStatus, Keeps, StaysRetired
<1>. QED BY <1>1, <1>2, <1>3, <1>4, <1>5, <1>6, RunKeeps DEF Next

-----------------------------------------------------------------------------
(* Batches.  An answer is ordered by id and cut off after Batch rows: what a  *)
(* full one leaves out lies behind all that it holds.                         *)

Below == {ss \in Nat \X Nat : ss[1] < ss[2]}

LEMMA LeastEvent ==
    ASSUME NEW S \in SUBSET Event, S # {}
    PROVE  Min(S) \in S /\ \A e \in S : Min(S) <= e
<1>1. S \in SUBSET Nat
  BY DEF Event
<1>2. IsWellFoundedOn(Below, Nat)
  BY NatLessThanWellFounded DEF OpToRel, Below
<1>3. PICK n \in S : \A m \in S : <<m, n>> \notin Below
  BY <1>1, <1>2, WFMin
<1>4. ASSUME NEW m \in S PROVE n <= m
  <2>1. m \in Nat /\ n \in Nat
    BY <1>1
  <2>2. ~(m < n)
    BY <1>3, <2>1 DEF Below
  <2>. QED BY <2>1, <2>2
<1>. QED BY <1>4 DEF Min

LEMMA GreatestEvent ==
    ASSUME NEW S \in SUBSET Event, S # {}
    PROVE  Max(S) \in S /\ \A e \in S : e <= Max(S)
<1>. DEFINE Back == {e \in Event : LastEvent + 1 - e \in S}
<1>1. Back # {}
  <2>1. PICK e \in S : TRUE
    OBVIOUS
  <2>2. LastEvent + 1 - e \in Back
    BY <2>1, SizeAssumption DEF Event
  <2>. QED BY <2>2
<1>2. PICK b \in Back : \A e \in Back : b <= e
  BY <1>1, LeastEvent
<1>3. ASSUME NEW e \in S PROVE e <= LastEvent + 1 - b
  <2>1. LastEvent + 1 - e \in Event /\ LastEvent + 1 - (LastEvent + 1 - e) = e
    BY SizeAssumption DEF Event
  <2>2. b <= LastEvent + 1 - e
    BY <1>2, <2>1
  <2>. QED BY <2>2, SizeAssumption DEF Event
<1>4. LastEvent + 1 - b \in S
  BY <1>2
<1>5. \A e \in S : LastEvent + 1 - b >= e
  BY <1>3, SizeAssumption DEF Event
<1>6. Max(S) \in S /\ \A e \in S : Max(S) >= e
  BY <1>4, <1>5, Zenon DEF Max
<1>. QED BY <1>6, SizeAssumption DEF Event

LEMMA EventsAreFinite ==
    ASSUME NEW S \in SUBSET Event
    PROVE  IsFiniteSet(S) /\ Cardinality(S) \in Nat
<1>1. IsFiniteSet(Event)
  BY FS_Interval, SizeAssumption DEF Event
<1>2. IsFiniteSet(S)
  BY <1>1, FS_Subset
<1>. QED BY <1>2, FS_CardinalityType

LEMMA FewerEvents ==
    ASSUME NEW S \in SUBSET Event, NEW R \in SUBSET S
    PROVE  Cardinality(R) <= Cardinality(S)
BY EventsAreFinite, FS_Subset

LEMMA BatchOf ==
    ASSUME NEW S \in SUBSET Event
    PROVE  /\ FirstOf(S) \subseteq S
           /\ Cardinality(FirstOf(S)) <= Batch
           /\ S # {} => FirstOf(S) # {}
           /\ \A e \in S \ FirstOf(S) :
                  /\ Cardinality(FirstOf(S)) >= Batch
                  /\ \A d \in FirstOf(S) : d < e
<1>. DEFINE Before(e) == {d \in S : d < e}
<1>1. FirstOf(S) \subseteq S
  BY DEF FirstOf
<1>2. \A e \in Event : Before(e) \in SUBSET Event /\ Cardinality(Before(e)) \in Nat
  BY EventsAreFinite
<1>3. Cardinality(FirstOf(S)) <= Batch
  <2>1. CASE FirstOf(S) = {}
    BY <2>1, FS_EmptySet, SizeAssumption
  <2>2. CASE FirstOf(S) # {}
    <3>. DEFINE m == Max(FirstOf(S))
    <3>1. m \in FirstOf(S) /\ \A d \in FirstOf(S) : d <= m
      BY <1>1, <2>2, GreatestEvent
    <3>2. m \in Event /\ Cardinality(Before(m)) < Batch
      BY <1>1, <3>1 DEF FirstOf
    <3>3. FirstOf(S) \subseteq Before(m) \cup {m}
      <4>1. ASSUME NEW d \in FirstOf(S), d # m PROVE d \in S /\ d < m
        <5>1. d \in S /\ d <= m
          BY <1>1, <3>1
        <5>2. d \in Int /\ m \in Int
          BY <3>2, <5>1 DEF Event
        <5>. HIDE DEF m
        <5>. QED BY <4>1, <5>1, <5>2
      <4>. QED BY <4>1
    <3>4. m \notin Before(m)
      BY <3>2 DEF Event
    <3>5. Cardinality(Before(m) \cup {m}) = Cardinality(Before(m)) + 1
      BY <1>2, <3>2, <3>4, EventsAreFinite, FS_AddElement
    <3>6. Cardinality(FirstOf(S)) <= Cardinality(Before(m)) + 1
      BY <3>3, <3>5, <3>2, FewerEvents
    <3>. HIDE DEF m, Before
    <3>7. Cardinality(Before(m)) \in Nat /\ Cardinality(FirstOf(S)) \in Nat
      BY <1>1, <1>2, <3>2, EventsAreFinite
    <3>. QED BY <3>2, <3>6, <3>7, SizeAssumption
  <2>. QED BY <2>1, <2>2
<1>4. ASSUME NEW e \in S \ FirstOf(S)
      PROVE  /\ Cardinality(FirstOf(S)) >= Batch
             /\ \A d \in FirstOf(S) : d < e
  <2>. DEFINE Left == S \ FirstOf(S)  n == Min(Left)
  <2>1. n \in Left /\ \A d \in Left : n <= d
    BY LeastEvent
  <2>2. n \in Event /\ ~(Cardinality(Before(n)) < Batch)
    BY <2>1 DEF FirstOf
  <2>3. Before(n) \subseteq FirstOf(S)
    <3>1. ASSUME NEW d \in S, d < n, d \notin FirstOf(S) PROVE FALSE
      <4>1. n <= d
        BY <2>1, <3>1
      <4>. QED BY <2>2, <3>1, <4>1 DEF Event
    <3>. QED BY <3>1
  <2>4. Cardinality(Before(n)) <= Cardinality(FirstOf(S))
    BY <1>1, <2>3, FewerEvents
  <2>5. ASSUME NEW d \in FirstOf(S), ~(d < e) PROVE FALSE
    <3>1. d \in Event /\ Cardinality(Before(d)) < Batch
      BY <1>1 DEF FirstOf
    <3>2. Before(n) \subseteq Before(d)
      <4>1. n <= e /\ e <= d
        BY <2>1, <2>5, <3>1 DEF Event
      <4>2. ASSUME NEW c \in Event, c < n PROVE c < d
        <5>1. c \in Int /\ n \in Int /\ e \in Int /\ d \in Int
          BY <2>2, <3>1 DEF Event
        <5>. QED BY <4>1, <4>2, <5>1
      <4>. QED BY <4>2
    <3>3. Cardinality(Before(n)) <= Cardinality(Before(d))
      BY <3>1, <3>2, <1>2, FewerEvents
    <3>4. Cardinality(Before(n)) \in Nat /\ Cardinality(Before(d)) \in Nat
      BY <1>2, <2>2, <3>1
    <3>. QED BY <2>2, <3>1, <3>3, <3>4, SizeAssumption
  <2>. HIDE DEF Before, n
  <2>6. Cardinality(Before(n)) \in Nat /\ Cardinality(FirstOf(S)) \in Nat
    BY <1>1, <1>2, <2>2, EventsAreFinite
  <2>7. Cardinality(FirstOf(S)) >= Batch
    BY <2>2, <2>4, <2>6, SizeAssumption
  <2>. QED BY <2>5, <2>7
<1>5. ASSUME S # {}, FirstOf(S) = {} PROVE FALSE
  <2>1. PICK e \in S \ FirstOf(S) : TRUE
    BY <1>5
  <2>2. Cardinality(FirstOf(S)) >= Batch
    BY <1>4
  <2>. QED BY <1>5, <2>2, FS_EmptySet, SizeAssumption
<1>. QED BY <1>1, <1>3, <1>4, <1>5
-----------------------------------------------------------------------------
(* Types *)

\* A sweep's record, as TypeOK describes it.
SweepTyped(r) ==
    /\ r.at \in Phases
    /\ r.todo \subseteq Event
    /\ Cardinality(r.todo) <= Batch
    /\ r.mark \in BOOLEAN
    /\ r.lag \in 0 .. MaxLag
    /\ r.from \in 0 .. LastEvent

Records == [at : Phases, todo : SUBSET Event, mark : BOOLEAN,
            lag : 0 .. MaxLag, from : 0 .. LastEvent]

\* TypeOK with the sweeps as a set of records: it says in addition which fields a
\* sweep has.
Typed ==
    /\ status \in [Event -> EventStatus]
    /\ age \in [Event -> 0 .. OldestAge]
    /\ verdict \in [Event -> Verdicts]
    /\ cursor \in 0 .. LastEvent
    /\ expCursor \in 0 .. LastEvent
    /\ sweep \in [Sweep -> Records]
    /\ \A s \in Sweep : Cardinality(sweep[s].todo) <= Batch
    /\ due \in BOOLEAN
    /\ tried \subseteq Event
    /\ faults \in 0 .. MaxFaults

LEMMA TypedIsTypeOK == Typed => TypeOK
BY DEF Typed, TypeOK, Records

LEMMA AsleepIsTyped == Asleep \in Records /\ Asleep.todo = {} /\ Cardinality({}) <= Batch
BY FS_EmptySet, SizeAssumption DEF Asleep, Records, Phases

\* The parts of Typed that a sweep's step may disturb.
LEMMA SetKeepsTyped ==
    ASSUME Typed, NEW s \in Sweep, NEW r \in Records, Cardinality(r.todo) <= Batch, Set(s, r)
    PROVE  /\ sweep' \in [Sweep -> Records]
           /\ \A x \in Sweep : Cardinality(sweep'[x].todo) <= Batch
BY DEF Typed, Set

LEMMA InitTyped == Init => Typed
<1>. SUFFICES ASSUME Init PROVE Typed
  OBVIOUS
<1>1. sweep \in [Sweep -> Records] /\ \A s \in Sweep : Cardinality(sweep[s].todo) <= Batch
  BY AsleepIsTyped DEF Init
<1>2. 0 \in 0 .. OldestAge /\ 0 \in 0 .. LastEvent /\ MaxFaults \in 0 .. MaxFaults
  BY SizeAssumption DEF OldestAge
<1>. QED BY <1>1, <1>2 DEF Init, Typed, EventStatus

LEMMA RetireTyped ==
    ASSUME Typed, NEW e, NEW final \in EventStatus, Retire(e, final)
    PROVE  status' \in [Event -> EventStatus]
BY DEF Typed, Retire

\* A query's answer: the batch, and where it leaves the cursor.
LEMMA FoundTyped ==
    ASSUME NEW S \in SUBSET Event
    PROVE  /\ FirstOf(S) \subseteq Event
           /\ Cardinality(FirstOf(S)) <= Batch
           /\ (IF FirstOf(S) = {} THEN 0 ELSE Max(FirstOf(S))) \in 0 .. LastEvent
<1>1. FirstOf(S) \subseteq Event /\ Cardinality(FirstOf(S)) <= Batch
  BY BatchOf
<1>2. FirstOf(S) # {} => Max(FirstOf(S)) \in Event
  BY <1>1, GreatestEvent
<1>. QED BY <1>1, <1>2, SizeAssumption DEF Event

LEMMA RestTyped ==
    ASSUME Typed, NEW s \in Sweep
    PROVE  Rest(s) \subseteq Event /\ Cardinality(Rest(s)) <= Batch
<1>1. sweep[s].todo \in SUBSET Event /\ Cardinality(sweep[s].todo) <= Batch
  BY DEF Typed, Records
<1>2. Rest(s) \subseteq sweep[s].todo
  BY DEF Rest
<1>3. Cardinality(Rest(s)) <= Cardinality(sweep[s].todo)
  BY <1>1, <1>2, FewerEvents
<1>4. Cardinality(Rest(s)) \in Nat /\ Cardinality(sweep[s].todo) \in Nat
  BY <1>1, <1>2, EventsAreFinite
<1>. QED BY <1>1, <1>2, <1>3, <1>4, SizeAssumption

LEMMA QueriesTyped ==
    ASSUME NEW s \in Sweep, NEW f
    PROVE  /\ FreshFor(s) \in SUBSET Event
           /\ OlderFor(s, f) \in SUBSET Event
           /\ ExpiredFor(s, f) \in SUBSET Event
BY DEF FreshFor, OlderFor, ExpiredFor, Received

LEMMA RunTyped == ASSUME Typed, NEW s \in Sweep, Run(s) PROVE Typed'
<1>. DEFINE r == sweep[s]
<1>0. r \in Records /\ Cardinality(r.todo) <= Batch
  BY DEF Typed
<1>1. CASE Start(s)
  <2>. DEFINE q == [Asleep EXCEPT !.at = "fresh", !.todo = FirstOf(FreshFor(s))]
  <2>1. q \in Records /\ Cardinality(q.todo) <= Batch
    BY AsleepIsTyped, QueriesTyped, FoundTyped DEF Records, Phases, Asleep
  <2>2. Set(s, q) /\ UNCHANGED <<status, age, verdict, cursor, expCursor, tried, faults>>
        /\ due' = FALSE
    BY <1>1 DEF Start
  <2>. HIDE DEF q
  <2>. QED BY <2>1, <2>2, SetKeepsTyped DEF Typed
<1>2. CASE QueryOlder(s) \/ QueryExpired(s)
  <2>. DEFINE qo == [r EXCEPT !.at = "olderQuery", !.from = cursor]
              qe == [r EXCEPT !.at = "expiredQuery", !.from = expCursor]
  <2>1. /\ qo \in Records /\ Cardinality(qo.todo) <= Batch
        /\ qe \in Records /\ Cardinality(qe.todo) <= Batch
    BY <1>0 DEF Records, Phases, Typed
  <2>2. /\ Set(s, qo) \/ Set(s, qe)
        /\ UNCHANGED <<status, age, verdict, cursor, expCursor, due, tried, faults>>
    BY <1>2 DEF QueryOlder, QueryExpired
  <2>. HIDE DEF qo, qe
  <2>. QED BY <2>1, <2>2, SetKeepsTyped DEF Typed
<1>3. CASE SelectOlder(s)
  <2>. DEFINE found == FirstOf(OlderFor(s, r.from))
              q == [r EXCEPT !.at = "older", !.todo = found]
  <2>1. /\ found \subseteq Event /\ Cardinality(found) <= Batch
        /\ (IF found = {} THEN 0 ELSE Max(found)) \in 0 .. LastEvent
    BY QueriesTyped, FoundTyped
  <2>2. /\ cursor' = IF found = {} THEN 0 ELSE Max(found)
        /\ Set(s, q)
        /\ UNCHANGED <<status, age, verdict, expCursor, due, tried, faults>>
    BY <1>3 DEF SelectOlder
  <2>. HIDE DEF found
  <2>3. q \in Records /\ Cardinality(q.todo) <= Batch
    BY <1>0, <2>1 DEF Records, Phases
  <2>. HIDE DEF q
  <2>. QED BY <2>1, <2>2, <2>3, SetKeepsTyped DEF Typed
<1>4. CASE SelectExpired(s)
  <2>. DEFINE found == FirstOf(ExpiredFor(s, r.from))
              q == [r EXCEPT !.at = "expired", !.todo = found]
  <2>1. /\ found \subseteq Event /\ Cardinality(found) <= Batch
        /\ (IF found = {} THEN 0 ELSE Max(found)) \in 0 .. LastEvent
    BY QueriesTyped, FoundTyped
  <2>2. /\ expCursor' = IF found = {} THEN 0 ELSE Max(found)
        /\ Set(s, q)
        /\ UNCHANGED <<status, age, verdict, cursor, due, tried, faults>>
    BY <1>4 DEF SelectExpired
  <2>. HIDE DEF found
  <2>3. q \in Records /\ Cardinality(q.todo) <= Batch
    BY <1>0, <2>1 DEF Records, Phases
  <2>. HIDE DEF q
  <2>. QED BY <2>1, <2>2, <2>3, SetKeepsTyped DEF Typed
<1>5. CASE Process(s)
  <2>. DEFINE marked == [r EXCEPT !.mark = TRUE]
              next == [r EXCEPT !.todo = Rest(s)]
  <2>1. /\ marked \in Records /\ Cardinality(marked.todo) <= Batch
        /\ next \in Records /\ Cardinality(next.todo) <= Batch
        /\ Asleep \in Records /\ Cardinality(Asleep.todo) <= Batch
    BY <1>0, RestTyped, AsleepIsTyped DEF Records
  <2>2. Set(s, marked) \/ Set(s, Asleep) \/ Set(s, next)
    BY <1>5 DEF Process
  <2>3. /\ tried' = tried \cup {Current(s)}
        /\ UNCHANGED <<status, age, verdict, cursor, expCursor, due, faults>>
    BY <1>5 DEF Process
  <2>4. Current(s) \in Event
    BY <1>0, <1>5, LeastEvent DEF Process, Current, Records
  <2>. HIDE DEF marked, next
  <2>. QED BY <2>1, <2>2, <2>3, <2>4, SetKeepsTyped DEF Typed
<1>6. CASE Mark(s) \/ Ignore(s)
  <2>. DEFINE qm == [r EXCEPT !.todo = Rest(s), !.mark = FALSE]
              qi == [r EXCEPT !.todo = Rest(s)]
  <2>1. /\ qm \in Records /\ Cardinality(qm.todo) <= Batch
        /\ qi \in Records /\ Cardinality(qi.todo) <= Batch
    BY <1>0, RestTyped DEF Records
  <2>2. /\ Set(s, qm) \/ Set(s, qi)
        /\ Retire(Current(s), "processed") \/ Retire(Current(s), "ignored")
        /\ UNCHANGED <<age, verdict, cursor, expCursor, due, tried, faults>>
    BY <1>6 DEF Mark, Ignore
  <2>3. status' \in [Event -> EventStatus]
    BY <2>2, RetireTyped DEF EventStatus
  <2>. HIDE DEF qm, qi
  <2>. QED BY <2>1, <2>2, <2>3, SetKeepsTyped DEF Typed
<1>7. CASE End(s)
  <2>1. Set(s, Asleep) /\ UNCHANGED <<age, verdict, cursor, expCursor, due, tried, faults>>
    BY <1>7 DEF End
  <2>2. status' \in [Event -> EventStatus]
    BY <1>7 DEF End, Typed, EventStatus
  <2>. QED BY <2>1, <2>2, AsleepIsTyped, SetKeepsTyped DEF Typed
<1>. QED BY <1>1, <1>2, <1>3, <1>4, <1>5, <1>6, <1>7 DEF Run

LEMMA QueryFailsTyped == ASSUME Typed, NEW s \in Sweep, QueryFails(s) PROVE Typed'
<1>. DEFINE r == sweep[s]
            qf == [Asleep EXCEPT !.at = "fresh"]
            qo == [r EXCEPT !.at = "older"]
            qe == [r EXCEPT !.at = "expired"]
<1>1. r \in Records /\ Cardinality(r.todo) <= Batch
  BY DEF Typed
<1>2. /\ qf \in Records /\ Cardinality(qf.todo) <= Batch
      /\ qo \in Records /\ Cardinality(qo.todo) <= Batch
      /\ qe \in Records /\ Cardinality(qe.todo) <= Batch
      /\ Asleep \in Records /\ Cardinality(Asleep.todo) <= Batch
  BY <1>1, AsleepIsTyped DEF Records, Phases, Asleep
<1>3. /\ Set(s, Asleep) \/ Set(s, qf) \/ Set(s, qo) \/ Set(s, qe)
      /\ Fault
      /\ due' \in {due, FALSE} /\ cursor' \in {cursor, 0} /\ expCursor' \in {expCursor, 0}
      /\ UNCHANGED <<status, age, verdict, tried>>
  BY DEF QueryFails, StartFails, SelectOlderFails, SelectExpiredFails
<1>. HIDE DEF qf, qo, qe
<1>4. /\ sweep' \in [Sweep -> Records]
      /\ \A x \in Sweep : Cardinality(sweep'[x].todo) <= Batch
  BY <1>2, <1>3, SetKeepsTyped
<1>5. faults' \in 0 .. MaxFaults
  BY <1>3, SizeAssumption DEF Typed, Fault
<1>6. cursor' \in 0 .. LastEvent /\ expCursor' \in 0 .. LastEvent
  BY <1>3, SizeAssumption DEF Typed
<1>. QED BY <1>3, <1>4, <1>5, <1>6 DEF Typed

LEMMA NextTyped == Typed /\ [Next]_vars => Typed'
<1>. SUFFICES ASSUME Typed, [Next]_vars PROVE Typed'
  OBVIOUS
<1>1. ASSUME NEW e \in Event, Post(e) PROVE Typed'
  BY <1>1 DEF Post, Typed, EventStatus
<1>2. ASSUME NEW e \in Event, Recover(e) PROVE Typed'
  BY <1>2 DEF Recover, Typed
<1>3. ASSUME NEW e \in Event, Drain(e) PROVE Typed'
  <2>1. status' \in [Event -> EventStatus]
    BY <1>3, RetireTyped DEF Drain, EventStatus
  <2>2. /\ tried' \subseteq Event
        /\ UNCHANGED <<age, verdict, cursor, expCursor, sweep, due, faults>>
    BY <1>3 DEF Drain, Typed
  <2>. QED BY <2>1, <2>2 DEF Typed
<1>4. CASE Tick
  <2>1. age' \in [Event -> 0 .. OldestAge]
    BY <1>4, SizeAssumption DEF Tick, Typed, OldestAge
  <2>2. \A s \in Sweep : /\ sweep'[s] \in Records
                         /\ sweep'[s].todo = sweep[s].todo
    <3>1. TAKE s \in Sweep
    <3>2. sweep[s] \in Records
      BY DEF Typed
    <3>3. CASE sweep[s].at = "idle"
      BY <1>4, <3>2, <3>3 DEF Tick
    <3>4. CASE sweep[s].at # "idle"
      <4>1. sweep[s].lag + 1 \in 0 .. MaxLag
        BY <1>4, <3>2, <3>4, SizeAssumption DEF Tick, Records
      <4>2. sweep'[s] = [sweep[s] EXCEPT !.lag = sweep[s].lag + 1]
        BY <1>4, <3>4 DEF Tick
      <4>. QED BY <3>2, <4>1, <4>2 DEF Records
    <3>. QED BY <3>3, <3>4
  <2>3. sweep' \in [Sweep -> Records]
    BY <1>4, <2>2 DEF Tick
  <2>. QED BY <1>4, <2>1, <2>2, <2>3 DEF Tick, Typed
<1>5. CASE UNCHANGED vars
  BY <1>5 DEF Typed, vars
<1>6. ASSUME NEW e \in Event, LiveMark(e) PROVE Typed'
  BY <1>6 DEF LiveMark, Typed, EventStatus
<1>. QED BY <1>1, <1>2, <1>3, <1>4, <1>5, <1>6, RunTyped, QueryFailsTyped DEF Next

\* Every variable keeps its type whatever the sweeps, the drains and the failing
\* queries do; in particular a sweep never holds more rows than a batch.
THEOREM TypeCorrect == Spec => []TypeOK
BY InitTyped, NextTyped, TypedIsTypeOK, PTL DEF Spec

\* A callback that was processed or ignored is never taken up again by a sweep that
\* selected it earlier, however many sweeps overlap, nor by a drain; a processed one
\* is never ignored.  The purge takes its row away, and the request that stored it
\* may turn an ignored row into a processed one, when it has settled the callback.
THEOREM RetiredForGood == Spec => RetiredStaysRetired
<1>1. Typed /\ [Next]_vars =>
          [\A e \in Event :
             /\ status[e] = "processed" => status'[e] \in {"processed", "purged"}
             /\ status[e] = "ignored" =>
                    \/ status'[e] \in {"ignored", "purged"}
                    \/ status'[e] = "processed" /\ verdict'[e] = "settles"]_vars
  BY NextKeeps DEF Keeps, StaysRetired, StatusOK, Typed
<1>. QED BY InitTyped, NextTyped, <1>1, PTL DEF Spec, RetiredStaysRetired
-----------------------------------------------------------------------------
(* Time enough for a retry.  A sweep passes at most Batch of the events that  *)
(* wait behind the cursor; an event that has left the window is behind it, so *)
(* what still waits in front of the event bounds the sweeps it takes to reach *)
(* it.  A query that fails may send the cursor back: that costs a pass over   *)
(* the whole backlog.                                                         *)

\* The events the older query chooses from.
Waiting == {e \in Received : Window < age[e] /\ age[e] <= MaxAge}

\* The sweep of this period has not chosen its older events yet.
Awaited == due \/ \E s \in Sweep : sweep[s].at \in {"fresh", "olderQuery"}

Untried(e) == status[e] = "received" /\ e \notin tried
Listed(e) == \E s \in Sweep : sweep[s].at = "older" /\ e \in sweep[s].todo
Ahead(e) == {d \in Waiting : cursor < d /\ d <= e}

\* The sweeps that may still choose the event, less a pass for each query that may
\* still fail.
Left(Pass, e) == MaxAge - age[e] + (IF Awaited THEN 1 ELSE 0) - Pass * faults

InTime(Pass, e) ==
    /\ age[e] <= MaxAge
    /\ \/ Listed(e)
       \/ cursor < e /\ Cardinality(Ahead(e)) <= Batch * Left(Pass, e)

\* A sweep ends within its period.
Calm ==
    /\ \A s \in Sweep : sweep[s].lag = 0
    /\ \A r, s \in Sweep : sweep[r].at # "idle" /\ sweep[s].at # "idle" => r = s
    /\ due => \A s \in Sweep : sweep[s].at = "idle"

\* Ids are given in order of creation, and older events have the smaller ids.
Ages ==
    /\ \A e \in Event : status[e] = "absent" => age[e] = 0
    /\ \A d, e \in Event : d < e => age[e] <= age[d]
    /\ \A d, e \in Event : d < e /\ status[d] = "absent" => status[e] = "absent"

CursorOK ==
    /\ cursor # 0 => age[cursor] > Window
    /\ \A s \in Sweep : sweep[s].at = "olderQuery" => sweep[s].from = cursor

\* Only a callback that processCallback has settled is about to be retired.
MarkOK ==
    \A s \in Sweep : sweep[s].mark =>
        sweep[s].todo # {} /\ sweep[s].at \in {"fresh", "older"}

\* Expired events have had their retry.
TodoOK ==
    \A s \in Sweep :
        /\ sweep[s].at = "expired" => sweep[s].todo \subseteq tried
        /\ sweep[s].at \in {"olderQuery", "expiredQuery"} => sweep[s].todo = {}

RetryInv(Pass) ==
    /\ Typed /\ Calm /\ Ages /\ CursorOK /\ MarkOK /\ TodoOK
    /\ \A e \in Event : Untried(e) /\ age[e] > Window => InTime(Pass, e)
    /\ TriedBeforeIgnored

BacklogWithin(Backlog) == Cardinality(Waiting) <= Backlog

\* No sweep outlasts its period, no event ends a sweep by an exception, and between
\* the window and the end of their lives the callbacks have time for a pass over
\* the backlog, and for one more for every query that fails.
TimeForAll(Pass, Backlog) ==
    /\ MaxLag = 0 /\ "throws" \notin Verdicts
    /\ Backlog <= Batch * Pass
    /\ (MaxFaults + 1) * Pass <= MaxAge - Window

\* Arithmetic on the products in these bounds.
LEMMA Product ==
    ASSUME NEW x \in Nat, NEW y \in Nat
    PROVE  x * y \in Nat
OBVIOUS

LEMMA Scaled ==
    ASSUME NEW b \in Nat, NEW x \in Int, NEW y \in Int, x <= y
    PROVE  b * x <= b * y
<1>1. PICK k \in Nat : y = x + k
  <2>1. y - x \in Nat /\ y = x + (y - x)
    OBVIOUS
  <2>. QED BY <2>1
<1>2. b * y = b * x + b * k
  BY <1>1
<1>3. b * k \in Nat /\ b * x \in Int
  BY Product
<1>. QED BY <1>2, <1>3

LEMMA LeftIsInt ==
    ASSUME Typed, NEW Pass \in Nat, NEW e \in Event
    PROVE  Left(Pass, e) \in Int /\ Pass * faults \in Nat
           /\ age[e] \in Nat /\ faults \in Nat
<1>1. age[e] \in Nat /\ faults \in Nat
  BY SizeAssumption DEF Typed, OldestAge
<1>2. Pass * faults \in Nat
  BY <1>1, Product
<1>3. PICK w \in {0, 1} : Left(Pass, e) = MaxAge - age[e] + w - Pass * faults
  BY DEF Left
<1>. QED BY <1>1, <1>2, <1>3, SizeAssumption

\* The same after a step.
LEMMA LeftIsIntNext ==
    ASSUME Typed', NEW Pass \in Nat, NEW e \in Event
    PROVE  Left(Pass, e)' \in Int /\ (Pass * faults)' \in Nat
           /\ age'[e] \in Nat /\ faults' \in Nat
<1>1. age'[e] \in Nat /\ faults' \in Nat
  BY SizeAssumption DEF Typed, OldestAge
<1>2. Pass * faults' \in Nat
  BY <1>1, Product
<1>3. PICK w \in {0, 1} : Left(Pass, e)' = MaxAge - age'[e] + w - Pass * faults'
  BY DEF Left
<1>4. Left(Pass, e)' \in Int
  BY <1>1, <1>2, <1>3, SizeAssumption
<1>. QED BY <1>1, <1>2, <1>4

LEMMA AheadIsFinite ==
    ASSUME NEW e \in Event
    PROVE  /\ Waiting \in SUBSET Event /\ Ahead(e) \in SUBSET Waiting
           /\ Cardinality(Ahead(e)) \in Nat /\ Cardinality(Waiting) \in Nat
           /\ Cardinality(Ahead(e)) <= Cardinality(Waiting)
<1>1. Waiting \in SUBSET Event /\ Ahead(e) \in SUBSET Waiting
  BY DEF Waiting, Ahead, Received
<1>. QED BY <1>1, EventsAreFinite, FewerEvents

\* An event that no sweep holds has a sweep left that may choose it.
LEMMA SomeLeft ==
    ASSUME Typed, NEW Pass \in Nat, NEW e \in Event, Untried(e), age[e] > Window,
           InTime(Pass, e), ~Listed(e)
    PROVE  /\ cursor < e /\ Cardinality(Ahead(e)) <= Batch * Left(Pass, e)
           /\ Left(Pass, e) >= 1
<1>1. cursor < e /\ Cardinality(Ahead(e)) <= Batch * Left(Pass, e) /\ age[e] <= MaxAge
  BY DEF InTime
<1>2. e \in Ahead(e)
  BY <1>1 DEF Ahead, Waiting, Received, Untried, Event
<1>3. Cardinality(Ahead(e)) \in Nat /\ Cardinality(Ahead(e)) # 0
  BY <1>2, AheadIsFinite, EventsAreFinite, FS_EmptySet
<1>4. ASSUME Left(Pass, e) <= 0 PROVE FALSE
  <2>1. Batch * Left(Pass, e) <= Batch * 0
    BY <1>4, LeftIsInt, Scaled, SizeAssumption
  <2>2. Batch * Left(Pass, e) \in Int
    BY LeftIsInt, SizeAssumption
  <2>. QED BY <1>1, <1>3, <2>1, <2>2, SizeAssumption
<1>. QED BY <1>1, <1>4, LeftIsInt

\* A step that leaves the cursor and the ages alone keeps an event in time, unless
\* it takes the event off a list or a sweep away.
LEMMA StaysInTime ==
    ASSUME Typed, Typed', NEW Pass \in Nat, NEW e \in Event, InTime(Pass, e),
           UNCHANGED <<age, cursor>>,
           \A d \in Event : status'[d] = "received" =>
               status[d] = "received" \/ age[d] <= Window,
           Listed(e) => Listed(e)',
           Left(Pass, e) <= Left(Pass, e)'
    PROVE  InTime(Pass, e)'
<1>1. CASE Listed(e)
  BY <1>1 DEF InTime
<1>2. CASE ~Listed(e)
  <2>1. cursor < e /\ Cardinality(Ahead(e)) <= Batch * Left(Pass, e)
    BY <1>2 DEF InTime
  <2>2. Ahead(e)' \subseteq Ahead(e)
    <3>1. ASSUME NEW d \in Ahead(e)' PROVE d \in Ahead(e)
      <4>1. /\ d \in Event /\ status'[d] = "received"
            /\ Window < age[d] /\ age[d] <= MaxAge /\ cursor < d /\ d <= e
        BY <3>1 DEF Ahead, Waiting, Received
      <4>2. ~(age[d] <= Window)
        BY <4>1, SizeAssumption DEF Typed, OldestAge
      <4>. QED BY <4>1, <4>2 DEF Ahead, Waiting, Received
    <3>. QED BY <3>1
  <2>3. Cardinality(Ahead(e)') <= Cardinality(Ahead(e)) /\ Cardinality(Ahead(e)') \in Nat
    BY <2>2, AheadIsFinite, FewerEvents, EventsAreFinite
  <2>4. Left(Pass, e)' \in Int /\ Left(Pass, e) \in Int
    BY LeftIsInt, LeftIsIntNext
  <2>5. Batch * Left(Pass, e) <= Batch * Left(Pass, e)'
    BY <2>4, Scaled, SizeAssumption
  <2>6. /\ Cardinality(Ahead(e)) \in Nat
        /\ Batch * Left(Pass, e) \in Int /\ Batch * Left(Pass, e)' \in Int
    BY <2>4, AheadIsFinite, SizeAssumption
  <2>7. Cardinality(Ahead(e)') <= Batch * Left(Pass, e)'
    BY <2>1, <2>3, <2>5, <2>6
  <2>. QED BY <2>1, <2>7 DEF InTime
<1>. QED BY <1>1, <1>2
\* A step of one sweep, seen from the others.
LEMMA SetGives ==
    ASSUME Typed, NEW s \in Sweep, NEW r, Set(s, r)
    PROVE  sweep'[s] = r /\ \A x \in Sweep : x # s => sweep'[x] = sweep[x]
BY DEF Typed, Set

LEMMA CalmKept ==
    ASSUME Typed, Calm, NEW s \in Sweep, NEW r, Set(s, r), r.lag = 0,
           \/ sweep[s].at # "idle" /\ due' = due
           \/ due /\ due' = FALSE
    PROVE  Calm'
<1>1. sweep'[s] = r /\ \A x \in Sweep : x # s => sweep'[x] = sweep[x]
  BY SetGives
<1>2. \A x \in Sweep : x # s => sweep[x].at = "idle"
  BY DEF Calm
<1>3. ~due'
  BY DEF Calm, Typed
<1>4. \A x \in Sweep : sweep'[x].lag = 0
  BY <1>1 DEF Calm
<1>. QED BY <1>1, <1>2, <1>3, <1>4 DEF Calm

\* Every step of a sweep as the change of its record, with what else it may change.
LEMMA SweepSteps ==
    ASSUME Typed, Calm, MarkOK, NEW s \in Sweep, Run(s) \/ QueryFails(s)
    PROVE  /\ \E r : Set(s, r) /\ r.lag = 0
           /\ \/ sweep[s].at # "idle" /\ due' = due
              \/ due /\ due' = FALSE
           /\ UNCHANGED <<age, verdict>>
<1>0. sweep[s] \in Records /\ sweep[s].lag = 0 /\ Asleep.lag = 0
  BY DEF Typed, Calm, Asleep
<1>1. CASE Start(s) \/ StartFails(s)
  <2>1. \/ Set(s, [Asleep EXCEPT !.at = "fresh", !.todo = FirstOf(FreshFor(s))])
        \/ Set(s, [Asleep EXCEPT !.at = "fresh"])
        \/ Set(s, Asleep)
    BY <1>1 DEF Start, StartFails
  <2>2. /\ [Asleep EXCEPT !.at = "fresh", !.todo = FirstOf(FreshFor(s))].lag = 0
        /\ [Asleep EXCEPT !.at = "fresh"].lag = 0
    BY DEF Asleep
  <2>. QED BY <1>0, <1>1, <2>1, <2>2 DEF Start, StartFails
<1>2. CASE QueryOlder(s) \/ QueryExpired(s)
  <2>1. /\ [sweep[s] EXCEPT !.at = "olderQuery", !.from = cursor].lag = 0
        /\ [sweep[s] EXCEPT !.at = "expiredQuery", !.from = expCursor].lag = 0
    BY <1>0 DEF Records
  <2>. QED BY <1>2, <2>1 DEF QueryOlder, QueryExpired, ReadyFor
<1>3. CASE SelectOlder(s) \/ SelectExpired(s)
  <2>1. /\ [sweep[s] EXCEPT !.at = "older", !.todo = FirstOf(OlderFor(s, sweep[s].from))].lag = 0
        /\ [sweep[s] EXCEPT !.at = "expired", !.todo = FirstOf(ExpiredFor(s, sweep[s].from))].lag = 0
    BY <1>0 DEF Records
  <2>. QED BY <1>3, <2>1 DEF SelectOlder, SelectExpired
<1>4. CASE SelectOlderFails(s) \/ SelectExpiredFails(s)
  <2>1. /\ [sweep[s] EXCEPT !.at = "older"].lag = 0
        /\ [sweep[s] EXCEPT !.at = "expired"].lag = 0
    BY <1>0 DEF Records
  <2>. QED BY <1>0, <1>4, <2>1 DEF SelectOlderFails, SelectExpiredFails
<1>5. CASE Process(s)
  <2>1. /\ [sweep[s] EXCEPT !.mark = TRUE].lag = 0
        /\ [sweep[s] EXCEPT !.todo = Rest(s)].lag = 0
    BY <1>0 DEF Records
  <2>2. \/ Set(s, [sweep[s] EXCEPT !.mark = TRUE])
        \/ Set(s, Asleep)
        \/ Set(s, [sweep[s] EXCEPT !.todo = Rest(s)])
    BY <1>5 DEF Process
  <2>. QED BY <1>0, <1>5, <2>1, <2>2 DEF Process
<1>6. CASE Ignore(s) \/ End(s)
  <2>1. [sweep[s] EXCEPT !.todo = Rest(s)].lag = 0
    BY <1>0 DEF Records
  <2>. QED BY <1>0, <1>6, <2>1 DEF Ignore, End, ReadyFor
<1>7. CASE Mark(s)
  <2>1. [sweep[s] EXCEPT !.todo = Rest(s), !.mark = FALSE].lag = 0
    BY <1>0 DEF Records
  <2>2. sweep[s].at # "idle"
    BY <1>7 DEF Mark, MarkOK
  <2>. QED BY <1>0, <1>7, <2>1, <2>2 DEF Mark
<1>. QED BY <1>1, <1>2, <1>3, <1>4, <1>5, <1>6, <1>7 DEF Run, QueryFails
LEMMA MarkKept ==
    ASSUME Typed, MarkOK, NEW s \in Sweep, Run(s) \/ QueryFails(s)
    PROVE  MarkOK'
<1>. DEFINE Fine(r) == r.mark => r.todo # {} /\ r.at \in {"fresh", "older"}
<1>0. sweep[s] \in Records /\ Fine(sweep[s])
  BY DEF Typed, MarkOK
<1>1. ASSUME NEW r, Set(s, r), Fine(r) PROVE MarkOK'
  BY <1>1, SetGives DEF MarkOK
<1>2. CASE Start(s) \/ StartFails(s) \/ End(s)
  <2>1. \/ Set(s, [Asleep EXCEPT !.at = "fresh", !.todo = FirstOf(FreshFor(s))])
        \/ Set(s, [Asleep EXCEPT !.at = "fresh"])
        \/ Set(s, Asleep)
    BY <1>2 DEF Start, StartFails, End
  <2>2. /\ Fine([Asleep EXCEPT !.at = "fresh", !.todo = FirstOf(FreshFor(s))])
        /\ Fine([Asleep EXCEPT !.at = "fresh"])
        /\ Fine(Asleep)
    BY DEF Asleep
  <2>. HIDE DEF Fine
  <2>. QED BY <1>1, <2>1, <2>2
<1>3. CASE QueryOlder(s) \/ QueryExpired(s)
  <2>1. ~sweep[s].mark
    BY <1>0, <1>3 DEF QueryOlder, QueryExpired, ReadyFor, Records
  <2>2. /\ Fine([sweep[s] EXCEPT !.at = "olderQuery", !.from = cursor])
        /\ Fine([sweep[s] EXCEPT !.at = "expiredQuery", !.from = expCursor])
    BY <1>0, <2>1 DEF Records
  <2>3. \/ Set(s, [sweep[s] EXCEPT !.at = "olderQuery", !.from = cursor])
        \/ Set(s, [sweep[s] EXCEPT !.at = "expiredQuery", !.from = expCursor])
    BY <1>3 DEF QueryOlder, QueryExpired
  <2>. HIDE DEF Fine
  <2>. QED BY <1>1, <2>2, <2>3
<1>4. ASSUME sweep[s].at \in {"olderQuery", "expiredQuery"},
             NEW at, NEW todo, Set(s, [sweep[s] EXCEPT !.at = at, !.todo = todo])
      PROVE  MarkOK'
  <2>1. ~sweep[s].mark
    BY <1>0, <1>4
  <2>2. Fine([sweep[s] EXCEPT !.at = at, !.todo = todo])
    BY <1>0, <2>1 DEF Records
  <2>. HIDE DEF Fine
  <2>. QED BY <1>1, <1>4, <2>2
<1>5. CASE SelectOlder(s) \/ SelectExpired(s)
  BY <1>4, <1>5 DEF SelectOlder, SelectExpired
<1>6. CASE SelectOlderFails(s) \/ SelectExpiredFails(s)
  <2>1. ~sweep[s].mark
    BY <1>0, <1>6 DEF SelectOlderFails, SelectExpiredFails
  <2>2. /\ Fine([sweep[s] EXCEPT !.at = "older"]) /\ Fine([sweep[s] EXCEPT !.at = "expired"])
        /\ Fine(Asleep)
    BY <1>0, <2>1 DEF Records, Asleep
  <2>3. \/ Set(s, Asleep)
        \/ Set(s, [sweep[s] EXCEPT !.at = "older"])
        \/ Set(s, [sweep[s] EXCEPT !.at = "expired"])
    BY <1>6 DEF SelectOlderFails, SelectExpiredFails
  <2>. HIDE DEF Fine
  <2>. QED BY <1>1, <2>2, <2>3
<1>7. CASE Process(s)
  <2>1. /\ sweep[s].at \in {"fresh", "older"} /\ sweep[s].todo # {} /\ ~sweep[s].mark
        /\ \/ Set(s, [sweep[s] EXCEPT !.mark = TRUE])
           \/ Set(s, Asleep)
           \/ Set(s, [sweep[s] EXCEPT !.todo = Rest(s)])
    BY <1>7 DEF Process
  <2>2. /\ Fine([sweep[s] EXCEPT !.mark = TRUE]) /\ Fine([sweep[s] EXCEPT !.todo = Rest(s)])
        /\ Fine(Asleep)
    BY <1>0, <2>1 DEF Records, Asleep
  <2>. HIDE DEF Fine
  <2>. QED BY <1>1, <2>1, <2>2
<1>8. CASE Mark(s)
  <2>1. Fine([sweep[s] EXCEPT !.todo = Rest(s), !.mark = FALSE])
    BY <1>0 DEF Records
  <2>. HIDE DEF Fine
  <2>. QED BY <1>1, <1>8, <2>1 DEF Mark
<1>9. CASE Ignore(s)
  <2>1. Fine([sweep[s] EXCEPT !.todo = Rest(s)])
    BY <1>0, <1>9 DEF Records, Ignore
  <2>. HIDE DEF Fine
  <2>. QED BY <1>1, <1>9, <2>1 DEF Ignore
<1>. QED BY <1>2, <1>3, <1>5, <1>6, <1>7, <1>8, <1>9 DEF Run, QueryFails

LEMMA TodoKept ==
    ASSUME Typed, MarkOK, TodoOK, NEW s \in Sweep, Run(s) \/ QueryFails(s),
           \A e \in Received : age[e] - sweep[s].lag > MaxAge => e \in tried
    PROVE  TodoOK'
<1>. DEFINE Fine(r) == /\ r.at = "expired" => r.todo \subseteq tried
                       /\ r.at \in {"olderQuery", "expiredQuery"} => r.todo = {}
<1>0. sweep[s] \in Records /\ Fine(sweep[s])
  BY DEF Typed, TodoOK
<1>1. ASSUME NEW r, Set(s, r), Fine(r) PROVE TodoOK'
  <2>1. tried \subseteq tried'
    BY DEF Run, QueryFails, Start, Process, Mark, QueryOlder, SelectOlder, QueryExpired,
           SelectExpired, Ignore, End, StartFails, SelectOlderFails, SelectExpiredFails
  <2>. QED BY <1>1, <2>1, SetGives DEF TodoOK
<1>2. CASE Start(s) \/ StartFails(s) \/ End(s)
  <2>1. \/ Set(s, [Asleep EXCEPT !.at = "fresh", !.todo = FirstOf(FreshFor(s))])
        \/ Set(s, [Asleep EXCEPT !.at = "fresh"])
        \/ Set(s, Asleep)
    BY <1>2 DEF Start, StartFails, End
  <2>2. /\ Fine([Asleep EXCEPT !.at = "fresh", !.todo = FirstOf(FreshFor(s))])
        /\ Fine([Asleep EXCEPT !.at = "fresh"])
        /\ Fine(Asleep)
    BY DEF Asleep
  <2>. HIDE DEF Fine
  <2>. QED BY <1>1, <2>1, <2>2
<1>3. CASE QueryOlder(s) \/ QueryExpired(s)
  <2>1. sweep[s].todo = {}
    BY <1>3 DEF QueryOlder, QueryExpired, ReadyFor
  <2>2. /\ Fine([sweep[s] EXCEPT !.at = "olderQuery", !.from = cursor])
        /\ Fine([sweep[s] EXCEPT !.at = "expiredQuery", !.from = expCursor])
    BY <1>0, <2>1 DEF Records
  <2>3. \/ Set(s, [sweep[s] EXCEPT !.at = "olderQuery", !.from = cursor])
        \/ Set(s, [sweep[s] EXCEPT !.at = "expiredQuery", !.from = expCursor])
    BY <1>3 DEF QueryOlder, QueryExpired
  <2>. HIDE DEF Fine
  <2>. QED BY <1>1, <2>2, <2>3
<1>4. CASE SelectOlder(s)
  <2>. DEFINE found == FirstOf(OlderFor(s, sweep[s].from))
  <2>. HIDE DEF found
  <2>1. Fine([sweep[s] EXCEPT !.at = "older", !.todo = found])
    BY <1>0 DEF Records
  <2>2. Set(s, [sweep[s] EXCEPT !.at = "older", !.todo = found])
    BY <1>4 DEF SelectOlder, found
  <2>. HIDE DEF Fine
  <2>. QED BY <1>1, <2>1, <2>2
<1>5. CASE SelectExpired(s)
  <2>. DEFINE found == FirstOf(ExpiredFor(s, sweep[s].from))
  <2>1. found \subseteq tried
    BY BatchOf, QueriesTyped DEF ExpiredFor, AgeAt
  <2>. HIDE DEF found
  <2>2. Fine([sweep[s] EXCEPT !.at = "expired", !.todo = found])
    BY <1>0, <2>1 DEF Records
  <2>3. Set(s, [sweep[s] EXCEPT !.at = "expired", !.todo = found])
    BY <1>5 DEF SelectExpired, found
  <2>. HIDE DEF Fine
  <2>. QED BY <1>1, <2>2, <2>3
<1>6. CASE SelectOlderFails(s) \/ SelectExpiredFails(s)
  <2>1. sweep[s].todo = {}
    BY <1>0, <1>6 DEF SelectOlderFails, SelectExpiredFails
  <2>2. /\ Fine([sweep[s] EXCEPT !.at = "older"]) /\ Fine([sweep[s] EXCEPT !.at = "expired"])
        /\ Fine(Asleep)
    BY <1>0, <2>1 DEF Records, Asleep
  <2>3. \/ Set(s, Asleep)
        \/ Set(s, [sweep[s] EXCEPT !.at = "older"])
        \/ Set(s, [sweep[s] EXCEPT !.at = "expired"])
    BY <1>6 DEF SelectOlderFails, SelectExpiredFails
  <2>. HIDE DEF Fine
  <2>. QED BY <1>1, <2>2, <2>3
<1>7. CASE Process(s)
  <2>1. /\ sweep[s].at \in {"fresh", "older"}
        /\ \/ Set(s, [sweep[s] EXCEPT !.mark = TRUE])
           \/ Set(s, Asleep)
           \/ Set(s, [sweep[s] EXCEPT !.todo = Rest(s)])
    BY <1>7 DEF Process
  <2>2. /\ Fine([sweep[s] EXCEPT !.mark = TRUE]) /\ Fine([sweep[s] EXCEPT !.todo = Rest(s)])
        /\ Fine(Asleep)
    BY <1>0, <2>1 DEF Records, Asleep
  <2>. HIDE DEF Fine
  <2>. QED BY <1>1, <2>1, <2>2
<1>8. CASE Mark(s)
  <2>1. sweep[s].at \in {"fresh", "older"}
    BY <1>8 DEF Mark, MarkOK
  <2>2. Fine([sweep[s] EXCEPT !.todo = Rest(s), !.mark = FALSE])
    BY <1>0, <2>1 DEF Records
  <2>. HIDE DEF Fine
  <2>. QED BY <1>1, <1>8, <2>2 DEF Mark
<1>9. CASE Ignore(s)
  <2>1. Fine([sweep[s] EXCEPT !.todo = Rest(s)])
    BY <1>0, <1>9 DEF Records, Ignore, Rest
  <2>. HIDE DEF Fine
  <2>. QED BY <1>1, <1>9, <2>1 DEF Ignore
<1>. QED BY <1>2, <1>3, <1>4, <1>5, <1>6, <1>7, <1>8, <1>9 DEF Run, QueryFails
LEMMA CursorMoves ==
    ASSUME Typed, Calm, CursorOK, NEW s \in Sweep, NEW r, Set(s, r), UNCHANGED age,
           \/ cursor' = cursor
           \/ sweep[s].at # "idle" /\ (cursor' # 0 => age[cursor'] > Window),
           r.at = "olderQuery" => r.from = cursor'
    PROVE  CursorOK'
<1>1. sweep'[s] = r /\ \A x \in Sweep : x # s => sweep'[x] = sweep[x]
  BY SetGives
<1>2. CASE cursor' = cursor
  BY <1>1, <1>2 DEF CursorOK
<1>3. CASE sweep[s].at # "idle" /\ (cursor' # 0 => age[cursor'] > Window)
  <2>1. \A x \in Sweep : x # s => sweep[x].at = "idle"
    BY <1>3 DEF Calm
  <2>. QED BY <1>1, <1>3, <2>1 DEF CursorOK
<1>. QED BY <1>2, <1>3

\* With no lag the older query asks for the events that wait behind the cursor.
LEMMA OlderIsWaiting ==
    ASSUME Typed, Calm, CursorOK, NEW s \in Sweep, sweep[s].at = "olderQuery"
    PROVE  OlderFor(s, sweep[s].from) = {d \in Waiting : cursor < d}
<1>1. sweep[s].lag = 0 /\ sweep[s].from = cursor
  BY DEF Calm, CursorOK
<1>2. \A d \in Event : AgeAt(s, d) = age[d]
  BY <1>1, SizeAssumption DEF AgeAt, Typed, OldestAge
<1>3. \A d \in Event : cursor < d <=> d > cursor
  BY SizeAssumption DEF Typed, Event
<1>4. \A d \in Event : Window < age[d] <=> age[d] > Window
  BY SizeAssumption DEF Typed, OldestAge
<1>. QED BY <1>1, <1>2, <1>3, <1>4, Zenon DEF OlderFor, Waiting, Received

LEMMA CursorKept ==
    ASSUME Typed, Calm, CursorOK, MarkOK, NEW s \in Sweep, Run(s) \/ QueryFails(s)
    PROVE  CursorOK'
<1>0. sweep[s] \in Records
  BY DEF Typed
<1>1. CASE Start(s) \/ StartFails(s) \/ End(s)
  <2>1. \/ Set(s, [Asleep EXCEPT !.at = "fresh", !.todo = FirstOf(FreshFor(s))])
        \/ Set(s, [Asleep EXCEPT !.at = "fresh"])
        \/ Set(s, Asleep)
    BY <1>1 DEF Start, StartFails, End
  <2>2. /\ [Asleep EXCEPT !.at = "fresh", !.todo = FirstOf(FreshFor(s))].at # "olderQuery"
        /\ [Asleep EXCEPT !.at = "fresh"].at # "olderQuery"
        /\ Asleep.at # "olderQuery"
    BY DEF Asleep
  <2>3. UNCHANGED <<age, cursor>>
    BY <1>1 DEF Start, StartFails, End
  <2>. QED BY <2>1, <2>2, <2>3, CursorMoves
<1>2. CASE QueryOlder(s)
  <2>1. /\ [sweep[s] EXCEPT !.at = "olderQuery", !.from = cursor].from = cursor
        /\ Set(s, [sweep[s] EXCEPT !.at = "olderQuery", !.from = cursor])
        /\ UNCHANGED <<age, cursor>>
    BY <1>0, <1>2 DEF QueryOlder, Records
  <2>. QED BY <2>1, CursorMoves
<1>3. CASE QueryExpired(s) \/ SelectExpired(s)
  <2>1. /\ [sweep[s] EXCEPT !.at = "expiredQuery", !.from = expCursor].at # "olderQuery"
        /\ [sweep[s] EXCEPT !.at = "expired",
                            !.todo = FirstOf(ExpiredFor(s, sweep[s].from))].at # "olderQuery"
    BY <1>0 DEF Records
  <2>2. /\ \/ Set(s, [sweep[s] EXCEPT !.at = "expiredQuery", !.from = expCursor])
           \/ Set(s, [sweep[s] EXCEPT !.at = "expired",
                                      !.todo = FirstOf(ExpiredFor(s, sweep[s].from))])
        /\ UNCHANGED <<age, cursor>>
    BY <1>3 DEF QueryExpired, SelectExpired
  <2>. QED BY <2>1, <2>2, CursorMoves
<1>4. CASE SelectOlder(s)
  <2>. DEFINE found == FirstOf(OlderFor(s, sweep[s].from))
  <2>1. found \subseteq Waiting /\ found \subseteq Event
    BY <1>4, OlderIsWaiting, QueriesTyped, BatchOf DEF SelectOlder
  <2>2. /\ cursor' = IF found = {} THEN 0 ELSE Max(found)
        /\ Set(s, [sweep[s] EXCEPT !.at = "older", !.todo = found])
        /\ UNCHANGED age /\ sweep[s].at # "idle"
    BY <1>4 DEF SelectOlder
  <2>. HIDE DEF found
  <2>3. found # {} => Max(found) \in Waiting
    BY <2>1, GreatestEvent
  <2>4. cursor' # 0 => age[cursor'] > Window
    <3>1. cursor' # 0 => cursor' \in Waiting
      BY <2>2, <2>3
    <3>. QED BY <3>1, SizeAssumption DEF Waiting, Received, Typed, OldestAge
  <2>5. [sweep[s] EXCEPT !.at = "older", !.todo = found].at # "olderQuery"
    BY <1>0 DEF Records
  <2>. QED BY <2>2, <2>4, <2>5, CursorMoves
<1>5. CASE SelectOlderFails(s) \/ SelectExpiredFails(s)
  <2>1. /\ [sweep[s] EXCEPT !.at = "older"].at # "olderQuery"
        /\ [sweep[s] EXCEPT !.at = "expired"].at # "olderQuery"
        /\ Asleep.at # "olderQuery"
    BY <1>0 DEF Records, Asleep
  <2>2. /\ \/ Set(s, Asleep)
           \/ Set(s, [sweep[s] EXCEPT !.at = "older"])
           \/ Set(s, [sweep[s] EXCEPT !.at = "expired"])
        /\ cursor' \in {cursor, 0} /\ sweep[s].at # "idle"
        /\ UNCHANGED age
    BY <1>5 DEF SelectOlderFails, SelectExpiredFails
  <2>. QED BY <2>1, <2>2, CursorMoves
<1>6. CASE Process(s) \/ Mark(s) \/ Ignore(s)
  <2>1. sweep[s].at # "olderQuery"
    BY <1>6 DEF Process, Mark, MarkOK, Ignore
  <2>2. /\ [sweep[s] EXCEPT !.mark = TRUE].at # "olderQuery"
        /\ [sweep[s] EXCEPT !.todo = Rest(s)].at # "olderQuery"
        /\ [sweep[s] EXCEPT !.todo = Rest(s), !.mark = FALSE].at # "olderQuery"
        /\ Asleep.at # "olderQuery"
    BY <1>0, <2>1 DEF Records, Asleep
  <2>3. /\ \/ Set(s, [sweep[s] EXCEPT !.mark = TRUE])
           \/ Set(s, [sweep[s] EXCEPT !.todo = Rest(s)])
           \/ Set(s, [sweep[s] EXCEPT !.todo = Rest(s), !.mark = FALSE])
           \/ Set(s, Asleep)
        /\ UNCHANGED <<age, cursor>>
    BY <1>6 DEF Process, Mark, Ignore
  <2>. QED BY <2>2, <2>3, CursorMoves
<1>. QED BY <1>1, <1>2, <1>3, <1>4, <1>5, <1>6 DEF Run, QueryFails

\* A step that lets no time pass and brings back no purged or absent row.
LEMMA AgesKept ==
    ASSUME Typed, Ages, UNCHANGED age,
           \A e \in Event : status'[e] = "absent" <=> status[e] = "absent"
    PROVE  Ages'
BY DEF Ages

LEMMA RetireNeverAbsent ==
    ASSUME Typed, NEW e, NEW final \in {"processed", "ignored"}, Retire(e, final)
    PROVE  \A d \in Event : /\ status'[d] = "absent" <=> status[d] = "absent"
                            /\ status'[d] = "received" => status[d] = "received"
                            /\ status'[d] # status[d] => d = e /\ status'[d] = final
BY DEF Typed, Retire

\* What the sweeps and the drains do to the rows.
LEMMA SweepRetires ==
    ASSUME Typed, NEW s \in Sweep, Run(s) \/ QueryFails(s)
    PROVE  \A d \in Event : /\ status'[d] = "absent" <=> status[d] = "absent"
                            /\ status'[d] = "received" => status[d] = "received"
                            /\ status'[d] = "ignored" =>
                                   \/ status[d] = "ignored"
                                   \/ sweep[s].at = "expired" /\ d \in sweep[s].todo
<1>1. CASE Mark(s)
  BY <1>1, RetireNeverAbsent DEF Mark
<1>2. CASE Ignore(s)
  <2>1. Current(s) \in sweep[s].todo
    BY <1>2, LeastEvent DEF Ignore, Current, Typed, Records
  <2>. QED BY <1>2, <2>1, RetireNeverAbsent DEF Ignore
<1>3. CASE End(s)
  BY <1>3 DEF End, Typed
<1>4. CASE ~(Mark(s) \/ Ignore(s) \/ End(s))
  <2>1. UNCHANGED status
    BY <1>4 DEF Run, QueryFails, Start, Process, QueryOlder, SelectOlder, QueryExpired,
                SelectExpired, StartFails, SelectOlderFails, SelectExpiredFails
  <2>. QED BY <2>1
<1>. QED BY <1>1, <1>2, <1>3, <1>4
LEMMA ListedKept ==
    ASSUME Typed, NEW s \in Sweep, Run(s) \/ QueryFails(s), "throws" \notin Verdicts,
           NEW e \in Event, Listed(e), Untried(e)'
    PROVE  Listed(e)'
<1>0. sweep[s] \in Records
  BY DEF Typed
<1>1. PICK x \in Sweep : sweep[x].at = "older" /\ e \in sweep[x].todo
  BY DEF Listed
<1>2. CASE x # s
  <2>1. sweep'[x] = sweep[x]
    <3>1. \E r : Set(s, r)
      BY DEF Run, QueryFails, Start, Process, Mark, QueryOlder, SelectOlder, QueryExpired,
             SelectExpired, Ignore, End, StartFails, SelectOlderFails, SelectExpiredFails
    <3>. QED BY <1>2, <3>1, SetGives
  <2>. QED BY <1>1, <2>1 DEF Listed
<1>3. CASE x = s
  <2>1. CASE Process(s)
    <3>1. Current(s) \in Event /\ tried' = tried \cup {Current(s)}
      BY <2>1, LeastEvent DEF Process, Current, Typed, Records
    <3>2. e # Current(s)
      BY <3>1 DEF Untried
    <3>3. verdict[Current(s)] # "throws"
      BY <3>1 DEF Typed
    <3>4. \/ Set(s, [sweep[s] EXCEPT !.mark = TRUE])
          \/ Set(s, [sweep[s] EXCEPT !.todo = Rest(s)])
      BY <2>1, <3>3 DEF Process
    <3>5. \/ sweep'[s] = [sweep[s] EXCEPT !.mark = TRUE]
          \/ sweep'[s] = [sweep[s] EXCEPT !.todo = Rest(s)]
      BY <3>4, SetGives
    <3>6. sweep'[s].at = "older" /\ e \in sweep'[s].todo
      BY <1>0, <1>1, <1>3, <3>2, <3>5 DEF Rest, Records
    <3>. QED BY <3>6 DEF Listed
  <2>2. CASE Mark(s)
    <3>1. Retire(Current(s), "processed") /\ Set(s, [sweep[s] EXCEPT !.todo = Rest(s), !.mark = FALSE])
      BY <2>2 DEF Mark
    <3>2. e # Current(s)
      BY <3>1 DEF Untried, Retire, Typed
    <3>3. sweep'[s] = [sweep[s] EXCEPT !.todo = Rest(s), !.mark = FALSE]
      BY <3>1, SetGives
    <3>4. sweep'[s].at = "older" /\ e \in sweep'[s].todo
      BY <1>0, <1>1, <1>3, <3>2, <3>3 DEF Rest, Records
    <3>. QED BY <3>4 DEF Listed
  <2>3. CASE ~(Process(s) \/ Mark(s))
    BY <1>1, <1>3, <2>3
       DEF Run, QueryFails, Start, QueryOlder, SelectOlder, QueryExpired, ReadyFor,
           SelectExpired, Ignore, End, StartFails, SelectOlderFails, SelectExpiredFails
  <2>. QED BY <2>1, <2>2, <2>3
<1>. QED BY <1>2, <1>3

LEMMA AwaitedKept ==
    ASSUME Typed, MarkOK, NEW s \in Sweep, "throws" \notin Verdicts, Awaited,
           Run(s) \/ SelectExpiredFails(s), ~SelectOlder(s)
    PROVE  Awaited'
<1>0. sweep[s] \in Records
  BY DEF Typed
<1>1. CASE Start(s)
  <2>1. [Asleep EXCEPT !.at = "fresh", !.todo = FirstOf(FreshFor(s))].at = "fresh"
    BY DEF Asleep
  <2>2. sweep'[s] = [Asleep EXCEPT !.at = "fresh", !.todo = FirstOf(FreshFor(s))]
    BY <1>1, SetGives DEF Start
  <2>. QED BY <2>1, <2>2 DEF Awaited
<1>2. CASE QueryOlder(s)
  <2>1. sweep'[s] = [sweep[s] EXCEPT !.at = "olderQuery", !.from = cursor]
    BY <1>2, SetGives DEF QueryOlder
  <2>2. sweep'[s].at = "olderQuery"
    BY <1>0, <2>1 DEF Records
  <2>. QED BY <2>2 DEF Awaited
<1>3. ASSUME due' = due, NEW r, Set(s, r),
             sweep[s].at \in {"fresh", "olderQuery"} => r.at = sweep[s].at
      PROVE  Awaited'
  BY <1>3, SetGives DEF Awaited
<1>4. CASE Process(s)
  <2>1. Current(s) \in Event
    BY <1>4, LeastEvent DEF Process, Current, Typed, Records
  <2>2. verdict[Current(s)] # "throws"
    BY <2>1 DEF Typed
  <2>3. /\ \/ Set(s, [sweep[s] EXCEPT !.mark = TRUE])
           \/ Set(s, [sweep[s] EXCEPT !.todo = Rest(s)])
        /\ due' = due
    BY <1>4, <2>2 DEF Process
  <2>4. /\ [sweep[s] EXCEPT !.mark = TRUE].at = sweep[s].at
        /\ [sweep[s] EXCEPT !.todo = Rest(s)].at = sweep[s].at
    BY <1>0 DEF Records
  <2>. QED BY <1>3, <2>3, <2>4
<1>5. CASE Mark(s)
  <2>1. [sweep[s] EXCEPT !.todo = Rest(s), !.mark = FALSE].at = sweep[s].at
    BY <1>0 DEF Records
  <2>. QED BY <1>3, <1>5, <2>1 DEF Mark
<1>6. CASE QueryExpired(s) \/ SelectExpired(s) \/ Ignore(s) \/ End(s) \/ SelectExpiredFails(s)
  <2>1. /\ due' = due /\ sweep[s].at \notin {"fresh", "olderQuery"}
        /\ \E r : Set(s, r)
    BY <1>6 DEF QueryExpired, SelectExpired, Ignore, End, SelectExpiredFails, ReadyFor
  <2>. QED BY <1>3, <2>1
<1>. QED BY <1>1, <1>2, <1>4, <1>5, <1>6 DEF Run

\* The choice of the older events: the event is among them, or as many as a batch
\* in front of it are.
LEMMA ChosenOrNearer ==
    ASSUME Typed, Typed', Calm, CursorOK, NEW Pass \in Nat, NEW s \in Sweep, SelectOlder(s),
           NEW e \in Event, Untried(e), age[e] > Window, InTime(Pass, e)
    PROVE  InTime(Pass, e)'
<1>. DEFINE S == {d \in Waiting : cursor < d}
            found == FirstOf(S)
<1>0. sweep[s] \in Records
  BY DEF Typed
<1>1. sweep[s].at = "olderQuery" /\ OlderFor(s, sweep[s].from) = S
  BY OlderIsWaiting DEF SelectOlder
<1>2. /\ cursor' = IF found = {} THEN 0 ELSE Max(found)
      /\ Set(s, [sweep[s] EXCEPT !.at = "older", !.todo = found])
      /\ UNCHANGED <<status, age, due, tried, faults>>
  BY <1>1 DEF SelectOlder
<1>3. S \in SUBSET Event
  BY AheadIsFinite
<1>4. /\ found \subseteq S
      /\ S # {} => found # {}
      /\ \A d \in S \ found : Cardinality(found) >= Batch /\ \A c \in found : c < d
  BY <1>3, BatchOf
<1>5. ~Listed(e)
  BY <1>1 DEF Calm, Listed
<1>6. cursor < e /\ Cardinality(Ahead(e)) <= Batch * Left(Pass, e) /\ age[e] <= MaxAge
  BY <1>5 DEF InTime
<1>7. e \in S
  BY <1>6, SizeAssumption DEF Waiting, Received, Untried, Typed, OldestAge
<1>. HIDE DEF found, S
<1>8. CASE e \in found
  <2>1. sweep'[s] = [sweep[s] EXCEPT !.at = "older", !.todo = found]
    BY <1>2, SetGives
  <2>2. sweep'[s].at = "older" /\ e \in sweep'[s].todo
    BY <1>0, <1>8, <2>1 DEF Records
  <2>3. Listed(e)' /\ age'[e] <= MaxAge
    BY <1>2, <1>6, <2>2 DEF Listed
  <2>. QED BY <2>3 DEF InTime
<1>9. CASE e \notin found
  <2>1. Cardinality(found) >= Batch /\ \A c \in found : c < e
    BY <1>4, <1>7, <1>9
  <2>2. Max(found) \in found /\ \A c \in found : c <= Max(found)
    BY <1>3, <1>4, <1>7, GreatestEvent
  <2>3. cursor' = Max(found) /\ cursor' < e /\ cursor' \in Event
    BY <1>2, <1>3, <1>4, <1>7, <2>1, <2>2
  <2>4. cursor < cursor'
    BY <1>4, <2>2, <2>3 DEF S
  <2>5. found \subseteq Ahead(e)
    <3>1. ASSUME NEW c \in found PROVE c <= e
      <4>1. c < e /\ c \in Int /\ e \in Int
        BY <1>3, <1>4, <2>1 DEF Event
      <4>. QED BY <4>1
    <3>. QED BY <1>4, <3>1 DEF S, Ahead
  <2>6. Ahead(e)' \subseteq Ahead(e) \ found
    <3>1. ASSUME NEW d \in Ahead(e)' PROVE d \in Ahead(e) /\ d \notin found
      <4>1. d \in Event /\ d \in Waiting /\ cursor' < d /\ d <= e
        BY <1>2, <3>1 DEF Ahead, Waiting, Received
      <4>2. cursor < d
        BY <2>3, <2>4, <4>1, SizeAssumption DEF Event, Typed
      <4>3. d \notin found
        BY <2>2, <2>3, <4>1 DEF Event
      <4>. QED BY <4>1, <4>2, <4>3 DEF Ahead
    <3>. QED BY <3>1
  <2>7. /\ Cardinality(Ahead(e)') <= Cardinality(Ahead(e) \ found)
        /\ Cardinality(Ahead(e) \ found) = Cardinality(Ahead(e)) - Cardinality(found)
        /\ Cardinality(Ahead(e)') \in Nat /\ Cardinality(Ahead(e)) \in Nat
        /\ Cardinality(found) \in Nat
    <3>1. Ahead(e) \in SUBSET Event /\ Ahead(e) \ found \in SUBSET Event
          /\ Ahead(e)' \in SUBSET Event /\ found \in SUBSET Event
      BY <2>5, <2>6, AheadIsFinite
    <3>2. Ahead(e) \cap found = found
      BY <2>5
    <3>. HIDE DEF found
    <3>3. Cardinality(Ahead(e) \ found) = Cardinality(Ahead(e)) - Cardinality(found)
      BY <3>1, <3>2, EventsAreFinite, FS_Difference
    <3>. QED BY <2>6, <3>1, <3>3, EventsAreFinite, FewerEvents
  <2>8. Left(Pass, e) - 1 <= Left(Pass, e)'
    BY <1>2, LeftIsInt, LeftIsIntNext, SizeAssumption DEF Left
  <2>9. Left(Pass, e) \in Int /\ Left(Pass, e)' \in Int
    BY LeftIsInt, LeftIsIntNext
  <2>10. Batch * (Left(Pass, e) - 1) <= Batch * Left(Pass, e)'
    BY <2>8, <2>9, Scaled, SizeAssumption
  <2>11. /\ Batch * (Left(Pass, e) - 1) = Batch * Left(Pass, e) - Batch
         /\ Batch * Left(Pass, e) \in Int /\ Batch * Left(Pass, e)' \in Int
    BY <2>9, SizeAssumption
  <2>12. Cardinality(Ahead(e)') <= Batch * Left(Pass, e)'
    BY <1>6, <2>1, <2>7, <2>10, <2>11, SizeAssumption
  <2>. QED BY <1>2, <1>6, <2>3, <2>12 DEF InTime
<1>. QED BY <1>8, <1>9
\* A sweep that the event loses costs no more than the pass set aside for a query
\* that fails.
LEMMA FaultPaidFor ==
    ASSUME Typed, Typed', NEW Pass \in Nat \ {0}, NEW e \in Event, Fault, UNCHANGED age
    PROVE  /\ Left(Pass, e) - 1 + Pass <= Left(Pass, e)'
           /\ Awaited \/ Left(Pass, e) + Pass <= Left(Pass, e)'
<1>1. faults = faults' + 1 /\ faults' \in Nat /\ age[e] \in Nat
  BY LeftIsInt, LeftIsIntNext DEF Fault
<1>2. Pass * faults = Pass * faults' + Pass
  BY <1>1
<1>3. PICK v \in {0, 1} : /\ Left(Pass, e) = MaxAge - age[e] + v - Pass * faults
                          /\ v = 1 => Awaited
  BY DEF Left
<1>4. PICK w \in {0, 1} : Left(Pass, e)' = MaxAge - age[e] + w - Pass * faults'
  BY DEF Left
<1>5. Pass * faults' \in Nat
  BY <1>1, Product
<1>. HIDE DEF Left
<1>6. Left(Pass, e) - 1 + Pass <= Left(Pass, e)'
  BY <1>1, <1>2, <1>3, <1>4, <1>5, SizeAssumption
<1>7. ASSUME ~Awaited PROVE Left(Pass, e) + Pass <= Left(Pass, e)'
  <2>1. v = 0
    BY <1>3, <1>7
  <2>. QED BY <1>1, <1>2, <1>3, <1>4, <1>5, <2>1, SizeAssumption
<1>. QED BY <1>6, <1>7

LEMMA BackToTheStart ==
    ASSUME Typed, Typed', Calm, NEW Pass \in Nat \ {0}, NEW Backlog \in Nat,
           TimeForAll(Pass, Backlog), BacklogWithin(Backlog),
           NEW s \in Sweep, sweep[s].at = "olderQuery", Fault, cursor' = 0,
           UNCHANGED <<status, age>>,
           NEW e \in Event, Untried(e), age[e] > Window, InTime(Pass, e)
    PROVE  InTime(Pass, e)'
<1>1. ~Listed(e)
  BY DEF Calm, Listed
<1>2. Left(Pass, e) >= 1 /\ age[e] <= MaxAge
  BY <1>1, SomeLeft DEF InTime
<1>3. Pass <= Left(Pass, e)'
  <2>1. Left(Pass, e) - 1 + Pass <= Left(Pass, e)'
    BY FaultPaidFor
  <2>2. Left(Pass, e) \in Int /\ Left(Pass, e)' \in Int
    BY LeftIsInt, LeftIsIntNext
  <2>. QED BY <1>2, <2>1, <2>2
<1>4. Batch * Pass <= Batch * Left(Pass, e)'
  <2>1. Left(Pass, e)' \in Int
    BY LeftIsIntNext
  <2>2. Batch \in Nat /\ Pass \in Int
    BY SizeAssumption
  <2>. QED BY <1>3, <2>1, <2>2, Scaled
<1>5. Ahead(e)' \subseteq Waiting
  BY DEF Ahead, Waiting, Received
<1>6. /\ Cardinality(Ahead(e)') <= Cardinality(Waiting)
      /\ Cardinality(Ahead(e)') \in Nat /\ Cardinality(Waiting) \in Nat
  BY <1>5, AheadIsFinite, FewerEvents, EventsAreFinite
<1>7. Batch * Left(Pass, e)' \in Int /\ Batch * Pass \in Int
  BY LeftIsIntNext, SizeAssumption
<1>8. Cardinality(Ahead(e)') <= Batch * Left(Pass, e)'
  BY <1>4, <1>6, <1>7, SizeAssumption DEF TimeForAll, BacklogWithin
<1>9. cursor' < e /\ age'[e] <= MaxAge
  BY <1>2 DEF Event
<1>. QED BY <1>8, <1>9 DEF InTime

LEMMA SweepInTime ==
    ASSUME Typed, Typed', Calm, CursorOK, MarkOK, NEW Pass \in Nat \ {0}, NEW Backlog \in Nat,
           TimeForAll(Pass, Backlog), BacklogWithin(Backlog),
           NEW s \in Sweep, Run(s) \/ QueryFails(s),
           NEW e \in Event, Untried(e)', age'[e] > Window, Untried(e) => InTime(Pass, e)
    PROVE  InTime(Pass, e)'
<1>1. UNCHANGED age
  BY SweepSteps
<1>2. \A d \in Event : status'[d] = "received" => status[d] = "received"
  BY SweepRetires
<1>3. tried \subseteq tried'
  BY DEF Run, QueryFails, Start, Process, Mark, QueryOlder, SelectOlder, QueryExpired,
         SelectExpired, Ignore, End, StartFails, SelectOlderFails, SelectExpiredFails
<1>4. Untried(e) /\ age[e] > Window /\ InTime(Pass, e)
  BY <1>1, <1>2, <1>3 DEF Untried
<1>5. Listed(e) => Listed(e)'
  BY ListedKept DEF TimeForAll
<1>6. ASSUME cursor' = cursor, Left(Pass, e) <= Left(Pass, e)' PROVE InTime(Pass, e)'
  BY <1>1, <1>2, <1>4, <1>5, <1>6, StaysInTime
<1>7. CASE SelectOlder(s)
  BY <1>4, <1>7, ChosenOrNearer
<1>8. CASE Run(s) /\ ~SelectOlder(s)
  <2>1. UNCHANGED <<cursor, faults>>
    BY <1>8 DEF Run, Start, Process, Mark, QueryOlder, QueryExpired, SelectExpired, Ignore, End
  <2>2. Awaited => Awaited'
    BY <1>8, AwaitedKept DEF TimeForAll
  <2>3. Left(Pass, e) <= Left(Pass, e)'
    <3>1. PICK v \in {0, 1} : /\ Left(Pass, e) = MaxAge - age[e] + v - Pass * faults
                              /\ v = 1 => Awaited
      BY DEF Left
    <3>2. PICK w \in {0, 1} : /\ Left(Pass, e)' = MaxAge - age[e] + w - Pass * faults
                              /\ w = 0 => ~Awaited'
      BY <1>1, <2>1 DEF Left
    <3>3. v <= w
      BY <2>2, <3>1, <3>2
    <3>. QED BY <3>1, <3>2, <3>3, LeftIsInt, SizeAssumption
  <2>. QED BY <1>6, <2>1, <2>3
<1>9. CASE StartFails(s)
  <2>1. cursor' = cursor /\ Fault
    BY <1>9 DEF StartFails
  <2>2. Left(Pass, e) <= Left(Pass, e)'
    BY <1>1, <2>1, FaultPaidFor, LeftIsInt, LeftIsIntNext
  <2>. QED BY <1>6, <2>1, <2>2
<1>10. CASE SelectOlderFails(s)
  <2>1. Fault /\ sweep[s].at = "olderQuery" /\ UNCHANGED status
    BY <1>10 DEF SelectOlderFails
  <2>2. CASE cursor' = cursor
    <3>1. Left(Pass, e) <= Left(Pass, e)'
      BY <1>1, <2>1, FaultPaidFor, LeftIsInt, LeftIsIntNext
    <3>. QED BY <1>6, <2>2, <3>1
  <2>3. CASE cursor' = 0
    BY <1>1, <1>4, <2>1, <2>3, BackToTheStart
  <2>. QED BY <1>10, <2>2, <2>3 DEF SelectOlderFails
<1>11. CASE SelectExpiredFails(s)
  <2>1. cursor' = cursor /\ Fault
    BY <1>11 DEF SelectExpiredFails
  <2>2. Left(Pass, e) <= Left(Pass, e)'
    BY <1>1, <2>1, FaultPaidFor, LeftIsInt, LeftIsIntNext
  <2>. QED BY <1>6, <2>1, <2>2
<1>. QED BY <1>7, <1>8, <1>9, <1>10, <1>11 DEF QueryFails

-----------------------------------------------------------------------------
(* The next period *)

LEMMA TickAges ==
    ASSUME Typed, Tick, NEW e \in Event
    PROVE  /\ age'[e] = IF status[e] # "absent" /\ age[e] < OldestAge
                        THEN age[e] + 1 ELSE age[e]
           /\ age[e] \in Nat /\ age[e] <= OldestAge /\ age[e] <= age'[e] /\ age'[e] \in Nat
<1>1. age[e] \in Nat /\ age[e] <= OldestAge
  BY SizeAssumption DEF Typed, OldestAge
<1>2. age'[e] = IF status[e] # "absent" /\ age[e] < OldestAge THEN age[e] + 1 ELSE age[e]
  BY DEF Tick
<1>. QED BY <1>1, <1>2

LEMMA TickKeepsAges == ASSUME Typed, Ages, Tick PROVE Ages'
<1>1. UNCHANGED status
  BY DEF Tick
<1>2. \A e \in Event : status[e] = "absent" => age'[e] = 0
  BY TickAges DEF Ages
<1>3. ASSUME NEW d \in Event, NEW e \in Event, d < e PROVE age'[e] <= age'[d]
  <2>1. age[e] <= age[d] /\ (status[d] = "absent" => status[e] = "absent")
    BY <1>3 DEF Ages
  <2>2. OldestAge \in Nat
    BY SizeAssumption DEF OldestAge
  <2>3. /\ age'[d] = IF status[d] # "absent" /\ age[d] < OldestAge
                     THEN age[d] + 1 ELSE age[d]
        /\ age'[e] = IF status[e] # "absent" /\ age[e] < OldestAge
                     THEN age[e] + 1 ELSE age[e]
        /\ age[d] \in Nat /\ age[e] \in Nat /\ age[e] <= OldestAge /\ age[d] <= OldestAge
    BY TickAges
  <2>. QED BY <2>1, <2>2, <2>3
<1>. QED BY <1>1, <1>2, <1>3 DEF Ages

LEMMA TickIdle ==
    ASSUME Typed, Calm, Tick, MaxLag = 0
    PROVE  /\ \A s \in Sweep : sweep[s].at = "idle"
           /\ UNCHANGED sweep /\ ~due /\ due' /\ ~Awaited /\ Awaited'
<1>1. \A s \in Sweep : sweep[s].at = "idle"
  BY DEF Tick, Calm
<1>2. sweep' = sweep
  BY <1>1 DEF Tick, Typed
<1>3. ~due /\ due'
  BY DEF Tick
<1>. QED BY <1>1, <1>2, <1>3 DEF Awaited

LEMMA TickInTime ==
    ASSUME Typed, Typed', Calm, Ages, CursorOK, NEW Pass \in Nat \ {0}, NEW Backlog \in Nat,
           TimeForAll(Pass, Backlog), BacklogWithin(Backlog)', Tick,
           NEW e \in Event, Untried(e), age'[e] > Window,
           age[e] > Window => InTime(Pass, e)
    PROVE  InTime(Pass, e)'
<1>0. UNCHANGED <<status, cursor, faults>>
  BY DEF Tick
<1>1. ~Listed(e) /\ ~Awaited /\ Awaited'
  BY TickIdle DEF TimeForAll, Listed
<1>2. /\ age'[e] = IF age[e] < OldestAge THEN age[e] + 1 ELSE age[e]
      /\ age[e] \in Nat /\ age[e] <= OldestAge
  BY TickAges DEF Untried
<1>3. /\ Left(Pass, e) = MaxAge - age[e] - Pass * faults
      /\ Left(Pass, e)' = MaxAge - age'[e] + 1 - Pass * faults
      /\ Pass * faults \in Nat /\ faults \in 0 .. MaxFaults
  <2>1. Left(Pass, e) = MaxAge - age[e] + 0 - Pass * faults
    BY <1>1 DEF Left
  <2>2. Left(Pass, e)' = MaxAge - age'[e] + 1 - Pass * faults
    BY <1>0, <1>1 DEF Left
  <2>3. Pass * faults \in Nat /\ faults \in 0 .. MaxFaults
    BY LeftIsInt DEF Typed
  <2>. QED BY <1>2, <2>1, <2>2, <2>3, SizeAssumption
<1>4. CASE age[e] > Window
  <2>1. /\ cursor < e /\ Cardinality(Ahead(e)) <= Batch * Left(Pass, e)
        /\ Left(Pass, e) >= 1
    BY <1>1, <1>4, SomeLeft
  <2>2. age[e] + 1 <= MaxAge /\ age[e] < OldestAge
    BY <1>2, <1>3, <2>1, SizeAssumption DEF OldestAge
  <2>3. age'[e] = age[e] + 1 /\ age'[e] <= MaxAge /\ Left(Pass, e)' = Left(Pass, e)
    BY <1>2, <1>3, <2>2, SizeAssumption
  <2>4. Ahead(e)' \subseteq Ahead(e)
    <3>1. ASSUME NEW d \in Ahead(e)' PROVE d \in Ahead(e)
      <4>1. /\ d \in Event /\ status[d] = "received" /\ cursor < d /\ d <= e
            /\ age'[d] <= MaxAge
        BY <1>0, <3>1 DEF Ahead, Waiting, Received
      <4>2. age[e] <= age[d]
        <5>1. CASE d = e
          BY <1>2, <5>1
        <5>2. CASE d < e
          BY <4>1, <5>2 DEF Ages
        <5>. QED BY <4>1, <5>1, <5>2 DEF Event
      <4>3. age[d] \in Nat /\ age[d] <= age'[d] /\ age'[d] \in Nat
        BY <4>1, TickAges
      <4>4. Window < age[d] /\ age[d] <= MaxAge
        BY <1>2, <1>4, <4>1, <4>2, <4>3, SizeAssumption
      <4>. QED BY <4>1, <4>4 DEF Ahead, Waiting, Received
    <3>. QED BY <3>1
  <2>5. /\ Cardinality(Ahead(e)') <= Cardinality(Ahead(e))
        /\ Cardinality(Ahead(e)') \in Nat /\ Cardinality(Ahead(e)) \in Nat
    BY <2>4, AheadIsFinite, FewerEvents, EventsAreFinite
  <2>6. Batch * Left(Pass, e) \in Int
    BY LeftIsInt, SizeAssumption
  <2>7. Cardinality(Ahead(e)') <= Batch * Left(Pass, e)'
    BY <2>1, <2>3, <2>5, <2>6
  <2>. QED BY <1>0, <2>1, <2>3, <2>7 DEF InTime
<1>5. CASE ~(age[e] > Window)
  <2>1. age'[e] = Window + 1 /\ age[e] <= Window
    BY <1>2, <1>5, SizeAssumption
  <2>2. age'[e] <= MaxAge
    BY <2>1, SizeAssumption
  <2>3. cursor < e
    <3>1. CASE cursor = 0
      BY <3>1 DEF Event
    <3>2. CASE cursor # 0
      <4>1. cursor \in Event /\ age[cursor] > Window
        BY <3>2, SizeAssumption DEF Typed, CursorOK, Event
      <4>2. age[cursor] \in Nat
        BY <4>1, TickAges
      <4>3. ~(age[cursor] <= age[e])
        BY <1>2, <2>1, <4>1, <4>2, SizeAssumption
      <4>4. cursor # e /\ ~(e < cursor)
        BY <1>2, <4>1, <4>3 DEF Ages
      <4>. QED BY <4>1, <4>4 DEF Event
    <3>. QED BY <3>1, <3>2
  <2>4. Ahead(e)' \in SUBSET Waiting' /\ Waiting' \in SUBSET Event
    BY DEF Ahead, Waiting, Received
  <2>5. /\ Cardinality(Ahead(e)') <= Cardinality(Waiting')
        /\ Cardinality(Ahead(e)') \in Nat /\ Cardinality(Waiting') \in Nat
    BY <2>4, FewerEvents, EventsAreFinite
  <2>6. Pass <= Left(Pass, e)'
    <3>1. Left(Pass, e)' = MaxAge - Window - Pass * faults
      BY <1>3, <2>1, SizeAssumption
    <3>2. Pass * faults <= Pass * MaxFaults
      BY <1>3, Scaled, SizeAssumption
    <3>3. (MaxFaults + 1) * Pass = Pass * MaxFaults + Pass
      BY SizeAssumption
    <3>4. Pass * MaxFaults \in Nat
      BY Product, SizeAssumption
    <3>5. Pass * MaxFaults + Pass <= MaxAge - Window
      BY <3>3 DEF TimeForAll
    <3>. QED BY <1>3, <3>1, <3>2, <3>4, <3>5, SizeAssumption
  <2>7. Batch * Pass <= Batch * Left(Pass, e)'
    <3>1. Left(Pass, e)' \in Int
      BY LeftIsIntNext
    <3>2. Batch \in Nat /\ Pass \in Int
      BY SizeAssumption
    <3>. QED BY <2>6, <3>1, <3>2, Scaled
  <2>8. Batch * Left(Pass, e)' \in Int /\ Batch * Pass \in Int
    BY LeftIsIntNext, SizeAssumption
  <2>9. Cardinality(Ahead(e)') <= Batch * Left(Pass, e)'
    BY <2>5, <2>7, <2>8, SizeAssumption DEF TimeForAll, BacklogWithin
  <2>. QED BY <1>0, <2>2, <2>3, <2>9 DEF InTime
<1>. QED BY <1>4, <1>5
-----------------------------------------------------------------------------
(* The invariant *)

LEMMA RetryInvInit ==
    ASSUME Init, NEW Pass \in Nat \ {0}
    PROVE  RetryInv(Pass)
<1>1. Typed
  BY InitTyped
<1>2. Calm /\ CursorOK /\ MarkOK /\ TodoOK
  BY DEF Init, Asleep, Calm, CursorOK, MarkOK, TodoOK
<1>3. Ages
  BY DEF Init, Ages
<1>4. \A e \in Event : ~Untried(e) /\ status[e] # "ignored"
  BY DEF Init, Untried
<1>. QED BY <1>1, <1>2, <1>3, <1>4 DEF RetryInv, TriedBeforeIgnored

\* The surroundings change rows one at a time and leave the sweeps as they are.
LEMMA SurroundingsKeep ==
    ASSUME NEW Pass \in Nat \ {0}, RetryInv(Pass), NEW d \in Event,
           Post(d) \/ Recover(d) \/ Drain(d) \/ LiveMark(d)
    PROVE  RetryInv(Pass)'
<1>0. Typed /\ Typed' /\ Ages
  BY NextTyped DEF RetryInv, Next
<1>1. UNCHANGED <<age, cursor, sweep, due, faults>> /\ tried \subseteq tried'
  BY DEF Post, Recover, Drain, LiveMark
<1>2. Calm' /\ CursorOK' /\ MarkOK' /\ TodoOK'
  BY <1>1 DEF RetryInv, Calm, CursorOK, MarkOK, TodoOK
<1>3. \A e \in Event : /\ status'[e] = "received" => status[e] = "received" \/ age[e] = 0
                       /\ status'[e] = "absent" => status[e] = "absent"
  <2>1. CASE Post(d)
    BY <1>0, <2>1 DEF Post, Typed, Ages
  <2>2. CASE Recover(d)
    BY <2>2 DEF Recover
  <2>3. CASE Drain(d)
    BY <1>0, <2>3, RetireNeverAbsent DEF Drain
  <2>4. CASE LiveMark(d)
    BY <1>0, <2>4 DEF LiveMark, Typed
  <2>. QED BY <2>1, <2>2, <2>3, <2>4
<1>4. Ages'
  <2>1. CASE Post(d)
    <3>1. ASSUME NEW c \in Event, NEW e \in Event, c < e, status'[c] = "absent"
          PROVE  status'[e] = "absent"
      <4>1. status[c] = "absent" /\ c # d
        BY <1>0, <2>1, <3>1 DEF Post, Typed
      <4>2. status[e] = "absent"
        BY <1>0, <3>1, <4>1 DEF Ages
      <4>3. e # d
        BY <2>1, <3>1, <4>1 DEF Post, Event
      <4>. QED BY <1>0, <2>1, <4>2, <4>3 DEF Post, Typed
    <3>2. \A e \in Event : status'[e] = "absent" => age[e] = 0
      BY <1>0, <1>3 DEF Ages
    <3>. QED BY <1>0, <1>1, <3>1, <3>2 DEF Ages
  <2>2. CASE Recover(d) \/ Drain(d)
    <3>1. \A e \in Event : status'[e] = "absent" <=> status[e] = "absent"
      BY <1>0, <2>2, RetireNeverAbsent DEF Recover, Drain
    <3>. QED BY <1>0, <1>1, <3>1, AgesKept
  <2>3. CASE LiveMark(d)
    <3>1. \A e \in Event : status'[e] = "absent" <=> status[e] = "absent"
      BY <1>0, <2>3 DEF LiveMark, Typed
    <3>. QED BY <1>0, <1>1, <3>1, AgesKept
  <2>. QED BY <2>1, <2>2, <2>3
<1>5. ASSUME NEW e \in Event, Untried(e)', age'[e] > Window PROVE InTime(Pass, e)'
  <2>1. status[e] = "received"
    BY <1>1, <1>3, <1>5, SizeAssumption DEF Untried
  <2>2. InTime(Pass, e)
    BY <1>1, <1>5, <2>1 DEF RetryInv, Untried
  <2>3. Listed(e) => Listed(e)'
    BY <1>1 DEF Listed
  <2>4. Left(Pass, e) <= Left(Pass, e)'
    <3>1. Left(Pass, e)' = Left(Pass, e)
      BY <1>1 DEF Left, Awaited
    <3>. QED BY <1>0, <3>1, LeftIsInt
  <2>5. \A c \in Event : status'[c] = "received" => status[c] = "received" \/ age[c] <= Window
    BY <1>3, SizeAssumption
  <2>. QED BY <1>0, <1>1, <2>2, <2>3, <2>4, <2>5, StaysInTime
<1>6. TriedBeforeIgnored'
  <2>1. ASSUME NEW e \in Event, status'[e] = "ignored", status[e] # "ignored" PROVE e \in tried'
    <3>1. Drain(d)
      BY <1>0, <2>1 DEF Post, Recover, LiveMark, Typed
    <3>2. e = d /\ status[d] = "received" /\ (age[d] > MaxAge \/ d \in tried')
      BY <1>0, <2>1, <3>1, RetireNeverAbsent DEF Drain
    <3>3. CASE age[d] > MaxAge
      <4>1. age[d] > Window /\ ~(age[d] <= MaxAge)
        BY <1>0, <3>3, SizeAssumption DEF Typed, OldestAge
      <4>2. ~Untried(d)
        BY <4>1 DEF RetryInv, InTime
      <4>. QED BY <1>1, <3>2, <4>2 DEF Untried
    <3>. QED BY <3>2, <3>3
  <2>. QED BY <1>1, <2>1 DEF RetryInv, TriedBeforeIgnored
<1>. QED BY <1>0, <1>2, <1>4, <1>5, <1>6 DEF RetryInv

LEMMA TickKeeps ==
    ASSUME NEW Pass \in Nat \ {0}, NEW Backlog \in Nat, RetryInv(Pass),
           TimeForAll(Pass, Backlog), BacklogWithin(Backlog)', Tick
    PROVE  RetryInv(Pass)'
<1>0. Typed /\ Typed' /\ Calm /\ Ages /\ CursorOK
  BY NextTyped DEF RetryInv, Next
<1>1. /\ \A s \in Sweep : sweep[s].at = "idle"
      /\ UNCHANGED <<status, cursor, sweep, tried>>
  BY <1>0, TickIdle DEF TimeForAll, Tick
<1>2. Calm' /\ MarkOK' /\ TodoOK'
  BY <1>1 DEF RetryInv, Calm, MarkOK, TodoOK
<1>3. CursorOK'
  <2>1. ASSUME cursor # 0 PROVE age'[cursor] > Window
    <3>1. cursor \in Event /\ age[cursor] > Window
      BY <1>0, <2>1, SizeAssumption DEF Typed, CursorOK, Event
    <3>2. age[cursor] \in Nat /\ age'[cursor] \in Nat /\ age[cursor] <= age'[cursor]
      BY <1>0, <3>1, TickAges
    <3>. QED BY <3>1, <3>2, SizeAssumption
  <2>. QED BY <1>1, <2>1 DEF CursorOK
<1>4. Ages'
  BY <1>0, TickKeepsAges
<1>5. ASSUME NEW e \in Event, Untried(e)', age'[e] > Window PROVE InTime(Pass, e)'
  <2>1. Untried(e) /\ (age[e] > Window => InTime(Pass, e))
    BY <1>1, <1>5 DEF Untried, RetryInv
  <2>. QED BY <1>0, <1>5, <2>1, TickInTime
<1>6. TriedBeforeIgnored'
  BY <1>1 DEF RetryInv, TriedBeforeIgnored
<1>. QED BY <1>0, <1>2, <1>3, <1>4, <1>5, <1>6 DEF RetryInv

LEMMA SweepKeeps ==
    ASSUME NEW Pass \in Nat \ {0}, NEW Backlog \in Nat, RetryInv(Pass),
           TimeForAll(Pass, Backlog), BacklogWithin(Backlog),
           NEW s \in Sweep, Run(s) \/ QueryFails(s)
    PROVE  RetryInv(Pass)'
<1>0. Typed /\ Typed' /\ Calm /\ Ages /\ CursorOK /\ MarkOK /\ TodoOK
  BY NextTyped DEF RetryInv, Next
<1>1. PICK r : /\ Set(s, r) /\ r.lag = 0
               /\ \/ sweep[s].at # "idle" /\ due' = due
                  \/ due /\ due' = FALSE
               /\ UNCHANGED age
  BY <1>0, SweepSteps
<1>2. Calm'
  BY <1>0, <1>1, CalmKept
<1>3. CursorOK' /\ MarkOK'
  BY <1>0, CursorKept, MarkKept
<1>4. TodoOK'
  <2>1. ASSUME NEW e \in Received, age[e] - sweep[s].lag > MaxAge PROVE e \in tried
    <3>1. e \in Event /\ sweep[s].lag = 0 /\ age[e] \in Nat
      BY <1>0, <2>1, SizeAssumption DEF Received, Calm, Typed, OldestAge
    <3>2. age[e] > Window /\ ~(age[e] <= MaxAge)
      BY <2>1, <3>1, SizeAssumption
    <3>3. ~Untried(e)
      BY <3>1, <3>2 DEF RetryInv, InTime
    <3>. QED BY <2>1, <3>3 DEF Untried, Received
  <2>. QED BY <1>0, <2>1, TodoKept
<1>5. Ages'
  BY <1>0, <1>1, SweepRetires, AgesKept
<1>6. ASSUME NEW e \in Event, Untried(e)', age'[e] > Window PROVE InTime(Pass, e)'
  <2>1. Untried(e) => InTime(Pass, e)
    BY <1>1, <1>6 DEF RetryInv
  <2>. QED BY <1>0, <1>6, <2>1, SweepInTime
<1>7. TriedBeforeIgnored'
  <2>1. tried \subseteq tried'
    BY DEF Run, QueryFails, Start, Process, Mark, QueryOlder, SelectOlder, QueryExpired,
           SelectExpired, Ignore, End, StartFails, SelectOlderFails, SelectExpiredFails
  <2>2. ASSUME NEW e \in Event, status'[e] = "ignored" PROVE e \in tried
    <3>1. \/ status[e] = "ignored"
          \/ sweep[s].at = "expired" /\ e \in sweep[s].todo
      BY <1>0, <2>2, SweepRetires
    <3>. QED BY <1>0, <3>1 DEF RetryInv, TriedBeforeIgnored, TodoOK
  <2>. QED BY <2>1, <2>2 DEF TriedBeforeIgnored
<1>. QED BY <1>0, <1>2, <1>3, <1>4, <1>5, <1>6, <1>7 DEF RetryInv

LEMMA RetryInvNext ==
    ASSUME NEW Pass \in Nat \ {0}, NEW Backlog \in Nat, TimeForAll(Pass, Backlog),
           RetryInv(Pass), [Next]_vars, BacklogWithin(Backlog), BacklogWithin(Backlog)'
    PROVE  RetryInv(Pass)'
<1>1. CASE UNCHANGED vars
  <2>1. Typed' /\ Calm' /\ Ages' /\ CursorOK' /\ MarkOK' /\ TodoOK' /\ TriedBeforeIgnored'
    BY <1>1 DEF vars, RetryInv, Typed, Calm, Ages, CursorOK, MarkOK, TodoOK, TriedBeforeIgnored
  <2>2. ASSUME NEW e \in Event, Untried(e)', age'[e] > Window PROVE InTime(Pass, e)'
    <3>1. InTime(Pass, e)
      BY <1>1, <2>2 DEF vars, RetryInv, Untried
    <3>. QED BY <1>1, <3>1
            DEF vars, InTime, Listed, Ahead, Waiting, Received, Left, Awaited
  <2>. QED BY <2>1, <2>2 DEF RetryInv
<1>. QED BY <1>1, SurroundingsKeep, TickKeeps, SweepKeeps DEF Next

\* No callback is given up unread: while the callbacks older than the window fit
\* into Pass batches, and the life of a callback leaves a pass of sweeps after the
\* window (and one more for every query that may fail), each is handed to
\* processMpesaCallback before it expires, in whatever order the others fail,
\* settle or are drained, and however many come behind it.
THEOREM RetriedBeforeGivenUp ==
    ASSUME NEW CONSTANT Pass \in Nat \ {0}, NEW CONSTANT Backlog \in Nat,
           TimeForAll(Pass, Backlog)
    PROVE  Init /\ [][Next]_vars /\ []BacklogWithin(Backlog) => []TriedBeforeIgnored
<1>1. Init => RetryInv(Pass)
  BY RetryInvInit
<1>2. RetryInv(Pass) /\ [Next]_vars /\ BacklogWithin(Backlog) /\ BacklogWithin(Backlog)'
          => RetryInv(Pass)'
  BY RetryInvNext
<1>3. RetryInv(Pass) => TriedBeforeIgnored
  BY DEF RetryInv
<1>. QED BY <1>1, <1>2, <1>3, PTL

\* The same when no more events than Pass batches ever come, as in the model that
\* is checked by enumeration.
THEOREM AllRetriedBeforeGivenUp ==
    ASSUME NEW CONSTANT Pass \in Nat \ {0}, TimeForAll(Pass, LastEvent)
    PROVE  Spec => []TriedBeforeIgnored
<1>1. BacklogWithin(LastEvent)
  <2>1. Cardinality(Event) = LastEvent
    BY FS_Interval, SizeAssumption DEF Event
  <2>2. Waiting \in SUBSET Event /\ Event \in SUBSET Event
    BY DEF Waiting, Received
  <2>. QED BY <2>1, <2>2, FewerEvents DEF BacklogWithin
<1>2. BacklogWithin(LastEvent)'
  <2>1. Cardinality(Event) = LastEvent
    BY FS_Interval, SizeAssumption DEF Event
  <2>2. Waiting' \in SUBSET Event /\ Event \in SUBSET Event
    BY DEF Waiting, Received
  <2>. QED BY <2>1, <2>2, FewerEvents DEF BacklogWithin
<1>3. Init => RetryInv(Pass)
  BY RetryInvInit
<1>4. RetryInv(Pass) /\ [Next]_vars => RetryInv(Pass)'
  <2>1. LastEvent \in Nat
    BY SizeAssumption
  <2>. QED BY <1>1, <1>2, <2>1, RetryInvNext
<1>5. RetryInv(Pass) => TriedBeforeIgnored
  BY DEF RetryInv
<1>. QED BY <1>3, <1>4, <1>5, PTL DEF Spec
=============================================================================
