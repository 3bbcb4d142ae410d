---------------------------- MODULE CoreTimerProofs ----------------------------
(***************************************************************************)
(* The safety of CoreTimer for any backends, timers and bounds.  The       *)
(* inductive invariant counts the emissions of a slot against the two ways *)
(* the jobs core may stand on it (open or final) and the evidence lost.    *)
(***************************************************************************)
EXTENDS CoreTimer, TLAPS

\* A wall clock never shows an instant before the first one.
ClockInv == \A b \in Backend : behind[b] <= mono

\* A loop inside a fire names the identity it fires, and a timer it fires it for.
CurrentInv ==
    \A b \in Backend : pc[b] \in {"record", "dispatch", "confirm"} =>
        current[b] \in Identity /\ todo[b] <= Len(Timers)

\* What the jobs core accepted for a slot is that slot.
AcceptedInv == \A i \in Identity : accepted[i] \in {NoSlot, i[2]}

\* 1 when the latest emission of an identity is confirmed or still open.
Held(i) == IF i \in open \cup final THEN 1 ELSE 0

CountInv ==
    /\ open \cap final = {}
    /\ \A i \in Identity : Len(emissions[i]) <= lost[i] + Held(i)

IInv ==
    /\ TypeOK
    /\ ClockInv
    /\ CurrentInv
    /\ AcceptedInv
    /\ CountInv
    /\ EventCarriesItsSlot

-------------------------------------------------------------------------------
(* Lemmas about the helpers. *)

LEMMA AppendFacts ==
  ASSUME NEW S, NEW s \in Seq(S), NEW e \in S
  PROVE  /\ Append(s, e) \in Seq(S)
         /\ Len(Append(s, e)) = Len(s) + 1
         /\ Len(s) \in Nat
         /\ \A k \in DOMAIN Append(s, e) : k \in DOMAIN s \/ Append(s, e)[k] = e
         /\ \A k \in DOMAIN s : Append(s, e)[k] = s[k]
  <1>1. /\ Append(s, e) \in Seq(S) /\ Len(Append(s, e)) = Len(s) + 1 /\ Len(s) \in Nat
        /\ DOMAIN s = 1..Len(s) /\ DOMAIN Append(s, e) = 1..Len(Append(s, e))
    OBVIOUS
  <1>2. Append(s, e)[Len(s) + 1] = e /\ \A k \in 1..Len(s) : Append(s, e)[k] = s[k]
    OBVIOUS
  <1>3. \A k \in 1..(Len(s) + 1) : k \in 1..Len(s) \/ k = Len(s) + 1
    BY <1>1
  <1> QED
    BY <1>1, <1>2, <1>3

\* The slot that contains an instant begins at or before it.
LEMMA SlotFacts ==
  ASSUME NEW t \in Nat, NEW n \in Nat \ {0}
  PROVE  /\ SlotOf(t, n) \in Nat
         /\ SlotOf(t, n) <= t
         /\ t < SlotOf(t, n) + n
  <1>1. t % n \in 0..(n - 1)
    OBVIOUS
  <1>2. t % n <= t
    OBVIOUS
  <1> QED
    BY <1>1, <1>2 DEF SlotOf

LEMMA TimerFacts ==
  ASSUME NEW n \in DOMAIN Timers
  PROVE  Timers[n].job \in Job /\ Timers[n].every \in Nat \ {0}
  <1> DEFINE S == [job : Job, every : Nat \ {0}]
  <1>1. Timers \in Seq(S)
    BY TimersAssumption DEF TimersAssumption
  <1> HIDE DEF S
  <1>2. Timers[n] \in S
    BY <1>1
  <1> QED
    BY <1>2 DEF S

LEMMA LengthFact == Len(Timers) \in Nat \ {0} /\ DOMAIN Timers = 1..Len(Timers)
  <1>1. Timers \in Seq([job : Job, every : Nat \ {0}]) /\ Timers # <<>>
    BY TimersAssumption DEF TimersAssumption
  <1> QED
    BY <1>1

\* The timer a scan considers is declared, and its due slot is a slot.
LEMMA DueFacts ==
  ASSUME TypeOK, NEW b \in Backend, todo[b] <= Len(Timers)
  PROVE  /\ todo[b] \in DOMAIN Timers
         /\ Timer(b).job \in Job
         /\ DueSlot(b) \in Slot
  <1>1. todo[b] \in DOMAIN Timers
    BY LengthFact DEF TypeOK
  <1>2. Timer(b).job \in Job /\ Timer(b).every \in Nat \ {0}
    BY <1>1, TimerFacts DEF Timer
  <1>3. reading[b] \in Nat /\ reading[b] <= MaxTime
    BY BoundsAssumption DEF TypeOK, Slot, BoundsAssumption
  <1>4. DueSlot(b) \in Nat /\ DueSlot(b) <= reading[b]
    BY <1>2, <1>3, SlotFacts DEF DueSlot
  <1> QED
    BY <1>1, <1>2, <1>3, <1>4, BoundsAssumption DEF Slot, BoundsAssumption

LEMMA WaitFacts ==
  ASSUME TypeOK, NEW b \in Backend, NEW w \in Waits(b)
  PROVE  w \in Nat
  <1>1. PICK n \in DOMAIN Timers :
            w = SlotOf(reading[b], Timers[n].every) + Timers[n].every - reading[b]
    BY DEF Waits
  <1>2. reading[b] \in Nat
    BY BoundsAssumption DEF TypeOK, Slot, BoundsAssumption
  <1>3. Timers[n].every \in Nat \ {0}
    BY <1>1, TimerFacts
  <1> QED
    BY <1>1, <1>2, <1>3, SlotFacts

-------------------------------------------------------------------------------
(* What a step does to the jobs core: at most one of its own steps. *)

Untouched == UNCHANGED <<ledger, lost>>
Accepts(i) == Ledger!Accept(i, i[2]) /\ UNCHANGED lost
Emits(i) == Ledger!Emit(i) /\ UNCHANGED lost
Confirms(i) == Ledger!Confirm(i) /\ UNCHANGED lost

LedgerStep ==
    \/ Untouched
    \/ \E i \in Identity : Accepts(i) \/ Emits(i) \/ Confirms(i) \/ LoseEvidence(i)

LEMMA EveryStepIsALedgerStep ==
  ASSUME IInv, [Next]_vars
  PROVE  LedgerStep
  <1>1. CASE UNCHANGED vars
    BY <1>1 DEF vars, LedgerStep, Untouched, ledger
  <1>2. CASE Tick
    BY <1>2 DEF Tick, LedgerStep, Untouched
  <1>3. ASSUME NEW b \in Backend,
               \/ Start(b) \/ ReadClock(b) \/ SkipAttempted(b) \/ BeginFire(b) \/ Sleep(b)
               \/ Wake(b) \/ FireFails(b) \/ FindDispatched(b) \/ SetBack(b)
        PROVE  LedgerStep
    BY <1>3 DEF Start, ReadClock, SkipAttempted, BeginFire, Sleep, Wake, FireFails,
       FindDispatched, SetBack, LedgerStep, Untouched
  <1>4. ASSUME NEW b \in Backend, Record(b) PROVE LedgerStep
    <2>1. current[b] \in Identity
      BY <1>4 DEF IInv, CurrentInv, Record
    <2>2. Untouched \/ Accepts(current[b])
      BY <1>4 DEF Record, Untouched, Accepts
    <2> QED
      BY <2>1, <2>2 DEF LedgerStep
  <1>5. ASSUME NEW b \in Backend, Dispatch(b) PROVE LedgerStep
    <2>1. current[b] \in Identity /\ Emits(current[b])
      BY <1>5 DEF IInv, CurrentInv, Dispatch, Emits
    <2> QED
      BY <2>1 DEF LedgerStep
  <1>6. ASSUME NEW b \in Backend, Confirm(b) PROVE LedgerStep
    <2>1. current[b] \in Identity /\ Confirms(current[b])
      BY <1>6 DEF IInv, CurrentInv, Confirm, Confirms
    <2> QED
      BY <2>1 DEF LedgerStep
  <1>7. ASSUME NEW b \in Backend, ConfirmFails(b) PROVE LedgerStep
    <2>1. current[b] \in Identity /\ LoseEvidence(current[b])
      BY <1>7 DEF IInv, CurrentInv, ConfirmFails
    <2> QED
      BY <2>1 DEF LedgerStep
  <1>8. ASSUME NEW b \in Backend, Stop(b) PROVE LedgerStep
    <2>1. CASE pc[b] = "confirm"
      <3>1. current[b] \in Identity /\ LoseEvidence(current[b])
        BY <1>8, <2>1 DEF IInv, CurrentInv, Stop
      <3> QED
        BY <3>1 DEF LedgerStep
    <2>2. CASE pc[b] # "confirm"
      BY <1>8, <2>2 DEF Stop, LedgerStep, Untouched
    <2> QED
      BY <2>1, <2>2
  <1> QED
    BY <1>1, <1>2, <1>3, <1>4, <1>5, <1>6, <1>7, <1>8 DEF Next, Loop, Fire

-------------------------------------------------------------------------------
(* The jobs core keeps its part of the invariant. *)

LedgerTyped == Ledger!TypeOK /\ lost \in [Identity -> 0..MaxLost]

LedgerInv == LedgerTyped /\ AcceptedInv /\ CountInv /\ EventCarriesItsSlot

LEMMA IdentityFacts == \A i \in Identity : i[2] \in Slot /\ i[2] # NoSlot
  BY BoundsAssumption DEF Identity, Slot, NoSlot, BoundsAssumption

LEMMA AcceptsLedgerInv ==
  ASSUME LedgerInv, NEW i \in Identity, Accepts(i)
  PROVE  LedgerInv'
  <1>1. /\ accepted' = [accepted EXCEPT ![i] = i[2]]
        /\ emissions' = emissions /\ open' = open /\ final' = final /\ lost' = lost
    BY DEF Accepts, Ledger!Accept
  <1>2. LedgerTyped'
    BY <1>1, IdentityFacts DEF LedgerInv, LedgerTyped, Ledger!TypeOK
  <1>3. AcceptedInv'
    BY <1>1 DEF LedgerInv, LedgerTyped, Ledger!TypeOK, AcceptedInv
  <1>4. CountInv'
    BY <1>1 DEF LedgerInv, CountInv, Held
  <1>5. EventCarriesItsSlot'
    BY <1>1 DEF LedgerInv, EventCarriesItsSlot
  <1> QED
    BY <1>2, <1>3, <1>4, <1>5 DEF LedgerInv

LEMMA EmitsLedgerInv ==
  ASSUME LedgerInv, NEW i \in Identity, Emits(i)
  PROVE  LedgerInv'
  <1>1. /\ accepted[i] # NoSlot /\ i \notin open \cup final
        /\ emissions' = [emissions EXCEPT ![i] = Append(emissions[i], accepted[i])]
        /\ open' = open \cup {i}
        /\ accepted' = accepted /\ final' = final /\ lost' = lost
    BY DEF Emits, Ledger!Emit
  <1>2. accepted[i] = i[2] /\ i[2] \in Slot
    BY <1>1, IdentityFacts DEF LedgerInv, AcceptedInv
  <1>3. emissions[i] \in Seq(Slot) /\ emissions \in [Identity -> Seq(Slot)]
    BY DEF LedgerInv, LedgerTyped, Ledger!TypeOK
  <1> DEFINE e == Append(emissions[i], accepted[i])
  <1>4. /\ e \in Seq(Slot) /\ Len(e) = Len(emissions[i]) + 1 /\ Len(emissions[i]) \in Nat
        /\ \A k \in DOMAIN e : k \in DOMAIN emissions[i] \/ e[k] = i[2]
        /\ \A k \in DOMAIN emissions[i] : e[k] = emissions[i][k]
    BY <1>2, <1>3, AppendFacts
  <1>5. emissions'[i] = e /\ \A j \in Identity : j # i => emissions'[j] = emissions[j]
    BY <1>1, <1>3
  <1> HIDE DEF e
  <1>6. LedgerTyped'
    <2>1. emissions' \in [Identity -> Seq(Slot)]
      BY <1>1, <1>3, <1>4 DEF e
    <2> QED
      BY <1>1, <2>1 DEF LedgerInv, LedgerTyped, Ledger!TypeOK
  <1>7. AcceptedInv'
    BY <1>1 DEF LedgerInv, AcceptedInv
  <1>8. CountInv'
    <2>1. lost[i] \in Nat
      BY BoundsAssumption DEF LedgerInv, LedgerTyped, BoundsAssumption
    <2>2. Len(emissions'[i]) <= lost'[i] + Held(i)'
      BY <1>1, <1>4, <1>5, <2>1 DEF LedgerInv, CountInv, Held
    <2>3. ASSUME NEW j \in Identity, j # i PROVE Len(emissions'[j]) <= lost'[j] + Held(j)'
      BY <1>1, <1>5, <2>3 DEF LedgerInv, CountInv, Held
    <2>4. open' \cap final' = {}
      BY <1>1 DEF LedgerInv, CountInv
    <2> QED
      BY <2>2, <2>3, <2>4 DEF CountInv
  <1>9. EventCarriesItsSlot'
    BY <1>4, <1>5 DEF LedgerInv, EventCarriesItsSlot
  <1> QED
    BY <1>6, <1>7, <1>8, <1>9 DEF LedgerInv

LEMMA ConfirmsLedgerInv ==
  ASSUME LedgerInv, NEW i \in Identity, Confirms(i)
  PROVE  LedgerInv'
  <1>1. /\ i \in open /\ open' = open \ {i} /\ final' = final \cup {i}
        /\ accepted' = accepted /\ emissions' = emissions /\ lost' = lost
    BY DEF Confirms, Ledger!Confirm
  <1>2. LedgerTyped'
    BY <1>1 DEF LedgerInv, LedgerTyped, Ledger!TypeOK
  <1>3. CountInv'
    <2>1. open' \cup final' = open \cup final /\ open' \cap final' = {}
      BY <1>1 DEF LedgerInv, CountInv
    <2>2. \A j \in Identity : Held(j)' = Held(j)
      BY <2>1 DEF Held
    <2> QED
      BY <1>1, <2>1, <2>2 DEF LedgerInv, CountInv
  <1> QED
    BY <1>1, <1>2, <1>3 DEF LedgerInv, AcceptedInv, EventCarriesItsSlot

LEMMA LoseEvidenceLedgerInv ==
  ASSUME LedgerInv, NEW i \in Identity, LoseEvidence(i)
  PROVE  LedgerInv'
  <1>1. /\ i \in open /\ open' = open \ {i} /\ lost' = [lost EXCEPT ![i] = lost[i] + 1]
        /\ lost[i] < MaxLost
        /\ accepted' = accepted /\ emissions' = emissions /\ final' = final
    BY DEF LoseEvidence, Ledger!Forget
  <1>2. LedgerTyped'
    BY <1>1, BoundsAssumption DEF LedgerInv, LedgerTyped, Ledger!TypeOK, BoundsAssumption
  <1>3. CountInv'
    <2>1. lost[i] \in Nat /\ Len(emissions[i]) \in Nat
      <3>1. emissions[i] \in Seq(Slot)
        BY DEF LedgerInv, LedgerTyped, Ledger!TypeOK
      <3>2. Len(emissions[i]) \in Nat
        BY <3>1
      <3> QED
        BY <3>2, BoundsAssumption DEF LedgerInv, LedgerTyped, BoundsAssumption
    <2>2. Len(emissions[i]) <= lost[i] + 1
      BY <1>1, <2>1 DEF LedgerInv, CountInv, Held
    <2>3. lost'[i] = lost[i] + 1 /\ Held(i)' = 0
      BY <1>1 DEF LedgerInv, LedgerTyped, CountInv, Held
    <2>4. ASSUME NEW j \in Identity, j # i PROVE lost'[j] = lost[j] /\ Held(j)' = Held(j)
      BY <1>1, <2>4 DEF LedgerInv, LedgerTyped, Held
    <2>5. \A j \in Identity : Len(emissions'[j]) <= lost'[j] + Held(j)'
      BY <1>1, <2>1, <2>2, <2>3, <2>4 DEF LedgerInv, CountInv
    <2>6. open' \cap final' = {}
      BY <1>1 DEF LedgerInv, CountInv
    <2> QED
      BY <2>5, <2>6 DEF CountInv
  <1> QED
    BY <1>1, <1>2, <1>3 DEF LedgerInv, AcceptedInv, EventCarriesItsSlot

LEMMA LedgerInvKept ==
  ASSUME IInv, [Next]_vars
  PROVE  LedgerInv'
  <1>1. LedgerInv
    BY DEF IInv, LedgerInv, LedgerTyped, TypeOK
  <1>2. LedgerStep
    BY EveryStepIsALedgerStep
  <1>3. CASE Untouched
    BY <1>1, <1>3 DEF Untouched, ledger, LedgerInv, LedgerTyped, Ledger!TypeOK, AcceptedInv,
       CountInv, Held, EventCarriesItsSlot
  <1> QED
    BY <1>1, <1>2, <1>3, AcceptsLedgerInv, EmitsLedgerInv, ConfirmsLedgerInv,
       LoseEvidenceLedgerInv DEF LedgerStep

-------------------------------------------------------------------------------
(* The loops and the clocks keep theirs. *)

LoopTyped ==
    /\ mono \in Slot
    /\ behind \in [Backend -> 0..MaxBehind]
    /\ pc \in [Backend -> PC]
    /\ attempted \in [Backend -> [Job -> Slot \cup {NoSlot}]]
    /\ reading \in [Backend -> Slot]
    /\ todo \in [Backend -> 1..Len(Timers) + 1]
    /\ current \in [Backend -> Identity \cup {NoId}]
    /\ wake \in [Backend -> Nat]
    /\ begun \in [Backend -> SUBSET Identity]

LoopInv == LoopTyped /\ ClockInv /\ CurrentInv

LEMMA NextTimerKeeps ==
  ASSUME LoopInv, NEW b \in Backend, NextTimer(b), todo[b] <= Len(Timers),
         UNCHANGED <<clock, attempted, reading, wake, begun>>
  PROVE  LoopInv'
  BY LengthFact DEF LoopInv, LoopTyped, ClockInv, CurrentInv, NextTimer, Goto, PC, clock

LEMMA BeginFireKeeps ==
  ASSUME IInv, LoopInv, NEW b \in Backend, BeginFire(b)
  PROVE  LoopInv'
  <1>1. Timer(b).job \in Job /\ DueSlot(b) \in Slot /\ todo[b] <= Len(Timers)
    BY DueFacts DEF IInv, BeginFire
  <1>2. <<Timer(b).job, DueSlot(b)>> \in Identity
    BY <1>1 DEF Identity
  <1> DEFINE j == Timer(b).job
             d == DueSlot(b)
             i == <<Timer(b).job, DueSlot(b)>>
  <1>3. /\ attempted' = [attempted EXCEPT ![b][j] = d]
        /\ current' = [current EXCEPT ![b] = i]
        /\ begun' = [begun EXCEPT ![b] = begun[b] \cup {i}]
        /\ pc' = [pc EXCEPT ![b] = "record"]
        /\ UNCHANGED <<mono, behind, reading, todo, wake>>
    BY DEF BeginFire, Goto, clock
  <1>4. j \in Job /\ d \in Slot /\ i \in Identity
    BY <1>1, <1>2
  <1> HIDE DEF j, d, i
  <1>5. attempted' \in [Backend -> [Job -> Slot \cup {NoSlot}]]
    BY <1>3, <1>4 DEF LoopInv, LoopTyped
  <1>6. begun' \in [Backend -> SUBSET Identity]
    BY <1>3, <1>4 DEF LoopInv, LoopTyped
  <1>7. LoopTyped'
    BY <1>3, <1>4, <1>5, <1>6 DEF LoopInv, LoopTyped, PC
  <1>8. ClockInv' /\ CurrentInv'
    BY <1>1, <1>3, <1>4 DEF LoopInv, LoopTyped, ClockInv, CurrentInv
  <1> QED
    BY <1>7, <1>8 DEF LoopInv

LEMMA SleepKeeps ==
  ASSUME IInv, LoopInv, NEW b \in Backend, Sleep(b)
  PROVE  LoopInv'
  <1>1. PICK w \in Waits(b) : wake' = [wake EXCEPT ![b] = mono + w]
    BY DEF Sleep, IsShortest
  <1>2. mono + w \in Nat
    <2>1. w \in Nat
      BY WaitFacts DEF IInv
    <2>2. mono \in Nat
      BY BoundsAssumption DEF LoopInv, LoopTyped, Slot, BoundsAssumption
    <2> QED
      BY <2>1, <2>2
  <1> QED
    BY <1>1, <1>2 DEF LoopInv, LoopTyped, ClockInv, CurrentInv, Sleep, Goto, PC, clock

LEMMA ForgetLoopKeeps ==
  ASSUME LoopInv, NEW b \in Backend, ForgetLoop(b), UNCHANGED clock
  PROVE  LoopInv'
  <1>1. 0 \in Slot /\ 1 \in 1..Len(Timers) + 1 /\ NoSlot \in Slot \cup {NoSlot}
    BY LengthFact, BoundsAssumption DEF Slot, BoundsAssumption
  <1>2. attempted' \in [Backend -> [Job -> Slot \cup {NoSlot}]]
    BY DEF LoopInv, LoopTyped, ForgetLoop
  <1> QED
    BY <1>1, <1>2 DEF LoopInv, LoopTyped, ClockInv, CurrentInv, ForgetLoop, Goto, PC, clock

LEMMA ClockFacts ==
  ASSUME LoopInv
  PROVE  /\ mono \in Nat /\ mono <= MaxTime /\ MaxTime \in Nat /\ MaxBehind \in Nat
         /\ \A b \in Backend : behind[b] \in Nat /\ behind[b] <= mono /\ behind[b] <= MaxBehind
  BY BoundsAssumption DEF LoopInv, LoopTyped, ClockInv, Slot, BoundsAssumption

LEMMA LoopInvKept ==
  ASSUME IInv, [Next]_vars
  PROVE  LoopInv'
  <1>0. LoopInv
    BY DEF IInv, LoopInv, LoopTyped, TypeOK
  <1>1. CASE UNCHANGED vars
    BY <1>0, <1>1 DEF vars, LoopInv, LoopTyped, ClockInv, CurrentInv
  <1>2. CASE Tick
    BY <1>0, <1>2, ClockFacts DEF Tick, LoopInv, LoopTyped, ClockInv, CurrentInv, Slot
  <1>3. ASSUME NEW b \in Backend, Start(b) \/ SkipAttempted(b) \/ Wake(b)
        PROVE  LoopInv'
    <2>1. CASE Start(b)
      BY <1>0, <2>1 DEF Start, Goto, clock, LoopInv, LoopTyped, ClockInv, CurrentInv, PC
    <2>2. CASE SkipAttempted(b)
      <3>1. todo[b] + 1 \in 1..Len(Timers) + 1
        BY <1>0, <2>2, LengthFact DEF SkipAttempted, LoopInv, LoopTyped
      <3> QED
        BY <1>0, <2>2, <3>1 DEF SkipAttempted, clock, LoopInv, LoopTyped, ClockInv, CurrentInv
    <2>3. CASE Wake(b)
      BY <1>0, <2>3 DEF Wake, Goto, clock, LoopInv, LoopTyped, ClockInv, CurrentInv, PC
    <2> QED
      BY <1>3, <2>1, <2>2, <2>3
  <1>4. ASSUME NEW b \in Backend, ReadClock(b) PROVE LoopInv'
    <2>1. Wall(b) \in Slot /\ 1 \in 1..Len(Timers) + 1
      BY <1>0, ClockFacts, LengthFact DEF Wall, Slot
    <2> QED
      BY <1>0, <1>4, <2>1 DEF ReadClock, Goto, clock, LoopInv, LoopTyped, ClockInv, CurrentInv, PC
  <1>5. ASSUME NEW b \in Backend, BeginFire(b) PROVE LoopInv'
    BY <1>0, <1>5, BeginFireKeeps
  <1>6. ASSUME NEW b \in Backend, Sleep(b) PROVE LoopInv'
    BY <1>0, <1>6, SleepKeeps
  <1>7. ASSUME NEW b \in Backend, Record(b) \/ Dispatch(b) PROVE LoopInv'
    BY <1>0, <1>7 DEF Record, Dispatch, Goto, clock, LoopInv, LoopTyped, ClockInv, CurrentInv, PC
  <1>8. ASSUME NEW b \in Backend,
               FireFails(b) \/ FindDispatched(b) \/ Confirm(b) \/ ConfirmFails(b)
        PROVE  LoopInv'
    <2>1. pc[b] \in {"record", "dispatch", "confirm"} /\ NextTimer(b)
      BY <1>8 DEF FireFails, FindDispatched, Confirm, ConfirmFails
    <2>2. UNCHANGED <<clock, attempted, reading, wake, begun>>
      BY <1>8 DEF FireFails, FindDispatched, Confirm, ConfirmFails
    <2>3. todo[b] <= Len(Timers)
      BY <1>0, <2>1 DEF LoopInv, CurrentInv
    <2> QED
      BY <1>0, <2>1, <2>2, <2>3, NextTimerKeeps
  <1>9. ASSUME NEW b \in Backend, Stop(b) PROVE LoopInv'
    BY <1>0, <1>9, ForgetLoopKeeps DEF Stop
  <1>10. ASSUME NEW b \in Backend, SetBack(b) PROVE LoopInv'
    BY <1>0, <1>10, ClockFacts DEF SetBack, Wall, LoopInv, LoopTyped, ClockInv, CurrentInv
  <1> QED
    BY <1>1, <1>2, <1>3, <1>4, <1>5, <1>6, <1>7, <1>8, <1>9, <1>10 DEF Next, Loop, Fire

-------------------------------------------------------------------------------
(* The theorems. *)

LEMMA InitIInv == Init => IInv
  <1> SUFFICES ASSUME Init PROVE IInv
    OBVIOUS
  <1>1. 0 \in Slot /\ 0 \in 0..MaxBehind /\ 0 \in 0..MaxLost /\ 1 \in 1..Len(Timers) + 1
    BY LengthFact, BoundsAssumption DEF Slot, BoundsAssumption
  <1>2. Ledger!TypeOK
    BY DEF Init, Ledger!Init, Ledger!TypeOK
  <1>3. TypeOK
    BY <1>1, <1>2 DEF Init, TypeOK, PC
  <1>4. CountInv
    BY DEF Init, Ledger!Init, CountInv, Held
  <1>5. ClockInv /\ CurrentInv /\ AcceptedInv /\ EventCarriesItsSlot
    BY DEF Init, Ledger!Init, ClockInv, CurrentInv, AcceptedInv, EventCarriesItsSlot
  <1> QED
    BY <1>3, <1>4, <1>5 DEF IInv

LEMMA Invariance == Spec => []IInv
  <1>1. IInv /\ [Next]_vars => IInv'
    BY LoopInvKept, LedgerInvKept
       DEF LoopInv, LoopTyped, LedgerInv, LedgerTyped, IInv, TypeOK
  <1> QED
    BY <1>1, InitIInv, PTL DEF Spec

\* CoreTimer is well typed in every reachable state: every slot a loop computes lies
\* on the clock, every sleep is a non-negative wait.
THEOREM TimerTypeCorrect == Spec => []TypeOK
  <1>1. IInv => TypeOK
    BY DEF IInv
  <1> QED
    BY <1>1, Invariance, PTL

\* A slot is emitted once, over any number of backends and restarts, plus once for
\* each emission whose evidence was lost.
THEOREM SlotsAreEmittedOnce == Spec => []SlotEmittedOnce
  <1>1. IInv => SlotEmittedOnce
    <2> SUFFICES ASSUME IInv, NEW i \in Identity PROVE Len(emissions[i]) <= 1 + lost[i]
      BY DEF SlotEmittedOnce
    <2>1. emissions[i] \in Seq(Slot) /\ lost[i] \in Nat
      BY BoundsAssumption DEF IInv, TypeOK, Ledger!TypeOK, BoundsAssumption
    <2>2. Len(emissions[i]) \in Nat /\ Held(i) \in {0, 1}
      BY <2>1 DEF Held
    <2>3. Len(emissions[i]) <= lost[i] + Held(i)
      BY DEF IInv, CountInv
    <2> QED
      BY <2>1, <2>2, <2>3
  <1> QED
    BY <1>1, Invariance, PTL

\* Every event of a slot carries the instant of that slot.
THEOREM EventsCarryTheirSlot == Spec => []EventCarriesItsSlot
  <1>1. IInv => EventCarriesItsSlot
    BY DEF IInv
  <1> QED
    BY <1>1, Invariance, PTL

-------------------------------------------------------------------------------
(* What a loop began to fire lies at or before what it attempted, so the guard of *)
(* BeginFire never lets it begin the same slot again.                             *)

BegunInv ==
    \A b \in Backend : \A i \in begun[b] : i[2] <= attempted[b][i[1]]

LEMMA BegunInvKept ==
  ASSUME IInv, BegunInv, [Next]_vars
  PROVE  BegunInv'
  <1>1. ASSUME NEW b \in Backend, BeginFire(b) PROVE BegunInv'
    <2>1. /\ Timer(b).job \in Job /\ DueSlot(b) \in Slot /\ todo[b] <= Len(Timers)
          /\ DueSlot(b) > attempted[b][Timer(b).job]
      BY <1>1, DueFacts DEF IInv, BeginFire, Unattempted
    <2> DEFINE j == Timer(b).job
               d == DueSlot(b)
    <2>2. /\ attempted' = [attempted EXCEPT ![b][j] = d]
          /\ begun' = [begun EXCEPT ![b] = begun[b] \cup {<<j, d>>}]
      BY <1>1 DEF BeginFire
    <2>3. j \in Job /\ d \in Slot /\ d > attempted[b][j]
      BY <2>1
    <2> HIDE DEF j, d
    <2>4. ASSUME NEW c \in Backend, NEW i \in begun'[c] PROVE i[2] <= attempted'[c][i[1]]
      <3>1. /\ attempted \in [Backend -> [Job -> Slot \cup {NoSlot}]]
            /\ begun \in [Backend -> SUBSET Identity]
        BY DEF IInv, TypeOK
      <3>2. CASE c # b
        BY <2>2, <2>4, <3>1, <3>2 DEF BegunInv
      <3>3. CASE c = b /\ i = <<j, d>>
        BY <2>2, <2>3, <3>1, <3>3 DEF Slot
      <3>4. CASE c = b /\ i \in begun[b]
        <4>1. i \in Identity
          BY <3>1, <3>4
        <4>2. i[1] \in Job /\ i[2] \in Slot /\ i[2] <= attempted[b][i[1]]
          BY <4>1, <3>4 DEF Identity, BegunInv
        <4>3. CASE i[1] = j
          <5>1. attempted'[b][j] = d
            BY <2>2, <2>3, <3>1
          <5>2. attempted[b][j] \in Int /\ d \in Int /\ i[2] \in Int
            BY <2>3, <3>1, <4>2, BoundsAssumption DEF Slot, NoSlot, BoundsAssumption
          <5> QED
            BY <2>3, <3>4, <4>2, <4>3, <5>1, <5>2
        <4>4. CASE i[1] # j
          BY <2>2, <2>3, <3>1, <3>4, <4>2, <4>4
        <4> QED
          BY <4>3, <4>4
      <3> QED
        BY <2>2, <2>4, <3>1, <3>2, <3>3, <3>4
    <2> QED
      BY <2>4 DEF BegunInv
  <1>2. ASSUME NEW b \in Backend, Stop(b) PROVE BegunInv'
    <2>1. begun' = [begun EXCEPT ![b] = {}] /\
          attempted' = [attempted EXCEPT ![b] = [j \in Job |-> NoSlot]]
      BY <1>2 DEF Stop, ForgetLoop
    <2> QED
      BY <2>1 DEF BegunInv, IInv, TypeOK
  <1>3. CASE UNCHANGED <<begun, attempted>>
    BY <1>3 DEF BegunInv
  <1> QED
    BY <1>1, <1>2, <1>3 DEF Next, Loop, Fire, vars, Tick, Start, ReadClock, SkipAttempted, Sleep,
       Wake, Record, Dispatch, FindDispatched, Confirm, FireFails, ConfirmFails, SetBack,
       NextTimer

\* A loop never begins to fire a slot it already began to fire, in any life.
THEOREM NoSlotIsFiredTwice == Spec => NoSlotTwiceInALife
  <1>1. Init => BegunInv
    BY DEF Init, BegunInv
  <1>2. ASSUME IInv, BegunInv, [Next]_vars, NEW b \in Backend,
               pc[b] = "scan", pc'[b] = "record"
        PROVE  current'[b] \notin begun[b]
    <2>1. BeginFire(b)
      <3>1. pc \in [Backend -> PC]
        BY <1>2 DEF IInv, TypeOK
      <3> QED
        BY <1>2, <3>1 DEF Next, Loop, Fire, vars, Tick, Start, ReadClock, SkipAttempted, Sleep,
           Wake, BeginFire, Record, Dispatch, FindDispatched, Confirm, FireFails, ConfirmFails,
           SetBack, Stop, ForgetLoop, NextTimer, Goto
    <2>2. current'[b] = <<Timer(b).job, DueSlot(b)>>
      BY <1>2, <2>1 DEF BeginFire, IInv, TypeOK
    <2>3. DueSlot(b) > attempted[b][Timer(b).job]
      BY <2>1 DEF BeginFire, Unattempted
    <2>4. /\ DueSlot(b) \in Int /\ attempted[b][Timer(b).job] \in Int
      <3>1. Timer(b).job \in Job /\ DueSlot(b) \in Slot
        BY <1>2, <2>1, DueFacts DEF BeginFire, IInv
      <3>2. attempted[b][Timer(b).job] \in Slot \cup {NoSlot}
        BY <1>2, <3>1 DEF IInv, TypeOK
      <3> QED
        BY <3>1, <3>2, BoundsAssumption DEF Slot, NoSlot, BoundsAssumption
    <2>5. <<Timer(b).job, DueSlot(b)>> \in begun[b] =>
              DueSlot(b) <= attempted[b][Timer(b).job]
      BY <1>2 DEF BegunInv
    <2> QED
      BY <2>2, <2>3, <2>4, <2>5
  <1>3. IInv /\ BegunInv /\ [Next]_vars =>
            [\A b \in Backend : pc[b] = "scan" /\ pc'[b] = "record" => current'[b] \notin begun[b]]_vars
    BY <1>2
  <1>4. IInv /\ BegunInv /\ [Next]_vars => BegunInv'
    BY BegunInvKept
  <1> QED
    BY <1>1, <1>3, <1>4, Invariance, PTL DEF Spec, NoSlotTwiceInALife

-------------------------------------------------------------------------------
(* Loops whose rounds are short. *)

OnGrid(t, e) == \E k \in Nat : t = k * e

\* A slot lies on the grid of its period.
LEMMA SlotOnGrid ==
  ASSUME NEW t \in Nat, NEW e \in Nat \ {0}
  PROVE  OnGrid(SlotOf(t, e), e)
  <1>1. t \div e \in Nat
    OBVIOUS
  <1>2. t = e * (t \div e) + (t % e)
    OBVIOUS
  <1>3. SlotOf(t, e) = (t \div e) * e
    BY <1>1, <1>2 DEF SlotOf
  <1> QED
    BY <1>1, <1>3 DEF OnGrid

\* Of two instants on a grid less than two periods apart the later is the next one.
LEMMA NextOnGrid ==
  ASSUME NEW e \in Nat \ {0}, NEW s \in Nat, NEW t \in Nat, OnGrid(s, e), OnGrid(t, e), s < t, t < s + e + e
  PROVE  t = s + e
  <1>1. PICK i \in Nat : s = i * e
    BY DEF OnGrid
  <1>2. PICK k \in Nat : t = k * e
    BY DEF OnGrid
  <1>3. \A x, y \in Nat : x <= y => x * e <= y * e
    OBVIOUS
  <1>4. k > i
    BY <1>1, <1>2, <1>3
  <1>5. k < i + 2
    <2>1. (i + 2) * e = s + e + e
      BY <1>1
    <2>2. ~(i + 2 <= k)
      BY <1>2, <1>3, <2>1
    <2> QED
      BY <2>2
  <1>6. k = i + 1
    BY <1>4, <1>5
  <1> QED
    BY <1>1, <1>2, <1>6

Round == {"scan", "record", "dispatch", "confirm"}

\* Timers that were considered in this round.
Past(b, n) == n < todo[b] \/ (n = todo[b] /\ pc[b] # "scan")

\* What a loop knows of a timer: the slot it last attempted is the one before the next it will find due, or that one.
NearInv(b, n) ==
    LET e == Timers[n].every  last == attempted[b][Timers[n].job] IN
    /\ pc[b] = "down" => last = NoSlot
    /\ last # NoSlot =>
        /\ OnGrid(last, e)
        /\ pc[b] = "due" => Wall(b) < last + e + e
        /\ pc[b] \in Round => reading[b] < last + e + e
        /\ pc[b] = "sleep" => wake[b] - behind[b] < last + e + e
    /\ pc[b] \in Round =>
        /\ Past(b, n) => SlotOf(reading[b], e) <= last
        /\ Wall(b) < reading[b] + e

PromptInv ==
    \A b \in Backend :
        /\ pc[b] = "sleep" => mono <= wake[b]
        /\ \A n \in DOMAIN Timers : NearInv(b, n)

\* What a loop's part of the invariant depends on.
Known(b) == <<mono, behind[b], pc[b], attempted[b], reading[b], todo[b], wake[b]>>

LEMMA KnownKeeps ==
  ASSUME NEW b \in Backend, NEW n \in DOMAIN Timers, NearInv(b, n), Known(b)' = Known(b)
  PROVE  NearInv(b, n)'
  <1>1. /\ mono' = mono /\ behind'[b] = behind[b] /\ pc'[b] = pc[b] /\ attempted'[b] = attempted[b]
        /\ reading'[b] = reading[b] /\ todo'[b] = todo[b] /\ wake'[b] = wake[b]
    BY DEF Known
  <1> QED
    BY <1>1 DEF NearInv, Past, Wall, SlotOf

\* What the invariant says of numbers.
LEMMA LoopFacts ==
  ASSUME IInv, NEW b \in Backend, NEW n \in DOMAIN Timers
  PROVE  /\ mono \in Nat /\ behind[b] \in Nat /\ behind[b] <= mono /\ reading[b] \in Nat /\ wake[b] \in Nat
         /\ todo[b] \in Nat /\ n \in Nat /\ n <= Len(Timers) /\ Len(Timers) \in Nat /\ 1 <= n
         /\ Timers[n].job \in Job /\ Timers[n].every \in Nat \ {0}
         /\ (attempted[b][Timers[n].job] = NoSlot \/ attempted[b][Timers[n].job] \in Nat)
         /\ SlotOf(reading[b], Timers[n].every) \in Nat
         /\ SlotOf(reading[b], Timers[n].every) <= reading[b]
         /\ reading[b] < SlotOf(reading[b], Timers[n].every) + Timers[n].every
  <1>1. Timers[n].job \in Job /\ Timers[n].every \in Nat \ {0}
    BY TimerFacts
  <1>2. /\ mono \in Nat /\ behind[b] \in Nat /\ behind[b] <= mono /\ reading[b] \in Nat /\ wake[b] \in Nat
        /\ todo[b] \in Nat
    BY BoundsAssumption, LengthFact DEF IInv, TypeOK, ClockInv, Slot, BoundsAssumption
  <1>3. attempted[b][Timers[n].job] = NoSlot \/ attempted[b][Timers[n].job] \in Nat
    <2>1. attempted[b][Timers[n].job] \in Slot \cup {NoSlot}
      BY <1>1 DEF IInv, TypeOK
    <2> QED
      BY <2>1, BoundsAssumption DEF Slot, BoundsAssumption
  <1>4. n \in Nat /\ n <= Len(Timers) /\ Len(Timers) \in Nat /\ 1 <= n
    BY LengthFact
  <1>5. /\ SlotOf(reading[b], Timers[n].every) \in Nat
        /\ SlotOf(reading[b], Timers[n].every) <= reading[b]
        /\ reading[b] < SlotOf(reading[b], Timers[n].every) + Timers[n].every
    BY <1>1, <1>2, SlotFacts
  <1> QED
    BY <1>1, <1>2, <1>3, <1>4, <1>5

LEMMA PromptBeginFire ==
  ASSUME IInv, PromptInv, NEW b \in Backend, BeginFire(b)
  PROVE  /\ PromptInv'
         /\ \A n \in DOMAIN Timers :
                LET j == Timers[n].job IN
                attempted[b][j] # NoSlot /\ attempted'[b][j] # attempted[b][j]
                    => attempted'[b][j] = attempted[b][j] + Timers[n].every
  <1> DEFINE k == todo[b]
             j == Timers[k].job
             e == Timers[k].every
             d == SlotOf(reading[b], e)
  <1>1. k \in DOMAIN Timers
    BY DueFacts DEF IInv, BeginFire
  <1>2. /\ pc[b] = "scan" /\ d > attempted[b][j]
        /\ attempted' = [attempted EXCEPT ![b][j] = d] /\ pc' = [pc EXCEPT ![b] = "record"]
        /\ UNCHANGED <<mono, behind, reading, todo, wake>>
    BY DEF BeginFire, Unattempted, DueSlot, Timer, Goto, clock
  <1>3. /\ pc'[b] = "record" /\ attempted'[b][j] = d
        /\ \A i \in Job : i # j => attempted'[b][i] = attempted[b][i]
        /\ \A c \in Backend : c # b => pc'[c] = pc[c] /\ attempted'[c] = attempted[c]
    BY <1>1, <1>2, TimerFacts DEF IInv, TypeOK
  <1>4. j \in Job /\ e \in Nat \ {0} /\ reading[b] \in Nat /\ d \in Nat /\ d <= reading[b] /\ reading[b] < d + e
        /\ (attempted[b][j] = NoSlot \/ attempted[b][j] \in Nat)
    BY <1>1, LoopFacts
  <1>5. OnGrid(d, e)
    BY <1>4, SlotOnGrid
  <1>6. attempted[b][j] # NoSlot => d = attempted[b][j] + e
    <2>1. SUFFICES ASSUME attempted[b][j] # NoSlot  PROVE d = attempted[b][j] + e
      OBVIOUS
    <2>2. OnGrid(attempted[b][j], e) /\ reading[b] < attempted[b][j] + e + e
      BY <1>1, <1>2, <2>1 DEF PromptInv, NearInv, Round
    <2> HIDE DEF d, e, j, k
    <2> QED
      BY <1>2, <1>4, <1>5, <2>1, <2>2, NextOnGrid
  <1>7. ASSUME NEW n \in DOMAIN Timers  PROVE NearInv(b, n)'
    <2>1. /\ mono' = mono /\ behind' = behind /\ reading' = reading /\ todo' = todo /\ wake' = wake
      BY <1>2
    <2>2. CASE n = k
      <3>1. Timers[n].job = j /\ Timers[n].every = e
        BY <2>2
      <3>2. Wall(b)' < reading'[b] + e
        BY <1>1, <1>2, <2>1 DEF PromptInv, NearInv, Round, Wall
      <3>3. reading'[b] < d + e + e
        BY <1>4, <2>1
      <3>4. SlotOf(reading'[b], e) <= d
        BY <1>4, <2>1
      <3>5. attempted'[b][Timers[n].job] = d
        BY <1>3, <3>1
      <3> HIDE DEF d, e, j, k
      <3> QED
        BY <1>3, <1>5, <3>1, <3>2, <3>3, <3>4, <3>5 DEF NearInv, Round, SlotOf
    <2>3. CASE n # k
      <3>1. Timers[n].job # j
        BY <1>1, <2>3, TimersAssumption DEF TimersAssumption
      <3>2. attempted'[b][Timers[n].job] = attempted[b][Timers[n].job]
        BY <1>3, <3>1, TimerFacts
      <3>3. NearInv(b, n) /\ pc[b] \in Round /\ pc'[b] \in Round
        BY <1>2, <1>3 DEF PromptInv, Round
      <3>4. Past(b, n)' => Past(b, n)
        BY <2>1, <2>3 DEF Past
      <3>5. Wall(b)' = Wall(b)
        BY <2>1 DEF Wall
      <3> QED
        BY <1>3, <2>1, <3>2, <3>3, <3>4, <3>5 DEF NearInv, Round, SlotOf
    <2> QED
      BY <2>2, <2>3
  <1>8. ASSUME NEW c \in Backend, NEW n \in DOMAIN Timers  PROVE NearInv(c, n)'
    <2>1. CASE c = b
      BY <1>7, <2>1
    <2>2. CASE c # b
      BY <1>2, <1>3, <2>2, KnownKeeps DEF PromptInv, Known
    <2> QED
      BY <2>1, <2>2
  <1>9. ASSUME NEW c \in Backend, pc'[c] = "sleep"  PROVE mono' <= wake'[c]
    BY <1>2, <1>3, <1>9 DEF PromptInv
  <1>10. ASSUME NEW n \in DOMAIN Timers, attempted[b][Timers[n].job] # NoSlot,
                attempted'[b][Timers[n].job] # attempted[b][Timers[n].job]
         PROVE  attempted'[b][Timers[n].job] = attempted[b][Timers[n].job] + Timers[n].every
    <2>1. Timers[n].job = j
      BY <1>3, <1>10, TimerFacts
    <2>2. n = k
      BY <1>1, <2>1, TimersAssumption DEF TimersAssumption
    <2> QED
      BY <1>3, <1>6, <1>10, <2>1, <2>2
  <1> QED
    BY <1>8, <1>9, <1>10 DEF PromptInv

\* A step of one loop leaves what the others know.
LEMMA OthersKeep ==
  ASSUME PromptInv, NEW b \in Backend, \A c \in Backend \ {b} : Known(c)' = Known(c),
         pc'[b] = "sleep" => mono' <= wake'[b],
         \A n \in DOMAIN Timers : NearInv(b, n)'
  PROVE  PromptInv'
  <1>1. ASSUME NEW c \in Backend \ {b}, NEW n \in DOMAIN Timers  PROVE NearInv(c, n)'
    BY KnownKeeps DEF PromptInv
  <1>2. ASSUME NEW c \in Backend \ {b}, pc'[c] = "sleep"  PROVE mono' <= wake'[c]
    BY <1>2 DEF PromptInv, Known
  <1> QED
    BY <1>1, <1>2 DEF PromptInv

LEMMA PromptStart ==
  ASSUME IInv, PromptInv, NEW b \in Backend, Start(b)
  PROVE  PromptInv'
  <1>1. pc[b] = "down" /\ pc' = [pc EXCEPT ![b] = "due"] /\ UNCHANGED <<mono, behind, attempted, reading, todo, wake>>
    BY DEF Start, Goto, clock
  <1>2. pc'[b] = "due" /\ \A c \in Backend \ {b} : Known(c)' = Known(c)
    BY <1>1 DEF IInv, TypeOK, Known
  <1>3. ASSUME NEW n \in DOMAIN Timers  PROVE NearInv(b, n)'
    <2>1. attempted'[b][Timers[n].job] = NoSlot
      BY <1>1 DEF PromptInv, NearInv
    <2> QED
      BY <1>2, <2>1 DEF NearInv, Round, SlotOf
  <1> QED
    BY <1>2, <1>3, OthersKeep

LEMMA PromptReadClock ==
  ASSUME IInv, PromptInv, NEW b \in Backend, ReadClock(b)
  PROVE  PromptInv'
  <1>1. /\ pc[b] = "due" /\ pc' = [pc EXCEPT ![b] = "scan"] /\ reading' = [reading EXCEPT ![b] = Wall(b)]
        /\ todo' = [todo EXCEPT ![b] = 1] /\ UNCHANGED <<mono, behind, attempted, wake>>
    BY DEF ReadClock, Goto, clock
  <1>2. /\ pc'[b] = "scan" /\ reading'[b] = Wall(b) /\ todo'[b] = 1
        /\ \A c \in Backend \ {b} : Known(c)' = Known(c)
    BY <1>1 DEF IInv, TypeOK, Known
  <1>3. ASSUME NEW n \in DOMAIN Timers  PROVE NearInv(b, n)'
    <2>1. NearInv(b, n)
      BY DEF PromptInv
    <2>2. ~Past(b, n)'
      BY <1>2, LoopFacts DEF Past
    <2>3. Wall(b)' = Wall(b) /\ Wall(b) < Wall(b) + Timers[n].every
      BY <1>1, LoopFacts DEF Wall
    <2>4. attempted'[b][Timers[n].job] = attempted[b][Timers[n].job]
      BY <1>1
    <2> QED
      BY <1>1, <1>2, <2>1, <2>2, <2>3, <2>4 DEF NearInv, Round, SlotOf
  <1> QED
    BY <1>2, <1>3, OthersKeep

\* A loop whose round goes on: its attempts and its reading stand.
LEMMA RoundGoesOn ==
  ASSUME IInv, PromptInv, NEW b \in Backend, pc[b] \in Round, pc'[b] \in Round,
         UNCHANGED <<mono, behind, attempted, reading, wake>>,
         \A c \in Backend \ {b} : Known(c)' = Known(c),
         \A n \in DOMAIN Timers : Past(b, n)' => Past(b, n) \/ SlotOf(reading[b], Timers[n].every) <= attempted[b][Timers[n].job]
  PROVE  PromptInv'
  <1>1. ASSUME NEW n \in DOMAIN Timers  PROVE NearInv(b, n)'
    <2>1. NearInv(b, n)
      BY DEF PromptInv
    <2>2. Past(b, n)' => SlotOf(reading[b], Timers[n].every) <= attempted[b][Timers[n].job]
      BY <2>1 DEF NearInv
    <2>3. Wall(b)' = Wall(b)
      BY DEF Wall
    <2> QED
      BY <2>1, <2>2, <2>3 DEF NearInv, Round, SlotOf
  <1>2. pc'[b] # "sleep"
    BY DEF Round
  <1> QED
    BY <1>1, <1>2, OthersKeep

LEMMA PromptSkip ==
  ASSUME IInv, PromptInv, NEW b \in Backend, SkipAttempted(b)
  PROVE  PromptInv'
  <1>1. /\ pc[b] = "scan" /\ todo[b] <= Len(Timers) /\ ~(DueSlot(b) > attempted[b][Timer(b).job])
        /\ todo' = [todo EXCEPT ![b] = @ + 1] /\ UNCHANGED <<mono, behind, pc, attempted, reading, wake>>
    BY DEF SkipAttempted, Unattempted, clock
  <1>2. todo'[b] = todo[b] + 1 /\ \A c \in Backend \ {b} : Known(c)' = Known(c)
    BY <1>1 DEF IInv, TypeOK, Known
  <1>3. todo[b] \in DOMAIN Timers
    BY <1>1, DueFacts DEF IInv
  <1>4. SlotOf(reading[b], Timers[todo[b]].every) <= attempted[b][Timers[todo[b]].job]
    <2>1. ~(SlotOf(reading[b], Timers[todo[b]].every) > attempted[b][Timers[todo[b]].job])
      BY <1>1 DEF DueSlot, Timer
    <2>2. SlotOf(reading[b], Timers[todo[b]].every) \in Int /\ attempted[b][Timers[todo[b]].job] \in Int
      BY <1>3, LoopFacts DEF NoSlot
    <2> QED
      BY <2>1, <2>2
  <1>5. ASSUME NEW n \in DOMAIN Timers, Past(b, n)'
        PROVE  Past(b, n) \/ SlotOf(reading[b], Timers[n].every) <= attempted[b][Timers[n].job]
    <2>1. n < todo[b] \/ n = todo[b]
      <3>1. n < todo[b] + 1
        BY <1>1, <1>2, <1>5 DEF Past
      <3> QED
        BY <1>3, <3>1, LoopFacts
    <2> QED
      BY <1>4, <2>1 DEF Past
  <1> QED
    BY <1>1, <1>2, <1>5, RoundGoesOn DEF Round

\* The round goes on with the next timer.
LEMMA PromptNextTimer ==
  ASSUME IInv, PromptInv, NEW b \in Backend, pc[b] \in {"record", "dispatch", "confirm"}, NextTimer(b),
         UNCHANGED <<mono, behind, attempted, reading, wake>>
  PROVE  PromptInv'
  <1>1. pc' = [pc EXCEPT ![b] = "scan"] /\ todo' = [todo EXCEPT ![b] = @ + 1]
    BY DEF NextTimer, Goto
  <1>2. pc'[b] = "scan" /\ todo'[b] = todo[b] + 1 /\ \A c \in Backend \ {b} : Known(c)' = Known(c)
    BY <1>1 DEF IInv, TypeOK, Known
  <1>3. ASSUME NEW n \in DOMAIN Timers, Past(b, n)'  PROVE Past(b, n)
    <2>1. n < todo[b] \/ n = todo[b]
      <3>1. n < todo[b] + 1
        BY <1>2, <1>3 DEF Past
      <3> QED
        BY <3>1, LoopFacts
    <2> QED
      BY <2>1 DEF Past
  <1> QED
    BY <1>2, <1>3, RoundGoesOn DEF Round

\* The fire goes on.
LEMMA PromptFire ==
  ASSUME IInv, PromptInv, NEW b \in Backend, Record(b) \/ Dispatch(b)
  PROVE  PromptInv'
  <1>1. /\ pc[b] \in {"record", "dispatch"} /\ UNCHANGED <<mono, behind, attempted, reading, todo, wake>>
        /\ (pc' = [pc EXCEPT ![b] = "dispatch"] \/ pc' = [pc EXCEPT ![b] = "confirm"])
    BY DEF Record, Dispatch, Goto, clock
  <1>2. pc'[b] \in {"dispatch", "confirm"} /\ \A c \in Backend \ {b} : Known(c)' = Known(c)
    BY <1>1 DEF IInv, TypeOK, Known
  <1>3. ASSUME NEW n \in DOMAIN Timers, Past(b, n)'  PROVE Past(b, n)
    BY <1>1, <1>2, <1>3 DEF Past
  <1> QED
    BY <1>1, <1>2, <1>3, RoundGoesOn DEF Round

LEMMA PromptSleep ==
  ASSUME IInv, PromptInv, NEW b \in Backend, Sleep(b)
  PROVE  PromptInv'
  <1>1. PICK w \in Waits(b) : IsShortest(w, b) /\ wake' = [wake EXCEPT ![b] = mono + w]
    BY DEF Sleep
  <1>2. /\ pc[b] = "scan" /\ todo[b] > Len(Timers) /\ pc' = [pc EXCEPT ![b] = "sleep"]
        /\ UNCHANGED <<mono, behind, attempted, reading, todo>>
    BY DEF Sleep, Goto, clock
  <1>3. pc'[b] = "sleep" /\ wake'[b] = mono + w /\ \A c \in Backend \ {b} : Known(c)' = Known(c)
    BY <1>1, <1>2 DEF IInv, TypeOK, Known
  <1>4. mono \in Nat /\ behind[b] \in Nat /\ w \in Nat
    BY <1>1, WaitFacts, BoundsAssumption DEF IInv, TypeOK, Slot, BoundsAssumption
  <1>5. ASSUME NEW n \in DOMAIN Timers  PROVE NearInv(b, n)'
    <2> DEFINE e == Timers[n].every
               last == attempted[b][Timers[n].job]
               d == SlotOf(reading[b], e)
    <2>1. Past(b, n)
      BY <1>2, LoopFacts DEF Past
    <2>2. d <= last /\ Wall(b) < reading[b] + e
      BY <1>2, <2>1 DEF PromptInv, NearInv, Round
    <2>3. /\ e \in Nat \ {0} /\ reading[b] \in Nat /\ d \in Nat
          /\ (last = NoSlot \/ last \in Nat)
      BY LoopFacts
    <2>4. last # NoSlot /\ last \in Nat
      <3> HIDE DEF last, d, e
      <3> QED
        BY <2>2, <2>3 DEF NoSlot
    <2>5. OnGrid(last, e)
      BY <2>4 DEF PromptInv, NearInv
    <2>6. w <= d + e - reading[b]
      BY <1>1 DEF IsShortest, Waits
    <2>7. mono + w - behind[b] < last + e + e
      <3> HIDE DEF last, d, e
      <3> QED
        BY <1>4, <2>2, <2>3, <2>4, <2>6 DEF Wall
    <2>8. attempted'[b][Timers[n].job] = last
      BY <1>2
    <2>9. wake'[b] - behind'[b] < last + e + e
      <3>1. wake'[b] = mono + w /\ behind'[b] = behind[b]
        BY <1>2, <1>3
      <3> HIDE DEF last, e
      <3> QED
        BY <1>4, <2>3, <2>4, <2>7, <3>1
    <2> HIDE DEF last, d
    <2> QED
      BY <1>3, <2>4, <2>5, <2>8, <2>9 DEF NearInv, Round, SlotOf, Wall, Past
  <1>6. mono' <= wake'[b]
    BY <1>2, <1>3, <1>4
  <1> QED
    BY <1>3, <1>5, <1>6, OthersKeep

LEMMA PromptWake ==
  ASSUME IInv, PromptInv, NEW b \in Backend, Wake(b)
  PROVE  PromptInv'
  <1>1. /\ pc[b] = "sleep" /\ mono >= wake[b] /\ pc' = [pc EXCEPT ![b] = "due"] /\ wake' = [wake EXCEPT ![b] = 0]
        /\ UNCHANGED <<mono, behind, attempted, reading, todo>>
    BY DEF Wake, Goto, clock
  <1>2. pc'[b] = "due" /\ \A c \in Backend \ {b} : Known(c)' = Known(c)
    BY <1>1 DEF IInv, TypeOK, Known
  <1>3. ASSUME NEW n \in DOMAIN Timers  PROVE NearInv(b, n)'
    <2>1. NearInv(b, n) /\ mono <= wake[b]
      BY <1>1 DEF PromptInv
    <2>2. mono = wake[b]
      BY <1>1, <2>1, LoopFacts
    <2>3. Wall(b)' = wake[b] - behind[b]
      BY <1>1, <2>2 DEF Wall
    <2>4. attempted'[b][Timers[n].job] = attempted[b][Timers[n].job]
      BY <1>1
    <2> QED
      BY <1>1, <1>2, <2>1, <2>3, <2>4 DEF NearInv, Round, SlotOf
  <1> QED
    BY <1>2, <1>3, OthersKeep

LEMMA PromptStop ==
  ASSUME IInv, PromptInv, NEW b \in Backend, Stop(b)
  PROVE  PromptInv' /\ \A j \in Job : attempted'[b][j] = NoSlot
  <1>1. /\ pc' = [pc EXCEPT ![b] = "down"] /\ attempted' = [attempted EXCEPT ![b] = [j \in Job |-> NoSlot]]
        /\ reading' = [reading EXCEPT ![b] = 0] /\ todo' = [todo EXCEPT ![b] = 1] /\ wake' = [wake EXCEPT ![b] = 0]
        /\ UNCHANGED <<mono, behind>>
    BY DEF Stop, ForgetLoop, Goto, clock
  <1>2. /\ pc'[b] = "down" /\ attempted'[b] = [j \in Job |-> NoSlot]
        /\ \A c \in Backend \ {b} : Known(c)' = Known(c)
    BY <1>1 DEF IInv, TypeOK, Known
  <1>3. \A j \in Job : attempted'[b][j] = NoSlot
    BY <1>2
  <1>4. ASSUME NEW n \in DOMAIN Timers  PROVE NearInv(b, n)'
    BY <1>2, <1>3, TimerFacts DEF NearInv, Round
  <1> QED
    BY <1>2, <1>3, <1>4, OthersKeep

LEMMA PromptSetBack ==
  ASSUME IInv, PromptInv, NEW b \in Backend, SetBack(b)
  PROVE  PromptInv'
  <1>1. behind' = [behind EXCEPT ![b] = @ + 1] /\ UNCHANGED <<mono, pc, attempted, reading, todo, wake>>
    BY DEF SetBack
  <1>2. behind'[b] = behind[b] + 1 /\ \A c \in Backend \ {b} : Known(c)' = Known(c)
    BY <1>1 DEF IInv, TypeOK, Known
  <1>3. ASSUME NEW n \in DOMAIN Timers  PROVE NearInv(b, n)'
    <2> DEFINE e == Timers[n].every
               last == attempted[b][Timers[n].job]
    <2>1. NearInv(b, n)
      BY DEF PromptInv
    <2>2. mono \in Nat /\ behind[b] \in Nat /\ reading[b] \in Nat /\ wake[b] \in Nat /\ e \in Nat
          /\ (last = NoSlot \/ last \in Nat)
      BY LoopFacts
    <2>3. \A x \in Int : Wall(b) < x => Wall(b)' < x
      BY <1>1, <1>2, <2>2 DEF Wall
    <2>4. \A x \in Int : wake[b] - behind[b] < x => wake'[b] - behind'[b] < x
      BY <1>1, <1>2, <2>2
    <2>5. Past(b, n)' <=> Past(b, n)
      BY <1>1 DEF Past
    <2>6. reading[b] + e \in Int /\ (last # NoSlot => last + e + e \in Int)
      BY <2>2
    <2>7. pc'[b] = pc[b] /\ attempted'[b][Timers[n].job] = last /\ reading'[b] = reading[b]
      BY <1>1
    <2> QED
      BY <2>1, <2>3, <2>4, <2>5, <2>6, <2>7 DEF NearInv, Round, SlotOf
  <1>4. pc'[b] = "sleep" => mono' <= wake'[b]
    BY <1>1 DEF PromptInv
  <1> QED
    BY <1>2, <1>3, <1>4, OthersKeep

LEMMA PromptTick ==
  ASSUME IInv, PromptInv, Tick, \A b \in Backend : Prompt(b)
  PROVE  PromptInv'
  <1>1. mono' = mono + 1 /\ UNCHANGED <<behind, pc, attempted, reading, todo, wake>>
    BY DEF Tick
  <1>2. ASSUME NEW b \in Backend, NEW n \in DOMAIN Timers  PROVE NearInv(b, n)'
    <2> DEFINE e == Timers[n].every
    <2>1. NearInv(b, n) /\ Prompt(b)
      BY DEF PromptInv
    <2>2. pc[b] # "due"
      BY <2>1 DEF Prompt
    <2>3. pc[b] \in Round => Wall(b)' < reading[b] + e
      <3>1. pc[b] \in Round => Wall(b) + 1 < reading[b] + e
        BY <2>1 DEF Prompt, Round
      <3>2. Wall(b)' = Wall(b) + 1
        BY <1>1, LoopFacts DEF Wall
      <3> QED
        BY <3>1, <3>2
    <2>4. Past(b, n)' <=> Past(b, n)
      BY <1>1 DEF Past
    <2>5. pc'[b] = pc[b] /\ attempted'[b] = attempted[b] /\ reading'[b] = reading[b] /\ wake'[b] = wake[b] /\ behind'[b] = behind[b]
      BY <1>1
    <2> QED
      BY <2>1, <2>2, <2>3, <2>4, <2>5 DEF NearInv, Round, SlotOf
  <1>3. ASSUME NEW b \in Backend, pc'[b] = "sleep"  PROVE mono' <= wake'[b]
    <2>1. mono < wake[b]
      BY <1>1, <1>3 DEF Prompt
    <2>2. mono \in Nat /\ wake[b] \in Nat
      BY BoundsAssumption DEF IInv, TypeOK, Slot, BoundsAssumption
    <2> QED
      BY <1>1, <2>1, <2>2
  <1> QED
    BY <1>2, <1>3 DEF PromptInv

PromptStep == Next /\ (mono' # mono => \A b \in Backend : Prompt(b))

\* Of all steps only the beginning of a fire attempts another slot, and that slot is the next one.
LEMMA PromptInvKept ==
  ASSUME IInv, PromptInv, [PromptStep]_vars
  PROVE  PromptInv' /\ [\A b \in Backend : SkipsNoSlot(b)]_vars
  <1>1. CASE UNCHANGED vars
    <2>1. \A b \in Backend : Known(b)' = Known(b) /\ (pc'[b] = pc[b] /\ mono' = mono /\ wake' = wake)
      BY <1>1 DEF vars, Known
    <2>2. \A b \in Backend, n \in DOMAIN Timers : NearInv(b, n)'
      BY <2>1, KnownKeeps DEF PromptInv
    <2> QED
      BY <1>1, <2>1, <2>2 DEF PromptInv
  <1>2. ASSUME attempted' = attempted  PROVE \A b \in Backend : SkipsNoSlot(b)
    BY <1>2 DEF SkipsNoSlot
  <1>3. CASE Tick /\ \A b \in Backend : Prompt(b)
    BY <1>2, <1>3, PromptTick DEF Tick
  <1>4. ASSUME NEW b \in Backend, SetBack(b)  PROVE PromptInv' /\ attempted' = attempted
    BY <1>4, PromptSetBack DEF SetBack
  <1>5. ASSUME NEW b \in Backend, Start(b) \/ ReadClock(b) \/ SkipAttempted(b) \/ Sleep(b) \/ Wake(b)
        PROVE  PromptInv' /\ attempted' = attempted
    BY <1>5, PromptStart, PromptReadClock, PromptSkip, PromptSleep, PromptWake
       DEF Start, ReadClock, SkipAttempted, Sleep, Wake
  <1>6. ASSUME NEW b \in Backend, Record(b) \/ Dispatch(b)  PROVE PromptInv' /\ attempted' = attempted
    BY <1>6, PromptFire DEF Record, Dispatch
  <1>7. ASSUME NEW b \in Backend, FindDispatched(b) \/ Confirm(b) \/ FireFails(b) \/ ConfirmFails(b)
        PROVE  PromptInv' /\ attempted' = attempted
    <2>1. /\ pc[b] \in {"record", "dispatch", "confirm"} /\ NextTimer(b)
          /\ UNCHANGED <<mono, behind, attempted, reading, wake>>
      BY <1>7 DEF FindDispatched, Confirm, FireFails, ConfirmFails, clock
    <2> QED
      BY <2>1, PromptNextTimer
  <1>8. ASSUME NEW b \in Backend, BeginFire(b)  PROVE PromptInv' /\ \A c \in Backend : SkipsNoSlot(c)
    <2>1. \A c \in Backend : c # b => attempted'[c] = attempted[c]
      BY <1>8 DEF BeginFire, IInv, TypeOK
    <2>2. \A c \in Backend : c # b => SkipsNoSlot(c)
      BY <2>1 DEF SkipsNoSlot
    <2>3. PromptInv' /\ SkipsNoSlot(b)
      BY <1>8, PromptBeginFire DEF SkipsNoSlot
    <2> QED
      BY <2>2, <2>3
  <1>9. ASSUME NEW b \in Backend, Stop(b)  PROVE PromptInv' /\ \A c \in Backend : SkipsNoSlot(c)
    <2>1. PromptInv' /\ \A j \in Job : attempted'[b][j] = NoSlot
      BY <1>9, PromptStop
    <2>2. \A c \in Backend : c # b => attempted'[c] = attempted[c]
      BY <1>9 DEF Stop, ForgetLoop, IInv, TypeOK
    <2>3. \A c \in Backend : c # b => SkipsNoSlot(c)
      BY <2>2 DEF SkipsNoSlot
    <2>4. SkipsNoSlot(b)
      BY <2>1, TimerFacts DEF SkipsNoSlot
    <2> QED
      BY <2>1, <2>3, <2>4
  <1>10. ASSUME Tick, PromptStep  PROVE \A b \in Backend : Prompt(b)
    <2>1. mono' # mono
      BY <1>10, BoundsAssumption DEF Tick, IInv, TypeOK, Slot, BoundsAssumption
    <2> QED
      BY <1>10, <2>1 DEF PromptStep
  <1> QED
    BY <1>1, <1>2, <1>3, <1>4, <1>5, <1>6, <1>7, <1>8, <1>9, <1>10 DEF PromptStep, Next, Loop, Fire

LEMMA InitPromptInv == Init => PromptInv
  <1> SUFFICES ASSUME Init  PROVE PromptInv
    OBVIOUS
  <1>1. \A b \in Backend : pc[b] = "down" /\ \A j \in Job : attempted[b][j] = NoSlot
    BY DEF Init
  <1> QED
    BY <1>1, TimerFacts DEF PromptInv, NearInv, Round

\* Rounds shorter than the shortest period, after sleeps that end on time, skip no slot,
\* whatever fires fail, loops restart or wall clocks are set back: what FiresEverySlot
\* needs, and what PunctualSpec, where a round may be as long as it likes, lacks.
THEOREM ShortRoundsSkipNoSlot == PromptSpec => FiresEverySlot
  <1>1. PromptSpec => Spec
    <2>1. [PromptStep]_vars => [Next]_vars
      BY DEF PromptStep
    <2> QED
      BY <2>1, PTL DEF PromptSpec, PromptStep, Spec
  <1>2. PromptSpec => []IInv
    BY <1>1, Invariance, PTL
  <1>3. Init => PromptInv
    BY InitPromptInv
  <1>4. IInv /\ PromptInv /\ [PromptStep]_vars => PromptInv' /\ [\A b \in Backend : SkipsNoSlot(b)]_vars
    BY PromptInvKept
  <1> QED
    BY <1>2, <1>3, <1>4, PTL DEF PromptSpec, PromptStep, FiresEverySlot

\* Whatever the loops do, to the jobs core they are callers of OnceLedger: each step takes
\* one step of it or none, and no other way to emit or to finish a slot is open to them.
THEOREM LoopsUseTheLedger == Spec => Ledger!Spec
  <1>1. Init => Ledger!Init
    BY DEF Init
  <1>2. IInv /\ [Next]_vars => [Ledger!Next]_(Ledger!vars)
    <2> SUFFICES ASSUME IInv, [Next]_vars  PROVE [Ledger!Next]_(Ledger!vars)
      OBVIOUS
    <2>1. CASE Untouched
      BY <2>1 DEF Untouched, ledger, Ledger!vars
    <2>2. ASSUME NEW i \in Identity, Accepts(i) \/ Emits(i) \/ Confirms(i) \/ LoseEvidence(i)
          PROVE  Ledger!Next
      BY <2>2, IdentityFacts DEF Accepts, Emits, Confirms, LoseEvidence, Ledger!Next
    <2> QED
      BY <2>1, <2>2, EveryStepIsALedgerStep DEF LedgerStep
  <1> QED
    BY <1>1, <1>2, Invariance, PTL DEF Spec, Ledger!Spec
================================================================================
