----------------------------- MODULE BackendProofs -----------------------------
(***************************************************************************)
(* The backend process, for any packages, requests, keys and values.       *)
(*                                                                         *)
(* The lifespan: the inductive invariant says what is left of the ledger   *)
(* of started packages at each step and what may be propagating there.     *)
(*                                                                         *)
(* The rows: the inductive invariant says what brought a session to its    *)
(* step, which locks it has there and what it wrote.  From it follow the   *)
(* announcement of grants, how copies part from their settings, and the    *)
(* refinement of a register.                                               *)
(***************************************************************************)
EXTENDS Backend, SequenceTheorems, TLAPS

-------------------------------------------------------------------------------
(* The lifespan: what its invariant says. *)

Ahead == {"connect", "start", "serve", "stop_loop"}

\* The ledger is what was started and not stopped yet, in the order of the starts.
LedgerInv ==
    /\ Len(startLog) = Len(started) + Len(stopLog)
    /\ \A n \in 1..Len(started) : started[n] = startLog[n]
    /\ \A n \in 1..Len(stopLog) : stopLog[n] = startLog[Len(startLog) + 1 - n]
    /\ stage \in Ahead => stopLog = <<>>
    /\ stage \in {"close", "done"} => started = <<>>
    /\ stage = "connect" => started = <<>>

LoopInv ==
    /\ Len(startLog) <= Len(Packages)
    /\ stage = "serve" => Len(startLog) = Len(Packages)
    /\ loop = "running" => stage \in {"serve", "stop_loop"} /\ Len(startLog) = Len(Packages)

\* What the body raised is propagating up to the close, unless the stop of a loop that ran was
\* cancelled; at the close so is what shutdown_packages kept.
ErrorInv ==
    /\ stage \in {"connect", "start", "serve"} => active = "none"
    /\ stage \in Ahead => ~cancellation /\ ~firstError
    /\ stage = "stop_loop" /\ active # "none" => leaving = active
    /\ stage = "stop_packages" /\ active # "none" =>
          leaving = active \/ (leaving = "cancelled" /\ loop = "stopped")
    /\ stage = "close" =>
          /\ cancellation => leaving = "cancelled"
          /\ ~cancellation /\ active # "none" =>
                leaving = active \/ (leaving = "cancelled" /\ loop = "stopped")
          /\ ~cancellation /\ active = "none" /\ firstError => leaving = "shutdown"
    /\ stage # "done" => (broker <=> stage # "connect")
    /\ Lifespan!RightErrorLeaves

LifespanInv ==
    /\ Lifespan!TypeOK
    /\ LedgerInv
    /\ LoopInv
    /\ ErrorInv

-------------------------------------------------------------------------------
(* Lemmas about sequences. *)

LEMMA AppendFacts ==
  ASSUME NEW S, NEW s \in Seq(S), NEW e \in S
  PROVE  /\ Append(s, e) \in Seq(S)
         /\ Len(s) \in Nat
         /\ Len(Append(s, e)) = Len(s) + 1
         /\ \A n \in 1..Len(s) : Append(s, e)[n] = s[n]
         /\ Append(s, e)[Len(s) + 1] = e
  OBVIOUS

LEMMA FrontFacts ==
  ASSUME NEW S, NEW s \in Seq(S), s # <<>>
  PROVE  /\ Len(s) \in Nat \ {0}
         /\ Lifespan!Front(s) \in Seq(S)
         /\ Len(Lifespan!Front(s)) = Len(s) - 1
         /\ \A n \in 1..(Len(s) - 1) : Lifespan!Front(s)[n] = s[n]
         /\ Lifespan!Last(s) = s[Len(s)] /\ Lifespan!Last(s) \in S
  <1>1. Len(s) \in Nat \ {0}
    OBVIOUS
  <1> DEFINE m == Len(s) - 1
  <1>2. m \in Int /\ 1 \in Int /\ \A n \in 1..m : n \in 1..Len(s) /\ s[n] \in S
    BY <1>1
  <1>3. /\ SubSeq(s, 1, m) \in Seq(S)
        /\ Len(SubSeq(s, 1, m)) = IF 1 <= m THEN m - 1 + 1 ELSE 0
        /\ \A n \in 1..(m - 1 + 1) : SubSeq(s, 1, m)[n] = s[1 + n - 1]
    <2> HIDE DEF m
    <2> QED
      BY <1>2, SubSeqProperties
  <1>4. Len(s) \in 1..Len(s)
    BY <1>1
  <1>5. Lifespan!Front(s) \in Seq(S) /\ Len(Lifespan!Front(s)) = m /\ \A n \in 1..m : Lifespan!Front(s)[n] = s[n]
    <2>1. m \in Nat
      BY <1>1
    <2>2. Lifespan!Front(s) = SubSeq(s, 1, m)
      BY DEF Lifespan!Front
    <2> HIDE DEF m
    <2>3. (IF 1 <= m THEN m - 1 + 1 ELSE 0) = m /\ m - 1 + 1 = m
      BY <2>1
    <2>4. \A n \in 1..m : 1 + n - 1 = n
      BY <2>1
    <2> QED
      BY <1>3, <2>2, <2>3, <2>4
  <1>6. Lifespan!Last(s) = s[Len(s)] /\ Lifespan!Last(s) \in S
    BY <1>4 DEF Lifespan!Last
  <1> QED
    BY <1>1, <1>5, <1>6

\* The sequences of a lifespan have lengths.
LEMMA Lengths ==
  ASSUME Lifespan!TypeOK
  PROVE  /\ Len(started) \in Nat /\ Len(startLog) \in Nat /\ Len(stopLog) \in Nat
         /\ started = <<>> <=> Len(started) = 0
         /\ stopLog = <<>> <=> Len(stopLog) = 0
  BY DEF Lifespan!TypeOK

-------------------------------------------------------------------------------
(* The way in. *)

LEMMA ConnectInv == ASSUME LifespanInv, Lifespan!Connect PROVE LifespanInv'
  <1>1. /\ stage = "connect"
        /\ \/ stage' = "start" /\ broker' = TRUE /\ leaving' = leaving
           \/ stage' = "done" /\ broker' = FALSE /\ leaving' \in {"connect", "cancelled"}
        /\ UNCHANGED <<started, loop, active, firstError, cancellation, startLog, stopLog>>
    BY DEF LifespanInv, Lifespan!TypeOK, ErrorInv, Lifespan!Connect
  <1>2. Lifespan!TypeOK'
    BY <1>1 DEF LifespanInv, Lifespan!TypeOK, Lifespan!PC, Lifespan!Outcome, Lifespan!BodyError
  <1>3. LedgerInv'
    BY <1>1 DEF LifespanInv, LedgerInv, Ahead
  <1>4. LoopInv'
    BY <1>1 DEF LifespanInv, LoopInv
  <1>5. ErrorInv'
    BY <1>1 DEF LifespanInv, ErrorInv, Ahead, Lifespan!RightErrorLeaves
  <1> QED
    BY <1>2, <1>3, <1>4, <1>5 DEF LifespanInv

LEMMA StartPackageInv == ASSUME LifespanInv, NEW p \in Package, Lifespan!StartPackage(p) PROVE LifespanInv'
  <1>1. /\ stage = "start" /\ Len(startLog) < Len(Packages)
        /\ startLog' = Append(startLog, p) /\ started' = Append(started, p)
        /\ UNCHANGED <<stage, broker, loop, active, firstError, cancellation, leaving, stopLog>>
    BY DEF Lifespan!StartPackage, Lifespan!IsNext
  <1>2. /\ startLog' \in Seq(Package) /\ started' \in Seq(Package)
        /\ Len(startLog) \in Nat /\ Len(started) \in Nat
        /\ Len(startLog') = Len(startLog) + 1 /\ Len(started') = Len(started) + 1
        /\ \A n \in 1..Len(startLog) : startLog'[n] = startLog[n]
        /\ \A n \in 1..Len(started) : started'[n] = started[n]
        /\ startLog'[Len(startLog) + 1] = p /\ started'[Len(started) + 1] = p
    BY <1>1, AppendFacts DEF LifespanInv, Lifespan!TypeOK
  <1>3. Lifespan!TypeOK'
    BY <1>1, <1>2 DEF LifespanInv, Lifespan!TypeOK
  <1>4. Len(stopLog) = 0 /\ stopLog = <<>> /\ Len(startLog) = Len(started)
    BY <1>1, <1>2, Lengths DEF LifespanInv, LedgerInv, Ahead
  <1>5. LedgerInv'
    <2>1. \A n \in 1..Len(started') : started'[n] = startLog'[n]
      <3> TAKE n \in 1..Len(started')
      <3>1. n \in 1..Len(started) \/ n = Len(started) + 1
        BY <1>2
      <3> QED
        BY <1>2, <1>4, <3>1 DEF LifespanInv, LedgerInv
    <2> QED
      BY <1>1, <1>2, <1>4, <2>1 DEF LedgerInv
  <1>6. LoopInv'
    <2>1. Len(Packages) \in Nat
      BY LifespanAssumption DEF Lifespan!ManifestAssumption
    <2> QED
      BY <1>1, <1>2, <2>1 DEF LifespanInv, LoopInv
  <1>7. ErrorInv'
    BY <1>1 DEF LifespanInv, ErrorInv, Lifespan!RightErrorLeaves
  <1> QED
    BY <1>3, <1>5, <1>6, <1>7 DEF LifespanInv

LEMMA BodyRaisesInv ==
  ASSUME LifespanInv, NEW e \in Lifespan!BodyError, stage \in {"start", "serve"}, Lifespan!BodyRaises(e)
  PROVE  LifespanInv'
  <1>1. /\ active' = e /\ leaving' = e /\ stage' = "stop_loop"
        /\ UNCHANGED <<broker, started, loop, firstError, cancellation, startLog, stopLog>>
    BY DEF Lifespan!BodyRaises
  <1>2. Lifespan!TypeOK'
    BY <1>1 DEF LifespanInv, Lifespan!TypeOK, Lifespan!PC, Lifespan!Outcome
  <1>3. LedgerInv'
    BY <1>1 DEF LifespanInv, LedgerInv, Ahead
  <1>4. LoopInv'
    BY <1>1 DEF LifespanInv, LoopInv
  <1>5. ErrorInv'
    BY <1>1 DEF LifespanInv, ErrorInv, Ahead, Lifespan!RightErrorLeaves
  <1> QED
    BY <1>2, <1>3, <1>4, <1>5 DEF LifespanInv

LEMMA StartLoopInv == ASSUME LifespanInv, Lifespan!StartLoop PROVE LifespanInv'
  <1>1. /\ stage = "start" /\ Len(startLog) = Len(Packages)
        /\ loop' \in {"running", "none"} /\ stage' = "serve"
        /\ UNCHANGED <<broker, started, active, firstError, cancellation, leaving, startLog, stopLog>>
    BY DEF Lifespan!StartLoop
  <1>2. Lifespan!TypeOK'
    BY <1>1 DEF LifespanInv, Lifespan!TypeOK, Lifespan!PC
  <1>3. LedgerInv'
    BY <1>1 DEF LifespanInv, LedgerInv, Ahead
  <1>4. LoopInv'
    BY <1>1 DEF LifespanInv, LoopInv
  <1>5. ErrorInv'
    BY <1>1 DEF LifespanInv, ErrorInv, Ahead, Lifespan!RightErrorLeaves
  <1> QED
    BY <1>2, <1>3, <1>4, <1>5 DEF LifespanInv

-------------------------------------------------------------------------------
(* The way out. *)

LEMMA ExitInv == ASSUME LifespanInv, Lifespan!Exit PROVE LifespanInv'
  <1>1. /\ stage = "serve" /\ stage' = "stop_loop"
        /\ UNCHANGED <<broker, started, loop, active, firstError, cancellation, leaving, startLog, stopLog>>
    BY DEF Lifespan!Exit
  <1>2. Lifespan!TypeOK'
    BY <1>1 DEF LifespanInv, Lifespan!TypeOK, Lifespan!PC
  <1>3. LedgerInv' /\ LoopInv'
    BY <1>1 DEF LifespanInv, LedgerInv, LoopInv, Ahead
  <1>4. ErrorInv'
    BY <1>1 DEF LifespanInv, ErrorInv, Ahead, Lifespan!RightErrorLeaves
  <1> QED
    BY <1>2, <1>3, <1>4 DEF LifespanInv

LEMMA StopLoopInv == ASSUME LifespanInv, Lifespan!StopLoop PROVE LifespanInv'
  <1>1. /\ stage = "stop_loop" /\ stage' = "stop_packages"
        /\ loop' = (IF loop = "running" THEN "stopped" ELSE loop) /\ leaving' \in {leaving, "cancelled"}
        /\ leaving' = leaving \/ loop' = "stopped"
        /\ UNCHANGED <<broker, started, active, firstError, cancellation, startLog, stopLog>>
    BY DEF Lifespan!StopLoop
  <1>2. Lifespan!TypeOK'
    BY <1>1 DEF LifespanInv, Lifespan!TypeOK, Lifespan!PC, Lifespan!Outcome, Lifespan!BodyError
  <1>3. LedgerInv'
    BY <1>1 DEF LifespanInv, LedgerInv, Ahead
  <1>4. LoopInv'
    BY <1>1 DEF LifespanInv, LoopInv
  <1>5. ErrorInv'
    BY <1>1 DEF LifespanInv, ErrorInv, Ahead, Lifespan!RightErrorLeaves
  <1> QED
    BY <1>2, <1>3, <1>4, <1>5 DEF LifespanInv

LEMMA StopPackageInv == ASSUME LifespanInv, Lifespan!StopPackage PROVE LifespanInv'
  <1>1. /\ stage = "stop_packages" /\ started # <<>>
        /\ started' = Lifespan!Front(started) /\ stopLog' = Append(stopLog, Lifespan!Last(started))
        /\ firstError' \in BOOLEAN /\ cancellation' \in BOOLEAN
        /\ UNCHANGED <<stage, broker, loop, active, leaving, startLog>>
    BY DEF LifespanInv, Lifespan!TypeOK, Lifespan!StopPackage
  <1>2. /\ Len(started) \in Nat \ {0} /\ started' \in Seq(Package) /\ Len(started') = Len(started) - 1
        /\ \A n \in 1..(Len(started) - 1) : started'[n] = started[n]
        /\ Lifespan!Last(started) = started[Len(started)] /\ Lifespan!Last(started) \in Package
    BY <1>1, FrontFacts DEF LifespanInv, Lifespan!TypeOK
  <1>3. /\ stopLog' \in Seq(Package) /\ Len(stopLog) \in Nat /\ Len(stopLog') = Len(stopLog) + 1
        /\ \A n \in 1..Len(stopLog) : stopLog'[n] = stopLog[n]
        /\ stopLog'[Len(stopLog) + 1] = Lifespan!Last(started)
    BY <1>1, <1>2, AppendFacts DEF LifespanInv, Lifespan!TypeOK
  <1>4. Lifespan!TypeOK'
    BY <1>1, <1>2, <1>3 DEF LifespanInv, Lifespan!TypeOK
  <1>5. LedgerInv'
    <2>1. Len(startLog) = Len(started) + Len(stopLog) /\ Len(startLog) \in Nat
      BY Lengths DEF LifespanInv, LedgerInv
    <2>2. \A n \in 1..Len(started') : started'[n] = startLog[n]
      <3> TAKE n \in 1..Len(started')
      <3>1. n \in 1..(Len(started) - 1) /\ n \in 1..Len(started)
        BY <1>2
      <3> QED
        BY <1>2, <3>1 DEF LifespanInv, LedgerInv
    <2>3. \A n \in 1..Len(stopLog') : stopLog'[n] = startLog[Len(startLog) + 1 - n]
      <3> TAKE n \in 1..Len(stopLog')
      <3>1. CASE n \in 1..Len(stopLog)
        BY <1>3, <3>1 DEF LifespanInv, LedgerInv
      <3>2. CASE n = Len(stopLog) + 1
        <4>1. Len(startLog) + 1 - n = Len(started) /\ Len(started) \in 1..Len(started)
          BY <1>2, <1>3, <2>1, <3>2
        <4>2. started[Len(started)] = startLog[Len(started)]
          BY <4>1 DEF LifespanInv, LedgerInv
        <4> QED
          BY <1>2, <1>3, <3>2, <4>1, <4>2
      <3> QED
        BY <1>3, <3>1, <3>2
    <2> QED
      BY <1>1, <1>2, <1>3, <2>1, <2>2, <2>3 DEF LedgerInv, Ahead
  <1>6. LoopInv'
    BY <1>1 DEF LifespanInv, LoopInv
  <1>7. ErrorInv'
    BY <1>1 DEF LifespanInv, ErrorInv, Ahead, Lifespan!RightErrorLeaves
  <1> QED
    BY <1>4, <1>5, <1>6, <1>7 DEF LifespanInv

LEMMA PackagesStoppedInv == ASSUME LifespanInv, Lifespan!PackagesStopped PROVE LifespanInv'
  <1>1. /\ stage = "stop_packages" /\ started = <<>> /\ stage' = "close"
        /\ leaving' = IF cancellation THEN "cancelled"
                      ELSE IF firstError /\ active = "none" THEN "shutdown" ELSE leaving
        /\ UNCHANGED <<broker, started, loop, active, firstError, cancellation, startLog, stopLog>>
    BY DEF Lifespan!PackagesStopped
  <1>2. Lifespan!TypeOK'
    BY <1>1 DEF LifespanInv, Lifespan!TypeOK, Lifespan!PC, Lifespan!Outcome, Lifespan!BodyError
  <1>3. LedgerInv'
    BY <1>1 DEF LifespanInv, LedgerInv, Ahead
  <1>4. LoopInv'
    BY <1>1 DEF LifespanInv, LoopInv
  <1>5. ErrorInv'
    BY <1>1 DEF LifespanInv, ErrorInv, Ahead, Lifespan!RightErrorLeaves
  <1> QED
    BY <1>2, <1>3, <1>4, <1>5 DEF LifespanInv

LEMMA CloseBrokerInv == ASSUME LifespanInv, Lifespan!CloseBroker PROVE LifespanInv'
  <1>1. /\ stage = "close" /\ stage' = "done"
        /\ \/ broker' = FALSE /\ leaving' = leaving
           \/ leaving' \in {"close", "cancelled"} /\ broker' = broker
        /\ UNCHANGED <<started, loop, active, firstError, cancellation, startLog, stopLog>>
    BY DEF Lifespan!CloseBroker
  <1>2. Lifespan!TypeOK'
    BY <1>1 DEF LifespanInv, Lifespan!TypeOK, Lifespan!PC, Lifespan!Outcome, Lifespan!BodyError
  <1>3. LedgerInv'
    BY <1>1 DEF LifespanInv, LedgerInv, Ahead
  <1>4. LoopInv'
    BY <1>1 DEF LifespanInv, LoopInv
  <1>5. ErrorInv'
    BY <1>1 DEF LifespanInv, ErrorInv, Ahead, Lifespan!RightErrorLeaves
  <1> QED
    BY <1>2, <1>3, <1>4, <1>5 DEF LifespanInv

-------------------------------------------------------------------------------
(* The theorems. *)

LEMMA LifespanInitInv == ASSUME Lifespan!Init PROVE LifespanInv
  <1>1. Lifespan!TypeOK
    <2>1. <<>> \in Seq(Package)
      OBVIOUS
    <2> QED
      BY <2>1 DEF Lifespan!Init, Lifespan!TypeOK, Lifespan!PC, Lifespan!Outcome, Lifespan!BodyError
  <1>2. LedgerInv
    BY DEF Lifespan!Init, LedgerInv
  <1>3. LoopInv
    BY LifespanAssumption DEF Lifespan!Init, LoopInv, Lifespan!ManifestAssumption
  <1>4. ErrorInv
    BY DEF Lifespan!Init, ErrorInv, Lifespan!RightErrorLeaves
  <1> QED
    BY <1>1, <1>2, <1>3, <1>4 DEF LifespanInv

LEMMA LifespanStepInv == ASSUME LifespanInv, [Lifespan!Next]_(Lifespan!vars) PROVE LifespanInv'
  <1>1. CASE UNCHANGED Lifespan!vars
    BY <1>1 DEF Lifespan!vars, LifespanInv, Lifespan!TypeOK, LedgerInv, LoopInv, ErrorInv,
       Lifespan!RightErrorLeaves
  <1>2. CASE Lifespan!StartPackageFails \/ Lifespan!ServingFails
    BY <1>2, BodyRaisesInv DEF Lifespan!StartPackageFails, Lifespan!ServingFails, Lifespan!BodyError
  <1>3. ASSUME NEW p \in Package, Lifespan!StartPackage(p) PROVE LifespanInv'
    BY <1>3, StartPackageInv
  <1>4. CASE Lifespan!Connect \/ Lifespan!StartLoop \/ Lifespan!Exit
    BY <1>4, ConnectInv, StartLoopInv, ExitInv
  <1>5. CASE Lifespan!StopLoop \/ Lifespan!StopPackage \/ Lifespan!PackagesStopped \/ Lifespan!CloseBroker
    BY <1>5, StopLoopInv, StopPackageInv, PackagesStoppedInv, CloseBrokerInv
  <1> QED
    BY <1>1, <1>2, <1>3, <1>4, <1>5 DEF Lifespan!Next

LEMMA LifespanInductive == Lifespan!Spec => []LifespanInv
  <1>1. Lifespan!Init => LifespanInv
    BY LifespanInitInv
  <1>2. LifespanInv /\ [Lifespan!Next]_(Lifespan!vars) => LifespanInv'
    BY LifespanStepInv
  <1> QED
    BY <1>1, <1>2, PTL DEF Lifespan!Spec

\* Every state of a lifespan has the types the module declares.
THEOREM LifespanTypeCorrect == Lifespan!Spec => []Lifespan!TypeOK
  <1>1. LifespanInv => Lifespan!TypeOK
    BY DEF LifespanInv
  <1> QED
    BY <1>1, LifespanInductive, PTL

\* For any packages, with timers or without, the stops mirror the starts that completed,
\* past the stops all of them, and the timer loop runs only between both.
THEOREM StopsMirrorStartsHolds == Lifespan!Spec => []StopsMirrorStarts
  <1>1. ASSUME LifespanInv PROVE StopsMirrorStarts
    <2>0. stopLog \in Seq(Package)
      BY <1>1 DEF LifespanInv, Lifespan!TypeOK
    <2>1. /\ Len(started) \in Nat /\ Len(startLog) \in Nat /\ Len(stopLog) \in Nat
          /\ Len(startLog) = Len(started) + Len(stopLog)
          /\ DOMAIN stopLog = 1..Len(stopLog)
      BY <1>1, <2>0, Lengths DEF LifespanInv, LedgerInv
    <2>2. stage \in {"close", "done"} => Len(stopLog) = Len(startLog)
      <3>1. SUFFICES ASSUME stage \in {"close", "done"} PROVE Len(stopLog) = Len(startLog)
        OBVIOUS
      <3>2. Len(started) = 0
        BY <1>1, <3>1, Lengths DEF LifespanInv, LedgerInv
      <3> QED
        BY <2>1, <3>2
    <2>3. loop = "running" => Len(startLog) = Len(Packages) /\ stopLog = <<>>
      BY <1>1 DEF LifespanInv, LedgerInv, LoopInv, Ahead
    <2>4. \A n \in DOMAIN stopLog : stopLog[n] = startLog[Len(startLog) + 1 - n]
      BY <1>1, <2>1 DEF LifespanInv, LedgerInv
    <2>5. Len(stopLog) <= Len(startLog)
      BY <2>1
    <2> QED
      BY <2>2, <2>3, <2>4, <2>5 DEF StopsMirrorStarts, Lifespan!StopsMirrorStarts
  <1> QED
    BY <1>1, LifespanInductive, PTL

\* For any packages, whatever raises or is cancelled on the way in and out: behind a close of the
\* broker that returns, the error of a package stop never replaces what the body raised and is not lost
\* when it raised nothing, and a cancellation of a package stop reaches the server.
THEOREM RightErrorLeavesHolds == Lifespan!Spec => []RightErrorLeaves
  <1>1. LifespanInv => RightErrorLeaves
    BY DEF LifespanInv, ErrorInv, RightErrorLeaves
  <1> QED
    BY <1>1, LifespanInductive, PTL

-------------------------------------------------------------------------------
(* The rows: what their invariant says. *)

USE RowsAssumption DEF RowsAssumption

\* A request at work has a call, and has not ended.
CallOK(r) ==
    /\ pc[r] = "idle" => call[r] = NoCall /\ outcome[r] = "none" /\ found[r] = Absent
    /\ pc[r] \notin {"idle", "over"} => call[r] \in Call /\ outcome[r] = "none"
    /\ pc[r] = "over" => outcome[r] # "none"
    /\ outcome[r] \notin {"none", "refused"} => call[r] \in Call
    /\ call[r] \in Call =>
        /\ call[r].kind = "change" => Mine(r) \in Identity
        /\ call[r].kind = "put" /\ Mine(r) \in SettingRow => Wanted(r) \in Value

\* What brought a session to its step.
PathOK(r) ==
    /\ pc[r] = "flush" => call[r].kind # "get" /\ (found[r] = Absent => call[r].kind = "put")
    /\ pc[r] = "reread" => call[r].kind = "put" /\ Mine(r) \in Identity
    /\ pc[r] = "seed" => HasSeed(r)
    /\ pc[r] = "publish" => IsGrant(r)
    /\ pc[r] = "commit" => call[r].kind = "put" \/ found[r] # Absent
    /\ pc[r] \in {"seed", "commit"} /\ call[r].kind # "get" /\ found[r] # Wanted(r) => Wrote(r)
    /\ call[r] \in Call /\ found[r] # Absent => row[Mine(r)] # Absent

\* Who holds a row wrote another value than it read, and has not committed.
HolderOK(r) ==
    \A c \in Cell : holder[c] = r =>
        /\ c = Mine(r) /\ pc[r] \in {"seed", "commit"}
        /\ call[r].kind # "get" /\ found[r] # Wanted(r)

\* The copy is written by a session whose setting it copies; where the package keeps the
\* latest value, by every one that comes to its commit.
SeederOK(r) ==
    /\ \A k \in Seeded :
        seeder[k] = r => pc[r] = "commit" /\ HasSeed(r) /\ Mine(r) = ProductRow(k)
    /\ \A k \in KeepsLatest :
        pc[r] = "commit" /\ HasSeed(r) /\ Mine(r) = ProductRow(k) => seeder[k] = r

\* A grant past its event is announced.
ToldOK(r) == IsGrant(r) /\ (pc[r] = "answer" \/ outcome[r] = "ok") => r \in told

Good(r) == CallOK(r) /\ PathOK(r) /\ HolderOK(r) /\ SeederOK(r) /\ ToldOK(r)

IInv == TypeOK /\ \A r \in Request : Good(r)

-------------------------------------------------------------------------------
(* Calls and cells. *)

Step == {"idle", "select", "flush", "reread", "seed", "commit", "publish", "answer", "over"}

LEMMA NoCallFact == NoCall \notin Call /\ NoCall.kind = "none"
  BY DEF NoCall, Call

\* A product setting is the row of its key.
LEMMA SeedFact ==
  ASSUME NEW c \in SettingRow, c[2] = "product"
  PROVE  c[1] \in Key /\ c = ProductRow(c[1])
  BY DEF SettingRow, ProductRow

LEMMA HasSeedFact ==
  ASSUME NEW r \in Request, HasSeed(r)
  PROVE  /\ Mine(r)[1] \in Seeded /\ Mine(r) = ProductRow(Mine(r)[1]) /\ Mine(r) \in SettingRow
         /\ call[r].kind = "put" /\ ~IsGrant(r)
  <1>1. Mine(r) \in SettingRow /\ Mine(r)[2] = "product" /\ call[r].kind = "put" /\ Mine(r)[1] \in Seeded
    BY DEF HasSeed, IsProductSetting
  <1>2. Mine(r) \notin Identity
    BY <1>1
  <1> QED
    BY <1>1, <1>2, SeedFact DEF IsGrant

LEMMA CallFact ==
  ASSUME TypeOK, NEW r \in Request, call[r] \in Call
  PROVE  /\ Mine(r) \in Cell /\ Wanted(r) \in Held /\ Wanted(r) # Absent
         /\ call[r].kind \in {"put", "change", "get"}
  BY DEF Call, Mine, Wanted, Held

-------------------------------------------------------------------------------
(* One request moves. *)

OthersRest(r) ==
    \A q \in Request : q # r =>
        /\ pc'[q] = pc[q] /\ call'[q] = call[q] /\ found'[q] = found[q] /\ outcome'[q] = outcome[q]
        /\ \A c \in Cell : holder'[c] = q <=> holder[c] = q
        /\ \A k \in Seeded : seeder'[k] = q <=> seeder[k] = q

LEMMA OneMoves ==
  ASSUME IInv, TypeOK', NEW r \in Request, OthersRest(r), told \subseteq told',
         \A c \in Cell : row[c] # Absent => row'[c] # Absent,
         Good(r)'
  PROVE  IInv'
  <1> SUFFICES ASSUME NEW q \in Request, q # r
               PROVE  Good(q)'
    BY DEF IInv
  <1>1. /\ pc'[q] = pc[q] /\ call'[q] = call[q] /\ found'[q] = found[q] /\ outcome'[q] = outcome[q]
        /\ \A c \in Cell : holder'[c] = q <=> holder[c] = q
        /\ \A k \in Seeded : seeder'[k] = q <=> seeder[k] = q
    BY DEF OthersRest
  <1>2. /\ Mine(q)' = Mine(q) /\ Wanted(q)' = Wanted(q)
        /\ HasSeed(q)' = HasSeed(q) /\ IsGrant(q)' = IsGrant(q)
    BY <1>1 DEF Mine, Wanted, HasSeed, IsGrant, IsProductSetting
  <1>3. Good(q)
    BY DEF IInv
  <1>4. CallOK(q)'
    BY <1>1, <1>2, <1>3 DEF Good, CallOK
  <1>5. PathOK(q)'
    <2>1. call[q] \in Call => Mine(q) \in Cell
      BY CallFact DEF IInv
    <2>2. pc[q] \in {"seed", "commit"} => call[q] \in Call
      BY <1>3 DEF Good, CallOK
    <2>3. pc[q] \in {"seed", "commit"} => (Wrote(q)' <=> Wrote(q))
      BY <1>1, <1>2, <2>1, <2>2 DEF Wrote
    <2> QED
      BY <1>1, <1>2, <1>3, <2>1, <2>3 DEF Good, PathOK
  <1>6. HolderOK(q)'
    BY <1>1, <1>2, <1>3 DEF Good, HolderOK
  <1>7. SeederOK(q)'
    BY <1>1, <1>2, <1>3 DEF Good, SeederOK
  <1>8. ToldOK(q)'
    BY <1>1, <1>2, <1>3 DEF Good, ToldOK
  <1> QED
    BY <1>4, <1>5, <1>6, <1>7, <1>8 DEF Good

\* Where a session goes on.
LEMMA GotoFacts ==
  ASSUME TypeOK, NEW r \in Request, NEW label \in Step, Goto(r, label)
  PROVE  pc' \in [Request -> Step] /\ pc'[r] = label /\ \A q \in Request : q # r => pc'[q] = pc[q]
  BY DEF Goto, TypeOK, Step

\* A session that is closed holds nothing.
LEMMA ReleaseFacts ==
  ASSUME TypeOK, NEW r \in Request, Release(r)
  PROVE  /\ holder' \in [Cell -> Request \cup {None}] /\ seeder' \in [Seeded -> Request \cup {None}]
         /\ \A c \in Cell : holder'[c] # r /\ \A q \in Request : q # r => (holder'[c] = q <=> holder[c] = q)
         /\ \A k \in Seeded : seeder'[k] # r /\ \A q \in Request : q # r => (seeder'[k] = q <=> seeder[k] = q)
  BY DEF Release, TypeOK

\* A request that ends leaves nothing behind but its outcome.
LEMMA EndFacts ==
  ASSUME IInv, NEW r \in Request, NEW how \in {"collided", "unfit", "died"}, End(r, how), Release(r),
         pc[r] \notin {"idle", "over"}, faults' \in 0..MaxFaults,
         UNCHANGED <<row, copy, call, found, told>>
  PROVE  IInv'
  <1>1. TypeOK /\ Good(r)
    BY DEF IInv
  <1>2. /\ pc' \in [Request -> Step] /\ pc'[r] = "over" /\ \A q \in Request : q # r => pc'[q] = pc[q]
    BY <1>1, GotoFacts DEF End, Step
  <1>3. /\ outcome' \in [Request -> {"none", "refused", "collided", "unfit", "died", "missing", "ok"}]
        /\ outcome'[r] = how /\ \A q \in Request : q # r => outcome'[q] = outcome[q]
    BY <1>1 DEF End, TypeOK
  <1>4. /\ holder' \in [Cell -> Request \cup {None}] /\ seeder' \in [Seeded -> Request \cup {None}]
        /\ \A c \in Cell : holder'[c] # r /\ \A q \in Request : q # r => (holder'[c] = q <=> holder[c] = q)
        /\ \A k \in Seeded : seeder'[k] # r /\ \A q \in Request : q # r => (seeder'[k] = q <=> seeder[k] = q)
    BY <1>1, ReleaseFacts
  <1>5. TypeOK'
    BY <1>1, <1>2, <1>3, <1>4 DEF TypeOK, Step
  <1>6. OthersRest(r)
    BY <1>2, <1>3, <1>4 DEF OthersRest
  <1>7. call[r] \in Call
    BY <1>1 DEF Good, CallOK
  <1>8. CallOK(r)'
    BY <1>1, <1>2, <1>3, <1>7 DEF Good, CallOK, Mine, Wanted
  <1>9. PathOK(r)'
    BY <1>1, <1>2 DEF Good, PathOK, Mine
  <1>10. HolderOK(r)' /\ SeederOK(r)'
    BY <1>2, <1>4 DEF HolderOK, SeederOK
  <1>11. ToldOK(r)'
    BY <1>2, <1>3 DEF ToldOK
  <1> QED
    BY <1>5, <1>6, <1>8, <1>9, <1>10, <1>11, OneMoves DEF Good

-------------------------------------------------------------------------------
(* The calls. *)

LEMMA EnterInv ==
  ASSUME IInv, NEW r \in Request, NEW c \in Call, Enter(r, c),
         c.kind = "change" => c.cell \in Identity,
         c.kind = "put" /\ c.cell \in SettingRow => c.value \in Value
  PROVE  IInv'
  <1>1. /\ pc[r] = "idle" /\ call' = [call EXCEPT ![r] = c] /\ Goto(r, "select")
        /\ UNCHANGED <<row, holder, copy, seeder, found, told, outcome, faults>>
    BY DEF Enter, rows, copies
  <1>2. TypeOK /\ Good(r)
    BY DEF IInv
  <1>3. /\ pc' \in [Request -> Step] /\ pc'[r] = "select" /\ \A q \in Request : q # r => pc'[q] = pc[q]
    BY <1>1, <1>2, GotoFacts DEF Step
  <1>4. /\ call' \in [Request -> Call \cup {NoCall}] /\ call'[r] = c
        /\ \A q \in Request : q # r => call'[q] = call[q]
    BY <1>1, <1>2 DEF TypeOK
  <1>5. TypeOK'
    BY <1>1, <1>2, <1>3, <1>4 DEF TypeOK, Step
  <1>6. OthersRest(r)
    BY <1>1, <1>3, <1>4 DEF OthersRest
  <1>7. outcome[r] = "none" /\ \A d \in Cell : holder[d] # r
    BY <1>1, <1>2 DEF Good, CallOK, HolderOK
  <1>8. \A k \in Seeded : seeder[k] # r
    BY <1>1, <1>2 DEF Good, SeederOK
  <1>9. CallOK(r)'
    BY <1>1, <1>3, <1>4, <1>7 DEF CallOK, Mine, Wanted
  <1>10. found[r] = Absent
    BY <1>1, <1>2 DEF Good, CallOK
  <1>11. PathOK(r)'
    BY <1>1, <1>3, <1>10 DEF PathOK
  <1>12. HolderOK(r)' /\ SeederOK(r)'
    BY <1>1, <1>3, <1>7, <1>8 DEF HolderOK, SeederOK
  <1>13. ToldOK(r)'
    BY <1>1, <1>3, <1>7 DEF ToldOK
  <1> QED
    BY <1>1, <1>5, <1>6, <1>9, <1>11, <1>12, <1>13, OneMoves DEF Good

LEMMA RefuseInv ==
  ASSUME IInv, NEW r \in Request, Refuse(r)
  PROVE  IInv'
  <1>1. /\ pc[r] = "idle" /\ End(r, "refused")
        /\ UNCHANGED <<row, holder, copy, seeder, call, found, told, faults>>
    BY DEF Refuse, rows, copies
  <1>2. TypeOK /\ Good(r)
    BY DEF IInv
  <1>3. /\ pc' \in [Request -> Step] /\ pc'[r] = "over" /\ \A q \in Request : q # r => pc'[q] = pc[q]
    BY <1>1, <1>2, GotoFacts DEF End, Step
  <1>4. /\ outcome' \in [Request -> {"none", "refused", "collided", "unfit", "died", "missing", "ok"}]
        /\ outcome'[r] = "refused" /\ \A q \in Request : q # r => outcome'[q] = outcome[q]
    BY <1>1, <1>2 DEF End, TypeOK
  <1>5. TypeOK'
    BY <1>1, <1>2, <1>3, <1>4 DEF TypeOK, Step
  <1>6. OthersRest(r)
    BY <1>1, <1>3, <1>4 DEF OthersRest
  <1>7. CallOK(r)'
    BY <1>1, <1>2, <1>3, <1>4 DEF Good, CallOK, Mine, Wanted
  <1>8. PathOK(r)' /\ ToldOK(r)'
    BY <1>1, <1>2, <1>3, <1>4, NoCallFact DEF Good, CallOK, PathOK, ToldOK
  <1>9. HolderOK(r)' /\ SeederOK(r)'
    BY <1>1, <1>2, <1>3 DEF Good, HolderOK, SeederOK
  <1> QED
    BY <1>1, <1>5, <1>6, <1>7, <1>8, <1>9, OneMoves DEF Good

LEMMA AskInv ==
  ASSUME IInv, NEW r \in Request, Ask(r)
  PROVE  IInv'
  <1>1. ASSUME NEW capable \in BOOLEAN, NEW key \in Key, NEW scope \in {"product", "user"},
               NEW subject \in Subject \cup {0}, NEW value \in Value \cup {Invalid},
               Set(r, capable, key, scope, subject, value)
        PROVE  IInv'
    <2> DEFINE c == [kind |-> "put", cell |-> <<key, scope, subject>>, value |-> value]
    <2>1. CASE Refuse(r)
      BY <2>1, RefuseInv
    <2>2. CASE Admitted(capable, key, scope, subject, value) /\ Enter(r, c)
      <3>1. value \in Value /\ <<key, scope, subject>> \in Cell
        BY <2>2 DEF Admitted, Cell
      <3>2. c \in Call
        BY <3>1 DEF Call, Held
      <3> QED
        BY <2>2, <3>1, <3>2, EnterInv
    <2> QED
      BY <1>1, <2>1, <2>2 DEF Set
  <1>2. ASSUME NEW capable \in BOOLEAN, NEW i \in Identity, Grant(r, capable, i)
        PROVE  IInv'
    <2> DEFINE c == [kind |-> "put", cell |-> i, value |-> "active"]
    <2>1. c \in Call /\ c.kind = "put" /\ c.cell = i /\ i \notin SettingRow
      BY DEF Call, Held, Cell
    <2>2. Refuse(r) \/ Enter(r, c)
      BY <1>2 DEF Grant, Privileged
    <2> QED
      BY <2>1, <2>2, RefuseInv, EnterInv
  <1>3. ASSUME NEW capable \in BOOLEAN, NEW i \in Identity, Revoke(r, capable, i)
        PROVE  IInv'
    <2> DEFINE c == [kind |-> "change", cell |-> i, value |-> "inactive"]
    <2>1. c \in Call /\ c.kind = "change" /\ c.cell = i
      BY DEF Call, Held, Cell
    <2>2. Refuse(r) \/ Enter(r, c)
      BY <1>3 DEF Revoke, Privileged
    <2> QED
      BY <2>1, <2>2, RefuseInv, EnterInv
  <1>4. ASSUME NEW d \in Cell, Get(r, d)
        PROVE  IInv'
    <2> DEFINE c == [kind |-> "get", cell |-> d, value |-> "inactive"]
    <2>1. c \in Call /\ c.kind = "get"
      BY DEF Call, Held
    <2>2. Enter(r, c)
      BY <1>4 DEF Get
    <2> QED
      BY <2>1, <2>2, EnterInv
  <1> QED
    BY <1>1, <1>2, <1>3, <1>4 DEF Ask

-------------------------------------------------------------------------------
(* The session. *)

\* A step that reads its row or nothing, and goes on.
LEMMA ReadOn ==
  ASSUME IInv, NEW r \in Request, pc[r] \notin {"idle", "over"},
         NEW label \in {"flush", "reread", "commit", "answer"}, Goto(r, label),
         UNCHANGED <<row, holder, copy, seeder, call, outcome, faults>>,
         told' \in {told, told \cup {r}},
         found' \in {found, [found EXCEPT ![r] = row[Mine(r)]]},
         PathOK(r)', HolderOK(r)', SeederOK(r)', ToldOK(r)'
  PROVE  IInv'
  <1>1. TypeOK /\ Good(r)
    BY DEF IInv
  <1>2. /\ pc' \in [Request -> Step] /\ pc'[r] = label /\ \A q \in Request : q # r => pc'[q] = pc[q]
    BY <1>1, GotoFacts DEF Step
  <1>3. call[r] \in Call /\ outcome[r] = "none"
    BY <1>1 DEF Good, CallOK
  <1>4. found' \in [Request -> Held \cup {Absent}] /\ \A q \in Request : q # r => found'[q] = found[q]
    BY <1>1, <1>3, CallFact DEF TypeOK
  <1>5. TypeOK'
    BY <1>1, <1>2, <1>4 DEF TypeOK, Step
  <1>6. OthersRest(r)
    BY <1>2, <1>4 DEF OthersRest
  <1>7. CallOK(r)'
    BY <1>1, <1>2, <1>3 DEF Good, CallOK, Mine, Wanted
  <1> QED
    BY <1>5, <1>6, <1>7, OneMoves DEF Good

\* A request before its flush holds nothing.
LEMMA NothingHeld ==
  ASSUME IInv, NEW r \in Request, pc[r] \notin {"seed", "commit"}
  PROVE  (\A c \in Cell : holder[c] # r) /\ \A k \in Seeded : seeder[k] # r
  BY DEF IInv, Good, HolderOK, SeederOK

LEMMA SelectInv ==
  ASSUME IInv, NEW r \in Request, Select(r)
  PROVE  IInv'
  <1> DEFINE label == IF call[r].kind # "put" /\ row[Mine(r)] = Absent THEN "answer"
                      ELSE IF call[r].kind = "get" THEN "commit"
                      ELSE "flush"
  <1>1. /\ pc[r] = "select" /\ found' = [found EXCEPT ![r] = row[Mine(r)]] /\ Goto(r, label)
        /\ UNCHANGED <<row, holder, copy, seeder, call, told, outcome, faults>>
    BY DEF Select, rows, copies
  <1>2. TypeOK /\ Good(r)
    BY DEF IInv
  <1>3. call[r] \in Call /\ label \in Step
    BY <1>1, <1>2 DEF Good, CallOK, Step
  <1>4. /\ Mine(r) \in Cell /\ call[r].kind \in {"put", "change", "get"}
        /\ Mine(r)' = Mine(r) /\ Wanted(r)' = Wanted(r)
    BY <1>1, <1>2, <1>3, CallFact DEF Mine, Wanted
  <1>5. pc'[r] = label /\ found'[r] = row[Mine(r)]
    BY <1>1, <1>2, <1>3, GotoFacts DEF TypeOK
  <1>6. PathOK(r)'
    BY <1>1, <1>4, <1>5 DEF PathOK, Wrote
  <1>7. HolderOK(r)'
    BY <1>1, NothingHeld DEF HolderOK
  <1>8. SeederOK(r)'
    BY <1>1, <1>5, NothingHeld, HasSeedFact DEF SeederOK, HasSeed
  <1>9. ToldOK(r)'
    BY <1>1, <1>2, <1>5 DEF ToldOK, IsGrant, Good, CallOK
  <1> QED
    BY <1>1, <1>6, <1>7, <1>8, <1>9, ReadOn

LEMMA FlushInv ==
  ASSUME IInv, NEW r \in Request, Flush(r)
  PROVE  IInv'
  <1> DEFINE label == IF HasSeed(r) THEN "seed" ELSE "commit"
  <1>1. /\ pc[r] = "flush" /\ Goto(r, label)
        /\ UNCHANGED <<row, copy, seeder, call, found, told, outcome, faults>>
        /\ \/ found[r] = Wanted(r) /\ holder' = holder
           \/ /\ found[r] # Wanted(r) /\ holder[Mine(r)] = None
              /\ holder' = [holder EXCEPT ![Mine(r)] = r]
    BY DEF Flush, AfterFlush, copies
  <1>2. TypeOK /\ Good(r)
    BY DEF IInv
  <1>3. call[r] \in Call /\ outcome[r] = "none" /\ label \in Step
    BY <1>1, <1>2 DEF Good, CallOK, Step
  <1>4. /\ Mine(r) \in Cell /\ call[r].kind # "get" /\ (found[r] = Absent => call[r].kind = "put")
        /\ UNCHANGED <<Mine(r), Wanted(r), HasSeed(r), IsGrant(r)>>
    BY <1>1, <1>2, <1>3, CallFact DEF Good, PathOK, Mine, Wanted, HasSeed, IsGrant, IsProductSetting
  <1>5. /\ pc' \in [Request -> Step] /\ pc'[r] = label /\ \A q \in Request : q # r => pc'[q] = pc[q]
    BY <1>1, <1>2, <1>3, GotoFacts
  <1>6. /\ holder' \in [Cell -> Request \cup {None}]
        /\ \A c \in Cell : /\ holder'[c] = r => c = Mine(r) /\ found[r] # Wanted(r)
                           /\ \A q \in Request : q # r => (holder'[c] = q <=> holder[c] = q)
        /\ found[r] # Wanted(r) => holder'[Mine(r)] = r
    BY <1>1, <1>2, <1>4, NothingHeld DEF TypeOK
  <1>7. TypeOK'
    BY <1>1, <1>2, <1>5, <1>6 DEF TypeOK, Step
  <1>8. OthersRest(r)
    BY <1>1, <1>5, <1>6 DEF OthersRest
  <1>9. CallOK(r)'
    BY <1>1, <1>2, <1>3, <1>4, <1>5 DEF Good, CallOK
  <1>10. PathOK(r)'
    BY <1>1, <1>2, <1>4, <1>5, <1>6 DEF Good, PathOK, Wrote
  <1>11. HolderOK(r)'
    BY <1>1, <1>4, <1>5, <1>6 DEF HolderOK
  <1>12. SeederOK(r)'
    BY <1>1, <1>4, <1>5, NothingHeld DEF SeederOK
  <1>13. ToldOK(r)'
    BY <1>1, <1>3, <1>5 DEF ToldOK
  <1> QED
    BY <1>1, <1>7, <1>8, <1>9, <1>10, <1>11, <1>12, <1>13, OneMoves DEF Good

LEMMA CollideInv ==
  ASSUME IInv, NEW r \in Request, Collide(r)
  PROVE  IInv'
  <1>1. /\ pc[r] = "flush" /\ found[r] = Absent /\ UNCHANGED <<row, copy, call, found, told, faults>>
        /\ \/ Mine(r) \in Identity /\ Goto(r, "reread") /\ UNCHANGED <<holder, seeder, outcome>>
           \/ End(r, "collided") /\ Release(r)
    BY DEF Collide
  <1>2. TypeOK /\ Good(r)
    BY DEF IInv
  <1>3. CASE End(r, "collided") /\ Release(r)
    BY <1>1, <1>2, <1>3, EndFacts DEF TypeOK
  <1>4. CASE Mine(r) \in Identity /\ Goto(r, "reread") /\ UNCHANGED <<holder, seeder, outcome>>
    <2>1. pc'[r] = "reread" /\ UNCHANGED <<Mine(r), Wanted(r), HasSeed(r), IsGrant(r)>>
      BY <1>1, <1>2, <1>4, GotoFacts DEF Step, Mine, Wanted, HasSeed, IsGrant, IsProductSetting
    <2>2. PathOK(r)' /\ ToldOK(r)'
      BY <1>1, <1>2, <1>4, <2>1 DEF Good, CallOK, PathOK, ToldOK
    <2>3. HolderOK(r)' /\ SeederOK(r)'
      BY <1>1, <1>4, <2>1, NothingHeld DEF HolderOK, SeederOK
    <2> QED
      BY <1>1, <1>4, <2>2, <2>3, ReadOn
  <1> QED
    BY <1>1, <1>3, <1>4

LEMMA RereadInv ==
  ASSUME IInv, NEW r \in Request, Reread(r)
  PROVE  IInv'
  <1>1. /\ pc[r] = "reread" /\ found' = [found EXCEPT ![r] = row[Mine(r)]] /\ Goto(r, "flush")
        /\ UNCHANGED <<row, holder, copy, seeder, call, told, outcome, faults>>
    BY DEF Reread, rows, copies
  <1>2. TypeOK /\ Good(r)
    BY DEF IInv
  <1>3. /\ pc'[r] = "flush" /\ found'[r] = row[Mine(r)]
        /\ UNCHANGED <<Mine(r), Wanted(r), HasSeed(r), IsGrant(r)>>
    BY <1>1, <1>2, GotoFacts DEF Step, TypeOK, Mine, Wanted, HasSeed, IsGrant, IsProductSetting
  <1>4. PathOK(r)' /\ ToldOK(r)'
    BY <1>1, <1>2, <1>3 DEF Good, CallOK, PathOK, ToldOK
  <1>5. HolderOK(r)' /\ SeederOK(r)'
    BY <1>1, <1>3, NothingHeld DEF HolderOK, SeederOK
  <1> QED
    BY <1>1, <1>4, <1>5, ReadOn

LEMMA SeedInv ==
  ASSUME IInv, NEW r \in Request, Seed(r)
  PROVE  IInv'
  <1> DEFINE k == Mine(r)[1]
  <1>1. /\ pc[r] = "seed" /\ UNCHANGED <<row, copy, call, found, told, faults>>
        /\ \/ End(r, "unfit") /\ Release(r)
           \/ /\ seeder[k] = None
              /\ seeder' = IF k \in KeepsLatest \/ copy[k] = Absent THEN [seeder EXCEPT ![k] = r] ELSE seeder
              /\ Goto(r, "commit") /\ UNCHANGED <<holder, outcome>>
    BY DEF Seed
  <1>2. TypeOK /\ Good(r)
    BY DEF IInv
  <1>3. CASE End(r, "unfit") /\ Release(r)
    BY <1>1, <1>2, <1>3, EndFacts DEF TypeOK
  <1>4. CASE /\ seeder[k] = None
             /\ seeder' = IF k \in KeepsLatest \/ copy[k] = Absent THEN [seeder EXCEPT ![k] = r] ELSE seeder
             /\ Goto(r, "commit") /\ UNCHANGED <<holder, outcome>>
    <2>1. HasSeed(r)
      BY <1>1, <1>2 DEF Good, PathOK
    <2>2. k \in Seeded /\ Mine(r) = ProductRow(k) /\ call[r].kind = "put" /\ ~IsGrant(r)
      BY <2>1, HasSeedFact
    <2>3. \A j : Mine(r) = ProductRow(j) => j = k
      BY DEF ProductRow
    <2>4. UNCHANGED <<Mine(r), Wanted(r), HasSeed(r), IsGrant(r)>>
      BY <1>1 DEF Mine, Wanted, HasSeed, IsGrant, IsProductSetting
    <2> HIDE DEF k
    <2>5. /\ pc' \in [Request -> Step] /\ pc'[r] = "commit" /\ \A q \in Request : q # r => pc'[q] = pc[q]
      BY <1>2, <1>4, GotoFacts DEF Step
    <2>6. /\ seeder' \in [Seeded -> Request \cup {None}]
          /\ \A j \in Seeded : /\ seeder'[j] = r => j = k
                               /\ \A q \in Request : q # r => (seeder'[j] = q <=> seeder[j] = q)
          /\ k \in KeepsLatest => seeder'[k] = r
      <3>1. \A j \in Seeded : seeder[j] # r
        BY <1>1, <1>2 DEF Good, SeederOK
      <3>2. CASE k \in KeepsLatest \/ copy[k] = Absent
        BY <1>2, <1>4, <2>2, <3>1, <3>2 DEF TypeOK
      <3>3. CASE ~(k \in KeepsLatest \/ copy[k] = Absent)
        BY <1>2, <1>4, <2>2, <3>1, <3>3 DEF TypeOK
      <3> QED
        BY <3>2, <3>3
    <2>7. TypeOK'
      BY <1>1, <1>2, <1>4, <2>5, <2>6 DEF TypeOK, Step
    <2>8. OthersRest(r)
      BY <1>1, <1>4, <2>5, <2>6 DEF OthersRest
    <2>9. CallOK(r)'
      BY <1>1, <1>2, <1>4, <2>4, <2>5 DEF Good, CallOK
    <2>10. PathOK(r)'
      BY <1>1, <1>2, <1>4, <2>2, <2>4, <2>5 DEF Good, PathOK, Wrote
    <2>11. HolderOK(r)'
      BY <1>1, <1>2, <1>4, <2>4, <2>5 DEF Good, HolderOK
    <2>12. SeederOK(r)'
      BY <2>1, <2>2, <2>3, <2>4, <2>5, <2>6 DEF SeederOK
    <2>13. ToldOK(r)'
      BY <2>2, <2>4 DEF ToldOK
    <2> QED
      BY <1>1, <2>7, <2>8, <2>9, <2>10, <2>11, <2>12, <2>13, OneMoves DEF Good
  <1> QED
    BY <1>1, <1>3, <1>4

LEMMA CommitInv ==
  ASSUME IInv, NEW r \in Request, Commit(r)
  PROVE  IInv'
  <1> DEFINE label == IF IsGrant(r) THEN "publish" ELSE "answer"
  <1>1. /\ pc[r] = "commit" /\ Release(r) /\ Goto(r, label)
        /\ row' = IF Wrote(r) THEN [row EXCEPT ![Mine(r)] = Wanted(r)] ELSE row
        /\ copy' = [k \in Seeded |-> IF seeder[k] = r THEN Wanted(r) ELSE copy[k]]
        /\ UNCHANGED <<call, found, told, outcome, faults>>
    BY DEF Commit
  <1>2. TypeOK /\ Good(r)
    BY DEF IInv
  <1>3. call[r] \in Call /\ outcome[r] = "none" /\ label \in Step
    BY <1>1, <1>2 DEF Good, CallOK, Step
  <1>4. /\ Mine(r) \in Cell /\ Wanted(r) \in Held /\ Wanted(r) # Absent
        /\ UNCHANGED <<Mine(r), Wanted(r), HasSeed(r), IsGrant(r)>>
    BY <1>1, <1>2, <1>3, CallFact DEF Mine, Wanted, HasSeed, IsGrant, IsProductSetting
  <1>5. /\ pc' \in [Request -> Step] /\ pc'[r] = label /\ \A q \in Request : q # r => pc'[q] = pc[q]
    BY <1>1, <1>2, <1>3, GotoFacts
  <1>6. /\ holder' \in [Cell -> Request \cup {None}] /\ seeder' \in [Seeded -> Request \cup {None}]
        /\ \A c \in Cell : holder'[c] # r /\ \A q \in Request : q # r => (holder'[c] = q <=> holder[c] = q)
        /\ \A k \in Seeded : seeder'[k] # r /\ \A q \in Request : q # r => (seeder'[k] = q <=> seeder[k] = q)
    BY <1>1, <1>2, ReleaseFacts
  <1>7. /\ row' \in [Cell -> Held \cup {Absent}]
        /\ \A c \in Cell : row'[c] # row[c] => row'[c] = Wanted(r)
    BY <1>1, <1>2, <1>4 DEF TypeOK
  <1>8. copy' \in [Seeded -> Value \cup {Absent}]
    <2>1. ASSUME NEW k \in Seeded, seeder[k] = r
          PROVE  Wanted(r) \in Value
      <3>1. HasSeed(r)
        BY <1>2, <2>1 DEF Good, SeederOK
      <3> QED
        BY <1>2, <1>3, <3>1, HasSeedFact DEF Good, CallOK
    <2> QED
      BY <1>1, <1>2, <2>1 DEF TypeOK
  <1>9. TypeOK'
    BY <1>1, <1>2, <1>5, <1>6, <1>7, <1>8 DEF TypeOK, Step
  <1>10. OthersRest(r)
    BY <1>1, <1>5, <1>6 DEF OthersRest
  <1>11. CallOK(r)'
    BY <1>1, <1>2, <1>3, <1>4, <1>5 DEF Good, CallOK
  <1>12. PathOK(r)'
    BY <1>1, <1>2, <1>4, <1>5, <1>7 DEF Good, PathOK
  <1>13. HolderOK(r)' /\ SeederOK(r)'
    BY <1>5, <1>6 DEF HolderOK, SeederOK
  <1>14. ToldOK(r)'
    BY <1>1, <1>3, <1>4, <1>5 DEF ToldOK
  <1> QED
    BY <1>1, <1>4, <1>7, <1>9, <1>10, <1>11, <1>12, <1>13, <1>14, OneMoves DEF Good

LEMMA PublishInv ==
  ASSUME IInv, NEW r \in Request, Publish(r)
  PROVE  IInv'
  <1>1. /\ pc[r] = "publish" /\ told' = told \cup {r} /\ Goto(r, "answer")
        /\ UNCHANGED <<row, holder, copy, seeder, call, found, outcome, faults>>
    BY DEF Publish, rows, copies
  <1>2. TypeOK /\ Good(r)
    BY DEF IInv
  <1>3. pc'[r] = "answer" /\ Mine(r)' = Mine(r)
    BY <1>1, <1>2, GotoFacts DEF Step, Mine
  <1>4. PathOK(r)' /\ ToldOK(r)'
    BY <1>1, <1>2, <1>3 DEF Good, PathOK, ToldOK
  <1>5. HolderOK(r)' /\ SeederOK(r)'
    BY <1>1, <1>3, NothingHeld DEF HolderOK, SeederOK
  <1> QED
    BY <1>1, <1>4, <1>5, ReadOn

LEMMA AnswerInv ==
  ASSUME IInv, NEW r \in Request, Answer(r)
  PROVE  IInv'
  <1> DEFINE how == IF Missed(r) THEN "missing" ELSE "ok"
  <1>1. /\ pc[r] = "answer" /\ End(r, how)
        /\ UNCHANGED <<row, holder, copy, seeder, call, found, told, faults>>
    BY DEF Answer, rows, copies
  <1>2. TypeOK /\ Good(r)
    BY DEF IInv
  <1>3. /\ pc' \in [Request -> Step] /\ pc'[r] = "over" /\ \A q \in Request : q # r => pc'[q] = pc[q]
    BY <1>1, <1>2, GotoFacts DEF End, Step
  <1>4. /\ outcome' \in [Request -> {"none", "refused", "collided", "unfit", "died", "missing", "ok"}]
        /\ outcome'[r] \in {"missing", "ok"} /\ \A q \in Request : q # r => outcome'[q] = outcome[q]
    BY <1>1, <1>2 DEF End, TypeOK
  <1>5. TypeOK'
    BY <1>1, <1>2, <1>3, <1>4 DEF TypeOK, Step
  <1>6. OthersRest(r)
    BY <1>1, <1>3, <1>4 DEF OthersRest
  <1>7. UNCHANGED <<Mine(r), Wanted(r), IsGrant(r)>>
    BY <1>1 DEF Mine, Wanted, IsGrant
  <1>8. CallOK(r)' /\ PathOK(r)'
    BY <1>1, <1>2, <1>3, <1>4, <1>7 DEF Good, CallOK, PathOK
  <1>9. ToldOK(r)'
    BY <1>1, <1>2, <1>7 DEF Good, ToldOK
  <1>10. HolderOK(r)' /\ SeederOK(r)'
    BY <1>1, <1>3, NothingHeld DEF HolderOK, SeederOK
  <1> QED
    BY <1>1, <1>5, <1>6, <1>8, <1>9, <1>10, OneMoves DEF Good

LEMMA DieInv ==
  ASSUME IInv, NEW r \in Request, Die(r)
  PROVE  IInv'
  <1>1. faults' \in 0..MaxFaults
    BY DEF Die, IInv, TypeOK
  <1> QED
    BY <1>1, EndFacts DEF Die

-------------------------------------------------------------------------------
(* The theorems of the rows. *)

LEMMA InitInv == Init => IInv
  <1> SUFFICES ASSUME Init
               PROVE  IInv
    OBVIOUS
  <1>1. TypeOK
    BY DEF Init, TypeOK
  <1>2. ASSUME NEW r \in Request
        PROVE  Good(r)
    BY NoCallFact DEF Init, Good, CallOK, PathOK, HolderOK, SeederOK, ToldOK, IsGrant
  <1> QED
    BY <1>1, <1>2 DEF IInv

LEMMA StepInv == IInv /\ [Next]_vars => IInv'
  <1> SUFFICES ASSUME IInv, [Next]_vars
               PROVE  IInv'
    OBVIOUS
  <1>1. ASSUME NEW r \in Request, Ask(r) \/ Work(r) \/ Die(r)
        PROVE  IInv'
    BY <1>1, AskInv, SelectInv, FlushInv, CollideInv, RereadInv, SeedInv, CommitInv, PublishInv,
       AnswerInv, DieInv DEF Work
  <1>2. CASE UNCHANGED vars
    <2>1. UNCHANGED <<row, holder, copy, seeder, pc, call, found, told, outcome, faults>>
      BY <1>2 DEF vars
    <2>2. TypeOK'
      BY <2>1 DEF IInv, TypeOK
    <2>3. ASSUME NEW r \in Request
          PROVE  Good(r)'
      <3>1. Good(r) /\ UNCHANGED <<Mine(r), Wanted(r), HasSeed(r), IsGrant(r)>>
        BY <2>1 DEF IInv, Mine, Wanted, HasSeed, IsGrant, IsProductSetting
      <3>2. CallOK(r)' /\ PathOK(r)'
        BY <2>1, <3>1 DEF Good, CallOK, PathOK, Wrote
      <3>3. HolderOK(r)' /\ SeederOK(r)' /\ ToldOK(r)'
        BY <2>1, <3>1 DEF Good, HolderOK, SeederOK, ToldOK
      <3> QED
        BY <3>2, <3>3 DEF Good
    <2> QED
      BY <2>2, <2>3 DEF IInv
  <1> QED
    BY <1>1, <1>2 DEF Next

\* The invariant of the sessions.
THEOREM Inductive == Spec => []IInv
  BY InitInv, StepInv, PTL DEF Spec

\* Every variable keeps its type: AnsweredGrantIsTold and the promise below read them.
THEOREM RowsTypes == Spec => []TypeOK
  <1>1. IInv => TypeOK
    BY DEF IInv
  <1> QED
    BY <1>1, Inductive, PTL

\* A grant that was answered is announced: the event stands between the commit and the
\* answer on every path, and nothing withdraws it.
THEOREM GrantsAreTold == Spec => []AnsweredGrantIsTold
  <1>1. IInv => AnsweredGrantIsTold
    BY DEF IInv, Good, ToldOK, AnsweredGrantIsTold
  <1> QED
    BY <1>1, Inductive, PTL

-------------------------------------------------------------------------------
(* The copies. *)

\* Nothing but a commit changes a row or a copy.
LEMMA OnlyCommitStores ==
  ASSUME NEW r \in Request, Ask(r) \/ Work(r) \/ Die(r), ~Commit(r)
  PROVE  row' = row /\ copy' = copy
  <1>1. CASE Ask(r)
    BY <1>1 DEF Ask, Set, Get, Grant, Revoke, Privileged, Enter, Refuse, rows, copies
  <1>2. CASE Work(r)
    BY <1>2 DEF Work, Select, Flush, Collide, Reread, Seed, Publish, Answer, rows, copies
  <1>3. CASE Die(r)
    BY <1>3 DEF Die
  <1> QED
    BY <1>1, <1>2, <1>3

\* A commit that parts the copy from its setting wrote the copy and not the row: a write
\* of the row seeds too, and both get the value of the request.
LEMMA CommitDiverges ==
  ASSUME IInv, NEW r \in Request, Commit(r), NEW k \in KeepsLatest,
         copy[k] = row[ProductRow(k)], copy'[k] # row'[ProductRow(k)]
  PROVE  seeder[k] = r /\ pc'[r] = "answer" /\ found[r] = Wanted(r)
  <1>1. /\ pc[r] = "commit" /\ Goto(r, IF IsGrant(r) THEN "publish" ELSE "answer")
        /\ row' = IF Wrote(r) THEN [row EXCEPT ![Mine(r)] = Wanted(r)] ELSE row
        /\ copy' = [j \in Seeded |-> IF seeder[j] = r THEN Wanted(r) ELSE copy[j]]
    BY DEF Commit
  <1>2. TypeOK /\ Good(r) /\ k \in Seeded
    BY DEF IInv
  <1>3. call[r] \in Call
    BY <1>1, <1>2 DEF Good, CallOK
  <1>4. Mine(r) \in Cell /\ call[r].kind \in {"put", "change", "get"}
    BY <1>2, <1>3, CallFact
  <1>5. ProductRow(k) \in SettingRow /\ ProductRow(k) \in Cell /\ ProductRow(k) \notin Identity
    BY <1>2 DEF ProductRow, SettingRow, Cell
  <1>6. seeder[k] = r
    <2> SUFFICES ASSUME seeder[k] # r
                 PROVE  FALSE
      OBVIOUS
    <2>1. copy'[k] = copy[k]
      BY <1>1, <1>2
    <2>2. Wrote(r) /\ Mine(r) = ProductRow(k)
      BY <1>1, <1>2, <1>4, <1>5, <2>1 DEF TypeOK
    <2>3. call[r].kind = "put"
      BY <1>2, <1>3, <1>4, <1>5, <2>2 DEF Good, CallOK, HolderOK, Wrote
    <2>4. ProductRow(k)[1] = k /\ ProductRow(k)[2] = "product"
      BY DEF ProductRow
    <2>5. HasSeed(r)
      BY <1>2, <1>5, <2>2, <2>3, <2>4 DEF HasSeed, IsProductSetting
    <2> QED
      BY <1>1, <1>2, <2>2, <2>5 DEF Good, SeederOK
  <1>7. HasSeed(r) /\ Mine(r) = ProductRow(k) /\ call[r].kind = "put"
    BY <1>2, <1>6, HasSeedFact DEF Good, SeederOK
  <1>8. copy'[k] = Wanted(r) /\ ~Wrote(r)
    <2>1. copy'[k] = Wanted(r)
      BY <1>1, <1>2, <1>6
    <2>2. Wrote(r) => row'[ProductRow(k)] = Wanted(r)
      BY <1>1, <1>2, <1>5, <1>7 DEF TypeOK
    <2> QED
      BY <2>1, <2>2
  <1>9. found[r] = Wanted(r)
    BY <1>1, <1>2, <1>7, <1>8 DEF Good, PathOK
  <1>10. pc'[r] = "answer"
    <2>1. ~IsGrant(r)
      BY <1>7, HasSeedFact
    <2> QED
      BY <1>1, <1>2, <2>1, GotoFacts DEF Step
  <1> QED
    BY <1>6, <1>9, <1>10

\* The copy a package keeps of the latest value parts from its setting at a replay only:
\* a request that found its own value, locked no row, and seeds what another one replaced.
THEOREM CopiesDivergeByReplays == Spec => OnlyReplaysDiverge
  <1> DEFINE Parts == \A k \in KeepsLatest :
                copy[k] = row[ProductRow(k)] /\ copy'[k] # row'[ProductRow(k)] =>
                    \E r \in Request : seeder[k] = r /\ pc'[r] = "answer" /\ found[r] = Wanted(r)
  <1>1. IInv /\ [Next]_vars => [Parts]_vars
    <2> SUFFICES ASSUME IInv, Next, NEW k \in KeepsLatest,
                        copy[k] = row[ProductRow(k)], copy'[k] # row'[ProductRow(k)]
                 PROVE  \E r \in Request : seeder[k] = r /\ pc'[r] = "answer" /\ found[r] = Wanted(r)
      OBVIOUS
    <2>1. PICK r \in Request : Ask(r) \/ Work(r) \/ Die(r)
      BY DEF Next
    <2>2. Commit(r)
      BY <2>1, OnlyCommitStores
    <2> QED
      BY <2>2, CommitDiverges
  <1> QED
    BY <1>1, Inductive, PTL DEF Spec, OnlyReplaysDiverge

-------------------------------------------------------------------------------
(* The register. *)

\* Where the requests stand in the register.
Standing == [q \in Request |-> Phase(q)]
Gotten == [q \in Request |-> Got(q)]

\* The session of r moves, no other one does.
OnlyMoves(r) ==
    /\ pc' = [pc EXCEPT ![r] = pc'[r]] /\ call' = [call EXCEPT ![r] = call'[r]]
    /\ found' = [found EXCEPT ![r] = found'[r]] /\ outcome' = [outcome EXCEPT ![r] = outcome'[r]]

LEMMA OneRequestMoves ==
  ASSUME TypeOK, NEW r \in Request, Ask(r) \/ Work(r) \/ Die(r)
  PROVE  OnlyMoves(r)
  <1>1. CASE Ask(r)
    BY <1>1 DEF Ask, Set, Get, Grant, Revoke, Privileged, Enter, Refuse, End, Goto, rows, copies,
       TypeOK,
       OnlyMoves
  <1>2. CASE Select(r) \/ Reread(r) \/ Publish(r)
    BY <1>2 DEF Select, Reread, Publish, Goto, rows, copies, TypeOK, OnlyMoves
  <1>3. CASE Flush(r) \/ Commit(r)
    BY <1>3 DEF Flush, AfterFlush, Commit, Goto, copies, TypeOK, OnlyMoves
  <1>4. CASE Collide(r)
    BY <1>4 DEF Collide, End, Goto, TypeOK, OnlyMoves
  <1>5. CASE Seed(r)
    BY <1>5 DEF Seed, End, Goto, TypeOK, OnlyMoves
  <1>6. CASE Answer(r) \/ Die(r)
    BY <1>6 DEF Answer, Die, End, Goto, rows, copies, TypeOK, OnlyMoves
  <1> QED
    BY <1>1, <1>2, <1>3, <1>4, <1>5, <1>6 DEF Work

\* So one request at most changes its place in the register.
LEMMA StandingMoves ==
  ASSUME TypeOK, NEW r \in Request, OnlyMoves(r)
  PROVE  /\ Standing' = [Standing EXCEPT ![r] = Phase(r)'] /\ Gotten' = [Gotten EXCEPT ![r] = Got(r)']
         /\ Standing[r] = Phase(r) /\ Gotten[r] = Got(r)
  <1>1. ASSUME NEW q \in Request, q # r
        PROVE  Phase(q)' = Phase(q) /\ Got(q)' = Got(q)
    <2>1. pc'[q] = pc[q] /\ call'[q] = call[q] /\ found'[q] = found[q] /\ outcome'[q] = outcome[q]
      BY <1>1 DEF OnlyMoves, TypeOK
    <2>2. Wanted(q)' = Wanted(q) /\ Missed(q)' = Missed(q)
      BY <2>1 DEF Wanted, Missed
    <2>3. TookEffect(q)' = TookEffect(q)
      BY <2>1, <2>2 DEF TookEffect
    <2>4. Phase(q)' = Phase(q)
      BY <2>1, <2>3 DEF Phase
    <2> QED
      BY <2>1, <2>2, <2>4 DEF Got
  <1> QED
    BY <1>1 DEF Standing, Gotten

\* A step at which r keeps its place is none of the register.
LEMMA Stutters ==
  ASSUME TypeOK, NEW r \in Request, OnlyMoves(r), UNCHANGED <<row, call>>,
         Phase(r)' = Phase(r), Got(r)' = Got(r)
  PROVE  UNCHANGED R!vars
  <1>1. Standing' = Standing /\ Gotten' = Gotten
    BY StandingMoves DEF Standing, Gotten
  <1> QED
    BY <1>1 DEF R!vars, Standing, Gotten

\* A request that took effect by what it read: the row holds what it asked for, or it
\* asked for nothing.
LEMMA TakesByReading ==
  ASSUME TypeOK, NEW r \in Request, OnlyMoves(r), UNCHANGED <<row, call>>, call[r] \in Call,
         Phase(r) = "open", Phase(r)' = "done",
         \/ /\ call[r].kind # "put" /\ (call[r].kind = "change" => row[Mine(r)] = Absent)
            /\ Got(r)' = row[Mine(r)]
         \/ /\ call[r].kind # "get" /\ row[Mine(r)] = Wanted(r)
            /\ Got(r)' = Wanted(r)
  PROVE  R!Take(r)
  <1>1. /\ Standing' = [Standing EXCEPT ![r] = "done"] /\ Gotten' = [Gotten EXCEPT ![r] = Got(r)']
        /\ Standing[r] = "open"
    BY StandingMoves
  <1>2. Mine(r) \in Cell /\ Wanted(r) # Absent /\ call[r].kind \in {"put", "change", "get"}
    BY CallFact
  <1>3. CASE /\ call[r].kind # "put" /\ (call[r].kind = "change" => row[Mine(r)] = Absent)
             /\ Got(r)' = row[Mine(r)]
    BY <1>1, <1>2, <1>3 DEF R!Take, R!Stores, Mine, Standing, Gotten
  <1>4. CASE call[r].kind # "get" /\ row[Mine(r)] = Wanted(r) /\ Got(r)' = Wanted(r)
    <2>1. R!Stores(call[r])
      BY <1>2, <1>4 DEF R!Stores, Mine
    <2>2. row' = [row EXCEPT ![Mine(r)] = Wanted(r)]
      BY <1>2, <1>4 DEF TypeOK
    <2> QED
      BY <1>1, <1>4, <2>1, <2>2 DEF R!Take, Mine, Wanted, Standing, Gotten
  <1> QED
    BY <1>3, <1>4

\* A session that ends without an answer failed.
LEMMA FailsAtEnd ==
  ASSUME IInv, NEW r \in Request, OnlyMoves(r), UNCHANGED <<row, call>>, pc[r] \notin {"idle", "over"},
         pc'[r] = "over", outcome'[r] \in {"collided", "unfit", "died"}
  PROVE  R!Fail(r)
  <1>1. TypeOK /\ outcome[r] = "none"
    BY DEF IInv, Good, CallOK
  <1>2. Phase(r) \in {"open", "done"} /\ Phase(r)' = "failed" /\ Got(r)' = Absent
    BY <1>1 DEF Phase, Got
  <1>3. /\ Standing' = [Standing EXCEPT ![r] = "failed"] /\ Gotten' = [Gotten EXCEPT ![r] = Absent]
        /\ Standing[r] \in {"open", "done"}
    BY <1>1, <1>2, StandingMoves
  <1> QED
    BY <1>3 DEF R!Fail, Standing, Gotten

LEMMA CallMaps ==
  ASSUME IInv, NEW r \in Request, NEW c \in Call, Enter(r, c), OnlyMoves(r)
  PROVE  R!Call(r, c)
  <1>1. /\ pc[r] = "idle" /\ call' = [call EXCEPT ![r] = c] /\ Goto(r, "select")
        /\ UNCHANGED <<row, found, outcome>>
    BY DEF Enter, rows, copies
  <1>2. TypeOK /\ outcome[r] = "none"
    BY <1>1 DEF IInv, Good, CallOK
  <1>3. pc'[r] = "select"
    BY <1>1, <1>2, GotoFacts DEF Step
  <1>4. Phase(r) = "idle" /\ Phase(r)' = "open" /\ Got(r) = Absent /\ Got(r)' = Absent
    BY <1>1, <1>2, <1>3 DEF Phase, TookEffect, Got
  <1>5. Standing' = [Standing EXCEPT ![r] = "open"] /\ Gotten' = Gotten /\ Standing[r] = "idle"
    BY <1>2, <1>4, StandingMoves DEF Gotten
  <1> QED
    BY <1>1, <1>5 DEF R!Call, Standing, Gotten

LEMMA RefuseMaps ==
  ASSUME IInv, NEW r \in Request, Refuse(r), OnlyMoves(r)
  PROVE  UNCHANGED R!vars
  <1>1. pc[r] = "idle" /\ End(r, "refused") /\ UNCHANGED <<row, call, found>>
    BY DEF Refuse, rows
  <1>2. TypeOK
    BY DEF IInv
  <1>3. outcome'[r] = "refused"
    BY <1>1, <1>2 DEF End, TypeOK
  <1>4. Phase(r) = "idle" /\ Phase(r)' = "idle" /\ Got(r) = Absent /\ Got(r)' = Absent
    BY <1>1, <1>3 DEF Phase, Got
  <1> QED
    BY <1>1, <1>2, <1>4, Stutters

LEMMA AskMaps ==
  ASSUME IInv, NEW r \in Request, Ask(r), OnlyMoves(r)
  PROVE  (\E w \in R!Wish : R!Call(r, w)) \/ UNCHANGED R!vars
  <1>1. ASSUME NEW c \in Call, Enter(r, c)
        PROVE  \E w \in R!Wish : R!Call(r, w)
    <2>1. c \in R!Wish
      BY DEF R!Wish, R!Kind, Call
    <2> QED
      BY <1>1, <2>1, CallMaps
  <1>2. Refuse(r) \/ \E c \in Call : Enter(r, c)
    <2>1. ASSUME NEW capable \in BOOLEAN, NEW key \in Key, NEW scope \in {"product", "user"},
                 NEW subject \in Subject \cup {0}, NEW value \in Value \cup {Invalid},
                 Set(r, capable, key, scope, subject, value), ~Refuse(r)
          PROVE  \E c \in Call : Enter(r, c)
      <3>1. Admitted(capable, key, scope, subject, value)
        BY <2>1 DEF Set
      <3>2. value \in Value /\ <<key, scope, subject>> \in Cell
        BY <3>1 DEF Admitted, Cell
      <3>3. [kind |-> "put", cell |-> <<key, scope, subject>>, value |-> value] \in Call
        BY <3>2 DEF Call, Held
      <3> QED
        BY <2>1, <3>1, <3>3 DEF Set
    <2>2. ASSUME NEW capable \in BOOLEAN, NEW i \in Identity,
                 Grant(r, capable, i) \/ Revoke(r, capable, i), ~Refuse(r)
          PROVE  \E c \in Call : Enter(r, c)
      <3>1. /\ [kind |-> "put", cell |-> i, value |-> "active"] \in Call
            /\ [kind |-> "change", cell |-> i, value |-> "inactive"] \in Call
        BY DEF Call, Held, Cell
      <3> QED
        BY <2>2, <3>1 DEF Grant, Revoke, Privileged
    <2>3. ASSUME NEW d \in Cell, Get(r, d)
          PROVE  \E c \in Call : Enter(r, c)
      <3>1. [kind |-> "get", cell |-> d, value |-> "inactive"] \in Call
        BY DEF Call, Held
      <3> QED
        BY <2>3, <3>1 DEF Get
    <2> QED
      BY <2>1, <2>2, <2>3 DEF Ask
  <1>3. CASE Refuse(r)
    BY <1>3, RefuseMaps
  <1> QED
    BY <1>1, <1>2, <1>3

LEMMA SelectMaps ==
  ASSUME IInv, NEW r \in Request, Select(r), OnlyMoves(r)
  PROVE  R!Take(r) \/ UNCHANGED R!vars
  <1> DEFINE label == IF call[r].kind # "put" /\ row[Mine(r)] = Absent THEN "answer"
                      ELSE IF call[r].kind = "get" THEN "commit"
                      ELSE "flush"
  <1>1. /\ pc[r] = "select" /\ found' = [found EXCEPT ![r] = row[Mine(r)]] /\ Goto(r, label)
        /\ UNCHANGED <<row, call, outcome>>
    BY DEF Select, rows, copies
  <1>2. TypeOK /\ call[r] \in Call /\ outcome[r] = "none" /\ label \in Step
    BY <1>1 DEF IInv, Good, CallOK, Step
  <1>3. pc'[r] = label /\ found'[r] = row[Mine(r)]
    BY <1>1, <1>2, GotoFacts DEF TypeOK
  <1>4. /\ Mine(r) \in Cell /\ Wanted(r) # Absent /\ call[r].kind \in {"put", "change", "get"}
        /\ Mine(r)' = Mine(r) /\ Wanted(r)' = Wanted(r)
    BY <1>1, <1>2, CallFact DEF Mine, Wanted
  <1>5. Phase(r) = "open" /\ Got(r) = Absent
    BY <1>1, <1>2 DEF Phase, TookEffect, Got
  <1>6. CASE call[r].kind # "put" /\ (call[r].kind = "get" \/ row[Mine(r)] = Absent)
    <2>1. pc'[r] \in {"answer", "commit"} /\ call'[r] = call[r] /\ outcome'[r] = "none"
      BY <1>1, <1>2, <1>3, <1>6
    <2>2. TookEffect(r)'
      BY <1>6, <1>3, <2>1 DEF TookEffect
    <2>3. Phase(r)' = "done"
      BY <2>1, <2>2 DEF Phase
    <2>4. Got(r)' = row[Mine(r)]
      BY <1>3, <1>6, <2>1, <2>3 DEF Got, Missed
    <2> QED
      BY <1>1, <1>2, <1>4, <1>5, <1>6, <2>3, <2>4, TakesByReading
  <1>7. CASE ~(call[r].kind # "put" /\ (call[r].kind = "get" \/ row[Mine(r)] = Absent))
    <2>1. pc'[r] = "flush" /\ call[r].kind # "get" /\ call'[r] = call[r] /\ outcome'[r] = "none"
      BY <1>1, <1>2, <1>3, <1>4, <1>7
    <2>2. CASE row[Mine(r)] = Wanted(r)
      <3>1. Phase(r)' = "done"
        BY <1>3, <1>4, <2>1, <2>2 DEF Phase, TookEffect
      <3>2. Got(r)' = Wanted(r)
        BY <1>3, <1>4, <2>1, <2>2, <3>1 DEF Got, Missed
      <3> QED
        BY <1>1, <1>2, <1>4, <1>5, <2>1, <2>2, <3>1, <3>2, TakesByReading
    <2>3. CASE row[Mine(r)] # Wanted(r)
      <3>1. Phase(r)' = "open"
        BY <1>3, <1>4, <2>1, <2>3 DEF Phase, TookEffect
      <3> QED
        BY <1>1, <1>2, <1>5, <3>1, Stutters DEF Got
    <2> QED
      BY <2>2, <2>3
  <1> QED
    BY <1>6, <1>7

LEMMA RereadMaps ==
  ASSUME IInv, NEW r \in Request, Reread(r), OnlyMoves(r)
  PROVE  R!Take(r) \/ UNCHANGED R!vars
  <1>1. /\ pc[r] = "reread" /\ found' = [found EXCEPT ![r] = row[Mine(r)]] /\ Goto(r, "flush")
        /\ UNCHANGED <<row, call, outcome>>
    BY DEF Reread, rows, copies
  <1>2. TypeOK /\ call[r] \in Call /\ outcome[r] = "none" /\ call[r].kind = "put"
    BY <1>1 DEF IInv, Good, CallOK, PathOK
  <1>3. /\ pc'[r] = "flush" /\ found'[r] = row[Mine(r)] /\ outcome'[r] = "none"
        /\ call'[r] = call[r] /\ Mine(r)' = Mine(r) /\ Wanted(r)' = Wanted(r)
    BY <1>1, <1>2, GotoFacts DEF Step, TypeOK, Mine, Wanted
  <1>4. Phase(r) = "open" /\ Got(r) = Absent
    BY <1>1, <1>2 DEF Phase, TookEffect, Got
  <1>5. CASE row[Mine(r)] = Wanted(r)
    <2>1. Phase(r)' = "done"
      BY <1>3, <1>5 DEF Phase, TookEffect
    <2>2. Got(r)' = Wanted(r)
      BY <1>2, <1>3, <2>1 DEF Got, Missed
    <2> QED
      BY <1>1, <1>2, <1>4, <1>5, <2>1, <2>2, TakesByReading
  <1>6. CASE row[Mine(r)] # Wanted(r)
    <2>1. Phase(r)' = "open"
      BY <1>2, <1>3, <1>6 DEF Phase, TookEffect
    <2> QED
      BY <1>1, <1>2, <1>4, <2>1, Stutters DEF Got
  <1> QED
    BY <1>5, <1>6

\* Steps of a session that changed nothing the register sees.
LEMMA StepOnMaps ==
  ASSUME IInv, NEW r \in Request, OnlyMoves(r), UNCHANGED <<row, call, found, outcome>>,
         \/ pc[r] = "flush" /\ pc'[r] \in {"seed", "commit"}
         \/ pc[r] = "flush" /\ pc'[r] = "reread" /\ found[r] = Absent
         \/ pc[r] = "seed" /\ pc'[r] = "commit"
         \/ pc[r] = "publish" /\ pc'[r] = "answer"
  PROVE  UNCHANGED R!vars
  <1>1. TypeOK /\ call[r] \in Call /\ outcome[r] = "none"
    BY DEF IInv, Good, CallOK
  <1>2. pc[r] = "flush" => call[r].kind # "get"
    BY DEF IInv, Good, PathOK
  <1>3. /\ Wanted(r) # Absent /\ Wanted(r)' = Wanted(r) /\ Missed(r)' = Missed(r)
        /\ call'[r] = call[r] /\ found'[r] = found[r] /\ outcome'[r] = "none"
    BY <1>1, CallFact DEF Wanted, Missed
  <1>4. TookEffect(r)' = TookEffect(r)
    BY <1>2, <1>3 DEF TookEffect
  <1>5. Phase(r)' = Phase(r)
    BY <1>1, <1>3, <1>4 DEF Phase
  <1>6. Got(r)' = Got(r)
    BY <1>3, <1>5 DEF Got
  <1> QED
    BY <1>1, <1>5, <1>6, Stutters

LEMMA CommitMaps ==
  ASSUME IInv, NEW r \in Request, Commit(r), OnlyMoves(r)
  PROVE  R!Take(r) \/ UNCHANGED R!vars
  <1> DEFINE label == IF IsGrant(r) THEN "publish" ELSE "answer"
  <1>1. /\ pc[r] = "commit" /\ Goto(r, label) /\ UNCHANGED <<call, found, outcome>>
        /\ row' = IF Wrote(r) THEN [row EXCEPT ![Mine(r)] = Wanted(r)] ELSE row
    BY DEF Commit
  <1>2. TypeOK /\ Good(r)
    BY DEF IInv
  <1>3. /\ call[r] \in Call /\ outcome[r] = "none" /\ ~Missed(r) /\ label \in Step
        /\ call[r].kind # "get" /\ found[r] # Wanted(r) => Wrote(r)
    BY <1>1, <1>2 DEF Good, CallOK, PathOK, Missed, Step
  <1>4. Mine(r) \in Cell /\ Wanted(r) # Absent /\ call[r].kind \in {"put", "change", "get"}
    BY <1>2, <1>3, CallFact
  <1>5. /\ pc'[r] = label /\ call'[r] = call[r] /\ found'[r] = found[r] /\ outcome'[r] = "none"
        /\ Wanted(r)' = Wanted(r) /\ Missed(r)' = Missed(r)
    BY <1>1, <1>2, <1>3, GotoFacts DEF Wanted, Missed
  <1>6. Phase(r)' = "done" /\ Got(r)' = IF call[r].kind = "get" THEN found[r] ELSE Wanted(r)
    <2>1. TookEffect(r)'
      BY <1>5 DEF TookEffect
    <2>2. Phase(r)' = "done"
      BY <1>5, <2>1 DEF Phase
    <2> QED
      BY <1>3, <1>5, <2>2 DEF Got
  <1>7. CASE call[r].kind = "get" \/ found[r] = Wanted(r)
    <2>1. row' = row
      <3>1. HolderOK(r)
        BY <1>2 DEF Good
      <3>2. ~Wrote(r)
        BY <1>4, <1>7, <3>1 DEF Wrote, HolderOK
      <3> QED
        BY <1>1, <3>2
    <2>2. Phase(r) = "done"
      BY <1>1, <1>3, <1>7 DEF Phase, TookEffect
    <2>3. Got(r) = IF call[r].kind = "get" THEN found[r] ELSE Wanted(r)
      BY <1>3, <2>2 DEF Got
    <2> QED
      BY <1>1, <1>2, <1>6, <2>1, <2>2, <2>3, Stutters
  <1>8. CASE call[r].kind # "get" /\ found[r] # Wanted(r)
    <2>1. row' = [row EXCEPT ![Mine(r)] = Wanted(r)] /\ Got(r)' = Wanted(r)
      BY <1>1, <1>3, <1>6, <1>8
    <2>2. R!Stores(call[r])
      <3>1. call[r].kind = "put" \/ found[r] # Absent
        BY <1>1, <1>2 DEF Good, PathOK
      <3>2. found[r] # Absent => row[Mine(r)] # Absent
        BY <1>2, <1>3 DEF Good, PathOK
      <3> QED
        BY <1>4, <1>8, <3>1, <3>2 DEF R!Stores, Mine
    <2>3. Phase(r) = "open"
      BY <1>1, <1>3, <1>8 DEF Phase, TookEffect
    <2>4. /\ Standing' = [Standing EXCEPT ![r] = "done"] /\ Gotten' = [Gotten EXCEPT ![r] = Wanted(r)]
          /\ Standing[r] = "open"
      BY <1>2, <1>6, <2>1, <2>3, StandingMoves
    <2> QED
      BY <1>1, <2>1, <2>2, <2>4 DEF R!Take, Mine, Wanted, Standing, Gotten
  <1> QED
    BY <1>7, <1>8

LEMMA AnswerMaps ==
  ASSUME IInv, NEW r \in Request, Answer(r), OnlyMoves(r)
  PROVE  R!Answer(r)
  <1>1. /\ pc[r] = "answer" /\ End(r, IF Missed(r) THEN "missing" ELSE "ok")
        /\ UNCHANGED <<row, call, found>>
    BY DEF Answer, rows
  <1>2. TypeOK /\ outcome[r] = "none"
    BY <1>1 DEF IInv, Good, CallOK
  <1>3. pc'[r] = "over" /\ outcome'[r] \in {"ok", "missing"}
    BY <1>1, <1>2, GotoFacts DEF End, Step, TypeOK
  <1>4. Phase(r) = "done" /\ Phase(r)' = "answered"
    BY <1>1, <1>2, <1>3 DEF Phase, TookEffect
  <1>5. Got(r)' = Got(r)
    BY <1>1, <1>4 DEF Got, Missed, Wanted
  <1>6. Standing' = [Standing EXCEPT ![r] = "answered"] /\ Gotten' = Gotten /\ Standing[r] = "done"
    BY <1>2, <1>4, <1>5, StandingMoves DEF Gotten
  <1> QED
    BY <1>1, <1>6 DEF R!Answer, Standing, Gotten

\* Every step of a request is a step of the register, or none.
LEMMA StepMaps ==
  ASSUME IInv, [Next]_vars
  PROVE  [R!Next]_(R!vars)
  <1>1. CASE UNCHANGED vars
    BY <1>1 DEF vars, R!vars, Phase, TookEffect, Got, Missed, Wanted
  <1>2. ASSUME NEW r \in Request, Ask(r) \/ Work(r) \/ Die(r)
        PROVE  R!Next \/ UNCHANGED R!vars
    <2>1. TypeOK /\ Good(r)
      BY DEF IInv
    <2>2. OnlyMoves(r)
      BY <1>2, <2>1, OneRequestMoves
    <2>3. CASE Ask(r)
      BY <2>2, <2>3, AskMaps DEF R!Next
    <2>4. CASE Select(r) \/ Reread(r) \/ Commit(r)
      BY <2>2, <2>4, SelectMaps, RereadMaps, CommitMaps DEF R!Next
    <2>5. CASE Flush(r)
      <3>1. /\ pc[r] = "flush" /\ Goto(r, IF HasSeed(r) THEN "seed" ELSE "commit")
            /\ UNCHANGED <<row, call, found, outcome>>
        BY <2>5 DEF Flush, AfterFlush
      <3>2. pc'[r] \in {"seed", "commit"}
        BY <2>1, <3>1, GotoFacts DEF Step
      <3> QED
        BY <2>2, <3>1, <3>2, StepOnMaps
    <2>6. CASE Collide(r)
      <3>1. /\ pc[r] = "flush" /\ found[r] = Absent /\ UNCHANGED <<row, call, found>>
            /\ \/ Goto(r, "reread") /\ outcome' = outcome
               \/ End(r, "collided")
        BY <2>6 DEF Collide
      <3>2. CASE Goto(r, "reread") /\ outcome' = outcome
        BY <2>1, <2>2, <3>1, <3>2, GotoFacts, StepOnMaps DEF Step
      <3>3. CASE End(r, "collided")
        <4>1. pc'[r] = "over" /\ outcome'[r] = "collided"
          BY <2>1, <3>3, GotoFacts DEF End, Step, TypeOK
        <4> QED
          BY <2>2, <3>1, <4>1, FailsAtEnd DEF R!Next
      <3> QED
        BY <3>1, <3>2, <3>3
    <2>7. CASE Seed(r)
      <3>1. /\ pc[r] = "seed" /\ UNCHANGED <<row, call, found>>
            /\ \/ Goto(r, "commit") /\ outcome' = outcome
               \/ End(r, "unfit")
        BY <2>7 DEF Seed
      <3>2. CASE Goto(r, "commit") /\ outcome' = outcome
        BY <2>1, <2>2, <3>1, <3>2, GotoFacts, StepOnMaps DEF Step
      <3>3. CASE End(r, "unfit")
        <4>1. pc'[r] = "over" /\ outcome'[r] = "unfit"
          BY <2>1, <3>3, GotoFacts DEF End, Step, TypeOK
        <4> QED
          BY <2>2, <3>1, <4>1, FailsAtEnd DEF R!Next
      <3> QED
        BY <3>1, <3>2, <3>3
    <2>8. CASE Publish(r)
      <3>1. pc[r] = "publish" /\ Goto(r, "answer") /\ UNCHANGED <<row, call, found, outcome>>
        BY <2>8 DEF Publish, rows
      <3> QED
        BY <2>1, <2>2, <3>1, GotoFacts, StepOnMaps DEF Step
    <2>9. CASE Answer(r)
      BY <2>2, <2>9, AnswerMaps DEF R!Next
    <2>10. CASE Die(r)
      <3>1. pc[r] \notin {"idle", "over"} /\ End(r, "died") /\ UNCHANGED <<row, call>>
        BY <2>10 DEF Die
      <3>2. pc'[r] = "over" /\ outcome'[r] = "died"
        BY <2>1, <3>1, GotoFacts DEF End, Step, TypeOK
      <3> QED
        BY <2>2, <3>1, <3>2, FailsAtEnd DEF R!Next
    <2> QED
      BY <1>2, <2>3, <2>4, <2>5, <2>6, <2>7, <2>8, <2>9, <2>10 DEF Work
  <1> QED
    BY <1>1, <1>2 DEF Next

\* The tables are a register: every request takes effect at most once, at one step
\* between its call and its answer, and the answer tells what the row held there.
THEOREM RowsImplementRegister == Spec => ImplementsRegister
  <1>1. Init => R!Init
    <2> SUFFICES ASSUME Init
                 PROVE  R!Init
      OBVIOUS
    <2>1. ASSUME NEW r \in Request
          PROVE  Phase(r) = "idle" /\ Got(r) = Absent
      BY DEF Init, Phase, Got
    <2> QED
      BY <2>1 DEF Init, R!Init, R!NoWish, NoCall
  <1>2. IInv /\ [Next]_vars => [R!Next]_(R!vars)
    BY StepMaps
  <1> QED
    BY <1>1, <1>2, Inductive, PTL DEF Spec, ImplementsRegister, R!Spec
===============================================================================
