-------------------------- MODULE EventConsumerProofs --------------------------
(***************************************************************************)
(* The safety of EventConsumer for any events, readers and bounds.  The    *)
(* inductive invariant ties an uncommitted marker to the one reader that   *)
(* inserted it, and what a reader is about to do to what is committed.     *)
(***************************************************************************)
EXTENDS EventConsumer, FiniteSetTheorems, TLAPS

\* What a reader can rely on at the step it is at.
Knows(d) ==
    /\ pc[d] # "idle" => hand[d] \in 1..Len(stream)
    /\ pc[d] = "marker" => ~processed[d]
    /\ pc[d] = "effect" => processed[d]
    /\ pc[d] \in {"effect", "commit"} /\ processed[d] => claiming[Handled(d)] = d
    /\ pc[d] = "commit" /\ ~processed[d] => Handled(d) \in consumed
    /\ pc[d] = "success" => Handled(d) \in consumed /\ successes[Handled(d)] = 0
    /\ pc[d] = "ack" => Handled(d) \in consumed
    /\ pc[d] = "idle" => ~processed[d]

\* What is committed of an event is its marker with its effect.
EffectsMatch == \A e \in Event : effects[e] = IF e \in consumed THEN 1 ELSE 0

ReaderInv == \A d \in Reader : Knows(d)

\* An uncommitted marker belongs to a reader between its insert and its commit.
MarkerInv ==
    \A e \in Event, d \in Reader : claiming[e] = d =>
        /\ e \notin consumed
        /\ pc[d] \in {"effect", "commit"}
        /\ processed[d]
        /\ Handled(d) = e

\* One reader at most is about to publish the success of an event.
SuccessInv ==
    \A c, d \in Reader : pc[c] = "success" /\ pc[d] = "success" /\ Handled(c) = Handled(d) => c = d

\* An acknowledged entry is one of a consumed event.
AckInv == \A n \in 1..Len(stream) : entry[n] = "acked" => stream[n] \in consumed

IInv ==
    /\ TypeOK
    /\ ReaderInv
    /\ MarkerInv
    /\ SuccessInv
    /\ EffectOnce
    /\ AckInv

-------------------------------------------------------------------------------
(* Lemmas about the helpers. *)

LEMMA ElementFact ==
  ASSUME NEW S, NEW s \in Seq(S), NEW n \in 1..Len(s)
  PROVE  s[n] \in S
  OBVIOUS

LEMMA AppendFacts ==
  ASSUME NEW S, NEW s \in Seq(S), NEW e \in S
  PROVE  /\ Append(s, e) \in Seq(S)
         /\ Len(s) \in Nat
         /\ Len(Append(s, e)) = Len(s) + 1
         /\ \A n \in 1..Len(s) : Append(s, e)[n] = s[n]
         /\ Append(s, e)[Len(s) + 1] = e
  OBVIOUS

\* The event a busy reader handles.
LEMMA HandledFact ==
  ASSUME TypeOK, ReaderInv, NEW d \in Reader, pc[d] # "idle"
  PROVE  hand[d] \in 1..Len(stream) /\ Handled(d) \in Event
  <1>1. hand[d] \in 1..Len(stream)
    BY DEF ReaderInv, Knows
  <1> QED
    BY <1>1, ElementFact DEF Handled, TypeOK

-------------------------------------------------------------------------------
(* The stream. *)

LEMMA AppendInv ==
  ASSUME IInv, NEW e \in Event, Append_(e)
  PROVE  IInv'
  <1> DEFINE Standing == {"new", "pending", "acked"}
  <1>1. /\ stream \in Seq(Event) /\ stream' = Append(stream, e)
        /\ entry \in [1..Len(stream) -> Standing] /\ entry' = Append(entry, "new")
        /\ Len(stream) < MaxEntries
    BY DEF IInv, TypeOK, Append_
  <1>2. /\ stream' \in Seq(Event) /\ Len(stream) \in Nat /\ Len(stream') = Len(stream) + 1
        /\ \A n \in 1..Len(stream) : stream'[n] = stream[n]
    BY <1>1, AppendFacts
  <1>3. entry \in Seq(Standing) /\ Len(entry) = Len(stream)
    BY <1>1, <1>2
  <1>4. /\ entry' \in Seq(Standing) /\ Len(entry') = Len(entry) + 1
        /\ \A n \in 1..Len(entry) : entry'[n] = entry[n]
        /\ entry'[Len(entry) + 1] = "new"
    BY <1>1, <1>3, AppendFacts
  <1>5. entry' \in [1..Len(stream') -> Standing]
    BY <1>2, <1>3, <1>4
  <1>6. UNCHANGED <<consumed, claiming, effects, successes, errors, failed, pc, hand, processed, faults>>
    BY DEF Append_, db, published
  <1>7. TypeOK'
    <2>1. Len(stream') <= MaxEntries
      BY <1>1, <1>2, BoundsAssumption DEF BoundsAssumption
    <2> QED
      BY <1>2, <1>5, <1>6, <2>1 DEF IInv, TypeOK
  <1>8. \A d \in Reader : pc[d] # "idle" => hand[d] \in 1..Len(stream') /\ Handled(d)' = Handled(d)
    BY <1>2, <1>6, HandledFact DEF IInv, Handled
  <1>9. ReaderInv'
    BY <1>6, <1>8 DEF IInv, ReaderInv, Knows
  <1>10. MarkerInv'
    BY <1>6, <1>8 DEF IInv, MarkerInv
  <1>11. SuccessInv'
    BY <1>6, <1>8 DEF IInv, SuccessInv
  <1>12. EffectOnce'
    BY <1>6 DEF IInv, EffectOnce
  <1>13. AckInv'
    <2>1. \A n \in 1..Len(stream') : n \in 1..Len(stream) \/ n = Len(stream) + 1
      BY <1>2
    <2> QED
      BY <2>1, <1>2, <1>3, <1>4, <1>6 DEF IInv, AckInv
  <1> QED
    BY <1>7, <1>9, <1>10, <1>11, <1>12, <1>13 DEF IInv

LEMMA HandOverInv ==
  ASSUME IInv, NEW d \in Reader, NEW n \in 1..Len(stream), HandOver(d, n)
  PROVE  IInv'
  <1>1. /\ pc[d] = "idle" /\ pc' = [pc EXCEPT ![d] = "marker"]
        /\ hand' = [hand EXCEPT ![d] = n] /\ entry' = [entry EXCEPT ![n] = "pending"]
        /\ UNCHANGED <<stream, consumed, claiming, effects, successes, errors, failed, processed, faults>>
    BY DEF HandOver, Goto, db, published
  <1>2. TypeOK'
    <2>1. n \in 0..MaxEntries
      BY BoundsAssumption DEF IInv, TypeOK, BoundsAssumption
    <2> QED
      BY <1>1, <2>1 DEF IInv, TypeOK, PC
  <1>3. \A c \in Reader : c # d => Handled(c)' = Handled(c) /\ pc'[c] = pc[c] /\ hand'[c] = hand[c]
    BY <1>1 DEF IInv, TypeOK, Handled
  <1>4. pc'[d] = "marker" /\ hand'[d] = n
    BY <1>1 DEF IInv, TypeOK
  <1>5. ReaderInv'
    BY <1>1, <1>3, <1>4 DEF IInv, ReaderInv, Knows
  <1>6. MarkerInv'
    <2>1. \A e \in Event : claiming[e] # d
      BY <1>1 DEF IInv, MarkerInv
    <2> QED
      BY <1>1, <1>3, <2>1 DEF IInv, MarkerInv
  <1>7. SuccessInv'
    BY <1>3, <1>4 DEF IInv, SuccessInv
  <1>8. EffectOnce'
    BY <1>1 DEF IInv, EffectOnce
  <1>9. AckInv'
    BY <1>1 DEF IInv, AckInv, TypeOK
  <1> QED
    BY <1>2, <1>5, <1>6, <1>7, <1>8, <1>9 DEF IInv

-------------------------------------------------------------------------------
(* One delivery. *)

LEMMA InsertMarkerInv ==
  ASSUME IInv, NEW d \in Reader, InsertMarker(d)
  PROVE  IInv'
  <1> DEFINE e == Handled(d)
  <1>1. e \in Event /\ pc[d] = "marker" /\ ~processed[d] /\ claiming[e] = None
    BY HandledFact DEF IInv, InsertMarker, ReaderInv, Knows
  <1>2. UNCHANGED <<stream, entry, consumed, effects, successes, errors, failed, hand, faults>>
    BY DEF InsertMarker, published
  <1>3. \A c \in Reader : Handled(c)' = Handled(c)
    BY <1>2 DEF Handled
  <1> HIDE DEF e
  <1>4. CASE e \in consumed
    <2>1. pc' = [pc EXCEPT ![d] = "commit"] /\ UNCHANGED <<claiming, processed>>
      BY <1>4 DEF InsertMarker, Goto, e
    <2>2. TypeOK'
      BY <1>2, <2>1 DEF IInv, TypeOK, PC
    <2>3. ReaderInv'
      BY <1>1, <1>2, <1>3, <1>4, <2>1 DEF IInv, ReaderInv, Knows, TypeOK, e
    <2>4. MarkerInv'
      BY <1>1, <1>2, <1>3, <2>1 DEF IInv, MarkerInv, TypeOK
    <2>5. SuccessInv'
      BY <1>3, <2>1 DEF IInv, SuccessInv, TypeOK
    <2>6. EffectOnce' /\ AckInv'
      BY <1>2 DEF IInv, EffectOnce, AckInv
    <2> QED
      BY <2>2, <2>3, <2>4, <2>5, <2>6 DEF IInv
  <1>5. CASE e \notin consumed
    <2>1. /\ pc' = [pc EXCEPT ![d] = "effect"] /\ claiming' = [claiming EXCEPT ![e] = d]
          /\ processed' = [processed EXCEPT ![d] = TRUE]
      BY <1>5 DEF InsertMarker, Goto, e
    <2>2. TypeOK'
      BY <1>1, <1>2, <2>1 DEF IInv, TypeOK, PC
    <2>3. \A c \in Reader : Knows(c)'
      <3> TAKE c \in Reader
      <3>1. CASE c = d
        BY <1>1, <1>2, <1>3, <1>5, <2>1, <3>1 DEF IInv, ReaderInv, Knows, TypeOK, e
      <3>2. CASE c # d
        <4>1. pc'[c] = pc[c] /\ processed'[c] = processed[c]
          BY <2>1, <3>2 DEF IInv, TypeOK
        <4>2. claiming[Handled(c)] = c => claiming'[Handled(c)] = c
          BY <1>1, <2>1, <3>2, NoneAssumption DEF IInv, TypeOK, NoneAssumption
        <4> QED
          BY <1>2, <1>3, <4>1, <4>2 DEF IInv, ReaderInv, Knows
      <3> QED
        BY <3>1, <3>2
    <2>4. MarkerInv'
      <3> SUFFICES ASSUME NEW f \in Event, NEW c \in Reader, claiming'[f] = c
                   PROVE  /\ f \notin consumed'
                          /\ pc'[c] \in {"effect", "commit"}
                          /\ processed'[c]
                          /\ Handled(c)' = f
        BY DEF MarkerInv
      <3>1. CASE f = e
        <4>1. c = d /\ Handled(c)' = f
          BY <1>3, <2>1, <3>1 DEF IInv, TypeOK, e
        <4> QED
          BY <1>2, <1>5, <2>1, <3>1, <4>1 DEF IInv, TypeOK
      <3>2. CASE f # e
        <4>1. claiming[f] = c /\ c # d
          BY <1>1, <2>1, <3>2 DEF IInv, MarkerInv, TypeOK
        <4> QED
          BY <1>2, <1>3, <2>1, <4>1 DEF IInv, MarkerInv, TypeOK
      <3> QED
        BY <3>1, <3>2
    <2>5. SuccessInv'
      BY <1>3, <2>1 DEF IInv, SuccessInv, TypeOK
    <2>6. EffectOnce' /\ AckInv'
      BY <1>2 DEF IInv, EffectOnce, AckInv
    <2> QED
      BY <2>2, <2>3, <2>4, <2>5, <2>6 DEF IInv, ReaderInv
  <1> QED
    BY <1>4, <1>5

LEMMA RunEffectInv ==
  ASSUME IInv, NEW d \in Reader, RunEffect(d)
  PROVE  IInv'
  <1>1. /\ pc[d] = "effect" /\ pc' = [pc EXCEPT ![d] = "commit"]
        /\ UNCHANGED <<stream, entry, consumed, claiming, effects, successes, errors, failed, hand, processed, faults>>
    BY DEF RunEffect, Goto, db, published
  <1>2. \A c \in Reader : Handled(c)' = Handled(c)
    BY <1>1 DEF Handled
  <1>3. TypeOK'
    BY <1>1 DEF IInv, TypeOK, PC
  <1>4. ReaderInv'
    BY <1>1, <1>2 DEF IInv, ReaderInv, Knows, TypeOK
  <1>5. MarkerInv'
    BY <1>1, <1>2 DEF IInv, MarkerInv, TypeOK
  <1>6. SuccessInv'
    BY <1>1, <1>2 DEF IInv, SuccessInv, TypeOK
  <1>7. EffectOnce' /\ AckInv'
    BY <1>1 DEF IInv, EffectOnce, AckInv
  <1> QED
    BY <1>3, <1>4, <1>5, <1>6, <1>7 DEF IInv

\* The transaction of a reader ends, with its effect or without it.
LEMMA CommitBothFacts ==
  ASSUME IInv, NEW d \in Reader, pc[d] = "commit", CommitBoth(d)
  PROVE  /\ EffectsMatch'
         /\ claiming' \in [Event -> Reader \cup {None}] /\ effects' \in [Event -> Nat]
         /\ consumed' = consumed \cup {Handled(d)}
         /\ \A e \in Event : claiming'[e] = IF claiming[e] = d THEN None ELSE claiming[e]
  <1> DEFINE e == Handled(d)
  <1>1. e \in Event
    BY HandledFact DEF IInv
  <1>2. processed[d] => claiming[e] = d /\ e \notin consumed
    BY <1>1 DEF IInv, ReaderInv, Knows, MarkerInv
  <1>3. ~processed[d] => e \in consumed
    BY DEF IInv, ReaderInv, Knows
  <1> HIDE DEF e
  <1>4. consumed' = consumed \cup {e}
    BY <1>3 DEF CommitBoth, e
  <1>5. effects' = IF processed[d] THEN [effects EXCEPT ![e] = @ + 1] ELSE effects
    BY DEF CommitBoth, e
  <1>6. EffectsMatch'
    BY <1>1, <1>2, <1>3, <1>4, <1>5 DEF IInv, EffectOnce, EffectsMatch, TypeOK
  <1>7. effects' \in [Event -> Nat]
    BY <1>1, <1>5 DEF IInv, TypeOK
  <1>8. claiming' = [f \in Event |-> IF claiming[f] = d THEN None ELSE claiming[f]]
    BY DEF CommitBoth, Release
  <1>9. claiming' \in [Event -> Reader \cup {None}]
    BY <1>8 DEF IInv, TypeOK
  <1> QED
    BY <1>4, <1>6, <1>7, <1>8, <1>9 DEF e

\* What is left of the transactions when the one of d has ended.
LEMMA ReleasedFacts ==
  ASSUME IInv, NEW d \in Reader,
         \A e \in Event : claiming'[e] = IF claiming[e] = d THEN None ELSE claiming[e]
  PROVE  /\ \A e \in Event : claiming'[e] # d
         /\ \A e \in Event, c \in Reader : c # d => (claiming'[e] = c <=> claiming[e] = c)
  BY NoneAssumption DEF NoneAssumption

\* A step of d after which it holds no marker, and by which at most its event became
\* consumed, leaves the others what they know.
LEMMA OthersKnow ==
  ASSUME IInv, NEW d \in Reader, NEW c \in Reader, c # d,
         UNCHANGED stream,
         pc'[c] = pc[c], hand'[c] = hand[c], processed'[c] = processed[c],
         \A e \in Event : claiming'[e] = IF claiming[e] = d THEN None ELSE claiming[e],
         consumed \subseteq consumed',
         pc[c] = "success" => successes'[Handled(c)] = successes[Handled(c)]
  PROVE  Knows(c)'
  <1>1. Handled(c)' = Handled(c)
    BY DEF Handled
  <1>2. pc[c] # "idle" => Handled(c) \in Event
    BY HandledFact DEF IInv
  <1>3. \A e \in Event : claiming'[e] = c <=> claiming[e] = c
    BY ReleasedFacts
  <1> QED
    BY <1>1, <1>2, <1>3 DEF IInv, ReaderInv, Knows

LEMMA CommitInv ==
  ASSUME IInv, NEW d \in Reader, Commit(d)
  PROVE  IInv'
  <1> DEFINE e == Handled(d)
  <1>1. /\ pc[d] = "commit" /\ CommitBoth(d)
        /\ pc' = [pc EXCEPT ![d] = IF processed[d] THEN "success" ELSE "ack"]
        /\ UNCHANGED <<stream, entry, successes, errors, failed, hand, processed, faults>>
    BY DEF Commit, Goto, published
  <1>2. /\ EffectsMatch' /\ consumed' = consumed \cup {e}
        /\ claiming' \in [Event -> Reader \cup {None}] /\ effects' \in [Event -> Nat]
        /\ \A f \in Event : claiming'[f] = IF claiming[f] = d THEN None ELSE claiming[f]
    BY <1>1, CommitBothFacts
  <1>3. e \in Event /\ hand[d] \in 1..Len(stream)
    BY <1>1, HandledFact DEF IInv
  <1>4. processed[d] => e \notin consumed
    BY <1>1, <1>3 DEF IInv, ReaderInv, Knows, MarkerInv
  <1>5. successes[e] \in Nat /\ (e \notin consumed => successes[e] = 0)
    BY <1>3 DEF IInv, TypeOK, EffectOnce
  <1>6. \A c \in Reader : Handled(c)' = Handled(c)
    BY <1>1 DEF Handled
  <1> HIDE DEF e
  <1>7. TypeOK'
    BY <1>1, <1>2, <1>3 DEF IInv, TypeOK, PC
  <1>8. \A c \in Reader : Knows(c)'
    <2> TAKE c \in Reader
    <2>1. CASE c = d
      <3>1. hand'[d] \in 1..Len(stream') /\ e \in consumed' /\ Handled(d)' = e
        BY <1>1, <1>2, <1>3, <1>6 DEF e
      <3>2. pc'[d] = IF processed'[d] THEN "success" ELSE "ack"
        BY <1>1 DEF IInv, TypeOK
      <3>3. processed'[d] => successes'[e] = 0
        BY <1>1, <1>4, <1>5
      <3> QED
        BY <2>1, <3>1, <3>2, <3>3 DEF Knows
    <2>2. CASE c # d
      BY <1>1, <1>2, <2>2, OthersKnow DEF IInv, TypeOK
    <2> QED
      BY <2>1, <2>2
  <1>9. MarkerInv'
    <2> SUFFICES ASSUME NEW f \in Event, NEW c \in Reader, claiming'[f] = c
                 PROVE  /\ f \notin consumed'
                        /\ pc'[c] \in {"effect", "commit"}
                        /\ processed'[c]
                        /\ Handled(c)' = f
      BY DEF MarkerInv
    <2>1. c # d /\ claiming[f] = c
      BY <1>2, ReleasedFacts
    <2>2. /\ f \notin consumed /\ pc[c] \in {"effect", "commit"}
          /\ processed[c] /\ Handled(c) = f
      BY <2>1 DEF IInv, MarkerInv
    <2>3. f # e
      <3>1. processed[d] => claiming[e] = d
        BY <1>1 DEF IInv, ReaderInv, Knows, e
      <3>2. ~processed[d] => e \in consumed
        BY <1>1 DEF IInv, ReaderInv, Knows, e
      <3> QED
        BY <2>1, <2>2, <3>1, <3>2
    <2>4. pc'[c] = pc[c] /\ processed'[c] = processed[c]
      BY <1>1, <2>1 DEF IInv, TypeOK
    <2> QED
      BY <1>2, <1>6, <2>2, <2>3, <2>4
  <1>10. SuccessInv'
    <2>1. \A c \in Reader : pc[c] = "success" => Handled(c) \in consumed
      BY DEF IInv, ReaderInv, Knows
    <2>2. processed[d] => \A c \in Reader : pc[c] = "success" => Handled(c) # e
      BY <1>4, <2>1
    <2> QED
      BY <1>1, <1>6, <2>2 DEF IInv, SuccessInv, TypeOK, e
  <1>11. EffectOnce'
    <2>1. ASSUME NEW f \in Event PROVE successes'[f] <= effects'[f]
      <3>1. successes'[f] <= effects[f] /\ successes[f] \in Nat
        BY <1>1 DEF IInv, EffectOnce, TypeOK
      <3>2. effects[f] = (IF f \in consumed THEN 1 ELSE 0) /\ effects'[f] = (IF f \in consumed' THEN 1 ELSE 0)
        BY <1>2 DEF IInv, EffectOnce, EffectsMatch
      <3>3. consumed \subseteq consumed'
        BY <1>2
      <3> QED
        BY <1>1, <3>1, <3>2, <3>3
    <2> QED
      BY <1>2, <2>1 DEF EffectOnce, EffectsMatch
  <1>12. AckInv'
    BY <1>1, <1>2 DEF IInv, AckInv
  <1> QED
    BY <1>7, <1>8, <1>9, <1>10, <1>11, <1>12 DEF IInv, ReaderInv

LEMMA PublishSuccessInv ==
  ASSUME IInv, NEW d \in Reader, PublishSuccess(d)
  PROVE  IInv'
  <1> DEFINE e == Handled(d)
  <1>1. /\ pc[d] = "success" /\ pc' = [pc EXCEPT ![d] = "ack"]
        /\ successes' = [successes EXCEPT ![e] = @ + 1]
        /\ UNCHANGED <<stream, entry, consumed, claiming, effects, errors, failed, hand, processed, faults>>
    BY DEF PublishSuccess, Goto, db
  <1>2. e \in Event /\ hand[d] \in 1..Len(stream)
    BY <1>1, HandledFact DEF IInv
  <1>3. e \in consumed /\ successes[e] = 0 /\ effects[e] = 1
    BY <1>1, <1>2 DEF IInv, ReaderInv, Knows, EffectOnce
  <1>4. \A c \in Reader : Handled(c)' = Handled(c)
    BY <1>1 DEF Handled
  <1>5. \A c \in Reader : c # d /\ pc[c] = "success" => Handled(c) # e
    BY <1>1 DEF IInv, SuccessInv
  <1>6. \A f \in Event : claiming[f] # d
    BY <1>1 DEF IInv, MarkerInv
  <1> HIDE DEF e
  <1>7. TypeOK'
    <2>1. successes' \in [Event -> Nat]
      BY <1>1, <1>2, <1>3 DEF IInv, TypeOK
    <2>2. pc' \in [Reader -> PC]
      BY <1>1 DEF IInv, TypeOK, PC
    <2> QED
      BY <1>1, <2>1, <2>2 DEF IInv, TypeOK
  <1>8. \A c \in Reader : Knows(c)'
    <2> TAKE c \in Reader
    <2>1. CASE c = d
      BY <1>1, <1>2, <1>3, <1>4, <2>1 DEF IInv, Knows, TypeOK, e
    <2>2. CASE c # d
      <3>1. pc[c] = "success" => successes'[Handled(c)] = successes[Handled(c)]
        BY <1>1, <1>2, <1>5, <2>2, HandledFact DEF IInv, TypeOK
      <3>2. pc'[c] = pc[c]
        BY <1>1, <2>2 DEF IInv, TypeOK
      <3> QED
        BY <1>1, <1>6, <2>2, <3>1, <3>2, OthersKnow
    <2> QED
      BY <2>1, <2>2
  <1>9. MarkerInv'
    BY <1>1, <1>4, <1>6 DEF IInv, MarkerInv, TypeOK
  <1>10. SuccessInv'
    BY <1>1, <1>4 DEF IInv, SuccessInv, TypeOK
  <1>11. EffectOnce'
    BY <1>1, <1>2, <1>3 DEF IInv, EffectOnce, TypeOK
  <1>12. AckInv'
    BY <1>1 DEF IInv, AckInv
  <1> QED
    BY <1>7, <1>8, <1>9, <1>10, <1>11, <1>12 DEF IInv, ReaderInv

\* The acknowledgement and the end of a delivery.
LEMMA IdleFacts ==
  ASSUME IInv, NEW d \in Reader, Idle(d)
  PROVE  /\ pc' \in [Reader -> PC] /\ hand' \in [Reader -> 0..MaxEntries]
         /\ processed' \in [Reader -> BOOLEAN]
         /\ pc'[d] = "idle" /\ ~processed'[d]
         /\ \A c \in Reader : c # d =>
                pc'[c] = pc[c] /\ hand'[c] = hand[c] /\ processed'[c] = processed[c]
  <1>1. 0 \in 0..MaxEntries
    BY BoundsAssumption DEF BoundsAssumption
  <1> QED
    BY <1>1 DEF IInv, TypeOK, PC, Idle, Goto

\* A delivery that ends, with its transaction, and leaves the database as it is.
LEMMA LeaveInv ==
  ASSUME IInv, NEW d \in Reader, Idle(d), UNCHANGED <<stream, consumed, effects, successes>>,
         claiming' \in [Event -> Reader \cup {None}],
         \A e \in Event : claiming'[e] = IF claiming[e] = d THEN None ELSE claiming[e],
         entry' \in [1..Len(stream) -> {"new", "pending", "acked"}],
         \A n \in 1..Len(stream) : entry'[n] = "acked" => stream[n] \in consumed,
         errors' \in [Event -> Nat], failed' \in [Event -> Nat], faults' \in 0..MaxFaults
  PROVE  IInv'
  <1>1. TypeOK'
    BY IdleFacts DEF IInv, TypeOK
  <1>2. \A c \in Reader : Knows(c)'
    <2> TAKE c \in Reader
    <2>1. CASE c = d
      BY <2>1, IdleFacts DEF Knows
    <2>2. CASE c # d
      BY <2>2, IdleFacts, OthersKnow
    <2> QED
      BY <2>1, <2>2
  <1>3. MarkerInv'
    <2> SUFFICES ASSUME NEW f \in Event, NEW c \in Reader, claiming'[f] = c
                 PROVE  /\ f \notin consumed'
                        /\ pc'[c] \in {"effect", "commit"}
                        /\ processed'[c]
                        /\ Handled(c)' = f
      BY DEF MarkerInv
    <2>1. c # d /\ claiming[f] = c
      BY ReleasedFacts
    <2>2. pc'[c] = pc[c] /\ processed'[c] = processed[c] /\ Handled(c)' = Handled(c)
      BY <2>1, IdleFacts DEF Handled
    <2> QED
      BY <2>1, <2>2 DEF IInv, MarkerInv
  <1>4. SuccessInv'
    <2>1. \A c \in Reader : pc'[c] = "success" =>
              c # d /\ pc[c] = "success" /\ Handled(c)' = Handled(c)
      BY IdleFacts DEF Handled
    <2> QED
      BY <2>1 DEF IInv, SuccessInv
  <1>5. EffectOnce'
    BY DEF IInv, EffectOnce
  <1>6. AckInv'
    BY DEF AckInv
  <1> QED
    BY <1>1, <1>2, <1>3, <1>4, <1>5, <1>6 DEF IInv, ReaderInv

\* A reader that is neither in its effect nor before its commit holds no marker.
LEMMA NoMarker ==
  ASSUME IInv, NEW d \in Reader, pc[d] \notin {"effect", "commit"}
  PROVE  \A e \in Event : claiming[e] = IF claiming[e] = d THEN None ELSE claiming[e]
  BY DEF IInv, MarkerInv

LEMMA AckLeaves ==
  ASSUME IInv, NEW d \in Reader, Ack(d)
  PROVE  IInv'
  <1>1. /\ pc[d] = "ack" /\ Idle(d) /\ entry' = [entry EXCEPT ![hand[d]] = "acked"]
        /\ UNCHANGED <<stream, consumed, claiming, effects, successes, errors, failed, faults>>
    BY DEF Ack, db, published
  <1>2. hand[d] \in 1..Len(stream) /\ stream[hand[d]] \in consumed
    BY <1>1 DEF IInv, ReaderInv, Knows, Handled
  <1>3. /\ entry' \in [1..Len(stream) -> {"new", "pending", "acked"}]
        /\ \A n \in 1..Len(stream) : entry'[n] = "acked" => stream[n] \in consumed
    BY <1>1, <1>2 DEF IInv, TypeOK, AckInv
  <1>4. \A e \in Event : claiming'[e] = IF claiming[e] = d THEN None ELSE claiming[e]
    BY <1>1, NoMarker
  <1> QED
    BY <1>1, <1>3, <1>4, LeaveInv DEF IInv, TypeOK

LEMMA PublishErrorInv ==
  ASSUME IInv, NEW d \in Reader, PublishError(d)
  PROVE  IInv'
  <1>1. /\ pc[d] = "error" /\ Idle(d)
        /\ UNCHANGED <<stream, entry, consumed, claiming, effects, successes, failed, faults>>
        /\ errors' \in {errors, [errors EXCEPT ![Handled(d)] = @ + 1]}
    BY DEF PublishError, db
  <1>2. Handled(d) \in Event
    BY <1>1, HandledFact DEF IInv
  <1>3. errors' \in [Event -> Nat]
    <2> DEFINE e == Handled(d)
    <2>1. errors \in [Event -> Nat] /\ e \in Event
      BY <1>2 DEF IInv, TypeOK
    <2>2. errors' \in {errors, [errors EXCEPT ![e] = @ + 1]}
      BY <1>1
    <2> HIDE DEF e
    <2> QED
      BY <2>1, <2>2
  <1>4. \A e \in Event : claiming'[e] = IF claiming[e] = d THEN None ELSE claiming[e]
    BY <1>1, NoMarker
  <1> QED
    BY <1>1, <1>3, <1>4, LeaveInv DEF IInv, TypeOK, AckInv

LEMMA CrashInv ==
  ASSUME IInv, NEW d \in Reader, Crash(d)
  PROVE  IInv'
  <1>1. /\ Idle(d) /\ faults' = faults + 1 /\ faults < MaxFaults
        /\ UNCHANGED <<stream, entry, consumed, effects, successes, errors, failed>>
        /\ claiming' = [e \in Event |-> IF claiming[e] = d THEN None ELSE claiming[e]]
    BY DEF Crash, Fault, published, Release
  <1>2. faults' \in 0..MaxFaults
    BY <1>1, BoundsAssumption DEF IInv, TypeOK, BoundsAssumption
  <1>3. /\ claiming' \in [Event -> Reader \cup {None}]
        /\ \A e \in Event : claiming'[e] = IF claiming[e] = d THEN None ELSE claiming[e]
    BY <1>1 DEF IInv, TypeOK
  <1> QED
    BY <1>1, <1>2, <1>3, LeaveInv DEF IInv, TypeOK, AckInv

-------------------------------------------------------------------------------
(* A delivery that raises. *)

\* What the end of the transaction, its commit taken or not, leaves behind.
LEMMA RaiseDatabase ==
  ASSUME IInv, NEW d \in Reader, Raise(d)
  PROVE  /\ EffectsMatch' /\ effects' \in [Event -> Nat]
         /\ claiming' \in [Event -> Reader \cup {None}]
         /\ \A e \in Event : claiming'[e] = IF claiming[e] = d THEN None ELSE claiming[e]
         /\ consumed \subseteq consumed' /\ consumed' \subseteq Event
         /\ \A e \in Event : e \in consumed' \ consumed => claiming[e] = d
  <1>1. CASE Release(d) /\ UNCHANGED <<consumed, effects>>
    <2>1. claiming' = [e \in Event |-> IF claiming[e] = d THEN None ELSE claiming[e]]
      BY <1>1 DEF Release
    <2>2. EffectsMatch'
      BY <1>1 DEF IInv, EffectOnce, EffectsMatch
    <2> QED
      BY <1>1, <2>1, <2>2 DEF IInv, TypeOK
  <1>2. CASE pc[d] = "commit" /\ CommitBoth(d)
    <2>1. /\ EffectsMatch' /\ consumed' = consumed \cup {Handled(d)}
          /\ claiming' \in [Event -> Reader \cup {None}] /\ effects' \in [Event -> Nat]
          /\ \A e \in Event : claiming'[e] = IF claiming[e] = d THEN None ELSE claiming[e]
      BY <1>2, CommitBothFacts
    <2>2. Handled(d) \in Event
      BY <1>2, HandledFact DEF IInv
    <2>3. Handled(d) \notin consumed => claiming[Handled(d)] = d
      BY <1>2 DEF IInv, ReaderInv, Knows, TypeOK
    <2> QED
      BY <2>1, <2>2, <2>3 DEF IInv, TypeOK
  <1> QED
    BY <1>1, <1>2 DEF Raise

LEMMA RaisePublished ==
  ASSUME IInv, NEW d \in Reader, Raise(d)
  PROVE  /\ successes' \in [Event -> Nat]
         /\ \A e \in Event : successes'[e] <= effects'[e]
         /\ \A c \in Reader : c # d /\ pc[c] = "success" =>
                successes'[Handled(c)] = successes[Handled(c)]
  <1> DEFINE e == Handled(d)
  <1>1. e \in Event
    BY HandledFact DEF IInv, Raise
  <1>2. /\ EffectsMatch' /\ effects' \in [Event -> Nat] /\ consumed \subseteq consumed'
    BY RaiseDatabase
  <1>3. successes \in [Event -> Nat] /\ effects \in [Event -> Nat]
    BY DEF IInv, TypeOK
  <1>4. \A f \in Event : successes[f] <= effects'[f]
    <2> TAKE f \in Event
    <2>1. effects[f] = (IF f \in consumed THEN 1 ELSE 0) /\ effects'[f] = (IF f \in consumed' THEN 1 ELSE 0)
      BY <1>2 DEF IInv, EffectOnce, EffectsMatch
    <2>2. successes[f] <= effects[f] /\ successes[f] \in Nat
      BY <1>3 DEF IInv, EffectOnce
    <2> QED
      BY <1>2, <2>1, <2>2
  <1>5. CASE UNCHANGED successes
    BY <1>3, <1>4, <1>5
  <1>6. CASE pc[d] = "success" /\ successes' = [successes EXCEPT ![e] = @ + 1]
    <2>1. e \in consumed /\ successes[e] = 0
      BY <1>6 DEF IInv, ReaderInv, Knows
    <2>2. effects'[e] = 1
      BY <1>1, <1>2, <2>1 DEF EffectsMatch
    <2>3. \A c \in Reader : c # d /\ pc[c] = "success" => Handled(c) \in Event /\ Handled(c) # e
      BY <1>6, HandledFact DEF IInv, SuccessInv
    <2> HIDE DEF e
    <2> QED
      BY <1>1, <1>3, <1>4, <1>6, <2>1, <2>2, <2>3
  <1> QED
    BY <1>5, <1>6 DEF Raise

LEMMA RaiseInv ==
  ASSUME IInv, NEW d \in Reader, Raise(d)
  PROVE  IInv'
  <1>1. /\ pc[d] # "idle" /\ pc' = [pc EXCEPT ![d] = "error"] /\ UNCHANGED <<stream, entry, errors, hand, processed>>
        /\ faults' = faults + 1 /\ faults < MaxFaults
        /\ failed' = IF pc[d] = "success" THEN failed ELSE [failed EXCEPT ![Handled(d)] = @ + 1]
    BY DEF Raise, Goto, Fault
  <1>2. /\ EffectsMatch' /\ effects' \in [Event -> Nat]
        /\ claiming' \in [Event -> Reader \cup {None}]
        /\ \A e \in Event : claiming'[e] = IF claiming[e] = d THEN None ELSE claiming[e]
        /\ consumed \subseteq consumed' /\ consumed' \subseteq Event
        /\ \A e \in Event : e \in consumed' \ consumed => claiming[e] = d
    BY RaiseDatabase
  <1>3. /\ successes' \in [Event -> Nat] /\ \A e \in Event : successes'[e] <= effects'[e]
        /\ \A c \in Reader : c # d /\ pc[c] = "success" => successes'[Handled(c)] = successes[Handled(c)]
    BY RaisePublished
  <1>4. TypeOK'
    <2>1. failed' \in [Event -> Nat]
      <3> DEFINE e == Handled(d)
      <3>1. e \in Event /\ failed \in [Event -> Nat]
        BY <1>1, HandledFact DEF IInv, TypeOK
      <3>2. failed' \in {failed, [failed EXCEPT ![e] = @ + 1]}
        BY <1>1
      <3> HIDE DEF e
      <3> QED
        BY <3>1, <3>2
    <2>2. pc' \in [Reader -> PC]
      BY <1>1 DEF IInv, TypeOK, PC
    <2>3. faults' \in 0..MaxFaults
      BY <1>1, BoundsAssumption DEF IInv, TypeOK, BoundsAssumption
    <2> QED
      BY <1>1, <1>2, <1>3, <2>1, <2>2, <2>3 DEF IInv, TypeOK
  <1>5. pc'[d] = "error" /\ \A c \in Reader : c # d => pc'[c] = pc[c]
    BY <1>1 DEF IInv, TypeOK
  <1>6. \A c \in Reader : Handled(c)' = Handled(c)
    BY <1>1 DEF Handled
  <1>7. \A c \in Reader : Knows(c)'
    <2> TAKE c \in Reader
    <2>1. CASE c = d
      <3>1. hand'[d] \in 1..Len(stream')
        BY <1>1, HandledFact DEF IInv
      <3> QED
        BY <1>5, <2>1, <3>1 DEF Knows
    <2>2. CASE c # d
      BY <1>1, <1>2, <1>3, <1>5, <2>2, OthersKnow
    <2> QED
      BY <2>1, <2>2
  <1>8. MarkerInv'
    <2> SUFFICES ASSUME NEW f \in Event, NEW c \in Reader, claiming'[f] = c
                 PROVE  /\ f \notin consumed'
                        /\ pc'[c] \in {"effect", "commit"}
                        /\ processed'[c]
                        /\ Handled(c)' = f
      BY DEF MarkerInv
    <2>1. c # d /\ claiming[f] = c
      BY <1>2, ReleasedFacts
    <2>2. /\ f \notin consumed /\ pc[c] \in {"effect", "commit"}
          /\ processed[c] /\ Handled(c) = f
      BY <2>1 DEF IInv, MarkerInv
    <2> QED
      BY <1>1, <1>2, <1>5, <1>6, <2>1, <2>2
  <1>9. SuccessInv'
    BY <1>5, <1>6 DEF IInv, SuccessInv
  <1>10. EffectOnce'
    BY <1>2, <1>3 DEF EffectOnce, EffectsMatch
  <1>11. AckInv'
    BY <1>1, <1>2 DEF IInv, AckInv
  <1> QED
    BY <1>4, <1>7, <1>8, <1>9, <1>10, <1>11 DEF IInv, ReaderInv

-------------------------------------------------------------------------------
(* The theorems. *)

LEMMA InitInv == ASSUME Init PROVE IInv
  <1>1. TypeOK
    <2>1. stream \in Seq(Event) /\ Len(stream) = 0
      BY DEF Init
    <2>2. entry \in [1..Len(stream) -> {"new", "pending", "acked"}]
      BY <2>1 DEF Init
    <2> QED
      BY <2>1, <2>2, BoundsAssumption DEF Init, TypeOK, PC, BoundsAssumption
  <1>2. ReaderInv /\ SuccessInv /\ EffectOnce
    BY DEF Init, ReaderInv, Knows, SuccessInv, EffectOnce
  <1>3. MarkerInv
    BY NoneAssumption DEF Init, MarkerInv, NoneAssumption
  <1>4. AckInv
    BY DEF Init, AckInv
  <1> QED
    BY <1>1, <1>2, <1>3, <1>4 DEF IInv

LEMMA StepInv == ASSUME IInv, [Next]_vars PROVE IInv'
  <1>1. CASE UNCHANGED vars
    BY <1>1 DEF vars, IInv, TypeOK, ReaderInv, Knows, MarkerInv, SuccessInv, EffectOnce, AckInv, Handled
  <1>2. ASSUME NEW e \in Event, Append_(e) PROVE IInv'
    BY <1>2, AppendInv
  <1>3. ASSUME NEW d \in Reader, NEW n \in 1..Len(stream), Deliver(d, n) \/ Reclaim(d, n) PROVE IInv'
    BY <1>3, HandOverInv DEF Deliver, Reclaim
  <1>4. ASSUME NEW d \in Reader, Work(d) PROVE IInv'
    BY <1>4, InsertMarkerInv, RunEffectInv, CommitInv, PublishSuccessInv, PublishErrorInv, AckLeaves DEF Work
  <1>5. ASSUME NEW d \in Reader, Raise(d) \/ Crash(d) PROVE IInv'
    BY <1>5, RaiseInv, CrashInv
  <1> QED
    BY <1>1, <1>2, <1>3, <1>4, <1>5 DEF Next

LEMMA Inductive == Spec => []IInv
  BY InitInv, StepInv, PTL DEF Spec

\* Every state of the consumer has the types the module declares.
THEOREM ConsumerTypeCorrect == Spec => []TypeOK
  <1>1. IInv => TypeOK
    BY DEF IInv
  <1> QED
    BY <1>1, Inductive, PTL

\* For any events, readers, entries, retries and faults, an event takes effect at most
\* once, exactly when its marker is committed, and at most one success follows it.
THEOREM EffectOnceHolds == Spec => []EffectOnce
  <1>1. IInv => EffectOnce
    BY DEF IInv
  <1> QED
    BY <1>1, Inductive, PTL

\* For any instance, no entry is acknowledged before its event took effect.
THEOREM AckedTookEffectHolds == Spec => []AckedTookEffect
  <1>1. ASSUME IInv PROVE AckedTookEffect
    <2> SUFFICES ASSUME NEW n \in 1..Len(stream), entry[n] = "acked"
                 PROVE  effects[stream[n]] = 1
      BY DEF AckedTookEffect
    <2>1. stream[n] \in consumed
      BY <1>1 DEF IInv, AckInv
    <2>2. consumed \subseteq Event
      BY <1>1 DEF IInv, TypeOK
    <2> QED
      BY <1>1, <2>1, <2>2 DEF IInv, EffectOnce
  <1> QED
    BY <1>1, Inductive, PTL

-------------------------------------------------------------------------------
(* What an error event still says. *)

\* Readers about to publish the error event of an event.
Erring(e) == {d \in Reader : pc[d] = "error" /\ Handled(d) = e}

\* Until the effect is committed each error event, published or to come, has a failed execution of its own.
ErrorInv ==
    \A e \in Event \ consumed :
        IsFiniteSet(Erring(e)) /\ errors[e] + Cardinality(Erring(e)) <= failed[e]

\* An error event without a failed execution is one of an event that took effect.
SpareErrorAfterEffect == \A e \in Event : errors[e] > failed[e] => effects[e] = 1

LEMMA ErringKept ==
  ASSUME IInv, NEW e \in Event, UNCHANGED <<stream, errors, failed>>,
         \A d \in Reader : /\ pc'[d] = "error" <=> pc[d] = "error"
                           /\ pc[d] = "error" => hand'[d] = hand[d],
         IsFiniteSet(Erring(e)), errors[e] + Cardinality(Erring(e)) <= failed[e]
  PROVE  IsFiniteSet(Erring(e)') /\ errors'[e] + Cardinality(Erring(e)') <= failed'[e]
  <1>1. Erring(e)' = Erring(e)
    BY DEF Erring, Handled
  <1> QED
    BY <1>1

\* The numbers of an event.
LEMMA ErrorNumbers ==
  ASSUME IInv, NEW e \in Event, IsFiniteSet(Erring(e))
  PROVE  errors[e] \in Nat /\ failed[e] \in Nat /\ Cardinality(Erring(e)) \in Nat
  BY FS_CardinalityType DEF IInv, TypeOK

LEMMA ErringLeaves ==
  ASSUME IInv, NEW e \in Event, NEW d \in Reader, UNCHANGED <<stream, failed>>, Idle(d),
         errors'[e] = errors[e] \/ (d \in Erring(e) /\ errors'[e] = errors[e] + 1),
         IsFiniteSet(Erring(e)), errors[e] + Cardinality(Erring(e)) <= failed[e]
  PROVE  IsFiniteSet(Erring(e)') /\ errors'[e] + Cardinality(Erring(e)') <= failed'[e]
  <1>1. pc' = [pc EXCEPT ![d] = "idle"] /\ hand' = [hand EXCEPT ![d] = 0]
    BY DEF Idle, Goto
  <1>2. Erring(e)' = Erring(e) \ {d}
    BY <1>1 DEF Erring, Handled, IInv, TypeOK
  <1>3. CASE d \in Erring(e)
    <2>1. IsFiniteSet(Erring(e)') /\ Cardinality(Erring(e)') = Cardinality(Erring(e)) - 1
      BY <1>2, <1>3, FS_RemoveElement
    <2> QED
      BY <2>1, ErrorNumbers
  <1>4. CASE d \notin Erring(e)
    <2>1. Erring(e)' = Erring(e)
      BY <1>2, <1>4
    <2> QED
      BY <1>4, <2>1
  <1> QED
    BY <1>3, <1>4

LEMMA ErringJoins ==
  ASSUME IInv, NEW e \in Event \ consumed, NEW d \in Reader, Raise(d),
         IsFiniteSet(Erring(e)), errors[e] + Cardinality(Erring(e)) <= failed[e]
  PROVE  IsFiniteSet(Erring(e)') /\ errors'[e] + Cardinality(Erring(e)') <= failed'[e]
  <1>1. /\ pc[d] \in {"marker", "effect", "commit", "success"} /\ pc' = [pc EXCEPT ![d] = "error"]
        /\ failed' = IF pc[d] = "success" THEN failed ELSE [failed EXCEPT ![Handled(d)] = @ + 1]
        /\ UNCHANGED <<stream, errors, hand>>
    BY DEF Raise, Goto
  <1>2. Handled(d) \in Event /\ (pc[d] = "success" => Handled(d) \in consumed)
    BY <1>1, HandledFact DEF IInv, ReaderInv, Knows
  <1>3. Erring(e)' = IF Handled(d) = e THEN Erring(e) \cup {d} ELSE Erring(e)
    BY <1>1 DEF Erring, Handled, IInv, TypeOK
  <1>4. d \notin Erring(e)
    BY <1>1 DEF Erring
  <1>5. CASE Handled(d) = e
    <2>1. failed'[e] = failed[e] + 1
      BY <1>1, <1>2, <1>5 DEF IInv, TypeOK
    <2>2. IsFiniteSet(Erring(e)') /\ Cardinality(Erring(e)') = Cardinality(Erring(e)) + 1
      BY <1>3, <1>4, <1>5, FS_AddElement
    <2> QED
      BY <1>1, <2>1, <2>2, ErrorNumbers
  <1>6. CASE Handled(d) # e
    <2>1. failed'[e] = failed[e]
      BY <1>1, <1>6 DEF IInv, TypeOK
    <2> QED
      BY <1>1, <1>3, <1>6, <2>1
  <1> QED
    BY <1>5, <1>6

LEMMA ErrorInvKept ==
  ASSUME IInv, ErrorInv, [Next]_vars
  PROVE  ErrorInv'
  <1> SUFFICES ASSUME NEW e \in Event, e \notin consumed'
               PROVE  IsFiniteSet(Erring(e)') /\ errors'[e] + Cardinality(Erring(e)') <= failed'[e]
    BY DEF ErrorInv
  <1>1. consumed \subseteq consumed'
    BY DEF Next, vars, Append_, Deliver, Reclaim, HandOver, Work, InsertMarker, RunEffect, Commit, CommitBoth,
       PublishSuccess, PublishError, Ack, Raise, Crash, db
  <1>2. e \in Event \ consumed /\ IsFiniteSet(Erring(e)) /\ errors[e] + Cardinality(Erring(e)) <= failed[e]
    BY <1>1 DEF ErrorInv
  <1>3. CASE UNCHANGED vars
    BY <1>2, <1>3, ErringKept DEF vars
  <1>4. ASSUME NEW f \in Event, Append_(f)
        PROVE  IsFiniteSet(Erring(e)') /\ errors'[e] + Cardinality(Erring(e)') <= failed'[e]
    <2>1. UNCHANGED <<pc, hand, errors, failed>> /\ stream' = Append(stream, f)
      BY <1>4 DEF Append_, published
    <2>2. \A d \in Reader : pc[d] = "error" => Handled(d)' = Handled(d)
      <3>1. \A n \in 1..Len(stream) : stream'[n] = stream[n]
        BY <2>1, AppendFacts DEF IInv, TypeOK
      <3>2. \A d \in Reader : pc[d] = "error" => hand[d] \in 1..Len(stream)
        BY HandledFact DEF IInv
      <3> QED
        BY <2>1, <3>1, <3>2 DEF Handled
    <2>3. Erring(e)' = Erring(e)
      BY <2>1, <2>2 DEF Erring
    <2> QED
      BY <1>2, <2>1, <2>3
  <1>5. ASSUME NEW d \in Reader, NEW n \in 1..Len(stream), Deliver(d, n) \/ Reclaim(d, n)
        PROVE  IsFiniteSet(Erring(e)') /\ errors'[e] + Cardinality(Erring(e)') <= failed'[e]
    <2>1. /\ pc[d] = "idle" /\ pc' = [pc EXCEPT ![d] = "marker"] /\ hand' = [hand EXCEPT ![d] = n]
          /\ UNCHANGED <<stream, errors, failed>>
      BY <1>5 DEF Deliver, Reclaim, HandOver, Goto, published
    <2>2. \A c \in Reader : /\ pc'[c] = "error" <=> pc[c] = "error"
                            /\ pc[c] = "error" => hand'[c] = hand[c]
      BY <2>1 DEF IInv, TypeOK
    <2> QED
      BY <1>2, <2>1, <2>2, ErringKept
  <1>6. ASSUME NEW d \in Reader, InsertMarker(d) \/ RunEffect(d) \/ Commit(d) \/ PublishSuccess(d)
        PROVE  IsFiniteSet(Erring(e)') /\ errors'[e] + Cardinality(Erring(e)') <= failed'[e]
    <2>1. /\ pc[d] # "error" /\ UNCHANGED <<stream, errors, failed, hand>>
          /\ \E p \in {"effect", "commit", "success", "ack"} : pc' = [pc EXCEPT ![d] = p]
      BY <1>6 DEF InsertMarker, RunEffect, Commit, PublishSuccess, Goto, published
    <2>2. \A c \in Reader : /\ pc'[c] = "error" <=> pc[c] = "error"
                            /\ pc[c] = "error" => hand'[c] = hand[c]
      BY <2>1 DEF IInv, TypeOK
    <2> QED
      BY <1>2, <2>1, <2>2, ErringKept
  <1>7. ASSUME NEW d \in Reader, Ack(d) \/ Crash(d)
        PROVE  IsFiniteSet(Erring(e)') /\ errors'[e] + Cardinality(Erring(e)') <= failed'[e]
    BY <1>2, <1>7, ErringLeaves DEF Ack, Crash, published
  <1>8. ASSUME NEW d \in Reader, PublishError(d)
        PROVE  IsFiniteSet(Erring(e)') /\ errors'[e] + Cardinality(Erring(e)') <= failed'[e]
    <2>1. /\ pc[d] = "error" /\ Idle(d) /\ UNCHANGED <<stream, failed>>
          /\ errors' \in {errors, [errors EXCEPT ![Handled(d)] = @ + 1]}
      BY <1>8 DEF PublishError
    <2>2. errors'[e] = errors[e] \/ (d \in Erring(e) /\ errors'[e] = errors[e] + 1)
      BY <2>1 DEF Erring, IInv, TypeOK
    <2> QED
      BY <1>2, <2>1, <2>2, ErringLeaves
  <1>9. ASSUME NEW d \in Reader, Raise(d)
        PROVE  IsFiniteSet(Erring(e)') /\ errors'[e] + Cardinality(Erring(e)') <= failed'[e]
    BY <1>2, <1>9, ErringJoins
  <1> QED
    BY <1>3, <1>4, <1>5, <1>6, <1>7, <1>8, <1>9 DEF Next, Work

\* Where ErrorMeansFailure fails it fails in one way only: an error event no failed
\* execution accounts for is one of an event whose effect is committed.
THEOREM SpareErrorsFollowEffects == Spec => []SpareErrorAfterEffect
  <1>1. Init => ErrorInv
    <2> SUFFICES ASSUME Init, NEW e \in Event  PROVE IsFiniteSet(Erring(e)) /\ errors[e] + Cardinality(Erring(e)) <= failed[e]
      BY DEF ErrorInv
    <2>1. Erring(e) = {}
      BY DEF Init, Erring
    <2> QED
      BY <2>1, FS_EmptySet DEF Init
  <1>2. IInv /\ ErrorInv => SpareErrorAfterEffect
    <2> SUFFICES ASSUME IInv, ErrorInv, NEW e \in Event, errors[e] > failed[e]  PROVE effects[e] = 1
      BY DEF SpareErrorAfterEffect
    <2>1. e \in consumed
      BY ErrorNumbers DEF ErrorInv
    <2> QED
      BY <2>1 DEF IInv, EffectOnce
  <1> QED
    BY <1>1, <1>2, ErrorInvKept, Inductive, PTL DEF Spec
================================================================================
