------------------------------- MODULE BotProofs -------------------------------
(***************************************************************************)
(* The bot process, for any events, readers, users, updates and bounds.    *)
(*                                                                         *)
(* The relay: the inductive invariant is a budget.  The messages sent for  *)
(* an event, those that readers without a claim are still about to send,   *)
(* and the one a claim or a free key still allows are at most one more     *)
(* than the faults.                                                        *)
(*                                                                         *)
(* The handlers: the inductive invariant keeps apart the selections in     *)
(* memory, those an update took and those that took effect.                *)
(***************************************************************************)
EXTENDS Bot, FiniteSetTheorems, TLAPS

\* A reader at work has an entry.
HandInv == \A d \in Reader : pc[d] # "idle" => hand[d] \in 1..Len(stream)

\* A claim belongs to a reader between its SET and its FINISH or RELEASE.
HolderInv ==
    \A e \in Event, d \in Reader : claim[e] = d =>
        pc[d] \in {"send", "finish", "release"} /\ Handled(d) = e

Settled(e) == sends[e] > 0 \/ e \in refused \cup Invalid

\* What is marked, acknowledged or about to be is settled.
SettledInv ==
    /\ \A e \in Event : claim[e] = Done => Settled(e)
    /\ \A d \in Reader : pc[d] \in {"finish", "ack"} => Settled(Handled(d))
    /\ \A n \in 1..Len(stream) : entry[n] = "acked" => Settled(stream[n])

\* Readers that lost their claim and will send all the same.
Strays(e) == {d \in Reader : pc[d] = "send" /\ Handled(d) = e /\ claim[e] # d}

\* 1 while the key lets somebody send, the holder or the next one to claim it.
Allowed(e) ==
    IF claim[e] = Done \/ \E d \in Reader : claim[e] = d /\ pc[d] = "finish" THEN 0 ELSE 1

Budget(e) ==
    /\ IsFiniteSet(Strays(e))
    /\ sends[e] + Cardinality(Strays(e)) + Allowed(e) <= 1 + faults[e]

BudgetInv == \A e \in Event : Budget(e)

IInv ==
    /\ TypeOK
    /\ HandInv
    /\ HolderInv
    /\ SettledInv
    /\ BudgetInv

-------------------------------------------------------------------------------
(* Lemmas about the helpers. *)

LEMMA ElementFact ==
  ASSUME NEW S, NEW s \in Seq(S), NEW n \in 1..Len(s)
  PROVE  s[n] \in S
  OBVIOUS

LEMMA AppendFacts ==
  ASSUME NEW S, NEW s \in Seq(S), NEW e \in S
  PROVE  /\ Append(s, e) \in Seq(S)
         /\ Len(s) \in Nat
         /\ Len(Append(s, e)) = Len(s) + 1
         /\ \A n \in 1..Len(s) : Append(s, e)[n] = s[n]
         /\ Append(s, e)[Len(s) + 1] = e
  OBVIOUS

LEMMA HandledFact ==
  ASSUME TypeOK, HandInv, NEW d \in Reader, pc[d] # "idle"
  PROVE  hand[d] \in 1..Len(stream) /\ Handled(d) \in Event
  <1>1. hand[d] \in 1..Len(stream)
    BY DEF HandInv
  <1> QED
    BY <1>1, ElementFact DEF Handled, TypeOK

LEMMA CountsFact ==
  ASSUME TypeOK, NEW e \in Event
  PROVE  sends[e] \in Nat /\ faults[e] \in Nat /\ Allowed(e) \in {0, 1}
  BY BoundsAssumption DEF TypeOK, Allowed, BoundsAssumption

\* The budget of an event no step touches.
LEMMA BudgetKept ==
  ASSUME NEW e \in Event, Budget(e), Strays(e)' = Strays(e), Allowed(e)' = Allowed(e),
         sends'[e] = sends[e], faults'[e] = faults[e]
  PROVE  Budget(e)'
  BY DEF Budget

\* A step of the delivery of d spends from the budget of its own event only.
LEMMA Delivery ==
  ASSUME IInv, TypeOK', NEW d \in Reader, NEW e \in Event, pc[d] # "idle", Handled(d) = e,
         UNCHANGED stream,
         \A c \in Reader : c # d => pc'[c] = pc[c] /\ hand'[c] = hand[c],
         pc'[d] \in {"send", "finish"} => hand'[d] = hand[d],
         pc'[d] = "send" => claim'[e] = d,
         \A f \in Event : f # e => claim'[f] = claim[f] /\ sends'[f] = sends[f] /\ faults'[f] = faults[f],
         claim'[e] = claim[e] \/ (claim[e] \in {Free, d} /\ claim'[e] \in {d, Free, Done, Abandoned}),
         sends'[e] + Allowed(e)' + faults[e] <=
            sends[e] + Allowed(e) + faults'[e] + (IF d \in Strays(e) THEN 1 ELSE 0)
  PROVE  BudgetInv'
  <1>2. \A c \in Reader : c # d => Handled(c)' = Handled(c)
    BY DEF Handled
  <1>3. pc'[d] \in {"send", "finish"} => Handled(d)' = e
    BY DEF Handled
  <1>4. ASSUME NEW f \in Event, f # e PROVE Budget(f)'
    <2>1. claim'[f] = claim[f] /\ claim[f] # d
      BY <1>4 DEF IInv, HolderInv
    <2>2. Strays(f)' = Strays(f)
      BY <1>2, <1>3, <1>4, <2>1 DEF Strays
    <2>3. Allowed(f)' = Allowed(f)
      BY <2>1 DEF Allowed
    <2> QED
      BY <1>4, <2>2, <2>3, BudgetKept DEF IInv, BudgetInv
  <1>5. Budget(e)'
    <2>1. \A c \in Reader : c # d => (claim'[e] = c <=> claim[e] = c)
      BY MarksAssumption DEF MarksAssumption
    <2>2. Strays(e)' = Strays(e) \ {d}
      <3>1. \A c \in Reader : c # d => (c \in Strays(e)' <=> c \in Strays(e))
        BY <1>2, <2>1 DEF Strays
      <3>2. d \notin Strays(e)'
        BY DEF Strays
      <3>3. Strays(e)' \subseteq Reader /\ Strays(e) \subseteq Reader
        BY DEF Strays
      <3> QED
        BY <3>1, <3>2, <3>3
    <2>3. IsFiniteSet(Strays(e)) /\ sends[e] + Cardinality(Strays(e)) + Allowed(e) <= 1 + faults[e]
      BY DEF IInv, BudgetInv, Budget
    <2>4. /\ IsFiniteSet(Strays(e)')
          /\ Cardinality(Strays(e)') =
                IF d \in Strays(e) THEN Cardinality(Strays(e)) - 1 ELSE Cardinality(Strays(e))
      BY <2>2, <2>3, FS_RemoveElement
    <2>5. Cardinality(Strays(e)) \in Nat
      BY <2>3, FS_CardinalityType
    <2>6. sends[e] \in Nat /\ faults[e] \in Nat /\ Allowed(e) \in {0, 1}
      BY CountsFact DEF IInv
    <2>7. sends'[e] \in Nat /\ faults'[e] \in Nat
      BY BoundsAssumption DEF TypeOK, BoundsAssumption
    <2>8. Allowed(e)' \in {0, 1}
      BY DEF Allowed
    <2>9. sends'[e] + Cardinality(Strays(e)') + Allowed(e)' <= 1 + faults'[e]
      BY <2>3, <2>4, <2>5, <2>6, <2>7, <2>8
    <2> QED
      BY <2>4, <2>9 DEF Budget
  <1> QED
    BY <1>4, <1>5 DEF BudgetInv

-------------------------------------------------------------------------------
(* The stream. *)

LEMMA PublishInv ==
  ASSUME IInv, NEW e \in Event, Publish(e)
  PROVE  IInv'
  <1> DEFINE Standing == {"new", "pending", "acked"}
  <1>1. /\ stream \in Seq(Event) /\ stream' = Append(stream, e)
        /\ entry \in [1..Len(stream) -> Standing] /\ entry' = Append(entry, "new")
        /\ Len(stream) < MaxEntries
        /\ UNCHANGED <<claim, sends, refused, pc, hand, faults>>
    BY DEF IInv, TypeOK, Publish, telegram
  <1>2. /\ stream' \in Seq(Event) /\ Len(stream) \in Nat /\ Len(stream') = Len(stream) + 1
        /\ \A n \in 1..Len(stream) : stream'[n] = stream[n]
    BY <1>1, AppendFacts
  <1>3. entry \in Seq(Standing) /\ Len(entry) = Len(stream)
    BY <1>1, <1>2
  <1>4. /\ entry' \in Seq(Standing) /\ Len(entry') = Len(entry) + 1
        /\ \A n \in 1..Len(entry) : entry'[n] = entry[n]
        /\ entry'[Len(entry) + 1] = "new"
    BY <1>1, <1>3, AppendFacts
  <1>5. TypeOK'
    <2>1. Len(stream') <= MaxEntries
      BY <1>1, <1>2, BoundsAssumption DEF BoundsAssumption
    <2>2. entry' \in [1..Len(stream') -> Standing]
      BY <1>2, <1>3, <1>4
    <2> QED
      BY <1>1, <1>2, <2>1, <2>2 DEF IInv, TypeOK
  <1>6. \A d \in Reader : pc[d] # "idle" => hand[d] \in 1..Len(stream') /\ Handled(d)' = Handled(d)
    BY <1>1, <1>2, HandledFact DEF IInv, Handled
  <1>7. HandInv'
    BY <1>1, <1>6 DEF HandInv
  <1>8. HolderInv'
    BY <1>1, <1>6 DEF IInv, HolderInv
  <1>9. \A f : Settled(f)' <=> Settled(f)
    BY <1>1 DEF Settled
  <1>10. SettledInv'
    <2>1. \A n \in 1..Len(stream') : n \in 1..Len(stream) \/ n = Len(stream) + 1
      BY <1>2
    <2>2. \A n \in 1..Len(stream') : entry'[n] = "acked" => sends'[stream'[n]] > 0 \/ stream'[n] \in refused' \cup Invalid
      BY <2>1, <1>1, <1>2, <1>3, <1>4 DEF IInv, SettledInv, Settled
    <2>3. \A d \in Reader : pc'[d] \in {"finish", "ack"} => sends'[Handled(d)'] > 0 \/ Handled(d)' \in refused' \cup Invalid
      BY <1>1, <1>6 DEF IInv, SettledInv, Settled
    <2>4. \A f \in Event : claim'[f] = Done => sends'[f] > 0 \/ f \in refused' \cup Invalid
      BY <1>1 DEF IInv, SettledInv, Settled
    <2> QED
      BY <2>2, <2>3, <2>4 DEF SettledInv, Settled
  <1>11. \A f \in Event : Budget(f)'
    <2> TAKE f \in Event
    <2>1. Strays(f)' = Strays(f)
      BY <1>1, <1>6 DEF Strays
    <2>2. Allowed(f)' = Allowed(f)
      BY <1>1 DEF Allowed
    <2> QED
      BY <1>1, <2>1, <2>2, BudgetKept DEF IInv, BudgetInv
  <1> QED
    BY <1>5, <1>7, <1>8, <1>10, <1>11 DEF IInv, BudgetInv

LEMMA ReceiveInv ==
  ASSUME IInv, NEW d \in Reader, NEW n \in 1..Len(stream), Receive(d, n)
  PROVE  IInv'
  <1>1. /\ pc[d] = "idle" /\ pc' = [pc EXCEPT ![d] = IF stream[n] \in Invalid THEN "ack" ELSE "claim"]
        /\ hand' = [hand EXCEPT ![d] = n] /\ entry' = [entry EXCEPT ![n] = "pending"]
        /\ UNCHANGED <<stream, claim, sends, refused, faults>>
    BY DEF Receive, Goto, telegram
  <1>2. TypeOK'
    <2>1. n \in 0..MaxEntries
      BY BoundsAssumption DEF IInv, TypeOK, BoundsAssumption
    <2> QED
      BY <1>1, <2>1 DEF IInv, TypeOK, PC
  <1>3. \A c \in Reader : c # d => Handled(c)' = Handled(c) /\ pc'[c] = pc[c] /\ hand'[c] = hand[c]
    BY <1>1 DEF IInv, TypeOK, Handled
  <1>4. /\ pc'[d] \in {"ack", "claim"} /\ hand'[d] = n /\ Handled(d)' = stream[n]
        /\ pc'[d] = "ack" => stream[n] \in Invalid
    BY <1>1 DEF IInv, TypeOK, Handled
  <1>5. HandInv'
    BY <1>1, <1>3, <1>4 DEF IInv, HandInv
  <1>6. HolderInv'
    <2>1. \A e \in Event : claim[e] # d
      BY <1>1 DEF IInv, HolderInv
    <2> QED
      BY <1>1, <1>3, <2>1 DEF IInv, HolderInv
  <1>7. SettledInv'
    <2>1. \A f : Settled(f)' <=> sends[f] > 0 \/ f \in refused \cup Invalid
      BY <1>1 DEF Settled
    <2>2. \A e \in Event : claim'[e] = Done => sends'[e] > 0 \/ e \in refused' \cup Invalid
      BY <1>1 DEF IInv, SettledInv, Settled
    <2>3. \A c \in Reader : pc'[c] \in {"finish", "ack"} => sends'[Handled(c)'] > 0 \/ Handled(c)' \in refused' \cup Invalid
      BY <1>1, <1>3, <1>4 DEF IInv, SettledInv, Settled
    <2>4. \A m \in 1..Len(stream') : entry'[m] = "acked" => sends'[stream'[m]] > 0 \/ stream'[m] \in refused' \cup Invalid
      BY <1>1 DEF IInv, SettledInv, Settled, TypeOK
    <2> QED
      BY <2>2, <2>3, <2>4 DEF SettledInv, Settled
  <1>8. \A f \in Event : Budget(f)'
    <2> TAKE f \in Event
    <2>1. Strays(f)' = Strays(f)
      BY <1>1, <1>3, <1>4 DEF Strays
    <2>2. Allowed(f)' = Allowed(f)
      BY <1>1, <1>3, <1>4 DEF Allowed
    <2> QED
      BY <1>1, <2>1, <2>2, BudgetKept DEF IInv, BudgetInv
  <1> QED
    BY <1>2, <1>5, <1>6, <1>7, <1>8 DEF IInv, BudgetInv

-------------------------------------------------------------------------------
(* One delivery. *)

\* What the key of its event allows, as far as it depends on the reader d.
LEMMA AllowedFacts ==
  ASSUME TypeOK, TypeOK', NEW d \in Reader, NEW e \in Event,
         \A c \in Reader : c # d => pc'[c] = pc[c]
  PROVE  /\ claim[e] = d => Allowed(e) = IF pc[d] = "finish" THEN 0 ELSE 1
         /\ claim'[e] = d => Allowed(e)' = IF pc'[d] = "finish" THEN 0 ELSE 1
         /\ claim[e] \in {Free, Abandoned} => Allowed(e) = 1
         /\ claim'[e] \in {Free, Abandoned} => Allowed(e)' = 1
         /\ claim'[e] = Done => Allowed(e)' = 0
         /\ claim'[e] = claim[e] /\ claim[e] # d => Allowed(e)' = Allowed(e)
         /\ Allowed(e) \in {0, 1} /\ Allowed(e)' \in {0, 1}
  <1>1. d # Done
    BY MarksAssumption DEF MarksAssumption
  <1>2. \A c \in Reader : c # Done /\ c # Free /\ c # Abandoned
    BY MarksAssumption DEF MarksAssumption
  <1> QED
    BY <1>1, <1>2, MarksAssumption DEF Allowed, MarksAssumption

\* The step of a delivery: its claim, its budget and what it settles.
LEMMA DeliveryInv ==
  ASSUME IInv, TypeOK', NEW d \in Reader, NEW e \in Event, pc[d] # "idle", Handled(d) = e,
         UNCHANGED stream,
         \A c \in Reader : c # d => pc'[c] = pc[c] /\ hand'[c] = hand[c],
         pc'[d] = "idle" \/ hand'[d] = hand[d],
         pc'[d] = "send" => claim'[e] = d,
         \A f \in Event : f # e => claim'[f] = claim[f] /\ sends'[f] = sends[f] /\ faults'[f] = faults[f],
         claim'[e] = claim[e] \/ (claim[e] \in {Free, d} /\ claim'[e] \in {d, Free, Done, Abandoned}),
         claim'[e] = d => pc'[d] \in {"send", "finish", "release"},
         sends'[e] + Allowed(e)' + faults[e] <=
            sends[e] + Allowed(e) + faults'[e] + (IF d \in Strays(e) THEN 1 ELSE 0),
         \A f \in Event : Settled(f) => Settled(f)',
         claim'[e] = Done => claim[e] = Done \/ Settled(e)',
         pc'[d] \in {"finish", "ack"} => Settled(e)',
         \A n \in 1..Len(stream) : entry'[n] = "acked" => entry[n] = "acked" \/ Settled(stream[n])'
  PROVE  IInv'
  <1>1. HandInv'
    BY DEF IInv, HandInv
  <1>2. \A c \in Reader : c # d \/ pc'[d] # "idle" => Handled(c)' = Handled(c)
    BY DEF Handled
  <1>3. HolderInv'
    <2> SUFFICES ASSUME NEW f \in Event, NEW c \in Reader, claim'[f] = c
                 PROVE  pc'[c] \in {"send", "finish", "release"} /\ Handled(c)' = f
      BY DEF HolderInv
    <2>1. CASE c = d
      <3>1. f = e
        BY <2>1 DEF IInv, HolderInv
      <3> QED
        BY <1>2, <2>1, <3>1
    <2>2. CASE c # d
      <3>1. claim[f] = c
        BY <2>2, MarksAssumption DEF MarksAssumption
      <3> QED
        BY <1>2, <2>2, <3>1 DEF IInv, HolderInv
    <2> QED
      BY <2>1, <2>2
  <1>4. \A f \in Event : Settled(f) => sends'[f] > 0 \/ f \in refused' \cup Invalid
    BY DEF Settled
  <1>5. \A f \in Event : claim'[f] = Done => Settled(f)'
    <2> TAKE f \in Event
    <2>1. claim[f] = Done => Settled(f)'
      BY DEF IInv, SettledInv
    <2> QED
      BY <2>1
  <1>6. \A c \in Reader : pc'[c] \in {"finish", "ack"} => sends'[Handled(c)'] > 0 \/ Handled(c)' \in refused' \cup Invalid
    <2> TAKE c \in Reader
    <2>1. CASE c = d
      BY <1>2, <2>1 DEF Settled
    <2>2. CASE c # d
      BY <1>2, <1>4, <2>2, HandledFact DEF IInv, SettledInv
    <2> QED
      BY <2>1, <2>2
  <1>7. \A n \in 1..Len(stream) : entry'[n] = "acked" => sends'[stream[n]] > 0 \/ stream[n] \in refused' \cup Invalid
    <2> TAKE n \in 1..Len(stream)
    <2>1. stream[n] \in Event
      BY ElementFact DEF IInv, TypeOK
    <2>2. entry[n] = "acked" => sends'[stream[n]] > 0 \/ stream[n] \in refused' \cup Invalid
      BY <1>4, <2>1 DEF IInv, SettledInv
    <2> QED
      BY <2>2 DEF Settled
  <1>8. SettledInv'
    BY <1>5, <1>6, <1>7 DEF SettledInv, Settled
  <1>9. BudgetInv'
    BY Delivery
  <1> QED
    BY <1>1, <1>3, <1>8, <1>9 DEF IInv

\* What every step of d's delivery starts from.
LEMMA Start ==
  ASSUME IInv, NEW d \in Reader, pc[d] # "idle"
  PROVE  /\ Handled(d) \in Event /\ hand[d] \in 1..Len(stream)
         /\ sends[Handled(d)] \in Nat /\ faults[Handled(d)] \in Nat
         /\ d \in Strays(Handled(d)) <=> pc[d] = "send" /\ claim[Handled(d)] # d
  BY HandledFact, CountsFact DEF IInv, Strays

LEMMA ClaimInv ==
  ASSUME IInv, NEW d \in Reader, Claim(d)
  PROVE  IInv'
  <1>1. PICK e \in Event : e = Handled(d)
    BY Start DEF Claim
  <1>2. /\ pc[d] = "claim" /\ UNCHANGED <<stream, entry, sends, refused, hand, faults>>
        /\ \/ claim[e] = Free /\ claim' = [claim EXCEPT ![e] = d] /\ pc' = [pc EXCEPT ![d] = "send"]
           \/ pc' = [pc EXCEPT ![d] = "look"] /\ UNCHANGED claim
    BY <1>1 DEF Claim, Goto, telegram
  <1>3. TypeOK'
    <2>0. pc \in [Reader -> PC] /\ claim \in [Event -> Reader \cup {Free, Done, Abandoned}]
      BY DEF IInv, TypeOK
    <2>1. pc' \in [Reader -> PC]
      BY <1>2, <2>0 DEF PC
    <2>2. claim' \in [Event -> Reader \cup {Free, Done, Abandoned}]
      BY <1>2, <2>0
    <2> QED
      BY <1>2, <2>1, <2>2 DEF IInv, TypeOK
  <1>4. sends[e] \in Nat /\ faults[e] \in Nat
    BY <1>1, <1>2, Start
  <1>5. pc'[d] \in {"send", "look"} /\ \A c \in Reader : c # d => pc'[c] = pc[c]
    BY <1>2 DEF IInv, TypeOK
  <1>6. claim[e] # d
    BY <1>2 DEF IInv, HolderInv
  <1>7. \/ claim[e] = Free /\ claim'[e] = d
        \/ claim' = claim /\ pc'[d] = "look"
    BY <1>2 DEF IInv, TypeOK
  <1>8. Allowed(e)' = Allowed(e) /\ Allowed(e) \in {0, 1}
    BY <1>3, <1>5, <1>6, <1>7, AllowedFacts DEF IInv
  <1>9. sends'[e] + Allowed(e)' + faults[e] <=
            sends[e] + Allowed(e) + faults'[e] + (IF d \in Strays(e) THEN 1 ELSE 0)
    BY <1>2, <1>4, <1>8
  <1>10. \A f : Settled(f) => Settled(f)'
    BY <1>2 DEF Settled
  <1>11. \A f \in Event : f # e => claim'[f] = claim[f]
    BY <1>2 DEF IInv, TypeOK
  <1>12. /\ claim'[e] = Done => claim[e] = Done
         /\ pc'[d] = "send" => claim'[e] = d
         /\ claim'[e] = d => pc'[d] = "send"
    BY <1>2, <1>5, <1>6, <1>7, MarksAssumption DEF IInv, TypeOK, MarksAssumption
  <1> QED
    BY <1>1, <1>2, <1>3, <1>5, <1>6, <1>7, <1>9, <1>10, <1>11, <1>12, DeliveryInv

LEMMA LookInv ==
  ASSUME IInv, NEW d \in Reader, Look(d)
  PROVE  IInv'
  <1>1. PICK e \in Event : e = Handled(d)
    BY Start DEF Look
  <1>2. /\ pc[d] = "look" /\ UNCHANGED <<stream, entry, claim, sends, refused, faults>>
        /\ \/ claim[e] = Done /\ pc' = [pc EXCEPT ![d] = "ack"] /\ UNCHANGED hand
           \/ pc' = [pc EXCEPT ![d] = "idle"] /\ hand' = [hand EXCEPT ![d] = 0]
    BY <1>1 DEF Look, Idle, Goto, telegram
  <1>3. TypeOK'
    <2>0. pc \in [Reader -> PC] /\ hand \in [Reader -> 0..MaxEntries]
      BY DEF IInv, TypeOK
    <2>1. pc' \in [Reader -> PC]
      BY <1>2, <2>0 DEF PC
    <2>2. hand' \in [Reader -> 0..MaxEntries]
      BY <1>2, <2>0, BoundsAssumption DEF BoundsAssumption
    <2> QED
      BY <1>2, <2>1, <2>2 DEF IInv, TypeOK
  <1>4. sends[e] \in Nat /\ faults[e] \in Nat
    BY <1>1, <1>2, Start
  <1>5. \A c \in Reader : c # d => pc'[c] = pc[c] /\ hand'[c] = hand[c]
    BY <1>2 DEF IInv, TypeOK
  <1>6. claim[e] # d
    BY <1>2 DEF IInv, HolderInv
  <1>7. (claim[e] = Done /\ pc'[d] = "ack" /\ hand' = hand) \/ pc'[d] = "idle"
    BY <1>2 DEF IInv, TypeOK
  <1>8. Allowed(e)' = Allowed(e) /\ Allowed(e) \in {0, 1}
    BY <1>2, <1>3, <1>5, <1>6, AllowedFacts DEF IInv
  <1>9. sends'[e] + Allowed(e)' + faults[e] <=
            sends[e] + Allowed(e) + faults'[e] + (IF d \in Strays(e) THEN 1 ELSE 0)
    BY <1>2, <1>4, <1>8
  <1>10. \A f : Settled(f) => Settled(f)'
    BY <1>2 DEF Settled
  <1>11. pc'[d] = "ack" => Settled(e)'
    BY <1>7, <1>10 DEF IInv, SettledInv
  <1> QED
    BY <1>1, <1>2, <1>3, <1>5, <1>6, <1>7, <1>9, <1>10, <1>11, DeliveryInv

LEMMA SendInv ==
  ASSUME IInv, NEW d \in Reader, Send(d)
  PROVE  IInv'
  <1>1. PICK e \in Event : e = Handled(d)
    BY Start DEF Send
  <1>2. /\ pc[d] = "send" /\ UNCHANGED <<stream, entry, claim, hand, faults>>
        /\ pc' = [pc EXCEPT ![d] = "finish"]
        /\ \/ sends' = [sends EXCEPT ![e] = @ + 1] /\ UNCHANGED refused
           \/ refused' = refused \cup {e} /\ UNCHANGED sends
    BY <1>1 DEF Send, Goto
  <1>3. sends[e] \in Nat /\ faults[e] \in Nat /\ (d \in Strays(e) <=> claim[e] # d)
    BY <1>1, <1>2, Start
  <1>4. TypeOK'
    <2>1. pc \in [Reader -> PC] /\ refused \subseteq Event /\ sends \in [Event -> Nat]
      BY DEF IInv, TypeOK
    <2>2. sends' \in [Event -> Nat]
      BY <1>2, <2>1
    <2>3. pc' \in [Reader -> PC]
      BY <1>2, <2>1 DEF PC
    <2>4. refused' \subseteq Event
      BY <1>2, <2>1
    <2> QED
      BY <1>2, <2>2, <2>3, <2>4 DEF IInv, TypeOK
  <1>5. pc'[d] = "finish" /\ \A c \in Reader : c # d => pc'[c] = pc[c]
    BY <1>2 DEF IInv, TypeOK
  <1>6. \A f \in Event : f # e => sends'[f] = sends[f]
    BY <1>2 DEF IInv, TypeOK
  <1>7. sends'[e] \in {sends[e], sends[e] + 1} /\ (sends'[e] > 0 \/ e \in refused')
    BY <1>2, <1>3 DEF IInv, TypeOK
  <1>8. /\ claim[e] = d => Allowed(e) = 1 /\ Allowed(e)' = 0
        /\ claim[e] # d => Allowed(e)' = Allowed(e)
        /\ Allowed(e) \in {0, 1}
    BY <1>2, <1>4, <1>5, AllowedFacts DEF IInv
  <1>9. sends'[e] + Allowed(e)' + faults[e] <=
            sends[e] + Allowed(e) + faults'[e] + (IF d \in Strays(e) THEN 1 ELSE 0)
    BY <1>2, <1>3, <1>7, <1>8
  <1>10. \A f \in Event : Settled(f) => Settled(f)'
    BY <1>2, <1>6, <1>7 DEF Settled
  <1>11. Settled(e)'
    BY <1>7 DEF Settled
  <1> QED
    BY <1>1, <1>2, <1>4, <1>5, <1>6, <1>9, <1>10, <1>11, DeliveryInv

\* A fault is counted for the event it touches.
LEMMA FaultFacts ==
  ASSUME IInv, NEW e \in Event, Fault(e)
  PROVE  /\ faults' \in [Event -> 0..MaxFaults] /\ faults'[e] = faults[e] + 1
         /\ \A f \in Event : f # e => faults'[f] = faults[f]
  BY BoundsAssumption DEF IInv, TypeOK, Fault, BoundsAssumption

LEMMA SendFailsInv ==
  ASSUME IInv, NEW d \in Reader, SendFails(d)
  PROVE  IInv'
  <1>1. PICK e \in Event : e = Handled(d)
    BY Start DEF SendFails
  <1>2. /\ pc[d] = "send" /\ UNCHANGED <<stream, entry, claim, refused, hand>>
        /\ pc' = [pc EXCEPT ![d] = "release"]
        /\ sends' \in {sends, [sends EXCEPT ![e] = @ + 1]}
        /\ Fault(e)
    BY <1>1 DEF SendFails, Goto
  <1>3. sends[e] \in Nat /\ faults[e] \in Nat /\ (d \in Strays(e) <=> claim[e] # d)
    BY <1>1, <1>2, Start
  <1>4. /\ faults' \in [Event -> 0..MaxFaults] /\ faults'[e] = faults[e] + 1
        /\ \A f \in Event : f # e => faults'[f] = faults[f]
    BY <1>2, FaultFacts
  <1>5. TypeOK'
    BY <1>2, <1>3, <1>4 DEF IInv, TypeOK, PC
  <1>6. pc'[d] = "release" /\ \A c \in Reader : c # d => pc'[c] = pc[c]
    BY <1>2 DEF IInv, TypeOK
  <1>7. /\ \A f \in Event : f # e => sends'[f] = sends[f]
        /\ sends'[e] \in {sends[e], sends[e] + 1}
    BY <1>2, <1>3 DEF IInv, TypeOK
  <1>8. Allowed(e)' = Allowed(e) /\ Allowed(e) \in {0, 1}
    BY <1>2, <1>5, <1>6, AllowedFacts DEF IInv
  <1>9. sends'[e] + Allowed(e)' + faults[e] <=
            sends[e] + Allowed(e) + faults'[e] + (IF d \in Strays(e) THEN 1 ELSE 0)
    BY <1>3, <1>4, <1>7, <1>8
  <1>10. \A f \in Event : Settled(f) => Settled(f)'
    BY <1>2, <1>3, <1>7 DEF Settled
  <1> QED
    BY <1>1, <1>2, <1>4, <1>5, <1>6, <1>7, <1>9, <1>10, DeliveryInv

\* FINISH and RELEASE change the key only when it holds the token of d.
LEMMA KeyFacts ==
  ASSUME TypeOK, NEW d \in Reader, NEW e \in Event, NEW value \in {Free, Done, Abandoned},
         claim' = [claim EXCEPT ![e] = IF @ = d THEN value ELSE @]
  PROVE  /\ claim' \in [Event -> Reader \cup {Free, Done, Abandoned}]
         /\ claim'[e] = IF claim[e] = d THEN value ELSE claim[e]
         /\ claim'[e] # d
         /\ \A f \in Event : f # e => claim'[f] = claim[f]
  BY MarksAssumption DEF TypeOK, MarksAssumption

LEMMA FinishInv ==
  ASSUME IInv, NEW d \in Reader, Finish(d)
  PROVE  IInv'
  <1>1. PICK e \in Event : e = Handled(d)
    BY Start DEF Finish
  <1>2. /\ pc[d] = "finish" /\ UNCHANGED <<stream, entry, sends, refused, hand, faults>>
        /\ pc' = [pc EXCEPT ![d] = IF claim[e] = d THEN "ack" ELSE "release"]
        /\ claim' = [claim EXCEPT ![e] = IF @ = d THEN Done ELSE @]
    BY <1>1 DEF Finish, Complete, Goto, telegram
  <1>3. sends[e] \in Nat /\ faults[e] \in Nat /\ Settled(e)
    BY <1>1, <1>2, Start DEF IInv, SettledInv
  <1>4. /\ claim' \in [Event -> Reader \cup {Free, Done, Abandoned}]
        /\ claim'[e] = (IF claim[e] = d THEN Done ELSE claim[e]) /\ claim'[e] # d
        /\ \A f \in Event : f # e => claim'[f] = claim[f]
    BY <1>2, KeyFacts DEF IInv
  <1>5. TypeOK'
    <2>1. pc' \in [Reader -> PC]
      BY <1>2 DEF IInv, TypeOK, PC
    <2> QED
      BY <1>2, <1>4, <2>1 DEF IInv, TypeOK
  <1>6. pc'[d] \in {"ack", "release"} /\ \A c \in Reader : c # d => pc'[c] = pc[c]
    BY <1>2 DEF IInv, TypeOK
  <1>7. Allowed(e)' = Allowed(e) /\ Allowed(e) \in {0, 1}
    BY <1>2, <1>4, <1>5, <1>6, AllowedFacts DEF IInv
  <1>8. sends'[e] + Allowed(e)' + faults[e] <=
            sends[e] + Allowed(e) + faults'[e] + (IF d \in Strays(e) THEN 1 ELSE 0)
    BY <1>2, <1>3, <1>7
  <1>9. \A f : Settled(f) => Settled(f)'
    BY <1>2 DEF Settled
  <1> QED
    BY <1>1, <1>2, <1>3, <1>4, <1>5, <1>6, <1>8, <1>9, DeliveryInv

LEMMA FinishFailsInv ==
  ASSUME IInv, NEW d \in Reader, FinishFails(d)
  PROVE  IInv'
  <1>1. PICK e \in Event : e = Handled(d)
    BY Start DEF FinishFails
  <1>2. /\ pc[d] = "finish" /\ UNCHANGED <<stream, entry, sends, refused, hand>>
        /\ pc' = [pc EXCEPT ![d] = "release"]
        /\ claim' = [claim EXCEPT ![e] = IF @ = d THEN Done ELSE @] \/ UNCHANGED claim
        /\ Fault(e)
    BY <1>1 DEF FinishFails, Complete, Goto, telegram
  <1>3. sends[e] \in Nat /\ faults[e] \in Nat /\ Settled(e)
    BY <1>1, <1>2, Start DEF IInv, SettledInv
  <1>4. /\ claim' \in [Event -> Reader \cup {Free, Done, Abandoned}]
        /\ claim'[e] = claim[e] \/ (claim[e] = d /\ claim'[e] = Done)
        /\ \A f \in Event : f # e => claim'[f] = claim[f]
    BY <1>2, KeyFacts DEF IInv, TypeOK
  <1>5. /\ faults' \in [Event -> 0..MaxFaults] /\ faults'[e] = faults[e] + 1
        /\ \A f \in Event : f # e => faults'[f] = faults[f]
    BY <1>2, FaultFacts
  <1>6. TypeOK'
    <2>1. pc' \in [Reader -> PC]
      BY <1>2 DEF IInv, TypeOK, PC
    <2> QED
      BY <1>2, <1>4, <1>5, <2>1 DEF IInv, TypeOK
  <1>7. pc'[d] = "release" /\ \A c \in Reader : c # d => pc'[c] = pc[c]
    BY <1>2 DEF IInv, TypeOK
  <1>8. Allowed(e) \in {0, 1} /\ Allowed(e)' \in {0, 1}
    BY <1>6, <1>7, AllowedFacts DEF IInv
  <1>9. sends'[e] + Allowed(e)' + faults[e] <=
            sends[e] + Allowed(e) + faults'[e] + (IF d \in Strays(e) THEN 1 ELSE 0)
    BY <1>2, <1>3, <1>5, <1>8
  <1>10. \A f : Settled(f) => Settled(f)'
    BY <1>2 DEF Settled
  <1> QED
    BY <1>1, <1>2, <1>3, <1>4, <1>5, <1>6, <1>7, <1>9, <1>10, DeliveryInv

\* A reader that goes back to its loop.
LEMMA IdleFacts ==
  ASSUME IInv, NEW d \in Reader, Idle(d)
  PROVE  /\ pc' \in [Reader -> PC] /\ hand' \in [Reader -> 0..MaxEntries] /\ pc'[d] = "idle"
         /\ \A c \in Reader : c # d => pc'[c] = pc[c] /\ hand'[c] = hand[c]
  <1>1. 0 \in 0..MaxEntries
    BY BoundsAssumption DEF BoundsAssumption
  <1> QED
    BY <1>1 DEF IInv, TypeOK, PC, Idle, Goto

LEMMA ReleaseInv ==
  ASSUME IInv, NEW d \in Reader, Release(d)
  PROVE  IInv'
  <1>1. PICK e \in Event : e = Handled(d)
    BY Start DEF Release
  <1>2. /\ pc[d] = "release" /\ UNCHANGED <<stream, entry, sends, refused, faults>> /\ Idle(d)
        /\ claim' = [claim EXCEPT ![e] = IF @ = d THEN Free ELSE @]
    BY <1>1 DEF Release, GiveUp, telegram
  <1>3. sends[e] \in Nat /\ faults[e] \in Nat
    BY <1>1, <1>2, Start
  <1>4. /\ claim' \in [Event -> Reader \cup {Free, Done, Abandoned}]
        /\ claim'[e] = (IF claim[e] = d THEN Free ELSE claim[e]) /\ claim'[e] # d
        /\ \A f \in Event : f # e => claim'[f] = claim[f]
    BY <1>2, KeyFacts DEF IInv
  <1>5. /\ pc' \in [Reader -> PC] /\ hand' \in [Reader -> 0..MaxEntries] /\ pc'[d] = "idle"
        /\ \A c \in Reader : c # d => pc'[c] = pc[c] /\ hand'[c] = hand[c]
    BY <1>2, IdleFacts
  <1>6. TypeOK'
    BY <1>2, <1>4, <1>5 DEF IInv, TypeOK
  <1>7. Allowed(e)' = Allowed(e) /\ Allowed(e) \in {0, 1}
    BY <1>2, <1>4, <1>5, <1>6, AllowedFacts DEF IInv
  <1>8. sends'[e] + Allowed(e)' + faults[e] <=
            sends[e] + Allowed(e) + faults'[e] + (IF d \in Strays(e) THEN 1 ELSE 0)
    BY <1>2, <1>3, <1>7
  <1>9. \A f : Settled(f) => Settled(f)'
    BY <1>2 DEF Settled
  <1>10. claim'[e] = Done => claim[e] = Done
    BY <1>4, MarksAssumption DEF MarksAssumption
  <1> QED
    BY <1>1, <1>2, <1>4, <1>5, <1>6, <1>8, <1>9, <1>10, DeliveryInv

LEMMA AckInv ==
  ASSUME IInv, NEW d \in Reader, Ack(d)
  PROVE  IInv'
  <1>1. PICK e \in Event : e = Handled(d)
    BY Start DEF Ack
  <1>2. /\ pc[d] = "ack" /\ UNCHANGED <<stream, claim, sends, refused, faults>> /\ Idle(d)
        /\ entry' = [entry EXCEPT ![hand[d]] = "acked"]
    BY DEF Ack, telegram
  <1>3. sends[e] \in Nat /\ faults[e] \in Nat /\ hand[d] \in 1..Len(stream) /\ Settled(e)
    BY <1>1, <1>2, Start DEF IInv, SettledInv
  <1>4. /\ pc' \in [Reader -> PC] /\ hand' \in [Reader -> 0..MaxEntries] /\ pc'[d] = "idle"
        /\ \A c \in Reader : c # d => pc'[c] = pc[c] /\ hand'[c] = hand[c]
    BY <1>2, IdleFacts
  <1>5. TypeOK'
    <2>1. entry' \in [1..Len(stream) -> {"new", "pending", "acked"}]
      BY <1>2, <1>3 DEF IInv, TypeOK
    <2> QED
      BY <1>2, <1>4, <2>1 DEF IInv, TypeOK
  <1>6. claim[e] # d
    BY <1>2 DEF IInv, HolderInv
  <1>7. Allowed(e)' = Allowed(e) /\ Allowed(e) \in {0, 1}
    BY <1>2, <1>4, <1>5, <1>6, AllowedFacts DEF IInv
  <1>8. sends'[e] + Allowed(e)' + faults[e] <=
            sends[e] + Allowed(e) + faults'[e] + (IF d \in Strays(e) THEN 1 ELSE 0)
    BY <1>2, <1>3, <1>7
  <1>9. \A f : Settled(f) => Settled(f)'
    BY <1>2 DEF Settled
  <1>10. \A n \in 1..Len(stream) : entry'[n] = "acked" => entry[n] = "acked" \/ Settled(stream[n])'
    <2>1. stream[hand[d]] = e
      BY <1>1 DEF Handled
    <2>2. sends'[e] > 0 \/ e \in refused' \cup Invalid
      BY <1>2, <1>3 DEF Settled
    <2>3. \A n \in 1..Len(stream) : entry'[n] = "acked" => entry[n] = "acked" \/ n = hand[d]
      BY <1>2 DEF IInv, TypeOK
    <2> QED
      BY <1>2, <2>1, <2>2, <2>3 DEF Settled
  <1> QED
    BY <1>1, <1>2, <1>4, <1>5, <1>6, <1>8, <1>9, <1>10, DeliveryInv

\* A message more of the event of d, if it was sending.
LEMMA MessageFacts ==
  ASSUME IInv, NEW d \in Reader, NEW e \in Event,
         sends' \in {sends, [sends EXCEPT ![e] = IF pc[d] = "send" THEN @ + 1 ELSE @]}
  PROVE  /\ sends' \in [Event -> Nat]
         /\ \A f \in Event : f # e => sends'[f] = sends[f]
         /\ sends'[e] = sends[e] \/ (pc[d] = "send" /\ sends'[e] = sends[e] + 1)
  <1>1. sends \in [Event -> Nat]
    BY DEF IInv, TypeOK
  <1> QED
    BY <1>1

\* A delivery that ends with a fault, whether its key is left, given back or lost.
LEMMA BreakInv ==
  ASSUME IInv, NEW d \in Reader, NEW e \in Event, pc[d] # "idle", e = Handled(d),
         Idle(d), Fault(e), UNCHANGED <<stream, entry, refused>>,
         sends' \in {sends, [sends EXCEPT ![e] = IF pc[d] = "send" THEN @ + 1 ELSE @]},
         NEW value \in {Free, Abandoned},
         \/ claim' = [claim EXCEPT ![e] = IF @ = d THEN value ELSE @]
         \/ UNCHANGED claim /\ claim[e] # d
  PROVE  IInv'
  <1>1. /\ claim' \in [Event -> Reader \cup {Free, Done, Abandoned}]
        /\ claim'[e] = (IF claim[e] = d THEN value ELSE claim[e]) /\ claim'[e] # d
        /\ \A f \in Event : f # e => claim'[f] = claim[f]
    BY KeyFacts DEF IInv, TypeOK
  <1>2. sends[e] \in Nat /\ faults[e] \in Nat /\ (d \in Strays(e) <=> pc[d] = "send" /\ claim[e] # d)
    BY Start
  <1>3. /\ pc' \in [Reader -> PC] /\ hand' \in [Reader -> 0..MaxEntries] /\ pc'[d] = "idle"
        /\ \A c \in Reader : c # d => pc'[c] = pc[c] /\ hand'[c] = hand[c]
    BY IdleFacts
  <1>4. /\ faults' \in [Event -> 0..MaxFaults] /\ faults'[e] = faults[e] + 1
        /\ \A f \in Event : f # e => faults'[f] = faults[f]
    BY FaultFacts
  <1>5. /\ sends' \in [Event -> Nat]
        /\ \A f \in Event : f # e => sends'[f] = sends[f]
        /\ sends'[e] = sends[e] \/ (pc[d] = "send" /\ sends'[e] = sends[e] + 1)
    BY MessageFacts
  <1>6. TypeOK'
    BY <1>1, <1>3, <1>4, <1>5 DEF IInv, TypeOK
  <1>7. /\ claim[e] = d => Allowed(e) = (IF pc[d] = "finish" THEN 0 ELSE 1) /\ Allowed(e)' = 1
        /\ claim[e] # d => Allowed(e)' = Allowed(e)
        /\ Allowed(e) \in {0, 1} /\ Allowed(e)' \in {0, 1}
    BY <1>1, <1>3, <1>6, AllowedFacts DEF IInv
  <1>8. sends'[e] + Allowed(e)' + faults[e] <=
            sends[e] + Allowed(e) + faults'[e] + (IF d \in Strays(e) THEN 1 ELSE 0)
    BY <1>2, <1>4, <1>5, <1>7
  <1>9. \A f \in Event : Settled(f) => Settled(f)'
    BY <1>2, <1>5 DEF Settled
  <1>10. claim'[e] = Done => claim[e] = Done
    BY <1>1, MarksAssumption DEF MarksAssumption
  <1>11. claim'[e] = claim[e] \/ (claim[e] \in {Free, d} /\ claim'[e] \in {d, Free, Done, Abandoned})
    BY <1>1
  <1>12. \A f \in Event : f # e => claim'[f] = claim[f] /\ sends'[f] = sends[f] /\ faults'[f] = faults[f]
    BY <1>1, <1>4, <1>5
  <1>13. pc'[d] \notin {"send", "finish", "ack"} /\ claim'[e] # d
    BY <1>1, <1>3
  <1>14. UNCHANGED <<stream, entry>> /\ pc[d] # "idle" /\ Handled(d) = e
    OBVIOUS
  <1> QED
    BY <1>3, <1>6, <1>8, <1>9, <1>10, <1>11, <1>12, <1>13, <1>14, DeliveryInv

LEMMA CancelInv ==
  ASSUME IInv, NEW d \in Reader, Cancel(d)
  PROVE  IInv'
  <1>1. PICK e \in Event : e = Handled(d)
    BY Start DEF Cancel
  <1>2. /\ pc[d] # "idle" /\ pc[d] # "release" /\ Idle(d) /\ Fault(e) /\ UNCHANGED <<stream, entry, refused>>
        /\ sends' \in {sends, [sends EXCEPT ![e] = IF pc[d] = "send" THEN @ + 1 ELSE @]}
        /\ IF pc[d] \in {"send", "finish"}
           THEN claim' = [claim EXCEPT ![e] = IF @ = d THEN Free ELSE @]
           ELSE UNCHANGED claim
    BY <1>1 DEF Cancel, GiveUp
  <1>3. pc[d] \notin {"send", "finish"} => claim[e] # d
    BY <1>2 DEF IInv, HolderInv
  <1> QED
    BY <1>1, <1>2, <1>3, BreakInv

LEMMA CrashInv ==
  ASSUME IInv, NEW d \in Reader, Crash(d)
  PROVE  IInv'
  <1>1. PICK e \in Event : e = Handled(d)
    BY Start DEF Crash
  <1>2. /\ pc[d] # "idle" /\ Idle(d) /\ Fault(e) /\ UNCHANGED <<stream, entry, refused>>
        /\ sends' \in {sends, [sends EXCEPT ![e] = IF pc[d] = "send" THEN @ + 1 ELSE @]}
        /\ claim' = [claim EXCEPT ![e] = IF @ = d THEN Abandoned ELSE @]
    BY <1>1 DEF Crash
  <1> QED
    BY <1>1, <1>2, BreakInv

-------------------------------------------------------------------------------
(* Time. *)

LEMMA ExpireInv ==
  ASSUME IInv, NEW e \in Event, Expire(e)
  PROVE  IInv'
  <1>1. /\ claim' = [claim EXCEPT ![e] = Free] /\ UNCHANGED <<stream, entry, sends, refused, pc, hand>>
        /\ \/ claim[e] = Abandoned /\ UNCHANGED faults
           \/ claim[e] \in Reader \cup {Done} /\ Fault(e)
    BY DEF Expire, telegram
  <1>2. \/ claim[e] = Abandoned /\ faults' = faults
        \/ /\ claim[e] \in Reader \cup {Done} /\ faults' \in [Event -> 0..MaxFaults]
           /\ faults'[e] = faults[e] + 1 /\ \A f \in Event : f # e => faults'[f] = faults[f]
    BY <1>1, FaultFacts
  <1>3. /\ claim' \in [Event -> Reader \cup {Free, Done, Abandoned}] /\ claim'[e] = Free
        /\ \A f \in Event : f # e => claim'[f] = claim[f]
    BY <1>1 DEF IInv, TypeOK
  <1>4. TypeOK'
    BY <1>1, <1>2, <1>3 DEF IInv, TypeOK
  <1>5. HandInv'
    BY <1>1 DEF IInv, HandInv
  <1>6. \A d \in Reader : Handled(d)' = Handled(d)
    BY <1>1 DEF Handled
  <1>7. HolderInv'
    BY <1>1, <1>3, <1>6, MarksAssumption DEF IInv, HolderInv, MarksAssumption
  <1>8. SettledInv'
    <2>1. \A f : Settled(f)' <=> Settled(f)
      BY <1>1 DEF Settled
    <2>2. \A f \in Event : claim'[f] = Done => claim[f] = Done
      BY <1>3, MarksAssumption DEF MarksAssumption
    <2> QED
      BY <1>1, <1>6, <2>2 DEF IInv, SettledInv, Settled
  <1>9. ASSUME NEW f \in Event, f # e PROVE Budget(f)'
    <2>1. Strays(f)' = Strays(f)
      BY <1>1, <1>3, <1>6, <1>9 DEF Strays
    <2>2. Allowed(f)' = Allowed(f)
      BY <1>1, <1>3, <1>9 DEF Allowed
    <2> QED
      BY <1>1, <1>2, <1>9, <2>1, <2>2, BudgetKept DEF IInv, BudgetInv
  <1>10. Budget(e)'
    <2>1. /\ IsFiniteSet(Strays(e)) /\ sends[e] + Cardinality(Strays(e)) + Allowed(e) <= 1 + faults[e]
          /\ sends[e] \in Nat /\ faults[e] \in Nat /\ Allowed(e) \in {0, 1}
      BY CountsFact DEF IInv, BudgetInv, Budget
    <2>2. Cardinality(Strays(e)) \in Nat
      BY <2>1, FS_CardinalityType
    <2>3. \A d \in Reader : claim'[e] # d
      BY <1>3, MarksAssumption DEF MarksAssumption
    <2>4. Allowed(e)' = 1
      BY <1>3, <2>3, MarksAssumption DEF Allowed, MarksAssumption
    <2>5. CASE claim[e] \in {Abandoned, Done}
      <3>1. \A d \in Reader : claim[e] # d
        BY <2>5, MarksAssumption DEF MarksAssumption
      <3>2. Strays(e)' = Strays(e)
        BY <1>1, <1>6, <2>3, <3>1 DEF Strays
      <3>3. claim[e] = Abandoned => Allowed(e) = 1
        BY <3>1, MarksAssumption DEF Allowed, MarksAssumption
      <3>4. claim[e] = Done => faults'[e] = faults[e] + 1
        BY <1>2, MarksAssumption DEF MarksAssumption
      <3>5. claim[e] = Abandoned => faults'[e] = faults[e]
        BY <1>2, MarksAssumption DEF MarksAssumption
      <3> QED
        BY <1>1, <2>1, <2>2, <2>4, <2>5, <3>2, <3>3, <3>4, <3>5 DEF Budget
    <2>6. CASE claim[e] \in Reader
      <3> DEFINE d == claim[e]
      <3>1. faults'[e] = faults[e] + 1 /\ d \in Reader /\ d # Done
        BY <1>2, <2>6, MarksAssumption DEF MarksAssumption
      <3>2. Strays(e)' = IF pc[d] = "send" THEN Strays(e) \cup {d} ELSE Strays(e)
        <4>1. \A c \in Reader : c \in Strays(e)' <=> pc[c] = "send" /\ Handled(c) = e
          BY <1>1, <1>6, <2>3 DEF Strays
        <4>2. Handled(d) = e
          BY <3>1 DEF IInv, HolderInv
        <4>3. Strays(e)' \subseteq Reader /\ Strays(e) \subseteq Reader
          BY DEF Strays
        <4>4. \A c \in Reader : c \in Strays(e) <=> pc[c] = "send" /\ Handled(c) = e /\ c # d
          BY DEF Strays
        <4> HIDE DEF d
        <4> QED
          BY <3>1, <4>1, <4>2, <4>3, <4>4
      <3>3. pc[d] = "send" => Allowed(e) = 1
        BY <3>1 DEF Allowed
      <3>4. /\ IsFiniteSet(Strays(e)') /\ Cardinality(Strays(e)') \in Nat
            /\ Cardinality(Strays(e)') <=
                    Cardinality(Strays(e)) + (IF pc[d] = "send" THEN 1 ELSE 0)
        <4>1. /\ IsFiniteSet(Strays(e) \cup {d})
              /\ Cardinality(Strays(e) \cup {d}) =
                    IF d \in Strays(e) THEN Cardinality(Strays(e)) ELSE Cardinality(Strays(e)) + 1
          BY <2>1, FS_AddElement
        <4> HIDE DEF d
        <4> QED
          BY <2>1, <2>2, <3>2, <4>1
      <3> HIDE DEF d
      <3> QED
        BY <1>1, <2>1, <2>2, <2>4, <3>1, <3>3, <3>4 DEF Budget
    <2> QED
      BY <1>2, <2>5, <2>6
  <1> QED
    BY <1>4, <1>5, <1>7, <1>8, <1>9, <1>10 DEF IInv, BudgetInv

-------------------------------------------------------------------------------
(* The theorems. *)

LEMMA InitInv == ASSUME Init PROVE IInv
  <1>1. TypeOK
    <2>1. stream \in Seq(Event) /\ Len(stream) = 0
      BY DEF Init
    <2>2. entry \in [1..Len(stream) -> {"new", "pending", "acked"}]
      BY <2>1 DEF Init
    <2> QED
      BY <2>1, <2>2, BoundsAssumption DEF Init, TypeOK, PC, BoundsAssumption
  <1>2. HandInv
    BY DEF Init, HandInv
  <1>3. HolderInv
    BY MarksAssumption DEF Init, HolderInv, MarksAssumption
  <1>4. SettledInv
    BY MarksAssumption DEF Init, SettledInv, MarksAssumption
  <1>5. BudgetInv
    <2> SUFFICES ASSUME NEW e \in Event PROVE Budget(e)
      BY DEF BudgetInv
    <2>1. Strays(e) = {}
      BY DEF Init, Strays
    <2>2. Allowed(e) \in {0, 1}
      BY DEF Allowed
    <2> QED
      BY <2>1, <2>2, FS_EmptySet DEF Init, Budget
  <1> QED
    BY <1>1, <1>2, <1>3, <1>4, <1>5 DEF IInv

LEMMA StutterInv == ASSUME IInv, UNCHANGED vars PROVE IInv'
  <1>1. TypeOK' /\ HandInv'
    BY DEF vars, IInv, TypeOK, HandInv
  <1>2. HolderInv' /\ SettledInv'
    BY DEF vars, IInv, HolderInv, SettledInv, Settled, Handled
  <1>3. \A e \in Event : Strays(e)' = Strays(e) /\ Allowed(e)' = Allowed(e)
    BY DEF vars, Strays, Allowed, Handled
  <1>4. BudgetInv'
    BY <1>3 DEF vars, IInv, BudgetInv, Budget
  <1> QED
    BY <1>1, <1>2, <1>4 DEF IInv

LEMMA StepInv == ASSUME IInv, [Next]_vars PROVE IInv'
  <1>1. ASSUME NEW e \in Event, Publish(e) \/ Expire(e) PROVE IInv'
    BY <1>1, PublishInv, ExpireInv
  <1>2. ASSUME NEW d \in Reader, NEW n \in 1..Len(stream), Receive(d, n) PROVE IInv'
    BY <1>2, ReceiveInv
  <1>3. ASSUME NEW d \in Reader, Work(d) PROVE IInv'
    BY <1>3, ClaimInv, LookInv, SendInv, FinishInv, ReleaseInv, AckInv DEF Work
  <1>4. ASSUME NEW d \in Reader, SendFails(d) \/ FinishFails(d) \/ Cancel(d) \/ Crash(d) PROVE IInv'
    BY <1>4, SendFailsInv, FinishFailsInv, CancelInv, CrashInv
  <1> QED
    BY <1>1, <1>2, <1>3, <1>4, StutterInv DEF Next

LEMMA Inductive == Spec => []IInv
  BY InitInv, StepInv, PTL DEF Spec

\* Every state of the relay has the types the module declares.
THEOREM RelayTypeCorrect == Spec => []TypeOK
  <1>1. IInv => TypeOK
    BY DEF IInv
  <1> QED
    BY <1>1, Inductive, PTL

\* For any events, readers, entries and faults, a user gets a message once, plus once
\* for each fault that touched its event.
THEOREM MessageSentOnceHolds == Spec => []MessageSentOnce
  <1>1. ASSUME IInv PROVE MessageSentOnce
    <2> SUFFICES ASSUME NEW e \in Event PROVE sends[e] <= 1 + faults[e]
      BY DEF MessageSentOnce
    <2>1. /\ IsFiniteSet(Strays(e)) /\ sends[e] + Cardinality(Strays(e)) + Allowed(e) <= 1 + faults[e]
          /\ sends[e] \in Nat /\ faults[e] \in Nat /\ Allowed(e) \in {0, 1}
      BY <1>1, CountsFact DEF IInv, BudgetInv, Budget
    <2>2. Cardinality(Strays(e)) \in Nat
      BY <2>1, FS_CardinalityType
    <2> QED
      BY <2>1, <2>2
  <1> QED
    BY <1>1, Inductive, PTL

\* For any instance, an acknowledged entry was sent, refused for good, or invalid.
THEOREM AckedIsSettledHolds == Spec => []AckedIsSettled
  <1>1. IInv => AckedIsSettled
    BY DEF IInv, SettledInv, Settled, AckedIsSettled
  <1> QED
    BY <1>1, Inductive, PTL

-------------------------------------------------------------------------------
(* The handlers of updates: what their invariant says. *)

\* The handlers count with the operator of this module.
LEMMA SameCardinality == \A S : Actions!Cardinality(S) = Cardinality(S)
  BY DEF Actions!Cardinality, Cardinality

\* An update that took a selection and may still act on it.
Taker(u) == step[u] \in {"configure", "call", "effect"} /\ token[u] # Actions!NoToken

\* A running update has a place, and a token only when it is a press.
RunningInv ==
    \A u \in Update : step[u] \notin {"new", "over"} =>
        /\ place[u] \in Actions!Place
        /\ kind[u] # "press" => token[u] = Actions!NoToken

\* Tokens are given out in order.
TokensInv == \E n \in Nat : DOMAIN offered = 1..n

\* What was taken is not in memory, was offered to its taker, and did not act yet.
TakerInv ==
    \A u \in Update : Taker(u) =>
        /\ token[u] \in DOMAIN offered \ pending
        /\ offered[token[u]].owner = place[u]
        /\ \A e \in effects : e.token # token[u]

TakersDiffer == \A u, v \in Update : Taker(u) /\ Taker(v) /\ token[u] = token[v] => u = v

\* An update that acted does not act again, and its selection is gone.
ActedInv ==
    \A e \in effects :
        /\ step[e.update] \in {"reply", "over"}
        /\ e.token # Actions!NoToken => e.token \in DOMAIN offered \ pending

ActionsInv ==
    /\ Actions!TypeOK
    /\ RunningInv
    /\ TokensInv
    /\ TakerInv
    /\ TakersDiffer
    /\ ActedInv
    /\ Actions!SelectionActsOnce
    /\ Actions!UpdateActsOnce

-------------------------------------------------------------------------------
(* Steps that add no effect and offer nothing. *)

\* Nothing moves but the clock, the access of users and the count of faults.
LEMMA WorldInv ==
  ASSUME ActionsInv, Actions!TypeOK', UNCHANGED <<Actions!memory, step, Actions!job, token, try, effects>>
  PROVE  ActionsInv'
  <1>1. UNCHANGED <<pending, offered, step, kind, place, token, effects>>
    BY DEF Actions!memory, Actions!job
  <1>2. RunningInv' /\ TokensInv' /\ TakerInv' /\ TakersDiffer'
    BY <1>1 DEF ActionsInv, RunningInv, TokensInv, TakerInv, TakersDiffer, Taker
  <1>3. ActedInv' /\ Actions!SelectionActsOnce' /\ Actions!UpdateActsOnce'
    BY <1>1 DEF ActionsInv, ActedInv, Actions!SelectionActsOnce, Actions!UpdateActsOnce
  <1> QED
    BY <1>2, <1>3 DEF ActionsInv

\* A step of one update: it may take a selection of its own place, and stops being a
\* taker only for good.
LEMMA QuietInv ==
  ASSUME ActionsInv, Actions!TypeOK', NEW u \in Update, UNCHANGED <<offered, effects>>, pending' \subseteq pending,
         \A v \in Update : v # u => /\ step'[v] = step[v] /\ kind'[v] = kind[v]
                                    /\ place'[v] = place[v] /\ token'[v] = token[v],
         step'[u] \notin {"new", "over"} => place'[u] \in Actions!Place /\ (kind'[u] # "press" => token'[u] = Actions!NoToken),
         step[u] \in {"reply", "over"} => step'[u] \in {"reply", "over"},
         Taker(u)' => /\ token'[u] = token[u] /\ place'[u] = place[u]
                      /\ \/ Taker(u)
                         \/ token[u] \in pending \ pending' /\ offered[token[u]].owner = place[u]
  PROVE  ActionsInv'
  <1>1. RunningInv'
    BY DEF ActionsInv, RunningInv
  <1>2. TokensInv'
    BY DEF ActionsInv, TokensInv
  <1>3. pending \subseteq DOMAIN offered /\ Actions!NoToken \notin pending
    BY DEF ActionsInv, Actions!TypeOK, Actions!Token, Actions!NoToken
  <1>4. \A v \in Update : v # u => (Taker(v)' <=> Taker(v))
    BY DEF Taker
  <1>5. TakerInv'
    <2> SUFFICES ASSUME NEW v \in Update, Taker(v)'
                 PROVE  /\ token'[v] \in DOMAIN offered \ pending'
                        /\ offered[token'[v]].owner = place'[v]
                        /\ \A e \in effects : e.token # token'[v]
      BY DEF TakerInv
    <2>1. token'[v] = token[v] /\ place'[v] = place[v]
      OBVIOUS
    <2>2. CASE Taker(v)
      BY <2>1, <2>2 DEF ActionsInv, TakerInv
    <2>3. CASE ~Taker(v)
      <3>1. v = u /\ token[u] \in pending \ pending' /\ offered[token[u]].owner = place[u]
        BY <1>4, <2>3
      <3>2. \A e \in effects : e.token # token[u]
        BY <1>3, <3>1 DEF ActionsInv, ActedInv
      <3> QED
        BY <1>3, <2>1, <3>1, <3>2
    <2> QED
      BY <2>2, <2>3
  <1>6. TakersDiffer'
    <2> SUFFICES ASSUME NEW v \in Update, NEW w \in Update, Taker(v)', Taker(w)', token'[v] = token'[w], v # w
                 PROVE  FALSE
      BY DEF TakersDiffer
    <2>1. token[v] = token[w]
      OBVIOUS
    <2>2. CASE Taker(v) /\ Taker(w)
      BY <2>1, <2>2 DEF ActionsInv, TakersDiffer
    <2>3. CASE ~Taker(v)
      <3>1. v = u /\ token[v] \in pending /\ Taker(w)
        BY <1>4, <2>3
      <3> QED
        BY <2>1, <3>1 DEF ActionsInv, TakerInv
    <2>4. CASE ~Taker(w)
      <3>1. w = u /\ token[w] \in pending /\ Taker(v)
        BY <1>4, <2>4
      <3> QED
        BY <2>1, <3>1 DEF ActionsInv, TakerInv
    <2> QED
      BY <2>2, <2>3, <2>4
  <1>7. ActedInv'
    <2> SUFFICES ASSUME NEW e \in effects
                 PROVE  /\ step'[e.update] \in {"reply", "over"}
                        /\ e.token # Actions!NoToken => e.token \in DOMAIN offered \ pending'
      BY DEF ActedInv
    <2>1. e.update \in Update
      BY DEF ActionsInv, Actions!TypeOK
    <2>2. /\ step[e.update] \in {"reply", "over"}
          /\ e.token # Actions!NoToken => e.token \in DOMAIN offered \ pending
      BY DEF ActionsInv, ActedInv
    <2>3. step'[e.update] \in {"reply", "over"}
      BY <2>1, <2>2
    <2> QED
      BY <2>2, <2>3
  <1>8. Actions!SelectionActsOnce' /\ Actions!UpdateActsOnce'
    BY DEF ActionsInv, Actions!SelectionActsOnce, Actions!UpdateActsOnce
  <1> QED
    BY <1>1, <1>2, <1>5, <1>6, <1>7, <1>8 DEF ActionsInv

-------------------------------------------------------------------------------
(* The types. *)

Label == {"new", "admit", "handle", "configure", "call", "effect", "offer", "reply", "over"}
Kind == {"none", "list", "create", "press"}

\* The part of the types an update can disturb.
UpdateTypes ==
    /\ step \in [Update -> Label]
    /\ kind \in [Update -> Kind]
    /\ place \in [Update -> Actions!Place \cup {None}]
    /\ token \in [Update -> Actions!Token \cup {Actions!NoToken}]
    /\ try \in [Update -> 1..MaxRetries]

LEMMA UpdateTypesFact == ASSUME Actions!TypeOK PROVE UpdateTypes
  BY DEF Actions!TypeOK, UpdateTypes, Label, Kind

LEMMA TypesKept ==
  ASSUME Actions!TypeOK, UpdateTypes', UNCHANGED <<now, active, offered, forgotten, effects>>,
         pending' \subseteq pending, mishaps' \in 0..MaxFaults
  PROVE  Actions!TypeOK'
  BY DEF Actions!TypeOK, UpdateTypes, Label, Kind

LEMMA FaultFact == ASSUME Actions!TypeOK, Actions!Fault PROVE mishaps' \in 0..MaxFaults
  BY ActionsAssumption DEF Actions!TypeOK, Actions!Fault, Actions!BotAssumption

\* One try is always a number of tries.
LEMMA OneTry == 1 \in 1..MaxRetries /\ MaxRetries \in Nat
  BY ActionsAssumption DEF Actions!BotAssumption

\* An update that is done with: it is over, and the others are where they were.
LEMMA FinishFacts ==
  ASSUME Actions!TypeOK, NEW u \in Update, Actions!Finish(u), token' \in [Update -> Actions!Token \cup {Actions!NoToken}]
  PROVE  /\ UpdateTypes' /\ step'[u] = "over"
         /\ \A v \in Update : v # u => step'[v] = step[v] /\ kind'[v] = kind[v] /\ place'[v] = place[v]
  <1>1. UpdateTypes
    BY UpdateTypesFact
  <1>2. step' \in [Update -> Label] /\ step'[u] = "over" /\ \A v \in Update : v # u => step'[v] = step[v]
    BY <1>1 DEF Actions!Finish, Actions!Goto, UpdateTypes, Label
  <1>3. kind' \in [Update -> Kind] /\ \A v \in Update : v # u => kind'[v] = kind[v]
    BY <1>1 DEF Actions!Finish, UpdateTypes, Kind
  <1>4. place' \in [Update -> Actions!Place \cup {None}] /\ \A v \in Update : v # u => place'[v] = place[v]
    BY <1>1 DEF Actions!Finish, UpdateTypes
  <1>5. try' \in [Update -> 1..MaxRetries]
    BY <1>1, OneTry DEF Actions!Finish, UpdateTypes
  <1> QED
    BY <1>2, <1>3, <1>4, <1>5 DEF UpdateTypes

\* An update that goes on to another step.
LEMMA GotoFacts ==
  ASSUME Actions!TypeOK, NEW u \in Update, NEW label \in Label, Actions!Goto(u, label)
  PROVE  step' \in [Update -> Label] /\ step'[u] = label /\ \A v \in Update : v # u => step'[v] = step[v]
  BY UpdateTypesFact DEF Actions!Goto, UpdateTypes

-------------------------------------------------------------------------------
(* The quiet steps. *)

\* An update that ends without having acted, by whatever step.
LEMMA EndInv ==
  ASSUME ActionsInv, NEW u \in Update, Actions!Finish(u), UNCHANGED <<now, active, Actions!memory, effects>>,
         token' \in {token, [token EXCEPT ![u] = Actions!NoToken]},
         mishaps' \in 0..MaxFaults
  PROVE  ActionsInv'
  <1>1. token' \in [Update -> Actions!Token \cup {Actions!NoToken}] /\ \A v \in Update : v # u => token'[v] = token[v]
    BY DEF ActionsInv, Actions!TypeOK
  <1>2. /\ UpdateTypes' /\ step'[u] = "over"
        /\ \A v \in Update : v # u => step'[v] = step[v] /\ kind'[v] = kind[v] /\ place'[v] = place[v]
    BY <1>1, FinishFacts DEF ActionsInv
  <1>3. UNCHANGED <<pending, offered, forgotten>>
    BY DEF Actions!memory
  <1>4. Actions!TypeOK'
    BY <1>2, <1>3, TypesKept DEF ActionsInv
  <1>5. ~Taker(u)'
    BY <1>2 DEF Taker
  <1> QED
    BY <1>1, <1>2, <1>3, <1>4, <1>5, QuietInv

\* An update that goes on: a taker from a step of a taker only, and not from a press
\* that has still to choose.
LEMMA GoOnInv ==
  ASSUME ActionsInv, NEW u \in Update, NEW label \in Label, Actions!Goto(u, label),
         step[u] \notin {"new", "over"}, UNCHANGED <<now, active, Actions!memory, Actions!job, token, effects>>,
         try' \in [Update -> 1..MaxRetries], mishaps' \in 0..MaxFaults,
         step[u] = "reply" => label \in {"reply", "over"},
         label \in {"configure", "call", "effect"} =>
            step[u] \in {"configure", "call", "effect"} \/ kind[u] # "press"
  PROVE  ActionsInv'
  <1>1. step' \in [Update -> Label] /\ step'[u] = label /\ \A v \in Update : v # u => step'[v] = step[v]
    BY GotoFacts DEF ActionsInv
  <1>2. UNCHANGED <<pending, offered, forgotten, kind, place>>
    BY DEF Actions!memory, Actions!job
  <1>3. UpdateTypes'
    BY <1>1, <1>2, UpdateTypesFact DEF ActionsInv, UpdateTypes
  <1>4. Actions!TypeOK'
    BY <1>2, <1>3, TypesKept DEF ActionsInv
  <1>5. place[u] \in Actions!Place /\ (kind[u] # "press" => token[u] = Actions!NoToken)
    BY DEF ActionsInv, RunningInv
  <1>6. Taker(u)' => Taker(u)
    BY <1>1, <1>5 DEF Taker
  <1> QED
    BY <1>1, <1>2, <1>4, <1>5, <1>6, QuietInv

LEMMA PassInv == ASSUME ActionsInv, Actions!Pass PROVE ActionsInv'
  <1>1. Actions!TypeOK'
    BY ActionsAssumption DEF ActionsInv, Actions!TypeOK, Actions!Pass, Actions!memory, Actions!job,
       Actions!BotAssumption
  <1> QED
    BY <1>1, WorldInv DEF Actions!Pass

LEMMA ChangeAccessInv == ASSUME ActionsInv, NEW user \in User, Actions!ChangeAccess(user) PROVE ActionsInv'
  <1>1. mishaps' \in 0..MaxFaults /\ active' \subseteq User
    BY FaultFact DEF ActionsInv, Actions!TypeOK, Actions!ChangeAccess
  <1>2. UNCHANGED <<now, pending, offered, forgotten, step, kind, place, token, try, effects>>
    BY DEF Actions!ChangeAccess, Actions!memory, Actions!job
  <1>3. Actions!TypeOK'
    BY <1>1, <1>2 DEF ActionsInv, Actions!TypeOK
  <1> QED
    BY <1>3, WorldInv DEF Actions!ChangeAccess

LEMMA ArriveInv ==
  ASSUME ActionsInv, NEW u \in Update, NEW k \in {"list", "create", "press"}, NEW p \in Actions!Place,
         NEW t \in Actions!Token \cup {Actions!NoToken}, Actions!Arrive(u, k, p, t)
  PROVE  ActionsInv'
  <1>1. /\ step[u] = "new" /\ UNCHANGED <<now, active, pending, offered, forgotten, try, effects, mishaps>>
        /\ kind' = [kind EXCEPT ![u] = k] /\ place' = [place EXCEPT ![u] = p]
        /\ token' = [token EXCEPT ![u] = t] /\ Actions!Goto(u, "admit")
        /\ k # "press" => t = Actions!NoToken
    BY DEF Actions!Arrive, Actions!memory
  <1>2. step' \in [Update -> Label] /\ step'[u] = "admit" /\ \A v \in Update : v # u => step'[v] = step[v]
    BY <1>1, GotoFacts DEF ActionsInv, Label
  <1>3. /\ kind' \in [Update -> Kind] /\ kind'[u] = k /\ \A v \in Update : v # u => kind'[v] = kind[v]
    BY <1>1 DEF ActionsInv, Actions!TypeOK, Kind
  <1>4. place' \in [Update -> Actions!Place \cup {None}] /\ place'[u] = p /\ \A v \in Update : v # u => place'[v] = place[v]
    BY <1>1 DEF ActionsInv, Actions!TypeOK
  <1>5. token' \in [Update -> Actions!Token \cup {Actions!NoToken}] /\ token'[u] = t /\ \A v \in Update : v # u => token'[v] = token[v]
    BY <1>1 DEF ActionsInv, Actions!TypeOK
  <1>6. Actions!TypeOK'
    <2>1. UpdateTypes'
      BY <1>1, <1>2, <1>3, <1>4, <1>5, UpdateTypesFact DEF ActionsInv, UpdateTypes
    <2>2. mishaps' \in 0..MaxFaults
      BY <1>1 DEF ActionsInv, Actions!TypeOK
    <2> QED
      BY <1>1, <2>1, <2>2, TypesKept DEF ActionsInv
  <1>7. ~Taker(u)'
    BY <1>2 DEF Taker
  <1> QED
    BY <1>1, <1>2, <1>3, <1>4, <1>5, <1>6, <1>7, QuietInv

LEMMA AdmitInv == ASSUME ActionsInv, NEW u \in Update, Actions!Admit(u) PROVE ActionsInv'
  <1>1. step[u] = "admit" /\ UNCHANGED <<now, active, Actions!memory, effects>>
    BY DEF Actions!Admit
  <1>2. CASE Actions!Goto(u, "handle") /\ UNCHANGED <<Actions!job, token, try, mishaps>>
    BY <1>1, <1>2, GoOnInv DEF ActionsInv, Actions!TypeOK, Label
  <1>3. CASE Actions!Finish(u) /\ token' = [token EXCEPT ![u] = Actions!NoToken] /\ (UNCHANGED mishaps \/ Actions!Fault)
    <2>1. mishaps' \in 0..MaxFaults
      BY <1>3, FaultFact DEF ActionsInv, Actions!TypeOK
    <2> QED
      BY <1>1, <1>3, <2>1, EndInv
  <1> QED
    BY <1>2, <1>3 DEF Actions!Admit

LEMMA ChooseInv == ASSUME ActionsInv, NEW u \in Update, Actions!Choose(u) PROVE ActionsInv'
  <1>1. step[u] = "handle" /\ kind[u] = "press" /\ UNCHANGED <<now, active, offered, forgotten, effects, mishaps>>
    BY DEF Actions!Choose
  <1>2. CASE /\ token[u] \in pending /\ Actions!Owns(u, token[u]) /\ pending' = pending \ {token[u]}
             /\ Actions!Goto(u, "configure") /\ UNCHANGED <<Actions!job, token, try>>
    <2>1. step' \in [Update -> Label] /\ step'[u] = "configure" /\ \A v \in Update : v # u => step'[v] = step[v]
      BY <1>2, GotoFacts DEF ActionsInv, Label
    <2>2. UNCHANGED <<kind, place, token, try>>
      BY <1>2 DEF Actions!job
    <2>3. Actions!TypeOK'
      <3>1. UpdateTypes'
        BY <2>1, <2>2, UpdateTypesFact DEF ActionsInv, UpdateTypes
      <3>2. mishaps' \in 0..MaxFaults /\ pending' \subseteq pending
        BY <1>1, <1>2 DEF ActionsInv, Actions!TypeOK
      <3> QED
        BY <1>1, <3>1, <3>2, TypesKept DEF ActionsInv
    <2>4. token[u] \in pending \ pending' /\ offered[token[u]].owner = place[u]
      BY <1>2 DEF Actions!Owns
    <2>5. place[u] \in Actions!Place
      BY <1>1 DEF ActionsInv, RunningInv
    <2> QED
      BY <1>1, <1>2, <2>1, <2>2, <2>3, <2>4, <2>5, QuietInv
  <1>3. CASE Actions!Finish(u) /\ token' = [token EXCEPT ![u] = Actions!NoToken] /\ UNCHANGED pending
    <2>1. UNCHANGED Actions!memory /\ mishaps' \in 0..MaxFaults
      BY <1>1, <1>3 DEF Actions!memory, ActionsInv, Actions!TypeOK
    <2> QED
      BY <1>1, <1>3, <2>1, EndInv
  <1> QED
    BY <1>2, <1>3 DEF Actions!Choose

LEMMA ReadInv == ASSUME ActionsInv, NEW u \in Update, Actions!Read(u) PROVE ActionsInv'
  <1>1. /\ step[u] = "handle" /\ kind[u] # "press" /\ Actions!Goto(u, "configure")
        /\ UNCHANGED <<now, active, Actions!memory, Actions!job, token, try, effects, mishaps>>
    BY DEF Actions!Read
  <1>2. try' \in [Update -> 1..MaxRetries] /\ mishaps' \in 0..MaxFaults
    BY <1>1 DEF ActionsInv, Actions!TypeOK
  <1> QED
    BY <1>1, <1>2, GoOnInv DEF Label

LEMMA ConfigureInv == ASSUME ActionsInv, NEW u \in Update, Actions!Configure(u) PROVE ActionsInv'
  <1>1. /\ step[u] = "configure" /\ UNCHANGED <<now, active, Actions!memory, Actions!job, token, try, effects>>
        /\ UNCHANGED mishaps \/ Actions!Fault
        /\ \E label \in {"call", "offer", "reply"} : Actions!Goto(u, label)
    BY DEF Actions!Configure
  <1>2. try' \in [Update -> 1..MaxRetries] /\ mishaps' \in 0..MaxFaults
    BY <1>1, FaultFact DEF ActionsInv, Actions!TypeOK
  <1> QED
    BY <1>1, <1>2, GoOnInv DEF Label

\* A retry comes back to the call, or the update is left with its answer; a mutation has
\* no second try.
LEMMA RetryFacts ==
  ASSUME Actions!TypeOK, NEW u \in Update, Actions!Retry(u)
  PROVE  /\ try' \in [Update -> 1..MaxRetries]
         /\ Actions!Goto(u, "reply") \/ (Actions!Goto(u, "call") /\ kind[u] = "list")
  <1>1. try[u] \in 1..MaxRetries /\ try \in [Update -> 1..MaxRetries] /\ MaxRetries \in Nat
    BY OneTry DEF Actions!TypeOK
  <1>2. Actions!Tries(u) \in {1, MaxRetries} /\ (kind[u] # "list" => Actions!Tries(u) = 1)
    BY DEF Actions!Tries
  <1>3. CASE try[u] < Actions!Tries(u) /\ try' = [try EXCEPT ![u] = @ + 1] /\ Actions!Goto(u, "call")
    <2>1. try[u] + 1 \in 1..MaxRetries /\ kind[u] = "list"
      BY <1>1, <1>2, <1>3
    <2> QED
      BY <1>1, <1>3, <2>1
  <1>4. CASE Actions!Goto(u, "reply") /\ UNCHANGED try
    BY <1>1, <1>4
  <1> QED
    BY <1>3, <1>4 DEF Actions!Retry

LEMMA CallerIdentityInv == ASSUME ActionsInv, NEW u \in Update, Actions!CallerIdentity(u) PROVE ActionsInv'
  <1>1. /\ step[u] = "call" /\ UNCHANGED <<now, active, Actions!memory, Actions!job, token, effects>>
        /\ UNCHANGED mishaps \/ Actions!Fault
        /\ \/ UNCHANGED try /\ \E label \in {"effect", "reply"} : Actions!Goto(u, label)
           \/ Actions!Retry(u)
    BY DEF Actions!CallerIdentity
  <1>2. try' \in [Update -> 1..MaxRetries] /\ \E label \in {"effect", "reply", "call"} : Actions!Goto(u, label)
    BY <1>1, RetryFacts DEF ActionsInv, Actions!TypeOK
  <1>3. mishaps' \in 0..MaxFaults
    BY <1>1, FaultFact DEF ActionsInv, Actions!TypeOK
  <1> QED
    BY <1>1, <1>2, <1>3, GoOnInv DEF Label

LEMMA OfferNothingInv == ASSUME ActionsInv, NEW u \in Update, Actions!OfferNothing(u) PROVE ActionsInv'
  <1>1. /\ step[u] = "offer" /\ Actions!Goto(u, "reply")
        /\ UNCHANGED <<now, active, Actions!memory, Actions!job, token, try, effects, mishaps>>
    BY DEF Actions!OfferNothing
  <1>2. try' \in [Update -> 1..MaxRetries] /\ mishaps' \in 0..MaxFaults
    BY <1>1 DEF ActionsInv, Actions!TypeOK
  <1> QED
    BY <1>1, <1>2, GoOnInv DEF Label

LEMMA ReplyInv == ASSUME ActionsInv, NEW u \in Update, Actions!Reply(u) PROVE ActionsInv'
  <1>1. mishaps' \in 0..MaxFaults
    BY DEF Actions!Reply, ActionsInv, Actions!TypeOK
  <1> QED
    BY <1>1, EndInv DEF Actions!Reply

LEMMA RaiseInv == ASSUME ActionsInv, NEW u \in Update, Actions!Raise(u) PROVE ActionsInv'
  <1>1. mishaps' \in 0..MaxFaults
    BY FaultFact DEF Actions!Raise, ActionsInv
  <1> QED
    BY <1>1, EndInv DEF Actions!Raise

-------------------------------------------------------------------------------
(* The steps that act. *)

LEMMA EffectType ==
  ASSUME ActionsInv, NEW u \in Update, step[u] \in {"call", "effect"}
  PROVE  Actions!Effect(u) \in [update : Update, try : 1..MaxRetries, token : Actions!Token \cup {Actions!NoToken}, place : Actions!Place]
  <1>1. try[u] \in 1..MaxRetries /\ token[u] \in Actions!Token \cup {Actions!NoToken}
    BY DEF ActionsInv, Actions!TypeOK
  <1>2. place[u] \in Actions!Place
    BY DEF ActionsInv, RunningInv
  <1> QED
    BY <1>1, <1>2 DEF Actions!Effect

\* Some requests take effect, and their updates ask for nothing more.
LEMMA ActorsInv ==
  ASSUME ActionsInv, Actions!TypeOK', RunningInv', UNCHANGED <<offered, token>>, pending' \subseteq pending,
         NEW S \in SUBSET Update, \A u \in S : step[u] \in {"call", "effect"},
         effects' = effects \cup {Actions!Effect(u) : u \in S},
         \A u \in S : step'[u] \in {"reply", "over"},
         \A v \in Update : step[v] \in {"reply", "over"} => step'[v] \in {"reply", "over"},
         \A v \in Update : Taker(v)' => Taker(v) /\ place'[v] = place[v]
  PROVE  ActionsInv'
  <1>1. \A u \in S : /\ Actions!Effect(u).update = u /\ Actions!Effect(u).token = token[u] /\ Actions!Effect(u).place = place[u]
                     /\ token[u] # Actions!NoToken => Taker(u)
    BY DEF Actions!Effect, Taker
  <1>2. TokensInv'
    BY DEF ActionsInv, TokensInv
  <1>3. TakerInv'
    <2> SUFFICES ASSUME NEW v \in Update, Taker(v)'
                 PROVE  /\ token[v] \in DOMAIN offered \ pending'
                        /\ offered[token[v]].owner = place'[v]
                        /\ \A e \in effects' : e.token # token[v]
      BY DEF TakerInv
    <2>1. Taker(v) /\ place'[v] = place[v] /\ v \notin S
      BY DEF Taker
    <2>2. token[v] \in DOMAIN offered \ pending' /\ offered[token[v]].owner = place'[v]
      BY <2>1 DEF ActionsInv, TakerInv
    <2>3. \A e \in effects : e.token # token[v]
      BY <2>1 DEF ActionsInv, TakerInv
    <2>4. \A w \in S : Actions!Effect(w).token # token[v]
      <3> SUFFICES ASSUME NEW w \in S, token[w] = token[v] PROVE FALSE
        BY <1>1
      <3>1. Taker(w)
        BY <1>1, <2>1 DEF Taker
      <3> QED
        BY <2>1, <3>1 DEF ActionsInv, TakersDiffer
    <2> QED
      BY <2>2, <2>3, <2>4
  <1>4. TakersDiffer'
    BY DEF ActionsInv, TakersDiffer
  <1>5. ActedInv'
    <2>1. \A e \in effects : /\ step'[e.update] \in {"reply", "over"}
                             /\ e.token # Actions!NoToken => e.token \in DOMAIN offered \ pending'
      <3> TAKE e \in effects
      <3>1. e.update \in Update
        BY DEF ActionsInv, Actions!TypeOK
      <3>2. step[e.update] \in {"reply", "over"} /\ (e.token # Actions!NoToken => e.token \in DOMAIN offered \ pending)
        BY DEF ActionsInv, ActedInv
      <3> QED
        BY <3>1, <3>2
    <2>2. \A u \in S : token[u] # Actions!NoToken => token[u] \in DOMAIN offered \ pending
      BY <1>1 DEF ActionsInv, TakerInv
    <2> QED
      BY <1>1, <2>1, <2>2 DEF ActedInv
  <1>6. \A u \in S : \A e \in effects : e.update # u /\ (token[u] # Actions!NoToken => e.token # token[u])
    <2> TAKE u \in S
    <2> TAKE e \in effects
    <2>1. e.update # u
      BY DEF ActionsInv, ActedInv
    <2>2. token[u] # Actions!NoToken => e.token # token[u]
      BY <1>1 DEF ActionsInv, TakerInv
    <2> QED
      BY <2>1, <2>2
  <1>7. \A u, w \in S : token[u] = token[w] /\ token[u] # Actions!NoToken => u = w
    BY <1>1 DEF ActionsInv, TakersDiffer
  <1>8. Actions!SelectionActsOnce'
    <2> SUFFICES ASSUME NEW e \in effects', NEW f \in effects'
                 PROVE  /\ e.token = f.token /\ e.token # Actions!NoToken => e = f
                        /\ e.token # Actions!NoToken => offered[e.token].owner = e.place
      BY DEF Actions!SelectionActsOnce
    <2>1. e.token = f.token /\ e.token # Actions!NoToken => e = f
      <3>1. CASE e \in effects /\ f \in effects
        BY <3>1 DEF ActionsInv, Actions!SelectionActsOnce
      <3>2. CASE e \in effects /\ f \notin effects
        BY <1>1, <1>6, <3>2
      <3>3. CASE e \notin effects /\ f \in effects
        BY <1>1, <1>6, <3>3
      <3>4. CASE e \notin effects /\ f \notin effects
        BY <1>1, <1>7, <3>4
      <3> QED
        BY <3>1, <3>2, <3>3, <3>4
    <2>2. e.token # Actions!NoToken => offered[e.token].owner = e.place
      <3>1. CASE e \in effects
        BY <3>1 DEF ActionsInv, Actions!SelectionActsOnce
      <3>2. \A u \in S : token[u] # Actions!NoToken => offered[token[u]].owner = place[u]
        BY <1>1 DEF ActionsInv, TakerInv
      <3> QED
        BY <1>1, <3>1, <3>2
    <2> QED
      BY <2>1, <2>2
  <1>9. Actions!UpdateActsOnce'
    <2> SUFFICES ASSUME NEW e \in effects', NEW f \in effects', e.update = f.update
                 PROVE  e = f
      BY DEF Actions!UpdateActsOnce
    <2>1. CASE e \in effects /\ f \in effects
      BY <2>1 DEF ActionsInv, Actions!UpdateActsOnce
    <2>2. CASE ~(e \in effects /\ f \in effects)
      BY <1>1, <1>6, <2>2
    <2> QED
      BY <2>1, <2>2
  <1> QED
    BY <1>2, <1>3, <1>4, <1>5, <1>8, <1>9 DEF ActionsInv

LEMMA ActInv == ASSUME ActionsInv, NEW u \in Update, Actions!Act(u) PROVE ActionsInv'
  <1>1. /\ step[u] = "effect" /\ UNCHANGED <<now, active, Actions!memory, Actions!job, token>>
        /\ UNCHANGED mishaps \/ Actions!Fault
        /\ \/ UNCHANGED effects
           \/ effects' = effects \cup {Actions!Effect(u)} /\ kind[u] # "list"
        /\ \/ UNCHANGED try /\ \E label \in {"reply", "offer"} :
                                 Actions!Goto(u, label) /\ (label = "offer" => kind[u] = "list")
           \/ Actions!Retry(u)
    BY DEF Actions!Act, Actions!Mutates
  <1>2. mishaps' \in 0..MaxFaults
    BY <1>1, FaultFact DEF ActionsInv, Actions!TypeOK
  <1>3. /\ try' \in [Update -> 1..MaxRetries]
        /\ \E label \in {"reply", "offer", "call"} :
              Actions!Goto(u, label) /\ (label # "reply" => kind[u] = "list")
    BY <1>1, RetryFacts DEF ActionsInv, Actions!TypeOK
  <1>4. CASE UNCHANGED effects
    BY <1>1, <1>2, <1>3, <1>4, GoOnInv DEF Label
  <1>5. CASE effects' = effects \cup {Actions!Effect(u)} /\ kind[u] # "list"
    <2>1. Actions!Goto(u, "reply")
      BY <1>3, <1>5
    <2>2. step' \in [Update -> Label] /\ step'[u] = "reply" /\ \A v \in Update : v # u => step'[v] = step[v]
      BY <2>1, GotoFacts DEF ActionsInv, Label
    <2>3. UNCHANGED <<now, active, pending, offered, forgotten, kind, place, token>>
      BY <1>1 DEF Actions!memory, Actions!job
    <2>4. UpdateTypes'
      BY <1>3, <2>2, <2>3, UpdateTypesFact DEF ActionsInv, UpdateTypes
    <2>5. Actions!Effect(u) \in [update : Update, try : 1..MaxRetries, token : Actions!Token \cup {Actions!NoToken}, place : Actions!Place]
      BY <1>1, EffectType
    <2>6. effects' \subseteq [update : Update, try : 1..MaxRetries, token : Actions!Token \cup {Actions!NoToken}, place : Actions!Place]
      BY <1>5, <2>5 DEF ActionsInv, Actions!TypeOK
    <2>7. Actions!TypeOK'
      BY <1>2, <2>3, <2>4, <2>6 DEF ActionsInv, Actions!TypeOK, UpdateTypes, Label, Kind
    <2>8. RunningInv'
      BY <1>1, <2>2, <2>3 DEF ActionsInv, RunningInv
    <2>9. \A v \in Update : Taker(v)' => Taker(v) /\ place'[v] = place[v]
      BY <2>2, <2>3 DEF Taker
    <2>10. effects' = effects \cup {Actions!Effect(v) : v \in {u}}
      BY <1>5
    <2>11. \A v \in Update : step[v] \in {"reply", "over"} => step'[v] \in {"reply", "over"}
      BY <2>2
    <2>12. /\ {u} \in SUBSET Update /\ \A v \in {u} : step[v] \in {"call", "effect"}
           /\ \A v \in {u} : step'[v] \in {"reply", "over"}
           /\ UNCHANGED <<offered, token>> /\ pending' \subseteq pending
      BY <1>1, <2>2, <2>3
    <2> HIDE DEF Taker, RunningInv
    <2> QED
      BY <2>7, <2>8, <2>9, <2>10, <2>11, <2>12, ActorsInv
  <1> QED
    BY <1>1, <1>4, <1>5

LEMMA RestartInv == ASSUME ActionsInv, Actions!Restart PROVE ActionsInv'
  <1>1. /\ Actions!Fault /\ pending' = {} /\ forgotten' = forgotten \cup pending
        /\ step' = [u \in Update |-> IF step[u] = "new" THEN "new" ELSE "over"]
        /\ kind' = [u \in Update |-> "none"] /\ place' = [u \in Update |-> None]
        /\ try' = [u \in Update |-> 1]
        /\ UNCHANGED <<now, active, offered, token>>
    BY DEF Actions!Restart
  <1>2. PICK S \in SUBSET {u \in Update : Actions!InFlight(u)} : effects' = effects \cup {Actions!Effect(u) : u \in S}
    BY DEF Actions!Restart
  <1>3. S \in SUBSET Update /\ \A u \in S : step[u] \in {"call", "effect"}
    BY DEF Actions!InFlight
  <1>4. Actions!TypeOK'
    <2>1. mishaps' \in 0..MaxFaults
      BY <1>1, FaultFact DEF ActionsInv
    <2>2. step' \in [Update -> Label] /\ kind' \in [Update -> Kind] /\ place' \in [Update -> Actions!Place \cup {None}]
      BY <1>1, UpdateTypesFact DEF ActionsInv, UpdateTypes, Label, Kind
    <2>3. try' \in [Update -> 1..MaxRetries]
      BY <1>1, OneTry
    <2>4. \A u \in S : Actions!Effect(u) \in [update : Update, try : 1..MaxRetries, token : Actions!Token \cup {Actions!NoToken}, place : Actions!Place]
      BY <1>3, EffectType
    <2>5. effects' \subseteq [update : Update, try : 1..MaxRetries, token : Actions!Token \cup {Actions!NoToken}, place : Actions!Place]
      BY <1>2, <2>4 DEF ActionsInv, Actions!TypeOK
    <2>6. pending' \subseteq DOMAIN offered /\ forgotten' \subseteq DOMAIN offered
      BY <1>1 DEF ActionsInv, Actions!TypeOK
    <2> QED
      BY <1>1, <2>1, <2>2, <2>3, <2>5, <2>6 DEF ActionsInv, Actions!TypeOK, Label, Kind
  <1>5. \A v \in Update : step'[v] \in {"new", "over"} /\ (step[v] # "new" => step'[v] = "over")
    BY <1>1
  <1>6. RunningInv'
    BY <1>5 DEF RunningInv
  <1>7. \A v \in Update : ~Taker(v)'
    BY <1>5 DEF Taker
  <1>8. \A u \in S : step'[u] \in {"reply", "over"}
    BY <1>3, <1>5
  <1>9. \A v \in Update : step[v] \in {"reply", "over"} => step'[v] \in {"reply", "over"}
    BY <1>5
  <1> QED
    BY <1>1, <1>2, <1>3, <1>4, <1>6, <1>7, <1>8, <1>9, ActorsInv

-------------------------------------------------------------------------------
(* The offer. *)

LEMMA NextTokenFacts ==
  ASSUME ActionsInv
  PROVE  /\ Actions!NextToken \notin DOMAIN offered
         /\ \E n \in Nat : DOMAIN offered \cup {Actions!NextToken} = 1..n
  <1>1. PICK n \in Nat : DOMAIN offered = 1..n
    BY DEF ActionsInv, TokensInv
  <1>2. Cardinality(1..n) = n
    <2>1. Cardinality(1..n) = IF 1 > n THEN 0 ELSE n - 1 + 1
      BY FS_Interval, 1 \in Int, n \in Int
    <2> QED
      BY <2>1
  <1>3. Actions!NextToken = n + 1
    BY SameCardinality, <1>1, <1>2 DEF Actions!NextToken
  <1>4. DOMAIN offered \cup {Actions!NextToken} = 1..(n + 1)
    BY <1>1, <1>3
  <1> QED
    BY <1>1, <1>3, <1>4

LEMMA RememberInv == ASSUME ActionsInv, NEW u \in Update, Actions!Remember(u) PROVE ActionsInv'
  <1>1. PICK new : new = Actions!NextToken
    OBVIOUS
  <1>2. /\ step[u] = "offer" /\ new \in Actions!Token
        /\ pending' \subseteq pending \cup {new} /\ new \in pending'
        /\ offered' = [t \in DOMAIN offered \cup {new} |->
                         IF t = new THEN [owner |-> place[u], expires |-> now + Ttl] ELSE offered[t]]
        /\ UNCHANGED <<now, active, forgotten, token, effects, mishaps>>
        /\ UNCHANGED <<step, Actions!job, try>> \/ Actions!Finish(u)
    BY <1>1 DEF Actions!Remember, Actions!Room, Actions!Expired
  <1>3. new \notin DOMAIN offered /\ \E n \in Nat : DOMAIN offered \cup {new} = 1..n
    BY <1>1, NextTokenFacts
  <1>4. /\ DOMAIN offered' = DOMAIN offered \cup {new}
        /\ \A t \in DOMAIN offered : offered'[t] = offered[t]
        /\ offered'[new] = [owner |-> place[u], expires |-> now + Ttl]
    BY <1>2, <1>3
  <1>5. /\ UpdateTypes' /\ step'[u] \in {"offer", "over"}
        /\ \A v \in Update : v # u => step'[v] = step[v] /\ kind'[v] = kind[v] /\ place'[v] = place[v]
        /\ step'[u] = "offer" => kind'[u] = kind[u] /\ place'[u] = place[u]
    <2>1. UpdateTypes
      BY UpdateTypesFact DEF ActionsInv
    <2>2. CASE UNCHANGED <<step, Actions!job, try>>
      BY <1>2, <2>1, <2>2 DEF Actions!job, UpdateTypes
    <2>3. CASE Actions!Finish(u)
      BY <1>2, <2>1, <2>3, FinishFacts DEF ActionsInv, UpdateTypes
    <2> QED
      BY <1>2, <2>2, <2>3
  <1>6. place[u] \in Actions!Place
    BY <1>2 DEF ActionsInv, RunningInv
  <1>7. offered'[new] \in [owner : Actions!Place, expires : 0..MaxTime + Ttl]
    <2>1. now \in 0..MaxTime /\ MaxTime \in Nat /\ Ttl \in Nat
      BY ActionsAssumption DEF ActionsInv, Actions!TypeOK, Actions!BotAssumption
    <2>2. now + Ttl \in 0..MaxTime + Ttl
      BY <2>1
    <2> QED
      BY <1>4, <1>6, <2>2
  <1>8. Actions!TypeOK'
    <2>1. pending' \subseteq DOMAIN offered' /\ DOMAIN offered' \subseteq Actions!Token /\ forgotten' \subseteq DOMAIN offered'
      BY <1>2, <1>4 DEF ActionsInv, Actions!TypeOK
    <2>2. \A t \in DOMAIN offered' : offered'[t] \in [owner : Actions!Place, expires : 0..MaxTime + Ttl]
      BY <1>4, <1>7 DEF ActionsInv, Actions!TypeOK
    <2> QED
      BY <1>2, <1>5, <2>1, <2>2 DEF ActionsInv, Actions!TypeOK, UpdateTypes, Label, Kind
  <1>9. RunningInv'
    BY <1>2, <1>5 DEF ActionsInv, RunningInv
  <1>10. TokensInv'
    BY <1>3, <1>4 DEF TokensInv
  <1>11. \A v \in Update : Taker(v)' => Taker(v) /\ place'[v] = place[v] /\ token'[v] = token[v]
    BY <1>2, <1>5 DEF Taker
  <1>12. TakerInv'
    <2> SUFFICES ASSUME NEW v \in Update, Taker(v)'
                 PROVE  /\ token[v] \in DOMAIN offered' \ pending'
                        /\ offered'[token[v]].owner = place'[v]
                        /\ \A e \in effects : e.token # token[v]
      BY <1>2 DEF TakerInv
    <2>1. /\ token[v] \in DOMAIN offered \ pending /\ offered[token[v]].owner = place[v]
          /\ \A e \in effects : e.token # token[v]
      BY <1>11 DEF ActionsInv, TakerInv
    <2> QED
      BY <1>2, <1>3, <1>4, <1>11, <2>1
  <1>13. TakersDiffer'
    BY <1>11 DEF ActionsInv, TakersDiffer
  <1>14. \A e \in effects : e.token # Actions!NoToken => e.token \in DOMAIN offered \ pending
    BY DEF ActionsInv, ActedInv
  <1>15. ActedInv'
    <2> SUFFICES ASSUME NEW e \in effects
                 PROVE  /\ step'[e.update] \in {"reply", "over"}
                        /\ e.token # Actions!NoToken => e.token \in DOMAIN offered' \ pending'
      BY <1>2 DEF ActedInv
    <2>1. step[e.update] \in {"reply", "over"} /\ e.update \in Update
      BY DEF ActionsInv, ActedInv, Actions!TypeOK
    <2>2. step'[e.update] \in {"reply", "over"}
      BY <1>2, <1>5, <2>1
    <2>3. e.token # Actions!NoToken => e.token \in DOMAIN offered' \ pending'
      BY <1>2, <1>3, <1>4, <1>14
    <2> QED
      BY <2>2, <2>3
  <1>16. Actions!SelectionActsOnce'
    BY <1>2, <1>4, <1>14 DEF ActionsInv, Actions!SelectionActsOnce
  <1>17. Actions!UpdateActsOnce'
    BY <1>2 DEF ActionsInv, Actions!UpdateActsOnce
  <1> QED
    BY <1>8, <1>9, <1>10, <1>12, <1>13, <1>15, <1>16, <1>17 DEF ActionsInv

-------------------------------------------------------------------------------
(* The invariant of the specification. *)

LEMMA ActionsInitInv == Actions!Init => ActionsInv
  <1> SUFFICES ASSUME Actions!Init PROVE ActionsInv
    OBVIOUS
  <1>1. DOMAIN offered = {} /\ DOMAIN offered = 1..0
    BY DEF Actions!Init
  <1>2. Actions!TypeOK
    <2>1. try \in [Update -> 1..MaxRetries]
      BY OneTry DEF Actions!Init
    <2>2. now \in 0..MaxTime /\ mishaps \in 0..MaxFaults
      BY ActionsAssumption DEF Actions!Init, Actions!BotAssumption
    <2> QED
      BY <1>1, <2>1, <2>2 DEF Actions!Init, Actions!TypeOK
  <1>3. \A u \in Update : step[u] = "new"
    BY DEF Actions!Init
  <1>4. RunningInv /\ TakerInv /\ TakersDiffer
    BY <1>3 DEF RunningInv, TakerInv, TakersDiffer, Taker
  <1>5. TokensInv
    BY <1>1, 0 \in Nat DEF TokensInv
  <1>6. ActedInv /\ Actions!SelectionActsOnce /\ Actions!UpdateActsOnce
    BY DEF Actions!Init, ActedInv, Actions!SelectionActsOnce, Actions!UpdateActsOnce
  <1> QED
    BY <1>2, <1>4, <1>5, <1>6 DEF ActionsInv

LEMMA ActionsStepInv == ActionsInv /\ [Actions!Next]_(Actions!vars) => ActionsInv'
  <1> SUFFICES ASSUME ActionsInv, [Actions!Next]_(Actions!vars) PROVE ActionsInv'
    OBVIOUS
  <1>1. CASE Actions!Pass
    BY <1>1, PassInv
  <1>2. CASE Actions!Restart
    BY <1>2, RestartInv
  <1>3. ASSUME NEW user \in User, Actions!ChangeAccess(user) PROVE ActionsInv'
    BY <1>3, ChangeAccessInv
  <1>4. ASSUME NEW u \in Update, NEW k \in {"list", "create", "press"}, NEW p \in Actions!Place,
               NEW t \in Actions!Token \cup {Actions!NoToken}, Actions!Arrive(u, k, p, t)
        PROVE  ActionsInv'
    BY <1>4, ArriveInv
  <1>5. ASSUME NEW u \in Update, Actions!Work(u) PROVE ActionsInv'
    BY <1>5, AdmitInv, ChooseInv, ReadInv, ConfigureInv, CallerIdentityInv, ActInv, RememberInv,
       OfferNothingInv, ReplyInv DEF Actions!Work
  <1>6. ASSUME NEW u \in Update, Actions!Raise(u) PROVE ActionsInv'
    BY <1>6, RaiseInv
  <1>7. CASE UNCHANGED Actions!vars
    <2>1. UNCHANGED <<now, active, Actions!memory, step, Actions!job, token, try, effects, mishaps>> /\ UNCHANGED forgotten
      BY <1>7 DEF Actions!vars, Actions!memory, Actions!job
    <2>2. Actions!TypeOK'
      BY <2>1 DEF ActionsInv, Actions!TypeOK, Actions!memory, Actions!job
    <2> QED
      BY <2>1, <2>2, WorldInv
  <1> QED
    BY <1>1, <1>2, <1>3, <1>4, <1>5, <1>6, <1>7 DEF Actions!Next

THEOREM ActionsInductive == Actions!Spec => []ActionsInv
  BY ActionsInitInv, ActionsStepInv, PTL DEF Actions!Spec

\* Every state of the bot and of the backend's record is well typed: in particular a
\* request has an attempt the client allows and a place.
THEOREM BotTypeCorrect == Actions!Spec => []Actions!TypeOK
  <1>1. ActionsInv => Actions!TypeOK
    BY DEF ActionsInv
  <1> QED
    BY <1>1, ActionsInductive, PTL

\* The buttons of one answer act at most once and only for the user and the chat they
\* were offered to, for any number of concurrent updates, retries and restarts.
THEOREM SelectionActsOnceHolds == Actions!Spec => []SelectionActsOnce
  <1>1. ActionsInv => SelectionActsOnce
    BY DEF ActionsInv, SelectionActsOnce
  <1> QED
    BY <1>1, ActionsInductive, PTL

\* An update has at most one effect, whatever its client retries.
THEOREM UpdateActsOnceHolds == Actions!Spec => []UpdateActsOnce
  <1>1. ActionsInv => UpdateActsOnce
    BY DEF ActionsInv, UpdateActsOnce
  <1> QED
    BY <1>1, ActionsInductive, PTL

-------------------------------------------------------------------------------
(* The selections that stay in memory. *)

\* Nothing names a selection before it arrives.
NewHasNoToken == \A u \in Update : step[u] = "new" => token[u] = Actions!NoToken

KeptInv == NewHasNoToken /\ Actions!ValidIsKept

\* An update that has chosen stays with its choice.
Progress ==
    \A v \in Update :
        /\ step[v] \notin {"new", "admit", "handle"} => token'[v] = token[v] /\ step'[v] \notin {"admit", "handle"}
        /\ step'[v] = "new" => token'[v] = Actions!NoToken

LEMMA TakenStays ==
  ASSUME ActionsInv, KeptInv, Progress, NEW t \in DOMAIN offered, Actions!Taken(t)
  PROVE  Actions!Taken(t)'
  <1>1. t # Actions!NoToken
    BY DEF ActionsInv, Actions!TypeOK, Actions!Token, Actions!NoToken
  <1>2. PICK u \in Update : token[u] = t /\ step[u] \notin {"admit", "handle"}
    BY DEF Actions!Taken
  <1>3. step[u] # "new"
    BY <1>1, <1>2 DEF KeptInv, NewHasNoToken
  <1>4. token'[u] = t /\ step'[u] \notin {"admit", "handle"}
    BY <1>2, <1>3 DEF Progress
  <1> QED
    BY <1>4 DEF Actions!Taken

\* A step that offers nothing, and takes or forgets what leaves the memory.
LEMMA QuietKeeps ==
  ASSUME ActionsInv, KeptInv, Progress, UNCHANGED offered, now' \in Int, now <= now',
         forgotten \subseteq forgotten',
         \A t \in pending \ pending' : Actions!Taken(t)' \/ t \in forgotten'
  PROVE  KeptInv'
  <1>1. NewHasNoToken'
    BY DEF Progress, NewHasNoToken
  <1>2. Actions!ValidIsKept'
    <2> SUFFICES ASSUME NEW t \in DOMAIN offered, Actions!Valid(t)', ~Actions!Taken(t)', t \notin forgotten',
                        Cardinality(Actions!Newer(t)') < MaxContexts
                 PROVE  t \in pending'
      BY SameCardinality DEF Actions!ValidIsKept
    <2>1. Actions!Newer(t)' = Actions!Newer(t)
      BY DEF Actions!Newer
    <2>2. Actions!Valid(t)
      <3>1. offered[t].expires \in Int /\ now \in Int
        BY ActionsAssumption DEF ActionsInv, Actions!TypeOK, Actions!BotAssumption
      <3> QED
        BY <3>1 DEF Actions!Valid
    <2>3. ~Actions!Taken(t)
      BY TakenStays
    <2>4. t \in pending
      BY SameCardinality, <2>1, <2>2, <2>3 DEF KeptInv, Actions!ValidIsKept
    <2> QED
      BY <2>4
  <1> QED
    BY <1>1, <1>2 DEF KeptInv

\* One update moves: it has not chosen yet and does not start again, or it keeps its token
\* and does not go back.
LEMMA OneMoves ==
  ASSUME Actions!TypeOK, KeptInv, NEW u \in Update, NEW label, step' = [step EXCEPT ![u] = label], label # "new",
         \A v \in Update : v # u => token'[v] = token[v],
         \/ step[u] \in {"new", "admit", "handle"}
         \/ token'[u] = token[u] /\ label \notin {"admit", "handle"}
  PROVE  Progress
  <1>1. step'[u] = label /\ \A v \in Update : v # u => step'[v] = step[v]
    BY DEF Actions!TypeOK
  <1> QED
    BY <1>1 DEF Progress, KeptInv, NewHasNoToken

\* The steps of updates that neither offer nor take a selection.
LEMMA QuietWork ==
  ASSUME ActionsInv, KeptInv, NEW u \in Update,
         \/ Actions!Admit(u) \/ Actions!Read(u) \/ Actions!Configure(u) \/ Actions!CallerIdentity(u) \/ Actions!Act(u)
         \/ Actions!OfferNothing(u) \/ Actions!Reply(u) \/ Actions!Raise(u)
         \/ \E k \in {"list", "create", "press"}, p \in Actions!Place, t \in Actions!Token \cup {Actions!NoToken} : Actions!Arrive(u, k, p, t)
  PROVE  KeptInv'
  <1>1. Actions!TypeOK
    BY DEF ActionsInv
  <1>2. UNCHANGED <<now, pending, offered, forgotten>>
    BY DEF Actions!Admit, Actions!Read, Actions!Configure, Actions!CallerIdentity, Actions!Act,
       Actions!OfferNothing, Actions!Reply, Actions!Raise, Actions!Arrive, Actions!memory
  <1>3. Progress
    <2>1. CASE Actions!Admit(u)
      <3>1. /\ step[u] = "admit" /\ \A v \in Update : v # u => token'[v] = token[v]
            /\ \E label \in {"handle", "over"} : step' = [step EXCEPT ![u] = label]
        BY <1>1, <2>1 DEF Actions!Admit, Actions!Goto, Actions!Finish, Actions!TypeOK
      <3> QED
        BY <1>1, <3>1, OneMoves
    <2>2. CASE \E k \in {"list", "create", "press"}, p \in Actions!Place, t \in Actions!Token \cup {Actions!NoToken} : Actions!Arrive(u, k, p, t)
      <3>1. /\ step[u] = "new" /\ \A v \in Update : v # u => token'[v] = token[v]
            /\ step' = [step EXCEPT ![u] = "admit"]
        BY <1>1, <2>2 DEF Actions!Arrive, Actions!Goto, Actions!TypeOK
      <3> QED
        BY <1>1, <3>1, OneMoves
    <2>3. CASE \/ Actions!Read(u) \/ Actions!Configure(u) \/ Actions!CallerIdentity(u) \/ Actions!Act(u)
               \/ Actions!OfferNothing(u) \/ Actions!Reply(u) \/ Actions!Raise(u)
      <3>1. UNCHANGED token
        BY <2>3 DEF Actions!Read, Actions!Configure, Actions!CallerIdentity, Actions!Act,
           Actions!OfferNothing, Actions!Reply, Actions!Raise
      <3>2. \E label \in {"configure", "call", "offer", "reply", "effect", "over"} : step' = [step EXCEPT ![u] = label]
        BY <2>3 DEF Actions!Read, Actions!Configure, Actions!CallerIdentity, Actions!Retry,
           Actions!Act, Actions!OfferNothing, Actions!Reply, Actions!Raise, Actions!Goto,
           Actions!Finish
      <3> QED
        BY <1>1, <3>1, <3>2, OneMoves
    <2> QED
      BY <2>1, <2>2, <2>3
  <1>4. now \in Int
    BY ActionsAssumption, <1>1 DEF Actions!TypeOK, Actions!BotAssumption
  <1> QED
    BY <1>2, <1>3, <1>4, QuietKeeps

LEMMA ChooseKeeps == ASSUME ActionsInv, KeptInv, NEW u \in Update, Actions!Choose(u) PROVE KeptInv'
  <1>1. /\ step[u] = "handle" /\ UNCHANGED <<now, offered, forgotten>>
        /\ \A v \in Update : v # u => token'[v] = token[v]
        /\ \E label \in {"configure", "over"} : step' = [step EXCEPT ![u] = label]
    BY DEF Actions!Choose, Actions!Goto, Actions!Finish, ActionsInv, Actions!TypeOK
  <1>2. Progress
    BY <1>1, OneMoves DEF ActionsInv
  <1>3. \A t \in pending \ pending' : Actions!Taken(t)'
    <2> SUFFICES ASSUME NEW t \in pending \ pending'
                 PROVE  Actions!Taken(t)'
      OBVIOUS
    <2>1. t = token[u] /\ Actions!Goto(u, "configure") /\ UNCHANGED token
      BY DEF Actions!Choose, Actions!job
    <2>2. step'[u] = "configure"
      BY <2>1, GotoFacts DEF ActionsInv, Label
    <2> QED
      BY <2>1, <2>2 DEF Actions!Taken
  <1>4. now \in Int
    BY ActionsAssumption DEF ActionsInv, Actions!TypeOK, Actions!BotAssumption
  <1> QED
    BY <1>1, <1>2, <1>3, <1>4, QuietKeeps

LEMMA WorldKeeps ==
  ASSUME ActionsInv, KeptInv, Actions!Pass \/ Actions!Restart \/ (\E user \in User : Actions!ChangeAccess(user)) \/ UNCHANGED Actions!vars
  PROVE  KeptInv'
  <1>1. now \in Int /\ now' \in Int /\ now <= now' /\ UNCHANGED offered
    BY ActionsAssumption DEF ActionsInv, Actions!TypeOK, Actions!Pass, Actions!Restart,
       Actions!ChangeAccess, Actions!vars, Actions!memory, Actions!BotAssumption
  <1>2. CASE Actions!Restart
    <2>1. /\ pending' = {} /\ forgotten' = forgotten \cup pending /\ UNCHANGED token
          /\ step' = [u \in Update |-> IF step[u] = "new" THEN "new" ELSE "over"]
      BY <1>2 DEF Actions!Restart
    <2>2. Progress
      BY <2>1 DEF Progress, KeptInv, NewHasNoToken
    <2> QED
      BY <1>1, <2>1, <2>2, QuietKeeps
  <1>3. CASE UNCHANGED <<pending, offered, forgotten, step, token>>
    <2>1. Progress
      BY <1>3 DEF Progress, KeptInv, NewHasNoToken
    <2> QED
      BY <1>1, <1>3, <2>1, QuietKeeps
  <1> QED
    BY <1>2, <1>3 DEF Actions!Pass, Actions!ChangeAccess, Actions!vars, Actions!memory

\* A new selection pushes out only those with as many newer ones as are kept.
LEMMA RememberKeeps == ASSUME ActionsInv, ActionsInv', KeptInv, NEW u \in Update, Actions!Remember(u) PROVE KeptInv'
  <1>1. PICK new : new = Actions!NextToken
    OBVIOUS
  <1>2. /\ step[u] = "offer" /\ new \in Actions!Token /\ UNCHANGED <<now, forgotten, token>>
        /\ pending' = Actions!Room(pending \ Actions!Expired) \cup {new}
        /\ DOMAIN offered' = DOMAIN offered \cup {new}
        /\ \A t \in DOMAIN offered : t # new => offered'[t] = offered[t]
    BY <1>1 DEF Actions!Remember
  <1>3. PICK n \in Nat : DOMAIN offered = 1..n /\ new = n + 1
    <2>1. PICK n \in Nat : DOMAIN offered = 1..n
      BY DEF ActionsInv, TokensInv
    <2>2. Cardinality(1..n) = n
      <3>1. Cardinality(1..n) = IF 1 > n THEN 0 ELSE n - 1 + 1
        BY FS_Interval, 1 \in Int, n \in Int
      <3> QED
        BY <3>1
    <2> QED
      BY SameCardinality, <1>1, <2>1, <2>2 DEF Actions!NextToken
  <1>4. Progress
    <2>1. UNCHANGED step \/ step' = [step EXCEPT ![u] = "over"]
      BY DEF Actions!Remember, Actions!Finish, Actions!Goto
    <2>2. CASE UNCHANGED step
      BY <1>2, <2>2 DEF Progress, KeptInv, NewHasNoToken
    <2>3. CASE step' = [step EXCEPT ![u] = "over"]
      BY <1>2, <2>3, OneMoves DEF ActionsInv
    <2> QED
      BY <2>1, <2>2, <2>3
  <1>5. NewHasNoToken'
    BY <1>4 DEF Progress, NewHasNoToken
  <1>6. Actions!ValidIsKept'
    <2> SUFFICES ASSUME NEW t \in DOMAIN offered', Actions!Valid(t)', ~Actions!Taken(t)', t \notin forgotten',
                        Cardinality(Actions!Newer(t)') < MaxContexts, t # new
                 PROVE  t \in Actions!Room(pending \ Actions!Expired)
      BY SameCardinality, <1>2 DEF Actions!ValidIsKept
    <2>1. t \in DOMAIN offered /\ t \in 1..n /\ offered'[t] = offered[t]
      BY <1>2, <1>3
    <2>2. Actions!Valid(t) /\ ~Actions!Taken(t)
      BY <1>2, <1>4, <2>1, TakenStays DEF Actions!Valid
    <2>3. /\ Actions!Newer(t)' = Actions!Newer(t) \cup {new} /\ new \notin Actions!Newer(t) /\ t \notin Actions!Newer(t)
          /\ Actions!Newer(t) \subseteq 1..n
      BY <1>2, <1>3, <2>1 DEF Actions!Newer
    <2>4. IsFiniteSet(Actions!Newer(t)) /\ Cardinality(Actions!Newer(t)) \in Nat
      <3>1. IsFiniteSet(1..n)
        BY FS_Interval
      <3> QED
        BY <2>3, <3>1, FS_Subset, FS_CardinalityType
    <2>5. Cardinality(Actions!Newer(t)) + 1 < MaxContexts
      <3>1. Cardinality(Actions!Newer(t) \cup {new}) = Cardinality(Actions!Newer(t)) + 1
        BY <2>3, <2>4, FS_AddElement
      <3> QED
        BY <2>3, <3>1
    <2>6. t \in pending
      <3>1. Cardinality(Actions!Newer(t)) < MaxContexts
        BY <2>4, <2>5, ActionsAssumption DEF Actions!BotAssumption
      <3> QED
        BY SameCardinality, <1>2, <2>1, <2>2, <3>1 DEF KeptInv, Actions!ValidIsKept
    <2> DEFINE kept == pending \ Actions!Expired
               ahead == {s \in kept : s >= t}
    <2>7. t \in kept /\ kept \subseteq 1..n
      BY <1>3, <2>2, <2>6 DEF Actions!Expired, ActionsInv, Actions!TypeOK
    <2>8. ahead \subseteq Actions!Newer(t) \cup {t}
      BY <1>3, <2>1, <2>7 DEF Actions!Newer
    <2>9. /\ IsFiniteSet(Actions!Newer(t) \cup {t})
          /\ Cardinality(Actions!Newer(t) \cup {t}) = Cardinality(Actions!Newer(t)) + 1
      BY <2>3, <2>4, FS_AddElement
    <2>10. Cardinality(ahead) < MaxContexts
      <3> HIDE DEF ahead
      <3>1. Cardinality(ahead) <= Cardinality(Actions!Newer(t) \cup {t}) /\ IsFiniteSet(ahead)
        BY <2>8, <2>9, FS_Subset
      <3>2. Cardinality(ahead) \in Nat
        BY <3>1, FS_CardinalityType
      <3> QED
        BY <2>4, <2>5, <2>9, <3>1, <3>2, ActionsAssumption DEF Actions!BotAssumption
    <2> QED
      BY SameCardinality, <2>7, <2>10 DEF Actions!Room
  <1> QED
    BY <1>5, <1>6 DEF KeptInv

LEMMA KeptStep == ActionsInv /\ ActionsInv' /\ KeptInv /\ [Actions!Next]_(Actions!vars) => KeptInv'
  <1> SUFFICES ASSUME ActionsInv, ActionsInv', KeptInv, [Actions!Next]_(Actions!vars)
               PROVE  KeptInv'
    OBVIOUS
  <1>1. CASE Actions!Pass \/ Actions!Restart \/ (\E user \in User : Actions!ChangeAccess(user)) \/ UNCHANGED Actions!vars
    BY <1>1, WorldKeeps
  <1>2. ASSUME NEW u \in Update,
               \/ \E k \in {"list", "create", "press"}, p \in Actions!Place, t \in Actions!Token \cup {Actions!NoToken} : Actions!Arrive(u, k, p, t)
               \/ Actions!Work(u) \/ Actions!Raise(u)
        PROVE  KeptInv'
    BY <1>2, QuietWork, ChooseKeeps, RememberKeeps DEF Actions!Work
  <1> QED
    BY <1>1, <1>2 DEF Actions!Next

\* A valid selection that its owner did not use is there until as many newer ones are
\* offered as the bot keeps, whoever else presses buttons meanwhile.
THEOREM ValidIsKeptHolds == Actions!Spec => []ValidIsKept
  <1>1. Actions!Init => KeptInv
    BY DEF Actions!Init, KeptInv, NewHasNoToken, Actions!ValidIsKept
  <1>2. KeptInv => ValidIsKept
    BY DEF KeptInv, ValidIsKept
  <1> QED
    BY <1>1, <1>2, ActionsInductive, KeptStep, PTL DEF Actions!Spec
===============================================================================
