-------------------------- MODULE ChannelPollingProofs --------------------------
(***************************************************************************)
(* The safety of ChannelPolling for any users, channels, pages and bounds. *)
(* The inductive invariant says what the holder of the poll_state row      *)
(* knows of the lists, that changes of one post agree, and what a tick     *)
(* that is about to mark a delivery already did.                           *)
(***************************************************************************)
EXTENDS ChannelPolling, FiniteSetTheorems, WellFoundedInduction, TLAPS

\* Changes of one post agree on its channel and date, posts are numbered as they appear,
\* and none is of the future.
FeedInv ==
    /\ \E k \in 0..MaxPosts : Known = 1..k
    /\ \A m, n \in DOMAIN feed :
        feed[m].id = feed[n].id => feed[m].channel = feed[n].channel /\ feed[m].date = feed[n].date
    /\ \A n \in DOMAIN feed : feed[n].date <= now
    /\ seen \subseteq Known

\* Who fetches holds the row, and the lists it read are still the lists.
PollInv ==
    \A h \in Handler :
        /\ pc[h] = "fetch" <=> lock = h
        /\ pc[h] = "fetch" => view[h] = since

\* A tick that publishes has something to publish, and marks what it published.
DeliveryInv ==
    /\ emitted \subseteq published
    /\ \A h \in Handler :
        /\ pc[h] \in {"publish", "confirm"} => pending[h] # {}
        /\ pc[h] = "confirm" => Current(h) \in published

\* The cursor is a position of the feed.
CursorInv == cursor # NoCursor => cursor.pos <= Len(feed)

IInv ==
    /\ TypeOK
    /\ FeedInv
    /\ PollInv
    /\ DeliveryInv
    /\ CursorInv
    /\ SeenReachesSubscribers
    /\ CursorSkipsNothing
USE NumbersAssumption, NoneAssumption, ListsAssumption DEF NumbersAssumption, NoneAssumption, ListsAssumption

-------------------------------------------------------------------------------
(* Lemmas about numbers and sequences. *)

\* A set of naturals has a least element.
LEMMA LeastExists ==
  ASSUME NEW S, S \subseteq Nat, S # {}
  PROVE  \E n \in S : \A m \in S : n <= m
  <1> DEFINE R == {p \in Nat \X Nat : p[1] < p[2]}
  <1>1. IsWellFoundedOn(R, Nat)
    BY NatLessThanWellFounded DEF OpToRel
  <1>2. \A m, n \in Nat : m < n => <<m, n>> \in R
    OBVIOUS
  <1> HIDE DEF R
  <1>3. PICK n \in S : \A m \in S : <<m, n>> \notin R
    BY <1>1, WFMin
  <1>4. n \in Nat /\ \A m \in S : m \in Nat /\ ~(m < n)
    BY <1>2, <1>3
  <1>5. \A m \in S : n <= m
    BY <1>4
  <1> QED
    BY <1>5

\* A bounded one has a greatest.
LEMMA GreatestExists ==
  ASSUME NEW S, S \subseteq Nat, S # {}, NEW b \in Nat, \A n \in S : n <= b
  PROVE  \E n \in S : \A m \in S : m <= n
  <1> DEFINE T == {t \in Nat : \E n \in S : t + n = b}
  <1>1. \A n \in S : n \in Nat /\ b - n \in T
    OBVIOUS
  <1>2. T \subseteq Nat /\ T # {}
    BY <1>1
  <1>3. PICK t \in T : \A u \in T : t <= u
    <2> HIDE DEF T
    <2> QED
      BY <1>2, LeastExists
  <1>4. PICK n \in S : t + n = b
    OBVIOUS
  <1>5. \A m \in S : m \in Nat /\ t <= b - m
    BY <1>1, <1>3
  <1>6. t \in Nat /\ n \in Nat
    BY <1>1
  <1>7. \A m \in S : m <= n
    BY <1>4, <1>5, <1>6
  <1> QED
    BY <1>7

LEMMA LaterFact ==
  ASSUME NEW a \in Int, NEW b \in Int
  PROVE  Later(a, b) \in {a, b} /\ a <= Later(a, b) /\ b <= Later(a, b)
  BY DEF Later

LEMMA ElementFact ==
  ASSUME NEW S, NEW s \in Seq(S), NEW n \in DOMAIN s
  PROVE  s[n] \in S /\ n \in 1..Len(s)
  OBVIOUS

LEMMA AppendFacts ==
  ASSUME NEW S, NEW s \in Seq(S), NEW e \in S
  PROVE  /\ Append(s, e) \in Seq(S)
         /\ Len(s) \in Nat
         /\ Len(Append(s, e)) = Len(s) + 1
         /\ DOMAIN Append(s, e) = DOMAIN s \cup {Len(s) + 1}
         /\ DOMAIN s = 1..Len(s)
         /\ \A n \in DOMAIN s : Append(s, e)[n] = s[n]
         /\ Append(s, e)[Len(s) + 1] = e
  OBVIOUS

LEMMA InstantFacts == Instant \subseteq Nat /\ NoInstant \notin Instant /\ NoInstant \in Int /\ 0 \in Instant
  BY DEF Instant, NoInstant

-------------------------------------------------------------------------------
(* Steps that leave the data of the package alone. *)

\* A step of a tick that changes no list, no row of the poll and no change of the feed.
LEMMA DataInv ==
  ASSUME IInv, UNCHANGED <<lists, state, rows, platform>>
  PROVE  FeedInv' /\ CursorInv' /\ SeenReachesSubscribers' /\ CursorSkipsNothing'
  <1>1. UNCHANGED <<now, feed, since, cursor, sinceAt, seen, outbox>>
    BY DEF lists, state, rows, platform
  <1>2. FeedInv'
    BY <1>1 DEF IInv, FeedInv, Known
  <1>3. CursorInv' /\ CursorSkipsNothing'
    BY <1>1 DEF IInv, CursorInv, CursorSkipsNothing
  <1>4. SeenReachesSubscribers'
    BY <1>1 DEF IInv, SeenReachesSubscribers, Deleted
  <1> QED
    BY <1>2, <1>3, <1>4

\* The types of what such a step leaves alone.
LEMMA GotoFacts ==
  ASSUME TypeOK, NEW h \in Handler, NEW label, Goto(h, label),
         label \in {"idle", "read", "publish", "confirm", "poll", "fetch"}
  PROVE  /\ pc' \in [Handler -> {"idle", "read", "publish", "confirm", "poll", "fetch"}]
         /\ pc'[h] = label /\ \A g \in Handler : g # h => pc'[g] = pc[g]
  BY DEF Goto, TypeOK

LEMMA TickInv ==
  ASSUME IInv, NEW h \in Handler, NEW t \in Instant, Tick(h, t)
  PROVE  IInv'
  <1>1. /\ pc[h] = "idle" /\ at' = [at EXCEPT ![h] = t] /\ Goto(h, "read")
        /\ UNCHANGED <<lists, state, rows, emitted, published, lock, view, round, pending, platform, faults>>
    BY DEF Tick
  <1>2. FeedInv' /\ CursorInv' /\ SeenReachesSubscribers' /\ CursorSkipsNothing'
    BY <1>1, DataInv
  <1>3. /\ pc' \in [Handler -> {"idle", "read", "publish", "confirm", "poll", "fetch"}]
        /\ pc'[h] = "read" /\ \A g \in Handler : g # h => pc'[g] = pc[g]
    BY <1>1, GotoFacts DEF IInv
  <1>4. UNCHANGED <<now, feed, starting, users, since, cursor, sinceAt, retryAt, stopped, seen, outbox>>
    BY <1>1 DEF lists, state, rows, platform
  <1>5. TypeOK'
    BY <1>1, <1>3, <1>4 DEF IInv, TypeOK
  <1>6. PollInv'
    BY <1>1, <1>3, <1>4 DEF IInv, PollInv, TypeOK
  <1>7. DeliveryInv'
    BY <1>1, <1>3 DEF IInv, DeliveryInv, Current
  <1> QED
    BY <1>2, <1>5, <1>6, <1>7 DEF IInv

\* The rows a tick handles and where it stands, when emit_pending returned.
LEMMA AfterEmitFacts ==
  ASSUME TypeOK, NEW h \in Handler, AfterEmit(h)
  PROVE  /\ pc' \in [Handler -> {"idle", "read", "publish", "confirm", "poll", "fetch"}]
         /\ pc'[h] \in {"idle", "poll"} /\ \A g \in Handler : g # h => pc'[g] = pc[g]
         /\ at' \in [Handler -> Instant] /\ round' \in [Handler -> 1..2]
  <1>1. CASE round[h] = 1
    BY <1>1, GotoFacts DEF AfterEmit, TypeOK
  <1>2. CASE round[h] # 1
    <2>1. Goto(h, "idle") /\ at' = [at EXCEPT ![h] = 0] /\ round' = [round EXCEPT ![h] = 1]
      BY <1>2 DEF AfterEmit
    <2>2. at' \in [Handler -> Instant] /\ round' \in [Handler -> 1..2]
      BY <2>1, InstantFacts DEF TypeOK
    <2> QED
      BY <2>1, <2>2, GotoFacts
  <1> QED
    BY <1>1, <1>2

\* A step of one tick that keeps the lists, the poll's rows and the lock.
LEMMA TickStep ==
  ASSUME IInv, NEW h \in Handler,
         UNCHANGED <<lists, state, rows, platform, lock, view, faults>>,
         pc' \in [Handler -> {"idle", "read", "publish", "confirm", "poll", "fetch"}],
         \A g \in Handler : g # h => pc'[g] = pc[g] /\ pending'[g] = pending[g],
         pc[h] # "fetch", pc'[h] # "fetch",
         at' \in [Handler -> Instant], round' \in [Handler -> 1..2],
         pending' \in [Handler -> SUBSET outbox],
         emitted' \subseteq published', published' \subseteq outbox, published \subseteq published',
         pc'[h] \in {"publish", "confirm"} => pending'[h] # {},
         pc'[h] = "confirm" => Current(h)' \in published'
  PROVE  IInv'
  <1>1. FeedInv' /\ CursorInv' /\ SeenReachesSubscribers' /\ CursorSkipsNothing'
    BY DataInv
  <1>2. UNCHANGED <<now, feed, starting, users, since, cursor, sinceAt, retryAt, stopped, seen, outbox>>
    BY DEF lists, state, rows, platform
  <1>3. TypeOK'
    BY <1>2 DEF IInv, TypeOK
  <1>4. PollInv'
    BY <1>2 DEF IInv, PollInv
  <1>5. DeliveryInv'
    <2> SUFFICES ASSUME NEW g \in Handler
                 PROVE  /\ pc'[g] \in {"publish", "confirm"} => pending'[g] # {}
                        /\ pc'[g] = "confirm" => Current(g)' \in published'
      BY DEF DeliveryInv
    <2>1. CASE g = h
      BY <2>1
    <2>2. CASE g # h
      BY <2>2 DEF IInv, DeliveryInv, Current
    <2> QED
      BY <2>1, <2>2
  <1> QED
    BY <1>1, <1>3, <1>4, <1>5 DEF IInv

LEMMA ReadPendingInv ==
  ASSUME IInv, NEW h \in Handler, ReadPending(h)
  PROVE  IInv'
  <1>1. /\ pc[h] = "read" /\ pending' = [pending EXCEPT ![h] = outbox \ emitted]
        /\ UNCHANGED <<lists, state, rows, emitted, published, lock, view, platform, faults>>
    BY DEF ReadPending
  <1>2. /\ pending' \in [Handler -> SUBSET outbox] /\ pending'[h] = outbox \ emitted
        /\ \A g \in Handler : g # h => pending'[g] = pending[g]
    BY <1>1 DEF IInv, TypeOK
  <1>3. /\ pc' \in [Handler -> {"idle", "read", "publish", "confirm", "poll", "fetch"}]
        /\ \A g \in Handler : g # h => pc'[g] = pc[g]
        /\ at' \in [Handler -> Instant] /\ round' \in [Handler -> 1..2]
        /\ pc'[h] \in {"idle", "poll"} \/ (pc'[h] = "publish" /\ ~(outbox \subseteq emitted))
    <2>1. CASE outbox \subseteq emitted
      <3>1. AfterEmit(h)
        BY <2>1 DEF ReadPending
      <3>2. TypeOK
        BY DEF IInv
      <3>3. /\ pc' \in [Handler -> {"idle", "read", "publish", "confirm", "poll", "fetch"}]
            /\ pc'[h] \in {"idle", "poll"} /\ \A g \in Handler : g # h => pc'[g] = pc[g]
            /\ at' \in [Handler -> Instant] /\ round' \in [Handler -> 1..2]
        BY <3>1, <3>2, AfterEmitFacts
      <3> QED
        BY <3>3
    <2>2. CASE ~(outbox \subseteq emitted)
      <3>1. Goto(h, "publish") /\ UNCHANGED <<at, round>>
        BY <2>2 DEF ReadPending
      <3> QED
        BY <2>2, <3>1, GotoFacts DEF IInv, TypeOK
    <2> QED
      BY <2>1, <2>2
  <1>4. emitted' \subseteq published' /\ published' \subseteq outbox /\ published \subseteq published'
    BY <1>1 DEF IInv, TypeOK, DeliveryInv
  <1>5. pc'[h] \in {"publish", "confirm"} => pending'[h] # {}
    BY <1>2, <1>3
  <1> QED
    BY <1>1, <1>2, <1>3, <1>4, <1>5, TickStep

\* A tick that publishes or confirms handles one of its rows.
LEMMA CurrentFact ==
  ASSUME IInv, NEW h \in Handler, pc[h] \in {"publish", "confirm"}
  PROVE  Current(h) \in pending[h] /\ Current(h) \in outbox
  BY DEF IInv, DeliveryInv, TypeOK, Current

LEMMA PublishInv ==
  ASSUME IInv, NEW h \in Handler, Publish(h)
  PROVE  IInv'
  <1>1. /\ pc[h] = "publish" /\ published' = published \cup {Current(h)} /\ Goto(h, "confirm")
        /\ UNCHANGED <<lists, state, rows, emitted, lock, view, at, round, pending, platform, faults>>
    BY DEF Publish
  <1>2. /\ pc' \in [Handler -> {"idle", "read", "publish", "confirm", "poll", "fetch"}]
        /\ pc'[h] = "confirm" /\ \A g \in Handler : g # h => pc'[g] = pc[g]
    BY <1>1, GotoFacts DEF IInv
  <1>3. emitted' \subseteq published' /\ published' \subseteq outbox /\ published \subseteq published'
    BY <1>1, CurrentFact DEF IInv, TypeOK, DeliveryInv
  <1>4. pending'[h] # {} /\ Current(h)' \in published'
    BY <1>1, CurrentFact DEF Current
  <1>5. at' \in [Handler -> Instant] /\ round' \in [Handler -> 1..2] /\ pending' \in [Handler -> SUBSET outbox]
    BY <1>1 DEF IInv, TypeOK
  <1> QED
    BY <1>1, <1>2, <1>3, <1>4, <1>5, TickStep

LEMMA ConfirmInv ==
  ASSUME IInv, NEW h \in Handler, Confirm(h)
  PROVE  IInv'
  <1>1. /\ pc[h] = "confirm" /\ emitted' = emitted \cup {Current(h)}
        /\ pending' = [pending EXCEPT ![h] = @ \ {Current(h)}]
        /\ UNCHANGED <<lists, state, rows, published, lock, view, platform, faults>>
    BY DEF Confirm
  <1>2. /\ pending' \in [Handler -> SUBSET outbox] /\ pending'[h] = pending[h] \ {Current(h)}
        /\ \A g \in Handler : g # h => pending'[g] = pending[g]
    BY <1>1 DEF IInv, TypeOK
  <1>3. /\ pc' \in [Handler -> {"idle", "read", "publish", "confirm", "poll", "fetch"}]
        /\ \A g \in Handler : g # h => pc'[g] = pc[g]
        /\ at' \in [Handler -> Instant] /\ round' \in [Handler -> 1..2]
        /\ pc'[h] \in {"idle", "poll"} \/ (pc'[h] = "publish" /\ pending[h] # {Current(h)})
    <2>1. CASE pending[h] = {Current(h)}
      <3>1. AfterEmit(h)
        BY <2>1 DEF Confirm
      <3>2. TypeOK
        BY DEF IInv
      <3>3. /\ pc' \in [Handler -> {"idle", "read", "publish", "confirm", "poll", "fetch"}]
            /\ pc'[h] \in {"idle", "poll"} /\ \A g \in Handler : g # h => pc'[g] = pc[g]
            /\ at' \in [Handler -> Instant] /\ round' \in [Handler -> 1..2]
        BY <3>1, <3>2, AfterEmitFacts
      <3> QED
        BY <3>3
    <2>2. CASE pending[h] # {Current(h)}
      <3>1. Goto(h, "publish") /\ UNCHANGED <<at, round>>
        BY <2>2 DEF Confirm
      <3> QED
        BY <2>2, <3>1, GotoFacts DEF IInv, TypeOK
    <2> QED
      BY <2>1, <2>2
  <1>4. emitted' \subseteq published' /\ published' \subseteq outbox /\ published \subseteq published'
    BY <1>1 DEF IInv, TypeOK, DeliveryInv
  <1>5. pc'[h] \in {"publish", "confirm"} => pending'[h] # {}
    BY <1>1, <1>2, <1>3, CurrentFact
  <1> QED
    BY <1>1, <1>2, <1>3, <1>4, <1>5, TickStep

-------------------------------------------------------------------------------
(* The lock, the feed and the lists. *)

LEMMA PollInvariant ==
  ASSUME IInv, NEW h \in Handler, Poll(h)
  PROVE  IInv'
  <1>1. /\ pc[h] = "poll" /\ lock = None
        /\ UNCHANGED <<lists, state, rows, emitted, published, at, pending, platform, faults>>
    BY DEF Poll
  <1>2. \A g \in Handler : pc[g] # "fetch"
    BY <1>1 DEF IInv, PollInv
  <1>3. FeedInv' /\ CursorInv' /\ SeenReachesSubscribers' /\ CursorSkipsNothing'
    BY <1>1, DataInv
  <1>4. UNCHANGED <<now, feed, starting, users, since, cursor, sinceAt, retryAt, stopped, seen, outbox>>
    BY <1>1 DEF lists, state, rows, platform
  <1>5. \/ /\ Goto(h, "read") /\ round' = [round EXCEPT ![h] = 2] /\ UNCHANGED <<lock, view>>
        \/ Goto(h, "fetch") /\ lock' = h /\ view' = [view EXCEPT ![h] = since] /\ UNCHANGED round
    BY DEF Poll
  <1>6. CASE Goto(h, "read") /\ round' = [round EXCEPT ![h] = 2] /\ UNCHANGED <<lock, view>>
    <2>1. /\ pc' \in [Handler -> {"idle", "read", "publish", "confirm", "poll", "fetch"}]
          /\ pc'[h] = "read" /\ \A g \in Handler : g # h => pc'[g] = pc[g]
      BY <1>6, GotoFacts DEF IInv
    <2>2. TypeOK'
      <3>1. round' \in [Handler -> 1..2]
        BY <1>6 DEF IInv, TypeOK
      <3> QED
        BY <1>1, <1>4, <1>6, <2>1, <3>1 DEF IInv, TypeOK
    <2>3. PollInv'
      BY <1>1, <1>2, <1>4, <1>6, <2>1 DEF IInv, PollInv
    <2>4. DeliveryInv'
      BY <1>1, <2>1 DEF IInv, DeliveryInv, Current
    <2> QED
      BY <1>3, <2>2, <2>3, <2>4 DEF IInv
  <1>7. CASE Goto(h, "fetch") /\ lock' = h /\ view' = [view EXCEPT ![h] = since] /\ UNCHANGED round
    <2>1. /\ pc' \in [Handler -> {"idle", "read", "publish", "confirm", "poll", "fetch"}]
          /\ pc'[h] = "fetch" /\ \A g \in Handler : g # h => pc'[g] = pc[g]
      BY <1>7, GotoFacts DEF IInv
    <2>2. view' \in [Handler -> Subscriptions] /\ view'[h] = since
      BY <1>7 DEF IInv, TypeOK
    <2>3. TypeOK'
      BY <1>1, <1>4, <1>7, <2>1, <2>2 DEF IInv, TypeOK
    <2>4. PollInv'
      BY <1>1, <1>2, <1>4, <1>7, <2>1, <2>2 DEF IInv, PollInv
    <2>5. DeliveryInv'
      BY <1>1, <2>1 DEF IInv, DeliveryInv, Current
    <2> QED
      BY <1>3, <2>3, <2>4, <2>5 DEF IInv
  <1> QED
    BY <1>5, <1>6, <1>7

\* A step that moves no tick.
LEMMA TicksRest ==
  ASSUME IInv, UNCHANGED <<ticks, emitted, published>>, since' = since \/ lock = None
  PROVE  PollInv' /\ DeliveryInv'
  <1>1. UNCHANGED <<lock, view, pc, at, round, pending, emitted, published>>
    BY DEF ticks
  <1>2. PollInv'
    BY <1>1 DEF IInv, PollInv
  <1>3. DeliveryInv'
    BY <1>1 DEF IInv, DeliveryInv, Current
  <1> QED
    BY <1>2, <1>3

LEMMA PassInv ==
  ASSUME IInv, Pass
  PROVE  IInv'
  <1>1. /\ now < MaxTime /\ now' = now + 1
        /\ UNCHANGED <<feed, starting, users, since, cursor, sinceAt, retryAt, stopped, seen, outbox,
                       emitted, published, lock, view, pc, at, round, pending, faults>>
    BY DEF Pass, lists, state, rows, ticks
  <1>2. TypeOK'
    BY <1>1 DEF IInv, TypeOK, Instant
  <1>3. PollInv' /\ DeliveryInv'
    BY <1>1, TicksRest DEF ticks
  <1>4. FeedInv'
    <2>1. \A n \in DOMAIN feed : feed[n].date \in Int
      <3>1. \A n \in DOMAIN feed : feed[n] \in Change
        BY ElementFact DEF IInv, TypeOK
      <3> QED
        BY <3>1 DEF Change, Instant
    <2>2. now \in Int
      BY DEF IInv, TypeOK, Instant
    <2> QED
      BY <1>1, <2>1, <2>2 DEF IInv, FeedInv, Known
  <1>5. CursorInv' /\ CursorSkipsNothing'
    BY <1>1 DEF IInv, CursorInv, CursorSkipsNothing
  <1>6. SeenReachesSubscribers'
    BY <1>1 DEF IInv, SeenReachesSubscribers, Deleted
  <1> QED
    BY <1>2, <1>3, <1>4, <1>5, <1>6 DEF IInv

\* What a change appended to the feed leaves, and what it must bring with it.
LEMMA AppendInv ==
  ASSUME IInv, NEW e \in Change, feed' = Append(feed, e),
         UNCHANGED <<now, lists, state, rows, emitted, published, ticks>>,
         faults' \in 0..MaxFaults, e.date <= now,
         \/ /\ Known' = Known
            /\ \E m \in DOMAIN feed : e.id = feed[m].id /\ e.channel = feed[m].channel /\ e.date = feed[m].date
         \/ \E k \in 0..MaxPosts : Known' = 1..k /\ Known \subseteq 1..k /\ e.id \notin Known
  PROVE  IInv'
  <1>1. UNCHANGED <<now, starting, users, since, cursor, sinceAt, retryAt, stopped, seen, outbox,
                    emitted, published, lock, view, pc, at, round, pending>>
    BY DEF lists, state, rows, ticks
  <1>2. TypeOK
    BY DEF IInv
  <1>3. /\ feed' \in Seq(Change) /\ Len(feed) \in Nat /\ Len(feed') = Len(feed) + 1
        /\ DOMAIN feed = 1..Len(feed) /\ DOMAIN feed' = DOMAIN feed \cup {Len(feed) + 1}
        /\ \A n \in DOMAIN feed : feed'[n] = feed[n]
        /\ feed'[Len(feed) + 1] = e
    BY <1>2, AppendFacts DEF TypeOK
  <1>4. TypeOK'
    BY <1>1, <1>2, <1>3 DEF TypeOK
  <1>5. PollInv' /\ DeliveryInv'
    BY <1>1, TicksRest DEF ticks
  <1>6. FeedInv'
    <2>1. (\E k \in 0..MaxPosts : Known' = 1..k) /\ seen' \subseteq Known'
      BY <1>1 DEF IInv, FeedInv
    <2>2. \A n \in DOMAIN feed' : feed'[n].date <= now'
      BY <1>1, <1>3 DEF IInv, FeedInv
    <2>3. \A m \in DOMAIN feed : feed[m].id = e.id => feed[m].channel = e.channel /\ feed[m].date = e.date
      BY DEF IInv, FeedInv, Known
    <2>4. \A m, n \in DOMAIN feed' : feed'[m].id = feed'[n].id
              => feed'[m].channel = feed'[n].channel /\ feed'[m].date = feed'[n].date
      BY <1>3, <2>3 DEF IInv, FeedInv
    <2> QED
      BY <2>1, <2>2, <2>4 DEF FeedInv
  <1>7. CursorInv'
    BY <1>1, <1>2, <1>3 DEF IInv, CursorInv, TypeOK
  <1>8. CursorSkipsNothing'
    <2>1. ASSUME cursor # NoCursor
          PROVE  cursor.pos \in Nat /\ \A n \in 1..cursor.pos : n \in DOMAIN feed /\ feed'[n] = feed[n]
      BY <1>2, <1>3, <2>1 DEF IInv, CursorInv, TypeOK
    <2> QED
      BY <1>1, <2>1 DEF IInv, CursorSkipsNothing
  <1>9. SeenReachesSubscribers'
    <2> SUFFICES ASSUME NEW n \in DOMAIN feed', NEW u \in User,
                        feed'[n].id \in seen',
                        ~\E m \in DOMAIN feed' : feed'[m].id = feed'[n].id /\ feed'[m].gone,
                        since'[u][feed'[n].channel] # NoInstant,
                        feed'[n].date > since'[u][feed'[n].channel]
                 PROVE  <<feed'[n].id, u>> \in outbox'
      BY DEF SeenReachesSubscribers, Deleted
    <2>1. PICK m \in DOMAIN feed : /\ feed[m].id = feed'[n].id /\ feed[m].channel = feed'[n].channel
                                   /\ feed[m].date = feed'[n].date
      <3>1. CASE n \in DOMAIN feed
        BY <1>3, <3>1
      <3>2. CASE n = Len(feed) + 1
        BY <1>1, <1>3, <3>2 DEF IInv, FeedInv
      <3> QED
        BY <1>3, <3>1, <3>2
    <2>2. ~Deleted(feed[m].id)
      BY <1>3, <2>1 DEF Deleted
    <2> QED
      BY <1>1, <2>1, <2>2 DEF IInv, SeenReachesSubscribers
  <1> QED
    BY <1>4, <1>5, <1>6, <1>7, <1>8, <1>9 DEF IInv

\* The posts known after a change.
LEMMA KnownAppend ==
  ASSUME TypeOK, NEW e \in Change, feed' = Append(feed, e)
  PROVE  Known' = Known \cup {e.id}
  <1>1. /\ DOMAIN feed' = DOMAIN feed \cup {Len(feed) + 1}
        /\ \A n \in DOMAIN feed : feed'[n] = feed[n]
        /\ feed'[Len(feed) + 1] = e
    BY AppendFacts DEF TypeOK
  <1> QED
    BY <1>1 DEF Known

LEMMA AppearInv ==
  ASSUME IInv, NEW c \in Channel, NEW date \in Instant, Appear(c, date)
  PROVE  IInv'
  <1> DEFINE e == [id |-> Cardinality(Known) + 1, channel |-> c, date |-> date, gone |-> FALSE]
  <1>1. /\ Cardinality(Known) < MaxPosts /\ date \in {now, now - 1} \cap Instant
        /\ feed' = Append(feed, e)
        /\ UNCHANGED <<now, lists, state, rows, emitted, published, ticks, faults>>
    BY DEF Appear
  <1>2. PICK k \in 0..MaxPosts : Known = 1..k
    BY DEF IInv, FeedInv
  <1>3. Cardinality(Known) = k
    BY <1>2, FS_Interval
  <1>4. e \in Change /\ e.id = k + 1 /\ k + 1 \in 0..MaxPosts
    BY <1>1, <1>3 DEF Change, Post
  <1>5. Known' = Known \cup {k + 1}
    <2> HIDE DEF e
    <2> QED
      BY <1>1, <1>4, KnownAppend DEF IInv
  <1>6. Known' = 1..k + 1 /\ Known \subseteq 1..k + 1 /\ e.id \notin Known
    BY <1>2, <1>4, <1>5
  <1>7. e.date <= now /\ faults' \in 0..MaxFaults
    BY <1>1 DEF IInv, TypeOK, Instant
  <1> HIDE DEF e
  <1> QED
    BY <1>1, <1>4, <1>6, <1>7, AppendInv

LEMMA AlterInv ==
  ASSUME IInv, NEW n \in DOMAIN feed, NEW gone \in BOOLEAN, Alter(n, gone)
  PROVE  IInv'
  <1> DEFINE e == [feed[n] EXCEPT !.gone = gone]
  <1>1. /\ feed' = Append(feed, e) /\ faults < MaxFaults /\ faults' = faults + 1
        /\ UNCHANGED <<now, lists, state, rows, emitted, published, ticks>>
    BY DEF Alter, Fault
  <1>2. feed[n] \in Change
    BY ElementFact DEF IInv, TypeOK
  <1>3. e \in Change /\ e.id = feed[n].id /\ e.channel = feed[n].channel /\ e.date = feed[n].date
    BY <1>2 DEF Change
  <1>4. Known' = Known \cup {e.id}
    <2> HIDE DEF e
    <2> QED
      BY <1>1, <1>3, KnownAppend DEF IInv
  <1>5. Known' = Known
    BY <1>3, <1>4 DEF Known
  <1>6. e.date <= now
    BY <1>3 DEF IInv, FeedInv
  <1>7. faults' \in 0..MaxFaults
    BY <1>1 DEF IInv, TypeOK
  <1> HIDE DEF e
  <1> QED
    BY <1>1, <1>3, <1>5, <1>6, <1>7, AppendInv

\* A request while nobody holds the row: it drops rows, or adds some of this instant.
LEMMA RequestInv ==
  ASSUME IInv, NEW u \in User, Request(u), since' \in Subscriptions,
         \A v \in User, c \in Channel : since'[v][c] \in {since[v][c], now, NoInstant}
  PROVE  IInv'
  <1>1. /\ lock = None /\ users' = users \cup {u}
        /\ UNCHANGED <<now, feed, starting, cursor, sinceAt, retryAt, stopped, seen, outbox,
                       emitted, published, lock, view, pc, at, round, pending, faults>>
    BY DEF Request, state, rows, ticks, platform
  <1>2. TypeOK'
    BY <1>1 DEF IInv, TypeOK
  <1>3. PollInv' /\ DeliveryInv'
    BY <1>1, TicksRest DEF ticks
  <1>4. FeedInv' /\ CursorInv' /\ CursorSkipsNothing'
    BY <1>1 DEF IInv, FeedInv, Known, CursorInv, CursorSkipsNothing
  <1>5. SeenReachesSubscribers'
    <2> SUFFICES ASSUME NEW n \in DOMAIN feed, NEW v \in User,
                        feed[n].id \in seen, ~Deleted(feed[n].id),
                        since'[v][feed[n].channel] # NoInstant,
                        feed[n].date > since'[v][feed[n].channel]
                 PROVE  <<feed[n].id, v>> \in outbox
      BY <1>1 DEF SeenReachesSubscribers, Deleted
    <2>1. feed[n] \in Change
      BY ElementFact DEF IInv, TypeOK
    <2>2. feed[n].channel \in Channel /\ feed[n].date \in Int /\ now \in Int /\ feed[n].date <= now
      BY <2>1 DEF IInv, FeedInv, TypeOK, Change, Instant
    <2>3. since'[v][feed[n].channel] = since[v][feed[n].channel]
      BY <2>2
    <2> QED
      BY <2>3 DEF IInv, SeenReachesSubscribers
  <1> QED
    BY <1>2, <1>3, <1>4, <1>5 DEF IInv

\* What the inserts of a request leave of the rows.
LEMMA SubscribedFacts ==
  ASSUME TypeOK, NEW u \in User, NEW new
  PROVE  /\ Subscribed(u, new) \in Subscriptions
         /\ \A v \in User, c \in Channel : Subscribed(u, new)[v][c] \in {since[v][c], now}
  <1>1. now \in Instant /\ since \in [User -> [Channel -> Instant \cup {NoInstant}]]
    BY DEF TypeOK, Subscriptions
  <1> DEFINE row == [c \in Channel |-> IF c \in new /\ since[u][c] = NoInstant THEN now ELSE since[u][c]]
  <1>2. row \in [Channel -> Instant \cup {NoInstant}]
    BY <1>1
  <1>3. \A c \in Channel : row[c] \in {since[u][c], now}
    OBVIOUS
  <1>4. Subscribed(u, new) = [since EXCEPT ![u] = row]
    BY DEF Subscribed
  <1> HIDE DEF row
  <1> QED
    BY <1>1, <1>2, <1>3, <1>4 DEF Subscriptions

LEMMA ListInv ==
  ASSUME IInv, NEW u \in User, List(u)
  PROVE  IInv'
  BY SubscribedFacts, RequestInv DEF List, IInv

LEMMA AddRemoveInv ==
  ASSUME IInv, NEW u \in User, NEW c \in Channel, Add(u, c) \/ Remove(u, c)
  PROVE  IInv'
  <1>1. TypeOK
    BY DEF IInv
  <1>2. CASE Add(u, c)
    BY <1>1, <1>2, SubscribedFacts, RequestInv DEF Add
  <1>3. CASE Remove(u, c)
    <2> DEFINE S == Subscribed(u, Seeds(u))
    <2>1. since' = [S EXCEPT ![u][c] = NoInstant] /\ Request(u)
      BY <1>3 DEF Remove
    <2>2. S \in Subscriptions /\ \A v \in User, d \in Channel : S[v][d] \in {since[v][d], now}
      BY <1>1, SubscribedFacts
    <2> HIDE DEF S
    <2>3. since' \in Subscriptions
      BY <2>1, <2>2 DEF Subscriptions
    <2>4. \A v \in User, d \in Channel : since'[v][d] \in {S[v][d], NoInstant}
      BY <2>1, <2>2 DEF Subscriptions
    <2>5. \A v \in User, d \in Channel : since'[v][d] \in {since[v][d], now, NoInstant}
      BY <2>2, <2>4
    <2> QED
      BY <2>1, <2>3, <2>5, RequestInv
  <1> QED
    BY <1>2, <1>3

LEMMA SeedSettingInv ==
  ASSUME IInv, SeedSetting
  PROVE  IInv'
  <1>1. /\ starting' = Starting
        /\ UNCHANGED <<now, feed, users, since, cursor, sinceAt, retryAt, stopped, seen, outbox,
                       emitted, published, lock, view, pc, at, round, pending, faults>>
    BY DEF SeedSetting, state, rows, ticks, platform
  <1>2. TypeOK'
    BY <1>1 DEF IInv, TypeOK
  <1>3. PollInv' /\ DeliveryInv'
    BY <1>1, TicksRest DEF ticks
  <1>4. FeedInv' /\ CursorInv' /\ CursorSkipsNothing'
    BY <1>1 DEF IInv, FeedInv, Known, CursorInv, CursorSkipsNothing
  <1>5. SeenReachesSubscribers'
    BY <1>1 DEF IInv, SeenReachesSubscribers, Deleted
  <1> QED
    BY <1>2, <1>3, <1>4, <1>5 DEF IInv

LEMMA TickDiesInv ==
  ASSUME IInv, NEW h \in Handler, TickDies(h)
  PROVE  IInv'
  <1>1. /\ faults < MaxFaults /\ faults' = faults + 1
        /\ lock' = (IF lock = h THEN None ELSE lock)
        /\ view' = [view EXCEPT ![h] = NoLists]
        /\ pending' = [pending EXCEPT ![h] = {}]
        /\ at' = [at EXCEPT ![h] = 0] /\ round' = [round EXCEPT ![h] = 1] /\ Goto(h, "idle")
        /\ UNCHANGED <<lists, state, rows, emitted, published, platform>>
    BY DEF TickDies, Fault
  <1>2. FeedInv' /\ CursorInv' /\ SeenReachesSubscribers' /\ CursorSkipsNothing'
    BY <1>1, DataInv
  <1>3. UNCHANGED <<now, feed, starting, users, since, cursor, sinceAt, retryAt, stopped, seen, outbox>>
    BY <1>1 DEF lists, state, rows, platform
  <1>4. /\ pc' \in [Handler -> {"idle", "read", "publish", "confirm", "poll", "fetch"}]
        /\ pc'[h] = "idle" /\ \A g \in Handler : g # h => pc'[g] = pc[g]
    BY <1>1, GotoFacts DEF IInv
  <1>5. view' \in [Handler -> Subscriptions] /\ \A g \in Handler : g # h => view'[g] = view[g]
    BY <1>1 DEF IInv, TypeOK, NoLists, Subscriptions
  <1>6. pending' \in [Handler -> SUBSET outbox] /\ \A g \in Handler : g # h => pending'[g] = pending[g]
    BY <1>1 DEF IInv, TypeOK
  <1>7. at' \in [Handler -> Instant] /\ round' \in [Handler -> 1..2] /\ faults' \in 0..MaxFaults
    BY <1>1, InstantFacts DEF IInv, TypeOK
  <1>8. TypeOK'
    BY <1>1, <1>3, <1>4, <1>5, <1>6, <1>7 DEF IInv, TypeOK
  <1>9. PollInv'
    BY <1>1, <1>3, <1>4, <1>5 DEF IInv, PollInv
  <1>10. DeliveryInv'
    BY <1>1, <1>4, <1>6 DEF IInv, DeliveryInv, Current
  <1> QED
    BY <1>2, <1>8, <1>9, <1>10 DEF IInv

-------------------------------------------------------------------------------
(* The answers of the platform. *)

\* Where a poll reads from, and where a restart does.
LEMMA ReadFacts ==
  ASSUME TypeOK, NEW h \in Handler
  PROVE  /\ ReadFrom(h) \in NoInstant..MaxTime /\ sinceAt <= ReadFrom(h)
         /\ RestartFrom(h) \in NoInstant..MaxTime /\ ReadFrom(h) <= RestartFrom(h)
         /\ Later(RestartFrom(h), at[h] - Margin) \in NoInstant..MaxTime
         /\ RestartFrom(h) <= Later(RestartFrom(h), at[h] - Margin)
  <1>1. at[h] \in 0..MaxTime /\ sinceAt \in NoInstant..MaxTime /\ NoInstant = -(Window + 1)
    BY DEF TypeOK, Instant, NoInstant
  <1>2. ReadFrom(h) \in NoInstant..MaxTime /\ sinceAt <= ReadFrom(h)
    BY <1>1 DEF ReadFrom
  <1>3. at[h] - Margin \in Int /\ at[h] - Margin <= MaxTime
    BY <1>1
  <1>4. RestartFrom(h) \in NoInstant..MaxTime /\ ReadFrom(h) <= RestartFrom(h)
    BY <1>1, <1>2, <1>3 DEF RestartFrom, Later
  <1>5. /\ Later(RestartFrom(h), at[h] - Margin) \in NoInstant..MaxTime
        /\ RestartFrom(h) <= Later(RestartFrom(h), at[h] - Margin)
    BY <1>1, <1>3, <1>4 DEF Later
  <1> QED
    BY <1>2, <1>4, <1>5

\* A tick gives the row back.
LEMMA EndPollFacts ==
  ASSUME IInv, NEW h \in Handler, pc[h] = "fetch", EndPoll(h), UNCHANGED <<since, at, pending, emitted, published>>
  PROVE  /\ lock' = None /\ view' \in [Handler -> Subscriptions]
         /\ pc' \in [Handler -> {"idle", "read", "publish", "confirm", "poll", "fetch"}]
         /\ round' \in [Handler -> 1..2]
         /\ PollInv' /\ DeliveryInv'
  <1>1. /\ lock' = None /\ view' = [view EXCEPT ![h] = NoLists]
        /\ round' = [round EXCEPT ![h] = 2] /\ Goto(h, "read")
    BY DEF EndPoll
  <1>2. /\ pc' \in [Handler -> {"idle", "read", "publish", "confirm", "poll", "fetch"}]
        /\ pc'[h] = "read" /\ \A g \in Handler : g # h => pc'[g] = pc[g]
    BY <1>1, GotoFacts DEF IInv
  <1>3. view' \in [Handler -> Subscriptions]
    BY <1>1 DEF IInv, TypeOK, NoLists, Subscriptions
  <1>4. round' \in [Handler -> 1..2]
    BY <1>1 DEF IInv, TypeOK
  <1>5. \A g \in Handler : pc'[g] # "fetch"
    BY <1>2 DEF IInv, PollInv
  <1>6. PollInv'
    BY <1>1, <1>5 DEF PollInv
  <1>7. DeliveryInv'
    BY <1>2 DEF IInv, DeliveryInv, Current
  <1> QED
    BY <1>1, <1>2, <1>3, <1>4, <1>6, <1>7

\* A request that failed moves at most since, and forward.
LEMMA FailureInv ==
  ASSUME IInv, NEW h \in Handler, pc[h] = "fetch", EndPoll(h), AfterFailure(h),
         faults' \in 0..MaxFaults, retryAt' \in NoInstant..MaxTime + Delay, stopped' \in BOOLEAN,
         UNCHANGED <<lists, rows, emitted, published, at, pending, platform>>
  PROVE  IInv'
  <1>1. UNCHANGED <<now, feed, starting, users, since, seen, outbox, emitted, published, at, pending>>
    BY DEF lists, rows, platform
  <1>2. TypeOK
    BY DEF IInv
  <1>3. /\ lock' = None /\ view' \in [Handler -> Subscriptions]
        /\ pc' \in [Handler -> {"idle", "read", "publish", "confirm", "poll", "fetch"}]
        /\ round' \in [Handler -> 1..2]
        /\ PollInv' /\ DeliveryInv'
    BY <1>1, EndPollFacts
  <1>4. /\ cursor' \in {cursor, NoCursor} /\ sinceAt' \in NoInstant..MaxTime /\ sinceAt <= sinceAt'
    BY <1>2, ReadFacts DEF AfterFailure, TypeOK
  <1>5. TypeOK'
    BY <1>1, <1>2, <1>3, <1>4 DEF TypeOK
  <1>6. FeedInv' /\ CursorInv'
    BY <1>1, <1>4 DEF IInv, FeedInv, Known, CursorInv
  <1>7. SeenReachesSubscribers'
    BY <1>1 DEF IInv, SeenReachesSubscribers, Deleted
  <1>8. CursorSkipsNothing'
    <2> SUFFICES ASSUME cursor # NoCursor, cursor' = cursor, NEW n \in 1..cursor.pos,
                        feed[n].channel \in cursor.set, feed[n].id \notin seen
                 PROVE  feed[n].date < sinceAt'
      BY <1>1, <1>4 DEF CursorSkipsNothing
    <2>1. cursor.pos \in Nat /\ cursor.pos <= Len(feed) /\ feed \in Seq(Change)
      BY <1>2 DEF IInv, CursorInv, TypeOK
    <2>2. feed[n] \in Change
      BY <2>1
    <2>3. feed[n].date < sinceAt /\ feed[n].date \in Int /\ sinceAt \in Int
      BY <1>2, <2>2 DEF IInv, CursorSkipsNothing, TypeOK, Change, Instant, NoInstant
    <2> QED
      BY <1>4, <2>3 DEF NoInstant
  <1> QED
    BY <1>3, <1>5, <1>6, <1>7, <1>8 DEF IInv

LEMMA DelayedInv ==
  ASSUME IInv, NEW h \in Handler, Delayed(h)
  PROVE  IInv'
  <1>1. retryAt' \in NoInstant..MaxTime + Delay
    BY DEF Delayed, IInv, TypeOK, Instant, NoInstant
  <1>2. faults' \in 0..MaxFaults /\ stopped' \in BOOLEAN
    BY DEF Delayed, Fault, IInv, TypeOK
  <1> QED
    BY <1>1, <1>2, FailureInv DEF Delayed

LEMMA RefusedInv ==
  ASSUME IInv, NEW h \in Handler, Refused(h)
  PROVE  IInv'
  <1>1. faults' \in 0..MaxFaults /\ stopped' \in BOOLEAN /\ retryAt' \in NoInstant..MaxTime + Delay
    BY DEF Refused, Fault, IInv, TypeOK
  <1> QED
    BY <1>1, FailureInv DEF Refused

\* A page takes the first of the fitting changes; the next cursor passes no others.
LEMMA PageFacts ==
  ASSUME TypeOK, NEW h \in Handler
  PROVE  /\ NextCursor(h) = [set |-> Asked(h), pos |-> NextCursor(h).pos]
         /\ NextCursor(h).pos \in 0..Len(feed)
         /\ \A n \in Fitting(h) : n <= NextCursor(h).pos => n \in Page(h)
         /\ Page(h) \subseteq Fitting(h) /\ Fitting(h) \subseteq DOMAIN feed
  <1>1. /\ Len(feed) \in Nat /\ DOMAIN feed = 1..Len(feed)
        /\ Page(h) \subseteq Fitting(h) /\ Fitting(h) \subseteq 1..Len(feed)
    BY DEF TypeOK, Page, Fitting
  <1>2. NextCursor(h) = [set |-> Asked(h), pos |-> NextCursor(h).pos]
    BY DEF NextCursor
  <1>3. CASE Page(h) = Fitting(h)
    <2>1. NextCursor(h).pos = Len(feed)
      BY <1>3 DEF NextCursor
    <2> QED
      BY <1>1, <1>2, <1>3, <2>1
  <1>4. CASE Page(h) # Fitting(h)
    <2> DEFINE Upto(n) == {m \in Fitting(h) : m <= n}
    <2>1. \A n : Upto(n) \subseteq 1..Len(feed) /\ IsFiniteSet(Upto(n))
      <3>1. IsFiniteSet(1..Len(feed))
        BY <1>1, FS_Interval
      <3>2. \A n : Upto(n) \subseteq 1..Len(feed)
        BY <1>1
      <3> HIDE DEF Upto
      <3> QED
        BY <3>1, <3>2, FS_Subset
    <2>2. PICK l \in Fitting(h) : \A m \in Fitting(h) : l <= m
      BY <1>1, <1>4, LeastExists
    <2>3. Upto(l) = {l}
      BY <1>1, <2>2
    <2>4. l \in Page(h)
      <3>1. Cardinality(Upto(l)) = 1
        BY <2>3, FS_Singleton
      <3>2. Cardinality(Upto(l)) <= PageSize
        BY <3>1
      <3> QED
        BY <2>2, <3>2 DEF Page
    <2>5. PICK g \in Page(h) : \A m \in Page(h) : m <= g
      <3>1. Page(h) \subseteq Nat /\ Page(h) # {} /\ \A n \in Page(h) : n <= Len(feed)
        BY <1>1, <2>4
      <3> QED
        BY <1>1, <3>1, GreatestExists
    <2>6. NextCursor(h).pos \in Page(h) /\ \A m \in Page(h) : m <= NextCursor(h).pos
      BY <1>4, <2>5 DEF NextCursor
    <2> DEFINE p == NextCursor(h).pos
    <2>7. p \in 1..Len(feed) /\ Cardinality(Upto(p)) <= PageSize
      BY <1>1, <2>6 DEF Page
    <2>8. ASSUME NEW n \in Fitting(h), n <= p
          PROVE  n \in Page(h)
      <3> HIDE DEF p
      <3>1. n \in Nat /\ Upto(n) \subseteq Upto(p)
        BY <1>1, <2>7, <2>8
      <3>2. Cardinality(Upto(n)) <= Cardinality(Upto(p))
        BY <2>1, <3>1, FS_Subset
      <3>3. Cardinality(Upto(n)) \in Nat /\ Cardinality(Upto(p)) \in Nat
        BY <2>1, FS_CardinalityType
      <3>4. Cardinality(Upto(n)) <= PageSize
        BY <2>7, <3>2, <3>3
      <3> QED
        BY <3>4 DEF Page
    <2> QED
      BY <1>1, <1>2, <2>7, <2>8
  <1> QED
    BY <1>3, <1>4

\* Each post of the page that was unseen has a fresh change, the first of the page.
LEMMA FreshFacts ==
  ASSUME TypeOK, NEW h \in Handler
  PROVE  /\ Fresh(h) \subseteq DOMAIN feed
         /\ \A n \in Page(h) : feed[n].id \in seen \cup {feed[m].id : m \in Fresh(h)}
  <1>1. Page(h) \subseteq DOMAIN feed /\ DOMAIN feed \subseteq Nat
    BY PageFacts DEF TypeOK
  <1>2. ASSUME NEW n \in Page(h), feed[n].id \notin seen
        PROVE  \E m \in Fresh(h) : feed[m].id = feed[n].id
    <2> DEFINE S == {m \in Page(h) : feed[m].id = feed[n].id}
    <2>1. S \subseteq Nat /\ S # {}
      BY <1>1, <1>2
    <2>2. PICK l \in S : \A m \in S : l <= m
      <3> HIDE DEF S
      <3> QED
        BY <2>1, LeastExists
    <2>3. l \in Fresh(h)
      BY <1>2, <2>2 DEF Fresh
    <2> QED
      BY <2>2, <2>3
  <1> QED
    BY <1>1, <1>2 DEF Fresh

\* A page commits its posts, its deliveries and the next cursor together.
LEMMA AcceptInv ==
  ASSUME IInv, NEW h \in Handler, Accept(h)
  PROVE  IInv'
  <1> DEFINE ids == {feed[n].id : n \in Fresh(h)}
  <1>1. /\ pc[h] = "fetch" /\ EndPoll(h)
        /\ seen' = seen \cup ids
        /\ outbox' = outbox \cup
             {d \in Post \X User : \E n \in Fresh(h) : feed[n].id = d[1] /\ Eligible(n, d[2], h)}
        /\ cursor' = NextCursor(h)
        /\ sinceAt' = Later(RestartFrom(h), at[h] - Margin) /\ retryAt' = NoInstant
        /\ UNCHANGED <<lists, stopped, emitted, published, at, pending, platform, faults>>
    BY DEF Accept
  <1>2. UNCHANGED <<now, feed, starting, users, since, stopped, emitted, published, at, pending, faults>>
    BY <1>1 DEF lists, platform
  <1>3. TypeOK /\ feed \in Seq(Change) /\ view[h] = since
    BY <1>1 DEF IInv, TypeOK, PollInv
  <1>4. /\ lock' = None /\ view' \in [Handler -> Subscriptions]
        /\ pc' \in [Handler -> {"idle", "read", "publish", "confirm", "poll", "fetch"}]
        /\ round' \in [Handler -> 1..2]
        /\ PollInv' /\ DeliveryInv'
    BY <1>1, <1>2, EndPollFacts
  <1>5. /\ sinceAt' \in NoInstant..MaxTime /\ RestartFrom(h) <= sinceAt' /\ sinceAt <= ReadFrom(h)
        /\ ReadFrom(h) <= RestartFrom(h) /\ ReadFrom(h) \in Int /\ RestartFrom(h) \in Int
    BY <1>1, <1>3, ReadFacts DEF NoInstant
  <1>6. /\ cursor' = [set |-> Asked(h), pos |-> NextCursor(h).pos]
        /\ cursor' \in [set : SUBSET Channel, pos : Nat]
        /\ cursor'.set = Asked(h) /\ cursor'.pos = NextCursor(h).pos /\ cursor'.pos \in 0..Len(feed)
    <2>1. NextCursor(h) = [set |-> Asked(h), pos |-> NextCursor(h).pos] /\ NextCursor(h).pos \in 0..Len(feed)
      BY <1>3, PageFacts
    <2>2. Len(feed) \in Nat /\ Asked(h) \subseteq Channel
      BY <1>3 DEF Asked, Union
    <2> QED
      BY <1>1, <2>1, <2>2
  <1>7. /\ Fresh(h) \subseteq DOMAIN feed
        /\ \A n \in Page(h) : feed[n].id \in seen'
        /\ \A n \in Fitting(h) : n <= cursor'.pos => n \in Page(h)
    BY <1>1, <1>3, <1>6, FreshFacts, PageFacts
  <1>8. ids \subseteq Known /\ \A n \in DOMAIN feed : feed[n] \in Change
    BY <1>3, <1>7, ElementFact DEF Known
  <1>9. TypeOK'
    <2>1. seen' \subseteq Post
      <3>1. \A n \in Fresh(h) : feed[n].id \in Post
        BY <1>7, <1>8 DEF Change
      <3>2. ids \subseteq Post
        BY <3>1
      <3> QED
        BY <1>1, <1>3, <3>2 DEF TypeOK
    <2>2. outbox \subseteq outbox' /\ outbox' \subseteq Post \X User
      BY <1>1, <1>3 DEF TypeOK
    <2>3. retryAt' \in NoInstant..MaxTime + Delay
      BY <1>1 DEF NoInstant
    <2>4. emitted' \subseteq outbox' /\ published' \subseteq outbox' /\ pending' \in [Handler -> SUBSET outbox']
      BY <1>2, <1>3, <2>2 DEF TypeOK
    <2> QED
      BY <1>2, <1>3, <1>4, <1>5, <1>6, <2>1, <2>2, <2>3, <2>4 DEF TypeOK
  <1>10. FeedInv' /\ CursorInv'
    <2>1. Known' = Known /\ seen' \subseteq Known
      BY <1>1, <1>2, <1>8 DEF IInv, FeedInv, Known
    <2>2. FeedInv'
      BY <1>2, <2>1 DEF IInv, FeedInv
    <2>3. CursorInv'
      BY <1>2, <1>6 DEF CursorInv
    <2> QED
      BY <2>2, <2>3
  <1>11. SeenReachesSubscribers'
    <2> SUFFICES ASSUME NEW n \in DOMAIN feed, NEW u \in User, feed[n].id \in seen', ~Deleted(feed[n].id),
                        since[u][feed[n].channel] # NoInstant,
                        feed[n].date > since[u][feed[n].channel]
                 PROVE  <<feed[n].id, u>> \in outbox'
      BY <1>2 DEF SeenReachesSubscribers, Deleted
    <2>1. CASE feed[n].id \in seen
      BY <1>1, <2>1 DEF IInv, SeenReachesSubscribers
    <2>2. CASE feed[n].id \in ids
      <3>1. PICK m \in Fresh(h) : feed[m].id = feed[n].id
        BY <2>2
      <3>2. /\ feed[m].channel = feed[n].channel /\ feed[m].date = feed[n].date /\ feed[m].gone = FALSE
        BY <1>7, <1>8, <3>1 DEF IInv, FeedInv, Deleted, Change
      <3>3. feed[n].id \in Post /\ feed[n].channel \in Channel /\ feed[n].date \in Int
        BY <1>8 DEF Change, Instant
      <3>4. since[u][feed[n].channel] \in Int
        <4>1. since[u][feed[n].channel] \in Instant \cup {NoInstant}
          BY <1>3, <3>3 DEF TypeOK, Subscriptions
        <4> QED
          BY <4>1 DEF Instant, NoInstant
      <3>5. Eligible(m, u, h)
        BY <1>3, <3>2, <3>3, <3>4 DEF Eligible
      <3> DEFINE d == <<feed[n].id, u>>
      <3>6. d \in Post \X User /\ d[1] = feed[m].id /\ d[2] = u
        BY <3>1, <3>3
      <3> HIDE DEF d
      <3>7. d \in outbox'
        BY <1>1, <3>5, <3>6
      <3> QED
        BY <3>7 DEF d
    <2> QED
      BY <1>1, <2>1, <2>2
  <1>12. CursorSkipsNothing'
    <2> SUFFICES ASSUME NEW n \in 1..cursor'.pos, feed[n].channel \in Asked(h), feed[n].id \notin seen'
                 PROVE  feed[n].date < sinceAt'
      BY <1>2, <1>6 DEF CursorSkipsNothing
    <2>1. n \in DOMAIN feed /\ n \in Nat /\ n <= cursor'.pos
      BY <1>3, <1>6
    <2>2. feed[n].date \in Int /\ sinceAt \in Int /\ sinceAt' \in Int
      BY <1>3, <1>5, <1>8, <2>1 DEF TypeOK, Change, Instant, NoInstant
    <2>3. n \notin Fitting(h)
      BY <1>7, <2>1
    <2>4. CASE cursor = NoCursor \/ Stale(h)
      <3>1. ~(feed[n].date >= RestartFrom(h))
        BY <2>1, <2>3, <2>4 DEF Fitting
      <3> QED
        BY <1>5, <2>2, <3>1
    <2>5. CASE cursor # NoCursor /\ ~Stale(h)
      <3>1. ~(n > cursor.pos)
        BY <2>1, <2>3, <2>5 DEF Fitting
      <3>2. cursor.set = Asked(h) /\ cursor.pos \in Nat
        BY <1>3, <2>5 DEF Stale, TypeOK
      <3>3. n \in 1..cursor.pos
        BY <1>3, <1>6, <2>1, <3>1, <3>2
      <3>4. feed[n].date < sinceAt
        BY <1>1, <2>5, <3>2, <3>3 DEF IInv, CursorSkipsNothing
      <3> QED
        BY <1>5, <2>2, <3>4
    <2> QED
      BY <2>4, <2>5
  <1> QED
    BY <1>4, <1>9, <1>10, <1>11, <1>12 DEF IInv

-------------------------------------------------------------------------------
(* The theorems. *)

LEMMA InitInv ==
  ASSUME Init
  PROVE  IInv
  <1>1. TypeOK
    <2>1. NoLists \in Subscriptions
      BY DEF NoLists, Subscriptions
    <2>2. NoInstant \in NoInstant..MaxTime /\ NoInstant \in NoInstant..MaxTime + Delay
      BY DEF NoInstant
    <2>3. feed \in Seq(Change)
      BY DEF Init
    <2>4. /\ now \in Instant /\ view \in [Handler -> Subscriptions]
          /\ pc \in [Handler -> {"idle", "read", "publish", "confirm", "poll", "fetch"}]
          /\ at \in [Handler -> Instant] /\ round \in [Handler -> 1..2]
          /\ pending \in [Handler -> SUBSET outbox] /\ faults \in 0..MaxFaults
      BY <2>1, InstantFacts DEF Init
    <2>5. /\ starting \subseteq Channel /\ users \subseteq User /\ since \in Subscriptions
          /\ cursor \in [set : SUBSET Channel, pos : Nat] \cup {NoCursor}
          /\ sinceAt \in NoInstant..MaxTime /\ retryAt \in NoInstant..MaxTime + Delay /\ stopped \in BOOLEAN
      BY <2>1, <2>2 DEF Init
    <2>6. /\ seen \subseteq Post /\ outbox \subseteq Post \X User
          /\ emitted \subseteq outbox /\ published \subseteq outbox
          /\ lock \in Handler \cup {None}
      BY DEF Init
    <2> QED
      BY <2>3, <2>4, <2>5, <2>6 DEF TypeOK
  <1>2. FeedInv
    <2>1. feed = <<>> /\ seen = {} /\ MaxPosts \in Nat
      BY NumbersAssumption DEF NumbersAssumption, Init
    <2>2. DOMAIN feed = {} /\ Known = 1..0
      BY <2>1 DEF Known
    <2>3. \E k \in 0..MaxPosts : Known = 1..k
      BY <2>1, <2>2
    <2> QED
      BY <2>1, <2>2, <2>3 DEF FeedInv
  <1>3. PollInv /\ DeliveryInv /\ CursorInv
    BY DEF Init, PollInv, DeliveryInv, CursorInv
  <1>4. SeenReachesSubscribers /\ CursorSkipsNothing
    BY DEF Init, SeenReachesSubscribers, CursorSkipsNothing
  <1> QED
    BY <1>1, <1>2, <1>3, <1>4 DEF IInv

LEMMA StutterInv ==
  ASSUME IInv, UNCHANGED vars
  PROVE  IInv'
  <1>1. UNCHANGED <<now, feed, starting, users, since, cursor, sinceAt, retryAt, stopped, seen, outbox,
                    emitted, published, lock, view, pc, at, round, pending, faults>>
    BY DEF vars
  <1>2. FeedInv' /\ CursorInv' /\ SeenReachesSubscribers' /\ CursorSkipsNothing'
    BY <1>1, DataInv DEF lists, state, rows, platform
  <1>3. PollInv' /\ DeliveryInv'
    BY <1>1, TicksRest DEF ticks
  <1>4. TypeOK'
    BY <1>1 DEF IInv, TypeOK
  <1> QED
    BY <1>2, <1>3, <1>4 DEF IInv

LEMMA NextInv ==
  ASSUME IInv, [Next]_vars
  PROVE  IInv'
  <1>1. CASE Feed
    <2>1. CASE Pass
      BY <2>1, PassInv
    <2>2. ASSUME NEW c \in Channel, NEW t \in Instant, Appear(c, t)
          PROVE  IInv'
      BY <2>2, AppearInv
    <2>3. ASSUME NEW n \in DOMAIN feed, NEW gone \in BOOLEAN, Alter(n, gone)
          PROVE  IInv'
      BY <2>3, AlterInv
    <2> QED
      BY <1>1, <2>1, <2>2, <2>3 DEF Feed
  <1>2. CASE Lists
    BY <1>2, SeedSettingInv, ListInv, AddRemoveInv DEF Lists
  <1>3. ASSUME NEW h \in Handler,
               \/ \E t \in Instant : Tick(h, t)
               \/ Work(h) \/ Poll(h) \/ Delayed(h) \/ Refused(h) \/ TickDies(h)
        PROVE  IInv'
    <2>1. CASE \E t \in Instant : Tick(h, t)
      BY <2>1, TickInv
    <2>2. CASE Work(h)
      BY <2>2, ReadPendingInv, PublishInv, ConfirmInv, AcceptInv DEF Work
    <2>3. CASE Poll(h) \/ Delayed(h) \/ Refused(h) \/ TickDies(h)
      BY <2>3, PollInvariant, DelayedInv, RefusedInv, TickDiesInv
    <2> QED
      BY <1>3, <2>1, <2>2, <2>3
  <1>4. CASE UNCHANGED vars
    BY <1>4, StutterInv
  <1> QED
    BY <1>1, <1>2, <1>3, <1>4 DEF Next

\* The inductive invariant holds in every state of polling.
THEOREM Invariance == Spec => []IInv
  <1>1. Init => IInv
    BY InitInv
  <1>2. IInv /\ [Next]_vars => IInv'
    BY NextInv
  <1> QED
    BY <1>1, <1>2, PTL DEF Spec

\* Every row of the package and every tick keeps its type.
THEOREM PollingTypes == Spec => []TypeOK
  <1>1. IInv => TypeOK
    BY DEF IInv
  <1> QED
    BY <1>1, Invariance, PTL

\* A post that counts as seen reached everybody who had asked for its channel before it.
THEOREM SeenPostsReachSubscribers == Spec => []SeenReachesSubscribers
  <1>1. IInv => SeenReachesSubscribers
    BY DEF IInv
  <1> QED
    BY <1>1, Invariance, PTL

\* The one cursor over all lists passes no change of a channel in its set that is neither
\* seen nor older than since.
THEOREM CursorSkipsNoPost == Spec => []CursorSkipsNothing
  <1>1. IInv => CursorSkipsNothing
    BY DEF IInv
  <1> QED
    BY <1>1, Invariance, PTL

\* One tick at a time polls, and its lists are the current ones until it commits.
THEOREM OneTickPolls == Spec => [](\A g, h \in Handler : pc[g] = "fetch" /\ pc[h] = "fetch" => g = h /\ view[h] = since)
  <1>1. IInv => \A g, h \in Handler : pc[g] = "fetch" /\ pc[h] = "fetch" => g = h /\ view[h] = since
    BY DEF IInv, PollInv
  <1> QED
    BY <1>1, Invariance, PTL

\* A step that changes no row of the outbox.
LEMMA OnlyAcceptDelivers ==
  ASSUME Next
  PROVE  UNCHANGED outbox \/ \E h \in Handler : Accept(h)
  <1>1. Feed => UNCHANGED outbox
    BY DEF Feed, Pass, Appear, Alter, rows
  <1>2. Lists => UNCHANGED outbox
    BY DEF Lists, SeedSetting, List, Add, Remove, Request, rows
  <1>3. ASSUME NEW h \in Handler, NEW t \in Instant, Tick(h, t)
        PROVE  UNCHANGED outbox
    BY <1>3 DEF Tick, rows
  <1>4. ASSUME NEW h \in Handler, Work(h), ~Accept(h)
        PROVE  UNCHANGED outbox
    BY <1>4 DEF Work, ReadPending, Publish, Confirm, rows
  <1>5. ASSUME NEW h \in Handler, Poll(h) \/ Delayed(h) \/ Refused(h) \/ TickDies(h)
        PROVE  UNCHANGED outbox
    BY <1>5 DEF Poll, Delayed, Refused, TickDies, rows
  <1> QED
    BY <1>1, <1>2, <1>3, <1>4, <1>5 DEF Next

\* A post notifies its readers when it is first seen and never again.
THEOREM SeenPostsNotifyOnce == Spec => SeenNotifiesOnce
  <1>1. [Next]_vars => [\A d \in outbox' \ outbox : d[1] \notin seen]_vars
    <2> SUFFICES ASSUME Next
                 PROVE  \A d \in outbox' \ outbox : d[1] \notin seen
      OBVIOUS
    <2>1. CASE UNCHANGED outbox
      BY <2>1
    <2>2. ASSUME NEW h \in Handler, Accept(h)
          PROVE  \A d \in outbox' \ outbox : d[1] \notin seen
      BY <2>2 DEF Accept, Fresh
    <2> QED
      BY <2>1, <2>2, OnlyAcceptDelivers
  <1> QED
    BY <1>1, PTL DEF Spec, SeenNotifiesOnce

\* A delivery is marked only once its event stands in the stream.
THEOREM MarkedIsPublished == Spec => [](emitted \subseteq published)
  <1>1. IInv => emitted \subseteq published
    BY DEF IInv, DeliveryInv
  <1> QED
    BY <1>1, Invariance, PTL
===============================================================================
