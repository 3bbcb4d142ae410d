----------------------------- MODULE ChannelPolling -----------------------------
(***************************************************************************)
(* The tg-channels package: subscription lists, the one persisted cursor   *)
(* over the union of all lists, the posts already seen and the outbox of   *)
(* deliveries.  Ticks of several readers and the users' requests meet at   *)
(* one locked row; a tick publishes what is pending, polls one page under  *)
(* the lock, and publishes again.  The feed is the platform's: changes of  *)
(* posts in the order of its seq.                                          *)
(***************************************************************************)
EXTENDS Integers, Sequences, FiniteSets

CONSTANTS
    User, Channel,
    Starting,      \* the list the product setting seeds
    Handler,       \* readers that can each have one tick in progress
    None,          \* nobody holds the poll_state row
    NoCursor,
    ChannelLimit,  \* CHANNEL_LIMIT
    PageSize,      \* the limit parameter of a page
    Window,        \* how far back the first poll reads
    Margin,        \* RESTART_MARGIN
    Slack,         \* SUBSCRIPTION_SLACK
    Delay,         \* the Retry-After of the platform
    MaxTime,       \* bound: the last instant
    MaxPosts,      \* bound: posts in the feed
    MaxFeed,       \* bound: changes in the feed, posts and what is done to them
    MaxFaults      \* bound: ticks that die, polls that fail, posts that are altered

Instant == 0..MaxTime
NoInstant == -(Window + 1)
Post == 1..MaxPosts

ASSUME ListsAssumption == Starting \subseteq Channel /\ IsFiniteSet(Channel)
ASSUME NumbersAssumption ==
    /\ ChannelLimit \in Nat /\ PageSize \in Nat \ {0}
    /\ Window \in Nat /\ Margin \in Nat /\ Slack \in Nat /\ Delay \in Nat \ {0}
    /\ MaxTime \in Nat /\ MaxPosts \in Nat /\ MaxFeed \in Nat /\ MaxFaults \in Nat
ASSUME NoneAssumption == None \notin Handler /\ NoCursor \notin [set : SUBSET Channel, pos : Nat]

VARIABLES
    now,
    feed,        \* changes: [id, channel, date, gone], a tombstone has gone
    starting,    \* starting_list, empty until it is seeded
    users,       \* users whose list was initialized
    since,       \* subscriptions: subscribed_at, NoInstant where there is no row
    cursor,      \* poll_state.cursor: NoCursor or [set, pos]
    sinceAt,     \* poll_state.since_at
    retryAt,     \* poll_state.retry_at
    stopped,     \* poll_state.stopped
    seen,        \* seen_posts
    outbox,      \* deliveries: <<post, user>>
    emitted,     \* deliveries with emitted_at set
    published,   \* deliveries whose event stands in the stream
    lock,        \* the tick that holds the poll_state row
    view,        \* the subscriptions a tick read under the lock
    pc, at, round, pending,   \* where each tick stands
    faults

lists == <<starting, users, since>>
state == <<cursor, sinceAt, retryAt, stopped>>
rows == <<seen, outbox>>
ticks == <<lock, view, pc, at, round, pending>>
platform == <<now, feed>>
vars == <<now, feed, starting, users, since, cursor, sinceAt, retryAt, stopped, seen, outbox,
          emitted, published, lock, view, pc, at, round, pending, faults>>

Change == [id : Post, channel : Channel, date : Instant, gone : BOOLEAN]
Subscriptions == [User -> [Channel -> Instant \cup {NoInstant}]]

TypeOK ==
    /\ now \in Instant /\ feed \in Seq(Change)
    /\ starting \subseteq Channel /\ users \subseteq User /\ since \in Subscriptions
    /\ cursor \in [set : SUBSET Channel, pos : Nat] \cup {NoCursor}
    /\ sinceAt \in NoInstant..MaxTime /\ retryAt \in NoInstant..MaxTime + Delay /\ stopped \in BOOLEAN
    /\ seen \subseteq Post /\ outbox \subseteq Post \X User
    /\ emitted \subseteq outbox /\ published \subseteq outbox
    /\ lock \in Handler \cup {None} /\ view \in [Handler -> Subscriptions]
    /\ pc \in [Handler -> {"idle", "read", "publish", "confirm", "poll", "fetch"}]
    /\ at \in [Handler -> Instant] /\ round \in [Handler -> 1..2]
    /\ pending \in [Handler -> SUBSET outbox]
    /\ faults \in 0..MaxFaults

NoLists == [u \in User |-> [c \in Channel |-> NoInstant]]

Init ==
    /\ now = 0 /\ feed = <<>>
    /\ starting = {} /\ users = {} /\ since = NoLists
    /\ cursor = NoCursor /\ sinceAt = NoInstant /\ retryAt = NoInstant /\ stopped = FALSE
    /\ seen = {} /\ outbox = {} /\ emitted = {} /\ published = {}
    /\ lock = None /\ view = [h \in Handler |-> NoLists]
    /\ pc = [h \in Handler |-> "idle"] /\ at = [h \in Handler |-> 0]
    /\ round = [h \in Handler |-> 1] /\ pending = [h \in Handler |-> {}]
    /\ faults = 0

-------------------------------------------------------------------------------
(* The platform, and time. *)

Later(t1, t2) == IF t1 >= t2 THEN t1 ELSE t2
Fault == faults < MaxFaults /\ faults' = faults + 1

Known == {feed[n].id : n \in DOMAIN feed}

\* A post of a channel is fetched, up to an instant after its publication.
Appear(c, date) ==
    /\ Len(feed) < MaxFeed /\ Cardinality(Known) < MaxPosts
    /\ date \in {now, now - 1} \cap Instant
    /\ feed' = Append(feed, [id |-> Cardinality(Known) + 1, channel |-> c, date |-> date, gone |-> FALSE])
    /\ UNCHANGED <<now, lists, state, rows, emitted, published, ticks, faults>>

\* A post is edited or deleted: the change comes with a higher seq.
Alter(n, gone) ==
    /\ Len(feed) < MaxFeed /\ n \in DOMAIN feed /\ Fault
    /\ \A m \in DOMAIN feed : feed[m].id = feed[n].id => ~feed[m].gone
    /\ feed' = Append(feed, [feed[n] EXCEPT !.gone = gone])
    /\ UNCHANGED <<now, lists, state, rows, emitted, published, ticks>>

Pass ==
    /\ now < MaxTime
    /\ now' = now + 1
    /\ UNCHANGED <<feed, lists, state, rows, emitted, published, ticks, faults>>

-------------------------------------------------------------------------------
(* The users' lists: each request is one transaction under the poll_state lock. *)

Union(S) == {c \in Channel : \E u \in User : S[u][c] # NoInstant}

\* What a request of u leaves of the seeds, if it is u's first.
Seeds(u) == IF u \in users THEN {} ELSE starting

\* Each insert asks for the room left in the union; one refusal rolls everything back.
HasRoom(new) == new \subseteq Union(since) \/ Cardinality(Union(since) \cup new) <= ChannelLimit

\* ON CONFLICT DO NOTHING: a repeated add keeps the first instant.
Subscribed(u, new) ==
    [since EXCEPT ![u] = [c \in Channel |->
        IF c \in new /\ since[u][c] = NoInstant THEN now ELSE since[u][c]]]

Request(u) ==
    /\ lock = None
    /\ users' = users \cup {u}
    /\ UNCHANGED <<starting, state, rows, emitted, published, ticks, platform, faults>>

Add(u, c) ==
    /\ HasRoom(Seeds(u) \cup {c})
    /\ since' = Subscribed(u, Seeds(u) \cup {c})
    /\ Request(u)

List(u) ==
    /\ HasRoom(Seeds(u))
    /\ since' = Subscribed(u, Seeds(u))
    /\ Request(u)

Remove(u, c) ==
    /\ HasRoom(Seeds(u))
    /\ since' = [Subscribed(u, Seeds(u)) EXCEPT ![u][c] = NoInstant]
    /\ Request(u)

\* The product setting is set: the first value becomes the starting list.
SeedSetting ==
    /\ starting = {}
    /\ starting' = Starting
    /\ UNCHANGED <<users, since, state, rows, emitted, published, ticks, platform, faults>>

-------------------------------------------------------------------------------
(* A tick: emit_pending, poll, emit_pending. *)

Goto(h, label) == pc' = [pc EXCEPT ![h] = label]

\* handle_job: an entry can be delivered late, so its instant may be long past.
Tick(h, t) ==
    /\ pc[h] = "idle" /\ t <= now
    /\ at' = [at EXCEPT ![h] = t]
    /\ Goto(h, "read")
    /\ UNCHANGED <<lists, state, rows, emitted, published, lock, view, round, pending, platform, faults>>

\* emit_pending returned: the tick polls, or it is over.
AfterEmit(h) ==
    IF round[h] = 1
    THEN Goto(h, "poll") /\ UNCHANGED <<at, round>>
    ELSE /\ Goto(h, "idle")
         /\ at' = [at EXCEPT ![h] = 0] /\ round' = [round EXCEPT ![h] = 1]

\* pending(): the committed deliveries without a mark, whichever poll wrote them.
ReadPending(h) ==
    /\ pc[h] = "read"
    /\ pending' = [pending EXCEPT ![h] = outbox \ emitted]
    /\ IF outbox \subseteq emitted THEN AfterEmit(h)
                                   ELSE Goto(h, "publish") /\ UNCHANGED <<at, round>>
    /\ UNCHANGED <<lists, state, rows, emitted, published, lock, view, platform, faults>>

\* The rows go out in one fixed order, that of their instants and hashed identities.
Current(h) == CHOOSE d \in pending[h] : TRUE

Publish(h) ==
    /\ pc[h] = "publish"
    /\ published' = published \cup {Current(h)}
    /\ Goto(h, "confirm")
    /\ UNCHANGED <<lists, state, rows, emitted, lock, view, at, round, pending, platform, faults>>

Confirm(h) ==
    /\ pc[h] = "confirm"
    /\ emitted' = emitted \cup {Current(h)}
    /\ pending' = [pending EXCEPT ![h] = @ \ {Current(h)}]
    /\ IF pending[h] = {Current(h)} THEN AfterEmit(h)
                                   ELSE Goto(h, "publish") /\ UNCHANGED <<at, round>>
    /\ UNCHANGED <<lists, state, rows, published, lock, view, platform, faults>>

\* Mutant: the row is read without its lock.
PollUnlocked(h) ==
    /\ pc[h] = "poll"
    /\ IF stopped \/ retryAt > at[h] \/ Union(since) = {}
       THEN /\ Goto(h, "read") /\ round' = [round EXCEPT ![h] = 2]
            /\ UNCHANGED <<lock, view>>
       ELSE /\ Goto(h, "fetch") /\ view' = [view EXCEPT ![h] = since]
            /\ UNCHANGED <<lock, round>>
    /\ UNCHANGED <<lists, state, rows, emitted, published, at, pending, platform, faults>>

\* lock_poll: the row is locked before the lists are read, and until the commit.
Poll(h) ==
    /\ pc[h] = "poll" /\ lock = None
    /\ IF stopped \/ retryAt > at[h] \/ Union(since) = {}
       THEN /\ Goto(h, "read") /\ round' = [round EXCEPT ![h] = 2]
            /\ UNCHANGED <<lock, view>>
       ELSE /\ Goto(h, "fetch") /\ lock' = h /\ view' = [view EXCEPT ![h] = since]
            /\ UNCHANGED round
    /\ UNCHANGED <<lists, state, rows, emitted, published, at, pending, platform, faults>>

\* The transaction of the poll is over.
EndPoll(h) ==
    /\ lock' = None
    /\ view' = [view EXCEPT ![h] = NoLists]
    /\ round' = [round EXCEPT ![h] = 2]
    /\ Goto(h, "read")

-------------------------------------------------------------------------------
(* What a poll asks for and does with the page. *)

Asked(h) == Union(view[h])

\* Mutant: the cursor is used on for another set of channels.
StaleNever(h) == FALSE

\* HTTP 409: a cursor belongs to the channels it was given for.
Stale(h) == cursor # NoCursor /\ cursor.set # Asked(h)

\* The first poll reads the window back from its tick, a later one from the saved since.
ReadFrom(h) == IF sinceAt = NoInstant THEN at[h] - Window ELSE sinceAt

\* The since of the request that is answered: a restart clips it to the margin.
RestartFrom(h) == IF Stale(h) THEN Later(ReadFrom(h), at[h] - Margin) ELSE ReadFrom(h)

Fitting(h) ==
    {n \in DOMAIN feed :
        /\ feed[n].channel \in Asked(h)
        /\ IF cursor = NoCursor \/ Stale(h) THEN feed[n].date >= RestartFrom(h) ELSE n > cursor.pos}

Page(h) == {n \in Fitting(h) : Cardinality({m \in Fitting(h) : m <= n}) <= PageSize}

\* Mutant: the cursor passes everything the platform has.
SkipToEnd(h) == [set |-> Asked(h), pos |-> Len(feed)]

NextCursor(h) ==
    [set |-> Asked(h),
     pos |-> IF Page(h) = Fitting(h) THEN Len(feed)
             ELSE CHOOSE n \in Page(h) : \A m \in Page(h) : m <= n]

\* Mutant: every change of the page counts, not only the first of an unseen post.
FreshAll(h) == Page(h)

\* The changes of the page that are the first of their post.
Fresh(h) ==
    {n \in Page(h) :
        /\ feed[n].id \notin seen
        /\ \A m \in Page(h) : feed[m].id = feed[n].id => n <= m}

Eligible(n, u, h) ==
    /\ ~feed[n].gone
    /\ view[h][u][feed[n].channel] # NoInstant
    /\ feed[n].date >= view[h][u][feed[n].channel] - Slack

\* accept_page: seen posts, deliveries, cursor and since commit together.
Accept(h) ==
    /\ pc[h] = "fetch"
    /\ seen' = seen \cup {feed[n].id : n \in Fresh(h)}
    /\ outbox' = outbox \cup
                   {d \in Post \X User : \E n \in Fresh(h) : feed[n].id = d[1] /\ Eligible(n, d[2], h)}
    /\ cursor' = NextCursor(h)
    /\ sinceAt' = Later(RestartFrom(h), at[h] - Margin)
    /\ retryAt' = NoInstant
    /\ EndPoll(h)
    /\ UNCHANGED <<lists, stopped, emitted, published, at, pending, platform, faults>>

\* A failed request saves what the request before it changed: after a 409 the cursor
\* is gone and since clipped.
AfterFailure(h) ==
    \/ cursor' = cursor /\ sinceAt' = ReadFrom(h)
    \/ Stale(h) /\ cursor' = NoCursor /\ sinceAt' = RestartFrom(h)

\* 429, a 5xx or no answer: retry_at counts from the tick's instant.
Delayed(h) ==
    /\ pc[h] = "fetch" /\ Fault
    /\ AfterFailure(h)
    /\ retryAt' = at[h] + Delay
    /\ EndPoll(h)
    /\ UNCHANGED <<lists, stopped, rows, emitted, published, at, pending, platform>>

\* 401 or 403: polling stops until an operator clears the mark.
Refused(h) ==
    /\ pc[h] = "fetch" /\ Fault
    /\ AfterFailure(h)
    /\ stopped' = TRUE
    /\ EndPoll(h)
    /\ UNCHANGED <<lists, retryAt, rows, emitted, published, at, pending, platform>>

\* Mutant: what a dying tick had read counts as published.
TickDiesConfirming(h) ==
    /\ pc[h] # "idle" /\ Fault
    /\ emitted' = emitted \cup pending[h]
    /\ lock' = IF lock = h THEN None ELSE lock
    /\ view' = [view EXCEPT ![h] = NoLists]
    /\ pending' = [pending EXCEPT ![h] = {}]
    /\ at' = [at EXCEPT ![h] = 0] /\ round' = [round EXCEPT ![h] = 1]
    /\ Goto(h, "idle")
    /\ UNCHANGED <<lists, state, rows, published, platform>>

\* The process dies, a statement or commit fails, or a publish raises: the open
\* transaction is rolled back and the tick is over.
TickDies(h) ==
    /\ pc[h] # "idle" /\ Fault
    /\ lock' = IF lock = h THEN None ELSE lock
    /\ view' = [view EXCEPT ![h] = NoLists]
    /\ pending' = [pending EXCEPT ![h] = {}]
    /\ at' = [at EXCEPT ![h] = 0] /\ round' = [round EXCEPT ![h] = 1]
    /\ Goto(h, "idle")
    /\ UNCHANGED <<lists, state, rows, emitted, published, platform>>

-------------------------------------------------------------------------------
Feed ==
    \/ Pass
    \/ \E c \in Channel, t \in Instant : Appear(c, t)
    \/ \E n \in DOMAIN feed, gone \in BOOLEAN : Alter(n, gone)

Lists ==
    \/ SeedSetting
    \/ \E u \in User : List(u) \/ \E c \in Channel : Add(u, c) \/ Remove(u, c)

Work(h) == ReadPending(h) \/ Publish(h) \/ Confirm(h) \/ Accept(h)

Next ==
    \/ Feed \/ Lists
    \/ \E h \in Handler :
        \/ \E t \in Instant : Tick(h, t)
        \/ Work(h) \/ Poll(h) \/ Delayed(h) \/ Refused(h) \/ TickDies(h)

Spec == Init /\ [][Next]_vars

\* Time passes, ticks keep coming with it, late ones or not, and one that waits for the
\* row gets it.
FairSpec ==
    /\ Spec
    /\ WF_vars(Pass)
    /\ \A h \in Handler : SF_vars(Tick(h, MaxTime)) /\ WF_vars(Work(h)) /\ SF_vars(Poll(h))

-------------------------------------------------------------------------------
(* Properties. *)

Deleted(p) == \E n \in DOMAIN feed : feed[n].id = p /\ feed[n].gone

\* A post that counts as seen reached everybody who asked for it before it was
\* published: no list is changed between the lists a poll reads and the posts it marks.
SeenReachesSubscribers ==
    \A n \in DOMAIN feed : \A u \in User :
        LET s == since[u][feed[n].channel] IN
        feed[n].id \in seen /\ ~Deleted(feed[n].id) /\ s # NoInstant /\ feed[n].date > s
            => <<feed[n].id, u>> \in outbox

\* The cursor has passed nothing that is not seen, but for posts older than since.
CursorSkipsNothing ==
    cursor # NoCursor =>
        \A n \in 1..cursor.pos :
            feed[n].channel \in cursor.set => feed[n].id \in seen \/ feed[n].date < sinceAt

\* A seen post never notifies again: not an edit, not a restart, not a new subscriber.
SeenNotifiesOnce == [][\A d \in outbox' \ outbox : d[1] \notin seen]_vars

\* Every committed delivery is published and marked in the end, also when polling
\* stopped, its user left or a tick died on the way.
EveryDeliveryGoesOut == \A d \in Post \X User : d \in outbox ~> d \in emitted /\ d \in published

\* While the lists rest, every post of a listed channel is seen, however many pages
\* and restarts it takes, unless it is older than since or the platform refuses.
EveryPostIsSeen ==
    <>[][FALSE]_lists =>
        \A p \in Post :
            p \in Known ~>
                \/ p \in seen \/ stopped \/ retryAt > MaxTime
                \/ \E n \in DOMAIN feed :
                    feed[n].id = p /\ (feed[n].date < sinceAt \/ feed[n].channel \notin Union(since))
===============================================================================
