# A verification project for codegen-product-kit

codegen-product-kit generates products: a FastAPI backend over PostgreSQL, an optional
Telegram bot, and packages (reminders, Telegram channels, ranking) that plug into the
backend. The parts talk through HTTP and through Redis streams. This directory holds TLA+
modules of the parts of a generated product whose correctness depends on what several
processes, transactions and messages do to each other, TLC configurations that check small
instances of them, and TLAPS proofs of what holds for instances of every size.

All source paths below are relative to the repository root. `PROJECT.json` maps every
definition to the lines it stands for.

## 1. The system

### Parts, their state and their operations

| Part | Source | State | Operations |
| --- | --- | --- | --- |
| Core jobs | `template/services/backend/src/controllers/jobs.py`, `app/repositories/job_command.py` | one row per (product, command id): payload, UNDELIVERED or DISPATCHED; its row lock; the `job_fired` stream | fire, evidence |
| Core timer | `app/timers.py` | in memory: the slot last attempted per timer. Durable: the job rows, whose identity is job and slot | start, fire_due, sleep, stop |
| Lifespan | `app/lifespan.py.jinja`, `template/codegen_kit/packages.py` | broker connected, packages started, timer loop | startup, serve, shutdown |
| Package activation | `template/codegen_kit/packages.py`, `migrations.py` | installed metadata, the allowlist, the generated record | discover, check, migrate |
| Package installation | `framework/cli.py`, `preflight.py`, `generate.py` | a product's files: wheels, locks, allowlist, environments, bindings, manifests, generated files | kit add, kit bind, kit check-install, generate |
| Host contract | `framework/host_contract.py` | none | evaluate |
| Settings | `controllers/settings.py`, `app/repositories/setting.py` | one row per key, scope and subject | get, set with a package's seed |
| Users and access | `controllers/users.py`, `app/repositories/user.py` | user, status, channel identity | grant, revoke, resolve |
| Event adapter | `framework/templates/codegen/event_adapter.py.j2`, `core/idempotent_consumer.py` | the stream's pending list, a marker row per consumed event | live read, recovery claim, handle, acknowledge |
| Reminders | `packages/codegen-kit-reminders` | reminder rows, outbox rows with a confirmation mark | create, cancel, list, tick |
| Telegram channels | `packages/codegen-kit-tg-channels` | lists, one poll_state row (cursor, since, retry deadline, stopped), seen posts, deliveries | add, remove, list, seed, tick |
| Binding relay | `framework/templates/codegen/binding_relay*.py.j2` | a claim per event in Redis, the pending list | receive, claim, send, complete, release |
| Bindings runtime | `framework/templates/codegen/bindings*.py.j2`, `commands.py.j2` | pending selections in memory | command, callback |
| Bot HTTP client | `template/shared/shared/http_client.py` | none | request with retries |
| Ranking, textparse | `packages/codegen-kit-ranking`, `packages/codegen-kit-textparse` | a copy of seeded settings, none | score, seed, top; parse |
| Specification loader | `framework/spec/` | none | read package.yaml, resolve the allowlist, merge declarations |
| Component matching, catalog | `framework/component_matching.py`, `catalog.py` | the catalog file | draw edges, admit, select a release |
| Environment contract | `framework/contracts/`, `generators/package_environment.py` | declarations, the packages' fragment | declare, generate the fragment, build the artifact |
| Other tooling | `framework/` | a product's files | generators, lint |

### How they interact

The timer loop of every backend process fires timer jobs through the jobs core. The jobs
core publishes `job_fired`; each package's readers take it, and its tick works through the
package's tables and publishes events of its own (a reminder came due, a channel has a new
post). The binding relay of the bot reads these and sends messages. Requests of users reach
the same tables through HTTP while ticks run. Every stream is read by a consumer group with
two readers per process: a live one, and a recovery one that claims entries which stay
unacknowledged too long, because their handler died or because it is only slow. The lifespan
fixes the order in which broker, packages and timer loop exist.

A product gets its packages from the kit: a command looks at the whole product, admits or
refuses, and then writes file after file through `uv` and the generators. What it leaves is
what the author commits, a checkout installs, and the backend and its migrations later accept
or refuse when they compare installed packages, allowlist and generated record.

### What is hard

* Interleaving: concurrent fires of one identity, ticks beside ticks, cancels beside ticks,
  list changes beside polls, two readers on one event.
* Crashes between a commit, a publish and its mark; the marks only exist to make a repeat
  harmless.
* Unreliable delivery: entries come late, twice or again; answers of Redis, Telegram,
  PostgreSQL and the channels platform get lost after the effect took place.
* Order: what starts and stops before what, which error survives, cursors that must not pass
  what was not seen.
* Commands that stop half way: an installation is a dozen writes without a rollback, and it is
  repeated over what an earlier one left.
* Two evaluators of one rule: check-install, add, bind, generation and activation each judge
  the same product at another moment with files of their own.
* Boundaries: a wall clock that goes back, the union limit of subscriptions, a late tick that
  computes with its slot.

`PROJECT.json` lists each hazard at its line with the properties that answer it, and for
those without a property the reason.

### What makes each part correct

* Core jobs: an identity emits once but for lost evidence, its event carries what was
  accepted, and a caller is told the truth about the row.
* Core timer: a slot is emitted once over all processes and restarts, with its own instant; no loop fires a slot
  twice in its life.
* Package installation: a checkout installs whatever is listed, a completed command leaves a
  product that starts, what was checked before a write holds after it.
* Lifespan: the way out mirrors the way in, whatever raised.
* Event consumer: an effect once per event, no entry given up before it.
* Reminders: one logical notice per reminder, none for a cancelled one, each settled.
* Channels: no listed post is passed over, none notifies twice, every delivery goes out.
  (That the lists keep the union's limit is a guard under one lock, modelled and not asked for.)
* Binding relay: one message per event and fault, no entry given up unsettled.
* Settings and users: every answered request took effect at one instant, whoever wrote at the
  same time; a grant that is answered was announced; a package's copy of a setting follows it.
* Bindings runtime and client: a button acts once, for whom it was offered to, and is not lost
  before its time; a mutation is not repeated.
* Tooling: what an early check accepts a later one does; a result depends on what was listed
  and not on the order it was listed in; an edge between components carries every value.

## 2. The modules

### Promises

`OnceLedger` is what the jobs core promises: a command is accepted once, emitted only when
accepted and only while no earlier emission awaits its evidence, and final after its
evidence. `OneNotice` is what the reminders package promises: a reminder comes due once, not
before its instant and not after it was withdrawn, and every notice sent for it is that one.
`RequestRegister` is what a core route promises: a register per row on which each request takes
effect at one step between its call and its answer. None mentions a lock, a flush or a process.

### JobDispatch

`JobsController.fire` and `evidence` by any number of callers. One action per step between
two points where another session can get in: look up, insert, first commit, lock, publish,
close. `inserting` is the unique key's lock on an uncommitted insert, `rowLock` the
`FOR UPDATE` lock, `recorded` and `dispatched` the committed row. A publish is delivered,
lost, or delivered with its answer lost; a commit may fail with or without effect; a session
may end at any step. `ImplementsLedger` refines `OnceLedger`: an emission is open while the
session that made it holds the row lock.

### CoreTimer

`TimerLoop` in several backends. The jobs core below it is `OnceLedger` (the composition is
through the promise `JobDispatch` is shown to keep). Time is a monotonic clock, counted in
the grain of the grids, and a wall clock per process that can fall behind it. `fire_due` is
split at its awaits: read the clock, consider a timer, record, dispatch, confirm, sleep.

### PackageLifecycle

One lifespan with its broker, packages and loop, where each await may raise or be cancelled.
`active` is what the body raised, `outcome` what leaves the lifespan.

### EventConsumer

The generated adapter around `consume_once`. An entry is new, pending or acknowledged; the
recovery reader may claim an entry whose handler is still at work. `marker` and effect share
a transaction whose lock another handler's insert waits for. Success and error events follow.

### Reminders

Requests and ticks over rows, locks, outbox and confirmations; a tick locks due rows one by
one in the order of the query, re-reads each when it gets the lock, commits states and outbox
together, and then publishes and confirms the outbox one by one. `ImplementsNotice` refines
`OneNotice`.

### BindingRelay

Readers of several bots, the claim and completed marker with their expiry, Telegram's
acceptance and refusal, timeouts and cancellation. A claim is known by the reader whose token
it carries; the claim of a lost delivery matches nobody and waits for its expiry. Both
template versions share this control; they differ in how a text is rendered.

### ChannelPolling

The lists, the poll_state row and its lock, seen posts and deliveries. The platform's feed is
a sequence of changes (a post, an edit, a tombstone); its query by since, cursor and channel
set is external. A tick emits what is pending, polls one page under the lock, and emits again.
A poll that is refused with 409 restarts from the margin, one that is refused with 401 or 403
stops polling, any other failure sets a retry deadline. A reader may handle a tick long after
its slot.

### HostContract, PackageSet, PackageInstall

`HostContract` has the rules of `host_contract.py` as operators over binding files: claims on
a command, the common timezone key, who has to repair what. `PackageSet` has what build time
(`Resolves`, `Merges`, `EnvironmentFits`) and run time (`Activates`, `Migrates`) ask of a set of
packages. `PackageInstall` is the state machine above them. A package is a number in the order
of its binding's file name, a version a number, a manifest a record with the fields those
rules read. `run` is the command under way and its next write; `Copy`, `Lock`, `List` and `Sync`
are the statements of `_install_wheel`, `WriteBinding` and `WriteSetting` those of `bind_package`,
and `Validate`, `WriteContract`, `WriteEnvironment` and `WriteBot` the checks and the generators of
`generate_all` that keep state. The admission of a command reads the product in one step, for
nothing else writes meanwhile. `Trouble` ends a command before any write: `uv` or git fails,
the disk is full, somebody presses Ctrl-C. `Edit` is the author: a product command, or a
breach of a host rule made or repaired. `promise` remembers for which version check-install said
"mechanical", and whether its add completed since.

### CoreRows

`SettingsController` and `UsersController` with their repositories. A request is a session:
select, flush, the seed callback of a package, commit, for a grant `user_granted`, answer. `row`
is what is committed and `holder` the session whose uncommitted write of a row others wait for.
The flush writes only what differs from what was read, so a request that repeats a value locks
nothing. Two first writes of one key collide at the unique key: the setting's request fails,
the grant reads the winner's row. `ImplementsRegister` refines `RequestRegister`: a request takes
effect at its commit, or at its select when it has nothing to write.

### BotActions

What a bot does with an update: admission by the backend, a command or a press, settings, the call
through the retrying client, the package's effect, the answer. `pending` holds the selections in
memory, `offered` every one ever offered; `token` is what an update presses or took. Access can be
changed between admission, call and effect, and a restart loses the memory while the backend goes
on with what it had accepted. python-telegram-bot processes one update at a time unless it is told
otherwise; the code takes a selection before its first await so that it need not rely on that, and
`Concurrent` asks whether this suffices.

### Backend, Bot and Kit

Two processes and the kit hold components that share no state. `Backend` extends `CoreRows` and instantiates
`PackageLifecycle`; `Bot` extends `BindingRelay` and instantiates `BotActions`; `Kit` extends `PackageInstall`
and instantiates `PackageActivation`, `Catalog`, `EnvContract`, `Ranking`, `SpecMerge` and `ComponentMatching`. Names that two of them use (`pc`, `outcome`,
`faults`, `lock`, `Name`, `MaxEdits`) are told apart by the substitution, and the properties of an instance are stated again
under their own names, as are its assumptions. The proofs are about these compositions.

### The tooling modules

Each is one component whose inputs an author changes and whose answer is a definition:

* `ComponentMatching`: a schema is a record of the keywords `component_matching.py` looks at.
  `Connects` and `ArgumentFits` are the code's comparison, `Accepts` what JSON Schema says of a value. Schemas
  are nested, so `Normalized`, `Matches` and `Meaning` are recursive functions over the set `Schema`; what each does to one
  schema, given its results for the parts, is an operator of its own (`NormalizedBy`, `CompatibleBy`, `AcceptsBy`).
* `Catalog`: `Accepted` is `parse_catalog`, `Component` and `Select` the lookups, the actions the
  edits of a maintainer.
* `PackageManifest`: `BuildAccepts` is what `framework/spec` demands of a package.yaml, `RuntimeAccepts`
  what a backend demands again, each with the pydantic defaults, aliases and forbidden extras.
* `PackageActivation`: wheels, the allowlist and the generated record; `Verified`, `Resolves` and
  `Starts` are the checks of the source, the generation and the process, `Generate` the write
  between them.
* `SpecMerge`: the loader's walk over the packages in the product's order. `After[n]` are the registries
  after n packages, `NamesFree` and `EventsFree` that the next one reports nothing, `Merges` that none does.
* `Ranking`: scores, the order with its ties, the copy of the settings, `Rank` the tops the code may
  answer with.
* `EnvContract`: declarations per owner, the fragment (`Generate`), the artifact (`Builds`, `Contract`).

### MC modules

`MCx` extends `x` with the values a `.cfg` cannot write; `MCPackageInstall`, `MCPackageActivation` and `MCTooling` hold
nothing but such values. In `MCKit` (the parts of `Kit`) and in `MCBackend` (the
lifespan and the core rows) a variable `part` is chosen at the start and only that part moves, so that the state spaces are
added and not multiplied. `MCBot` runs the handlers while
the relay rests (`ActionsSpec`), `MCBindingRelay` the relay alone.

Definitions that start with the comment "Mutant" are plausible bugs of the definition below them;
no specification uses them. Each checked property is shown to fail with one of them in place.

## 3. What is checked

Every run uses only the constants of its `.cfg`.

| Run | Instance | Shows |
| --- | --- | --- |
| `jobs` | 2 callers, 1 identity, 2 valid payloads and an invalid one, 1 lost session or failed commit, 1 uncertain publish | bounded emissions, true evidence, the refinement of `OnceLedger`, a retry completes a recorded command |
| `timers` | 2 backends, 1 timer, 3 slots, a clock that falls behind by one, 1 emission without evidence per identity | one emission per slot and lost evidence, no slot twice in the life of a loop whose clock goes back |
| `timers_slow` | 1 loop that is never stopped, timers of periods 1 and 2, 12 instants, no failure, time only in fires and sleeps | finding: slow fires make a loop skip slots |
| `reminders` | 2 reminders, 2 readers, 1 cancelling owner, 1 tick that dies | outbox and state agree, one publication while nothing goes wrong, the refinement of `OneNotice`, each reminder settles |
| `events` | 2 entries of 1 or 2 events, 2 readers, 2 faults | effect once, acknowledged only after it, each entry acknowledged |
| `events_error` | 1 entry, 1 reader, 1 fault | finding: an error event for an execution that succeeded |
| `relay` | 2 entries, of a valid or an invalid event, 2 readers, 2 faults per event | one message plus one per fault, no entry given up unsettled, each entry acknowledged |
| `channels` | 2 users, 2 channels over a union of 1, 1 post and 1 later change, 1 failure or alteration | a seen post reached its subscribers and notifies once, each delivery goes out |
| `channels_feed` | 1 user, 2 channels in turn, 2 posts on pages of 1, 1 failure | the cursor passes nothing unseen over pages and restarts, each post is seen |
| `backend` | 3 packages and timers; 3 requests on a setting of both scopes and on an identity, 2 values, one the package refuses and one outside the schema, 1 lost session | the way out mirrors the way in and the right error leaves; the refinement of `RequestRegister`, how a copy parts from its setting, a grant is announced |
| `actions` | 3 updates of 2 users, 2 at a time, up to 3 selections of which 2 are kept, lifetime 1, 2 attempts, 1 fault | a selection acts once and for its owner, an update once, and none is lost before its time |
| `kit` | an extension, its parent in 2 versions, a package with a library, that library, 3 bindings, 1 trouble or edit; 2 wheels under 2 changes; and the inputs of `MCTooling` | installs: a checkout installs, a completed command leaves a product that starts, "mechanical" is, writes can be generated from; edges, selection, activation, merge, top and artifact |

### Bounds, and why they are enough

The races are between two sessions, readers or processes over one row, entry or identity:
identities and reminders only meet through the order of a tick's locks, for which two are
taken. One fault at any step, and two where a fault in the recovery from a fault differs
(`events`, `relay`), cover each crash point. Three slots let a restart and a second process
meet in one slot and see the next; in `timers_slow` the first round and the one behind it are
enough, and the clock reaches further than both.
In `channels` a union of one makes every change of the lists a change of the channel set,
so each add after a removal forces the 409 restart; two users on one channel are what the row
lock is for; a page of one makes a backlog of two posts take two polls. Which two instants
are taken does not matter to the code, it only compares them.

In `backend` a third request is what can get between the select of a repeated value and its seed;
in `actions` a third update can offer the selection that pushes out the oldest while two others
hold theirs, and one instant past a lifetime of one is expired.

The packages of the installation part of `kit` are those of the repository with the conflicts a set of
packages can have: an extension that needs what its parent owns, two versions that differ in an
action a retained binding uses, a library a binding parses with, two timezone keys, a command that
the product takes, one variable of two platform sources. One trouble or edit is enough to meet each
write half done, because nothing is ever taken back: a second trouble only ends a later command
at another write. The inputs of the tooling parts are a sound document and, for each field, values
that are wrong in each way the code distinguishes; two or three changes let a wrong value meet an
earlier check's acceptance, three merged packages let the walk take the middle one before either
neighbour, three posts let a tie have something on both sides, and schemas nested three deep are an alternative of a
union that is an object with a property that is an array, an object or a union.

The safety properties of every run but `events_error` and `timers_slow` are proved without these bounds.

Deadlock is checked except where the modelled world comes to an end: every entry is
acknowledged and nothing more is published (`events`, `events_error`, `relay`), the lifespan and
every request are over (`backend`), every update is processed (`actions`), or the changes of a judged
document are used up (`kit`).

### Fairness, and what justifies it

* A step that only waits for the event loop is weakly fair: asyncio runs a ready task.
* A step that waits for a row, an insert of the same key or the poll_state row is strongly
  fair: PostgreSQL queues the waiters of a lock, and a session that dies gives it up.
* Readers keep polling both the new entries and those to reclaim (strong fairness per entry,
  since entries come and go while another one is handled).
* Ticks of packages keep coming, which is assumed of the core timer and not derived from it: a
  tick for the last instant is strongly fair.
* Claims without a living holder expire (Redis drops a key at its TTL).
* Nothing is fair in `CoreTimer`, `PackageLifecycle`, `CoreRows`, `BotActions` and the kit: a request,
  an update or a command that is not repeated promises nothing. `PunctualSpec` of `timers_slow` is a
  restriction: no loop is stopped, no fire fails, no clock is set back, and time passes only while a fire is
  awaited or a sleep is not over, since those are the awaits of the loop.
* Faults are never fair, and each bound on faults only says that they end.
* `RetryCompletes` supposes a caller that keeps retrying over a broker that is not down for
  ever; `RetryFairness` is its hypothesis and not part of the specification.

## 4. What is proved

Nothing is assumed but the named assumptions on the constants (naturals are naturals,
`None` is not a caller, timers have positive periods and distinct jobs, a default binding is a
binding, whose setting and libraries are settings and libraries). Callers, commands, payloads, backends, timers, reminders, readers, events, updates,
packages, bindings and bounds are arbitrary. Every proof module proves the type invariant of its
component; the runs spend their properties on others.

`JobDispatchProofs` proves, for `Spec`: `OneEmitter`, `RecordedBeforeEmitted`,
`DispatchedWasEmitted`, `BoundedEmissions`, `EvidenceTruthful`, `RowImmutable`, `TerminalDispatch`
and `ImplementsLedger`. `BoundedEmissions` is not inductive: whether a second emission is allowed
depends on who holds which lock and what the holder already did. The inductive `IInv` adds, part
by part, what each call knows at its step (`CallInv`), that an uncommitted insert belongs to a call
about to commit it (`InsertInv`), that a call inside the emission holds the row lock of its identity
(`LockInv`), that events carry the record (`RecordInv`), that dispatch follows emission
(`DispatchInv`), and `CountInv`: the number of events is at most the faults counted so far, plus one
if the identity is dispatched or the holder of the lock has just emitted. Each action's preservation
is a lemma of its own. From `IInv` every step is a step of `OnceLedger` or leaves its variables alone,
which is the refinement.

`CoreTimerProofs` proves `SlotEmittedOnce` and `NoSlotTwiceInALife`, and of what no run checks that every event
carries the instant of its slot (`EventCarriesItsSlot`). It first shows that every step of the loops is a step of the ledger with its
bookkeeping or leaves it alone, then keeps two invariants apart: `LedgerInv` counts emissions against
lost evidence, `LoopInv` says that clocks never run ahead and that a loop that fires has an identity
of a declared timer. `NoSlotTwiceInALife` needs `BegunInv`: every identity a loop began is not after
the slot it last attempted for that job, so a wall clock that is set back only finds slots that are
over.

Two more theorems have no run. `LoopsUseTheLedger`: seen by the jobs core the loops do
nothing but the steps of `OnceLedger`, so what `JobDispatch` implements is all they need. `ShortRoundsSkipNoSlot`
says where `FiresEverySlot`, which `timers_slow` refutes, does hold: under `PromptSpec`, which adds to `Spec` that
sleeps end on time, that a loop that starts or wakes reads its clock at once, and that a round, from that reading
to its sleep, is shorter than the shortest period; fires
may fail, loops restart and wall clocks be set back. Its invariant `PromptInv` follows each timer through the round:
attempts lie on the grid of the period (`OnGrid`), and what the loop will next read is less than two periods after the
last one. With a round as long as a period it no longer holds.

`BackendProofs` is about `Backend`. For the lifespan it proves `StopsMirrorStarts` and `RightErrorLeaves`
for a manifest of any length. The invariant relates three lists: `started` is what remains at the front
of everything started, and what was stopped is the reverse of the rest (`LedgerInv`); `ErrorInv` says what
may be propagating at each place of the program. `RightErrorLeaves` is an order of precedence: a close of the broker
that raises hides everything before it; behind one that returns come a cancelled package stop, what the body
raised, and the error of a package stop, in this order, and a cancelled stop of the timer loop hides only what the body raised.

For the rows it proves `AnsweredGrantIsTold`, `OnlyReplaysDiverge` and `ImplementsRegister`. The invariant has
a part per thing a request knows at its step: what brought it there (`PathOK`), that it is a request with
its question (`CallOK`), which row it holds and that nobody else does (`HolderOK`), what it told the package
before its commit (`SeederOK`), and that a grant past its publication was announced (`ToldOK`). Two facts
then carry the rest: a session that wrote holds its row alone from the flush to the commit, and only
a commit stores. A step maps to the register one action at a time: a
commit, the select of a request with nothing to write and a refusal are the points where a request takes
effect, every other step is a call, an answer or a stutter. A copy parts from its setting only at the commit
of a request that seeded without a lock of its own, and such a request wrote nothing: it is a replay.

`RemindersProofs` proves `OutboxMatchesState`, `QuietTicksPublishOnce` and `ImplementsNotice`. The
invariant has one part per thing a tick can be wrong about: the rows and the outbox (`RowInv`), what
the holder of a lock read and what it will commit (`HeldInv`), what a tick still has to look at
(`TodoInv`), and what it will find of the entries it read from the outbox (`PendingInv`). A quiet tick is
alone (`AloneInv`), which is why its publications are the first.

`EventConsumerProofs` proves `EffectOnce` and `AckedTookEffect`. Uncommitted markers are tied to the one
reader that inserted them and that is in its transaction (`MarkerInv`), and each reader knows at its step
whether the event is consumed (`ReaderInv`); an acknowledged entry is one of a consumed event.
`SpareErrorsFollowEffects` narrows the finding of `events_error`: until the effect is committed each error event,
published or to come, has a failed execution of its own (`ErrorInv`), so an error event too many is always one of an
event that took effect.

`BotProofs` is about `Bot`. For the relay it proves `MessageSentOnce` and `AckedIsSettled`. The first is a
budget per event: the messages sent, the sends of readers whose claim is gone, and the one send the key
still allows are together at most one plus the faults. A claim that expires under its holder turns into a
stray send and is paid by that fault.

For the handlers it proves `SelectionActsOnce`, `UpdateActsOnce` and `ValidIsKept`. The selections in memory,
those an update took (`TakerInv`) and those that took effect (`ActedInv`) are kept apart; `TakersDiffer` says
that two updates that are past their choice took different ones; tokens are handed out in order and so
never again. `ValidIsKept` is inductive with `KeptInv`, which adds that no update names a selection before it
arrives; what is left is that a selection is only pushed out when `MaxContexts` newer ones are in memory, since
the oldest goes first.

`ChannelPollingProofs` proves `SeenReachesSubscribers`, `CursorSkipsNothing` and `SeenNotifiesOnce`, and of what
no run checks that two ticks never poll at once (`OneTickPolls`) and that a delivery is only marked once it
was published (`MarkedIsPublished`). `PollInv` says that whoever fetches holds the poll_state row and that the
lists it read are still the lists: changes of the lists need the same lock. With that a page is accepted for
exactly the subscriptions in force. `FeedInv` says that changes of one post agree on its channel and date,
which is why an edit or a tombstone found after a restart names no new post. A page takes the first of the changes
that fit, and the next cursor passes no others (`PageFacts`), so a cursor has nothing unseen of its channels
behind it.

`KitProofs` proves `CheckoutInstalls`, `WritesAreGeneratable`, `DoneIsWhole` and
`MechanicalInstallBinds`. The order of the writes
carries the first: `RunInv` says that a command about to lock has its wheel in the service and one
about to list has its lock, `PinsInv` that a pin keeps its wheel, `ListedInv` that a listed package is
pinned; no later add can unpin it, so an interruption or an upgrade on top of one does not matter. The
second needs `AdmittedInv`: what the first look established is still true at each write up to the
generation. It holds since the writes of an add are none of the files the host contract reads, and
those of a bind are exactly the ones it evaluated ahead; `OwnersDoNotMatter` closes the gap that a
default becomes the product's own file when it is written, which changes who repairs a violation but
not whether there is one.

`DoneIsWhole` follows from `DoneInv`: from its checks to its last write a generation is the only one that
writes, so record, fragment and bot files are all of the set that was checked. What was checked is what
is served (`ChecksServe`), up to the prefixes and the difference of the cores that the property names.

`MechanicalInstallBinds` spans commands. `ProgressInv` follows an add from its lock to the end of its
generation: the package is listed, pinned and installed, and no service differs from its lock.
`PromiseInv` keeps what check-install saw for as long as its verdict is remembered: the prospective binding
conflicts with nothing and has its actions and libraries (`Sound`), and once the add completed, every other
binding of the product is served by what is installed (`Whole`). Two lemmas are about the rules and not the
commands. check-install evaluates the contract with the prospective default, add evaluates it without it
first: `FewerFilesFewerViolations` says that taking a binding away makes no violation, also when it was the
first and settled the common timezone key. And `BindNotRefused` derives every conjunct of bind's admission
from `Sound` and `Whole`, but for the exceptions the property lists. The proof found one exception the instance does
not have: a wheel whose name the bundled catalog does not know is refused whatever check-install said.

Of activation it proves `StartsOnlyChecked` and `CheckedOnceIsAccepted`. The first rests on
`LockIsChecked`: generation resolves the whole set before it writes, so every manifest in its record was read
in whole, and a start compares the manifests it finds with that record. The wheel a backend finds under a name
is the last of several (`DiscoveredFact`); that an owned schema is the recorded one holds because two wheels
with one module own none. The second compares two pairs of readers: `VerifiedResolves` the verification of a
wheel with its resolution, `ResolvedActivates` the tooling's reader of package.yaml with the backend's, for any
manifest. It supposes of a manifest only that `setting_seeds` is a list, which YAML and the model behind it
guarantee, and of a wheel as it should be that its module is one of its directories (`BaseAssumption`).

Of the other tooling parts it proves the property of each.

* `SelectionIsNewest`: an accepted catalog names each component once, so what `Component` finds is what the name
  means (`ComponentFact`). `Newer` compares versions, and of equals places; it is a strict order on a finite set of places,
  so one admitted release has no newer one (`FirstExists`), and two of one version are two texts of a library.
  `CatalogAssumption` says that versions are ordered by a number.
* `ArtifactMeetsRequirements`: the inductive `EnvironmentInv` says of the fragment that it holds the variables that were wanted when
  it was made, each meeting its requirement (`KeptMeets`), whatever is declared since. Files that agree may be merged in any order and the merge
  holds what each of them says (`MergedHoldsEach`), which carries the requirement from the fragment to the artifact and back to a fresh
  generation. `ContractAssumption` says that a requirement names at most one platform source.
* `TopIsReproducible`: the order compares score, moment and identifier of a post, and no two posts of an answer have one
  identifier, so it is strict and total (scores are fractions, compared crosswise). The place of a post is then the number of those
  before it, which is the same from whichever end they are read (`Places`, `SamePlace`). `RankingAssumption` says
  that a metric is reported once or not, that counts and weights are naturals, and that keywords are finitely many.
* `MergeIsOrderFree`: after n packages every registry holds what was there before and what these declare (`Held`, an
  induction over the walk), so a package that meets nothing where it stands is one that fits as if it were the first and is disjoint
  from each before it (`FreeAt`); being disjoint has no direction. While nothing collides the registry of
  events binds each as it was declared and the timers are their packages' (`Bound`). `MergeAssumption` is what reading a manifest
  guarantees: a timer names a job, no event is published twice, a prefix is not empty.
* `EdgesAreSound`: what a schema accepts, its normal form and the match of two schemas are recursive functions; that each
  exists is itself an induction over the depth of a schema (`MeaningExists`, `NormalExists`, `MatchesExist`). By the
  same induction dropping annotations changes no answer (`NormalMeansTheSame`), and of two compatible schemas the second accepts
  what the first does (`CompatibleIsSound`). What the unwrapping of an alternative keeps of the schema around it does not
  matter, since a value that is an object satisfies both (`UnwrappedValue`). The proof uses `Matches` alone: `Semantic`
  and `Supported` only refuse more. `MatchingAssumption` says that a schema is nested to a bounded depth, has one schema of
  items at most, and that the sets of schemas and of JSON values hold the parts and the normal forms of their members.

### Only model-checked

`ErrorMeansFailure` and `FiresEverySlot`, which are violated (what is proved about them is the hypothesis under which the second
holds and the one form the violation of the first takes); all liveness, which is out of TLAPS's reach here like ENABLED.

## 5. Findings

* `timers_slow`: one clock reading serves all the fires of a round, which are awaited one by
  one. Fires that together last as long as a period or longer make the loop skip slots,
  though `timers.py` and `docs/CONTRACTS.md` promise each slot while the loop runs, but for a failed fire. In the run
  no fire fails: in the trace two successful fires take three instants, and slots 1 to 3 of the faster timer are never fired.
* `events_error`: the success event is published inside the `try` whose `except` publishes the
  error event; a failure of that publish reports an execution that succeeded as failed, and
  the success event is not published by the redelivery either.

Observations that no document contradicts in so many words:

* A publish whose answer is lost is repeated under a fresh event id by the next fire although
  nothing crashed; `BoundedEmissions` counts it (`uncertain`).
* `retry_at` of the channels package is the tick's slot plus `Retry-After`, not the answer's
  instant: a tick handled late stores a deadline that is partly or wholly over (`Delayed`).
* The cleanup of the lifespan can hide what ended it: a broker close that raises replaces any error, and the error of a
  package stop replaces the cancellation of the loop's stop, because only what the body raised suppresses it.
* The catalog route of kit add selects by the tooling's core version, not by the product's; where
  they differ the other routes and activation may disagree (`Newest`, `Accepted`).
* Equal HTTP prefixes are refused by activation only, which is why `DoneIsWhole` leaves them out.
* An extension whose add ended between the manifest and the sync cannot be added again before
  `make setup`: the look at its parent resolves the whole allowlist (`ParentReady`).
* check-install asks neither for an extension's parent, nor for capabilities, nor whether the bundled
  catalog knows a wheel's name, and it does not see a timezone key the product declares with another
  schema; `MechanicalInstallBinds` names these exceptions. kit add in turn does not ask for the libraries of a binding.
* An upgrade to a version without a default binding skips the comparison of the retained binding
  with the new actions, and the generation refuses it after the writes (`Effective`).

* `generate_all` writes the record of active packages before the environment generator, which may
  refuse the set (`Validate` and `WriteContract` before `WriteEnvironment`). The record then names packages
  nothing else was generated for. `package_contract.py` and `docs/CONTRACTS.md` say that the record pins
  activation to the set that was generated for; the command fails visibly, so it is listed here only.
* A package that keeps a copy of a seeded setting can part from it: a request that repeats the value it
  read locks no row, and seeds its value after another request replaced it (`OnlyReplaysDiverge` says that
  this is the only way). The ranking package's README (lines 83-85) says that every successful write
  reaches the callback, which keeps the latest one.
* The client of the bot repeats a read on a 5xx or a refused connection, but a read timeout ends the call.
* The two readers of package.yaml differ (`OnlyTheBackendSees`): generation accepts an empty `deployment`,
  which a backend refuses; it accepts `schema_name` for `database.schema`, which a backend does not find; a
  seed without its callback and a missing runtime object show only there.
* The verification of a wheel compares versions as versions, resolution and activation compare their
  text. `verify_wheel` does not look where package.yaml lies, `verify_source_wheel` only that it is there.
* A library may list "1.0" and "1.0.0" in the catalog, a package may not.
* Of two entry points of one name the backend takes the last, the tooling refuses the set.

## 6. Not modelled, and why

* Rendering, wording, validation of payloads, OpenAPI and the generated text: data that the
  properties do not tell apart.
* The generators' output and lint: sequential functions from files to text or to messages. Manifests and
  catalogs are accepted or refused as a whole, without the class and the wording of an error.
* Textparse (a parser around `dateparser`), the HTTP middleware and logging (stateless wiring), the
  generators of the settings manifest, jobs and schemas (the code they generate is modelled instead).
* The syntax analysis of a product's source in the host contract, the environment's use scan and the
  compliance scan: what they find in a text is an input of the rules that judge it.
* In `Ranking`: floats. Scores are exact fractions, so a tie of the model is a tie of the code but not
  the other way round. In `EnvContract`: how a variable is found in source text is an input; lists in an
  entry are sets; a withdrawn declaration stays in the fragment until the next generation, which the
  property names. In `CoreRows`: the retry of a whole request by its caller.
* A late tick's retry deadline in channels (`polling.py:56`) is in the model (`Delayed`), but no document
  says from which instant it counts, so no property judges it.
* In `PackageInstall`: products without a bot and services without an environment, two kit
  commands at once, the fetch and verification of a wheel (a trouble before the copy), the
  schemas of settings, jobs and messages, the order of the allowlist (kept as a set; the record
  is written from it), the early end of the generation in a product without models, and the lint
  exemption (part of `Lock`).
* In `HostContract`, `PackageInstall`: the core >=2.4 a binding of contract v2 requires (`preflight.py:296`,
  `binding_product.py:198`); every core of the instance has it.
* In `SpecMerge`: a generated `title` is stripped from a published schema before it is compared; schemas are opaque here. In
  `ComponentMatching`: alternatives and types are sets where the code compares lists in order, so the model draws
  more edges than the code, and each of them is sound.
* Docker Compose, CI, Makefile, deploy scripts: orchestration outside the program.
* In the modelled parts: the start of the readers (creation of groups), the digest and the
  platform's resolve check in channels, its batch limit of 200 rows and its 30-day horizon,
  the reminders' first-deploy seed.

`PROJECT.json` has the state of every component.

## 7. What comes next

Modelled in this order: the jobs core and its promise, the timer above it, the lifespan that starts
it, reminders, the generic consumer, the relay at the end of the chain, channels, the installation of
packages, the core rows, the bot's actions, and the judging parts of the tooling. By importance, the
next would be:

1. A composition of reminders and relay: a reminder leads to one message and one per fault,
   with `OneNotice` standing for the package.
2. Catalogs and cores that differ between tooling and product, in the instance of `kit`.
3. The readers' start, stream groups and stop, shared by the packages; the digest of channels.
