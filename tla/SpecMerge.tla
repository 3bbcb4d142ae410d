------------------------------- MODULE SpecMerge -------------------------------
(***************************************************************************)
(* framework/spec/loader.py: the declarations of the core, of the product  *)
(* and of its packages merged into one set of names.  The merge walks the  *)
(* packages in the product's order and keeps the first owner of a name;    *)
(* any conflict refuses the whole.                                         *)
(***************************************************************************)
EXTENDS Naturals, Sequences, SequencesExt

CONSTANTS
    Package,         \* declarations a package may make, see MergeAssumption
    Product,         \* declarations of the product itself: [settings, jobs, events, models, provides]
    Identifier(_),   \* the generated identifier of an event's name
    MaxPackages      \* bound on the packages of one product

VARIABLES
    product,         \* the product's own declarations
    packages         \* those of its packages, in the order of the backend manifest

vars == <<product, packages>>

Message == [event : STRING, model : STRING, schema : STRING]

EventsOf(declarations) == {declarations[i].event : i \in DOMAIN declarations}
IdentifiersOf(declarations) == {Identifier(declarations[i].event) : i \in DOMAIN declarations}
ModelsOf(declarations) == {declarations[i].model : i \in DOMAIN declarations}

\* The manifest of a package that was read.  prefix is its name as an identifier, database a set of at
\* most one schema, settings and jobs are sets of local names.  A timer names a job of its package,
\* and no event is published twice.
Manifest(p) ==
    /\ p.prefix # ""
    /\ p.timers \subseteq p.jobs
    /\ p.publishes \in Seq(Message) /\ p.consumes \in Seq(Message)
    /\ IsInjective([i \in DOMAIN p.publishes |-> p.publishes[i].event])

\* The product's settings and jobs, of all its services, are sequences of <<prefix, local name>>.
MergeAssumption ==
    /\ \A p \in Package : Manifest(p)
    /\ MaxPackages \in Nat
    /\ \A d \in Product : d.events \in Seq(Message)

CoreSettings == {<<"", "language">>}

-------------------------------------------------------------------------------
(* The merge.  A registry holds the names that are taken, for an event also what it binds and for a *)
(* job who declared it.                                                                              *)

Prefixed(p, names) == {<<p.prefix, n>> : n \in names}

\* _claim_name for a set of names: the first owner keeps a name, a second one is an error.
Claim(owners, names, owner) ==
    [n \in DOMAIN owners \cup names |-> IF n \in DOMAIN owners THEN owners[n] ELSE owner]

Free(taken, names) == taken \cap names = {}

\* What an event is bound to where it is declared.
BoundTo(declarations, name) ==
    LET d == CHOOSE d \in ToSet(declarations) : d.event = name IN <<d.model, d.schema>>

\* _merge_package_names reports nothing.
NamesFree(s, p) ==
    /\ Free(s.databases, p.database)
    /\ p.requires \subseteq s.capabilities
    /\ Free(s.settings, Prefixed(p, p.settings))
    /\ Free(DOMAIN s.jobs, Prefixed(p, p.jobs))

\* _merge_package_events reports nothing.  A model that is taken belongs to somebody else, for packages
\* have distinct names; one package may publish two events of a model when their schemas agree.
EventsFree(s, p) ==
    /\ Free(DOMAIN s.events, EventsOf(p.publishes))
    /\ Free(s.identifiers, IdentifiersOf(p.publishes))
    /\ IsInjective([i \in DOMAIN p.publishes |-> Identifier(p.publishes[i].event)])
    /\ Free(s.models, ModelsOf(p.publishes))
    /\ \A d, e \in ToSet(p.publishes) : d.model = e.model => d.schema = e.schema

\* What merging the names and the events of one package leaves, conflict or not.
MergePackage(s, p) ==
    LET jobs == Claim(s.jobs, Prefixed(p, p.jobs), p.name)
    IN [databases |-> s.databases \cup p.database,
        settings |-> s.settings \cup Prefixed(p, p.settings),
        jobs |-> jobs,
        timers |-> s.timers \cup {t \in Prefixed(p, p.timers) : jobs[t] = p.name},
        capabilities |-> s.capabilities,
        events |-> [n \in DOMAIN s.events \cup EventsOf(p.publishes) |->
                        IF n \in DOMAIN s.events THEN s.events[n] ELSE BoundTo(p.publishes, n)],
        identifiers |-> s.identifiers \cup IdentifiersOf(p.publishes),
        models |-> s.models \cup ModelsOf(p.publishes)]

\* The product declares no name twice.
ProductFits ==
    /\ IsInjective(product.settings) /\ Free(CoreSettings, ToSet(product.settings))
    /\ IsInjective(product.jobs)
    /\ IsInjective([i \in DOMAIN product.events |-> product.events[i].event])
    /\ IsInjective([i \in DOMAIN product.events |-> Identifier(product.events[i].event)])

\* No capability has two providers; those of all packages are known before any package is merged.
ProvidersDiffer ==
    \A i \in DOMAIN packages :
        /\ Free(product.provides, packages[i].provides)
        /\ \A j \in 1 .. i - 1 : Free(packages[j].provides, packages[i].provides)

\* The registries of the core and the product.
Before ==
    [databases |-> {}, timers |-> {},
     settings |-> CoreSettings \cup ToSet(product.settings),
     jobs |-> [n \in ToSet(product.jobs) |-> "product"],
     capabilities |-> product.provides \cup UNION {p.provides : p \in ToSet(packages)},
     events |-> [n \in EventsOf(product.events) |-> BoundTo(product.events, n)],
     identifiers |-> IdentifiersOf(product.events),
     models |-> product.models]

\* The registries after each of the packages.
After[n \in 0 .. Len(packages)] == IF n = 0 THEN Before ELSE MergePackage(After[n - 1], packages[n])

Merged == After[Len(packages)]

\* Mutant: a consumed event has to be published by a package merged before.
ConsumersBoundSoFar(s) ==
    \A i \in DOMAIN packages : \A e \in ToSet(packages[i].consumes) :
        \/ \E j \in 1 .. i - 1 : e \in ToSet(packages[j].publishes)
        \/ e \in ToSet(product.events)

\* _validate_package_event_consumers, after all packages: the event exists with this model and schema.
ConsumersBound(s) ==
    \A i \in DOMAIN packages : \A e \in ToSet(packages[i].consumes) :
        e.event \in DOMAIN s.events /\ s.events[e.event] = <<e.model, e.schema>>

\* _validate_and_merge_packages reports nothing.
Merges ==
    /\ ProductFits /\ ProvidersDiffer
    /\ \A n \in DOMAIN packages : NamesFree(After[n - 1], packages[n]) /\ EventsFree(After[n - 1], packages[n])
    /\ ConsumersBound(Merged)

-------------------------------------------------------------------------------
\* A product that declares nothing of its own.
Silent == [settings |-> <<>>, jobs |-> <<>>, events |-> <<>>, models |-> {}, provides |-> {}]

Init ==
    /\ product = Silent
    /\ packages = <<>>

Declare == product' \in Product /\ product # product' /\ packages = <<>> /\ UNCHANGED packages

List ==
    /\ Len(packages) < MaxPackages
    /\ \E p \in Package :
        /\ \A i \in DOMAIN packages : packages[i].name # p.name
        /\ packages' = Append(packages, p)
    /\ UNCHANGED product

Next == Declare \/ List

Spec == Init /\ [][Next]_vars

TypeOK ==
    /\ product \in Product \cup {Silent}
    /\ packages \in Seq(Package) /\ Len(packages) <= MaxPackages
    /\ \A i, j \in DOMAIN packages : packages[i].name = packages[j].name => i = j

-------------------------------------------------------------------------------
(* What the merge promises, without an order. *)

Disjoint(p, q) ==
    /\ Free(p.database, q.database) /\ Free(p.provides, q.provides)
    /\ p.prefix = q.prefix => Free(p.settings, q.settings) /\ Free(p.jobs, q.jobs)
    /\ \A d \in ToSet(p.publishes), e \in ToSet(q.publishes) :
        Identifier(d.event) # Identifier(e.event) /\ d.model # e.model

\* The merge accepts exactly the products where each package fits as if it were the first, any two are
\* disjoint and every event consumed is published, whatever their order; and the timers it yields and what
\* its events are bound to do not depend on the order either.
MergeIsOrderFree ==
    LET all == ToSet(packages)
        published == (UNION {ToSet(p.publishes) : p \in all}) \cup ToSet(product.events)
    IN /\ Merges <=>
            /\ ProductFits
            /\ \A p \in all :
                /\ NamesFree(Before, p) /\ EventsFree(Before, p) /\ Free(product.provides, p.provides)
                /\ ToSet(p.consumes) \subseteq published
                /\ \A q \in all : p # q => Disjoint(p, q)
       /\ Merges =>
            /\ Merged.timers = UNION {Prefixed(p, p.timers) : p \in all}
            /\ DOMAIN Merged.events = {e.event : e \in published}
            /\ \A e \in published : Merged.events[e.event] = <<e.model, e.schema>>
===============================================================================
