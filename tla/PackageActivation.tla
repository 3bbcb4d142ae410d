--------------------------- MODULE PackageActivation ---------------------------
(***************************************************************************)
(* From a package's source to the running backend: a wheel is built and    *)
(* verified (framework/package_source.py), installed beside others, the    *)
(* product is generated from what is installed and listed                  *)
(* (framework/spec/package_resolution.py), and a backend process starts    *)
(* from what is then installed (template/codegen_kit/packages.py).         *)
(* Between any two of these the author changes the wheel: every change of  *)
(* one thing is a step.                                                    *)
(***************************************************************************)
EXTENDS PackageManifest, FiniteSets

CONSTANTS
    Base,           \* wheels as they should be, one of each package
    Alternatives,   \* Alternatives[f]: other values a manifest field may be given
    MaxChanges      \* bound on the changes

VARIABLES
    site,           \* the installed wheels, in the order they are found
    listed,         \* the packages the backend manifest lists
    lock,           \* the package set the product was generated from: <<>> or <<identities>>
    changes

vars == <<site, listed, lock, changes>>

\* What is read from a wheel.
Wheel ==
    {"entry", "module", "distribution", "version", "dirs", "manifests", "resources", "runtime", "seeds",
     "manifest"}

\* YAML leaves setting_seeds a list.
IsList(seeds) == seeds \in Seq(ToSet(seeds))

\* In a wheel as it should be the module of the entry point is a directory of the wheel.
BaseAssumption ==
    /\ Base \in Seq(ToSet(Base)) /\ Base # <<>> /\ MaxChanges \in Nat
    /\ \A i, j \in DOMAIN Base : Base[i].entry = Base[j].entry => i = j
    /\ \A w \in ToSet(Base) :
        /\ DOMAIN w = Wheel /\ IsFiniteSet(w.manifests)
        /\ w.module # "" /\ w.module \in w.dirs
        /\ IsList(Default(w.manifest, "setting_seeds", <<>>))
    /\ \A seeds \in Alternatives["setting_seeds"] : IsList(seeds)

(* A wheel is [entry, module, distribution, version, dirs, manifests, resources, runtime, seeds,   *)
(* manifest]: its entry point's name and module, its distribution, the directories, those with a   *)
(* package.yaml, whether its resources exist, whether the loaded object is a Package, and the form *)
(* of its seed_setting.  Versions are [text, key].                                                  *)

-------------------------------------------------------------------------------
(* Building: read_source_package and verify_source_wheel. *)

\* What pyproject.toml of the sources of Base declares.
Source(name) == CHOOSE w \in ToSet(Base) : w.entry = name

\* verify_wheel, for a package of the catalog: the distribution by its canonical name, the version
\* by its value, and an entry point of the package's name.
CatalogVerified(w) ==
    LET source == Source(w.entry) IN
    w.distribution = source.distribution /\ w.version.key = source.version.key

\* verify_source_wheel, for a local source: also exactly the declared entry point, with a manifest
\* in its module.
Verified(w) == CatalogVerified(w) /\ w.module = Source(w.entry).module /\ w.module \in w.manifests

-------------------------------------------------------------------------------
(* Generating: resolve_active_packages. *)

\* _package_root and _manifest_path, alike in the tooling and in the backend.
Placed(w) == w.module # "" /\ w.module \in w.dirs /\ w.manifests = {w.module}

\* _validate_identity; the version is compared as text.
Identified(w) ==
    /\ w.manifest.name = w.entry /\ w.manifest.version = w.version.text
    /\ Compatible(w.manifest)

EntryResolves(w) ==
    Placed(w) /\ BuildAccepts(w.manifest) /\ Identified(w) /\ w.resources

Entries == {site[i].entry : i \in DOMAIN site}

Installed(name) == CHOOSE w \in ToSet(site) : w.entry = name

Resolves ==
    /\ \A i, j \in DOMAIN site : site[i].entry = site[j].entry => i = j
    /\ ToSet(listed) = Entries
    /\ \A n \in ToSet(listed) : EntryResolves(Installed(n))

\* The digest of a manifest is as good as the manifest.
Identity(w) == [name |-> w.manifest.name, version |-> w.manifest.version, manifest |-> w.manifest]

Generated == [i \in DOMAIN listed |-> Identity(Installed(listed[i]))]

-------------------------------------------------------------------------------
(* Starting: discover_generated_packages. *)

\* The exact contract of the callback when seeds are declared.
SeedsBound(w) == Default(w.manifest, "setting_seeds", <<>>) # <<>> => w.seeds = "async_exact"

Activates(w) ==
    /\ Placed(w) /\ RuntimeAccepts(w.manifest) /\ Identified(w)
    /\ w.runtime /\ SeedsBound(w)

\* Of two entry points of one name the backend sees the last.
Discovered(name) ==
    LET last == CHOOSE i \in DOMAIN site : /\ site[i].entry = name
                                           /\ \A j \in DOMAIN site : site[j].entry = name => j <= i
    IN site[last]

PrefixesDiffer(names) ==
    \A i, j \in DOMAIN names : i # j =>
        Discovered(names[i]).manifest.http.prefix # Discovered(names[j]).manifest.http.prefix

Discovers ==
    /\ ToSet(listed) = Entries
    /\ \A n \in ToSet(listed) : Activates(Discovered(n))
    /\ PrefixesDiffer(listed)

\* Mutant: the manifest's digest is not compared.
UnchangedVersion(identity) ==
    LET w == Discovered(identity.name) IN w.manifest.version = identity.version

Unchanged(identity) ==
    LET w == Discovered(identity.name) IN
    w.manifest.version = identity.version /\ w.manifest = identity.manifest

\* generated_packages compares the names in order.
Starts ==
    /\ lock # <<>>
    /\ [i \in DOMAIN lock[1] |-> lock[1][i].name] = listed
    /\ Discovers
    /\ \A i \in DOMAIN lock[1] : Unchanged(lock[1][i])

\* The schema a file of a package owns at run time: one installed package holds it.
OwnedSchema(module) ==
    LET owners == {i \in DOMAIN site : site[i].module = module /\ module \in site[i].dirs}
    IN {site[i].manifest.database.schema : i \in
            {o \in owners : /\ owners = {o}
                            /\ Placed(site[o]) /\ RuntimeAccepts(site[o].manifest) /\ Identified(site[o])
                            /\ Has(site[o].manifest, "database")}}

-------------------------------------------------------------------------------
Init ==
    /\ site = Base
    /\ listed = [i \in DOMAIN Base |-> Base[i].entry]
    /\ lock = <<>>
    /\ changes = 0

Change == changes < MaxChanges /\ changes' = changes + 1

Replace(i, w) == site' = [site EXCEPT ![i] = w] /\ UNCHANGED <<listed, lock>>

With(m, f, value) == [g \in DOMAIN m \cup {f} |-> IF g = f THEN value ELSE m[g]]
Without(m, f) == [g \in DOMAIN m \ {f} |-> m[g]]

EditManifest ==
    /\ Change
    /\ \E i \in DOMAIN site : \E f \in Fields \cup {"colour"} :
        \E m \in {With(site[i].manifest, f, v) : v \in Alternatives[f]} \cup {Without(site[i].manifest, f)} :
            m # site[i].manifest /\ Replace(i, [site[i] EXCEPT !.manifest = m])

EditWheel ==
    /\ Change
    /\ \E i \in DOMAIN site : \E w \in {site[i]} :
        \E changed \in {[w EXCEPT !.module = d] : d \in {"", "elsewhere"}}
                       \cup {[w EXCEPT !.manifests = @ \cup {"elsewhere"}], [w EXCEPT !.manifests = {}]}
                       \cup {[w EXCEPT !.distribution = "other"], [w EXCEPT !.resources = FALSE]}
                       \cup {[w EXCEPT !.version = v] : v \in {[text |-> "1.0.0", key |-> 10], [text |-> "1.1", key |-> 11]}}
                       \cup {[w EXCEPT !.runtime = FALSE]}
                       \cup {[w EXCEPT !.seeds = c] : c \in {"none", "sync", "other_parameters"}} :
            Replace(i, changed)

\* The product lists and unlists packages; a second distribution brings an entry point again.
EditProduct ==
    /\ Change
    /\ \/ listed' = SubSeq(listed, 1, Len(listed) - 1) /\ UNCHANGED site
       \/ listed' = Reverse(listed) /\ UNCHANGED site
       \/ site # <<>> /\ site' = Tail(site) /\ UNCHANGED listed
       \/ site' = Append(site, Head(Base)) /\ UNCHANGED listed
    /\ UNCHANGED lock

Generate ==
    /\ Resolves /\ lock' = <<Generated>> /\ lock' # lock
    /\ UNCHANGED <<site, listed, changes>>

Next == EditManifest \/ EditWheel \/ EditProduct \/ Generate

Spec == Init /\ [][Next]_vars

\* The changes never touch which package a wheel is of, nor where its directories are.
TypeOK ==
    /\ site \in Seq(ToSet(site))
    /\ \A w \in ToSet(site) :
        /\ DOMAIN w = Wheel /\ IsFiniteSet(w.manifests)
        /\ IsList(Default(w.manifest, "setting_seeds", <<>>))
        /\ \E b \in ToSet(Base) : w.entry = b.entry /\ w.dirs = b.dirs
    /\ listed \in Seq({b.entry : b \in ToSet(Base)})
    /\ changes \in 0..MaxChanges

-------------------------------------------------------------------------------
\* The differences between the two readers that are in the code: an empty deployment, a schema
\* under its Python name, and what only a running package shows.
OnlyTheBackendSees(w) ==
    \/ Has(w.manifest, "deployment") /\ DOMAIN w.manifest.deployment = {}
    \/ Has(w.manifest, "database") /\ ~Has(w.manifest.database, "schema")
    \/ ~w.runtime \/ ~SeedsBound(w)

\* A later check accepts what an earlier one did. A wheel verified before it is installed resolves
\* once it is listed, unless its manifest itself is wrong: verification leaves open a version
\* written unlike the manifest's and, beside the manifest a local source must have, other files of
\* that name. What generation accepts the backend activates, apart from the named differences and
\* from two packages under one HTTP prefix, which nothing before the start of a backend compares.
CheckedOnceIsAccepted ==
    /\ \A w \in ToSet(site) :
        CatalogVerified(w) /\ BuildAccepts(w.manifest) /\ Compatible(w.manifest) /\ w.resources
            /\ w.manifest.name = w.entry =>
        \/ EntryResolves(w)
        \/ w.manifest.version # w.version.text
        \/ IF Verified(w) THEN Cardinality(w.manifests) > 1 ELSE ~Placed(w)
    /\ Resolves =>
        \/ Discovers
        \/ \E n \in ToSet(listed) : OnlyTheBackendSees(Installed(n))
        \/ ~PrefixesDiffer(listed)

\* A backend that starts runs only manifests the whole of package.yaml was checked in, though it
\* checks a part of them: every timer names a job it can fire, and the schema its files own is the
\* one generation read.
StartsOnlyChecked ==
    Starts => \A n \in ToSet(listed) :
        LET w == Discovered(n)  timers == Default(w.manifest, "timers", <<>>) IN
        /\ BuildAccepts(w.manifest)
        /\ \A i \in DOMAIN timers :
            /\ timers[i].job \in DeclaredIn(w.manifest, "jobs_schema")
            /\ timers[i].every_seconds \in TimerSeconds
        /\ OwnedSchema(w.module) \subseteq
               (IF Has(w.manifest, "database") THEN {w.manifest.database.schema} ELSE {})

===============================================================================
