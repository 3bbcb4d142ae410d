----------------------------- MODULE PackageInstall -----------------------------
(***************************************************************************)
(* A backend,tg_bot product under "kit add", "kit bind", "kit              *)
(* check-install" and "make generate-from-spec".  A command admits or      *)
(* refuses in one look at the product and then writes in steps: wheel,     *)
(* lock, manifest, environment, generated files.  Any step may fail, or    *)
(* the command be killed there, and nothing is rolled back.  Between       *)
(* commands the author edits the product.                                  *)
(***************************************************************************)
EXTENDS PackageSet

CONSTANTS
    Library,         \* tg_bot libraries, numbers apart from the packages'
    Released,        \* Released[p]: the versions the live catalog lists
    Catalog,         \* packages of the bundled catalog, for --wheel
    Parent,          \* Parent[p]: the package an extension extends, 0 for none
    ParentVersions,  \* Parent[p]'s versions the extension p accepts
    Settings,        \* what the product's manifests declare at first
    Taken,           \* bound: commands the author declares
    Broken,          \* bound: rules the product's own files come to break
    MaxTroubles      \* bound: edits, and failed or killed steps, together

Component == Package \cup Library
Releases(c) == IF c \in Library THEN {1} ELSE DOMAIN Meta[c]

ASSUME InstallAssumption ==
    /\ Library \subseteq Nat /\ Package \cap Library = {} /\ 0 \notin Component
    /\ Version \subseteq Nat \ {0} /\ 1 \in Version
    /\ \A p \in Package : DOMAIN Meta[p] \subseteq Version
    /\ \A p \in Package : \A v \in DOMAIN Meta[p] : Meta[p][v].default \in Binding \cup {NoBinding}
    /\ \A b \in Binding : Content[b].libraries \subseteq Library
    /\ Settings \in [Key -> {"absent", "timezone", "other"}]
    /\ Taken \subseteq Command \ Reserved /\ Broken \subseteq Fault
    /\ MaxTroubles \in Nat

VARIABLES
    wheels,      \* wheels under services/*/packages
    lock,        \* the version a service's lock file pins, 0 for none
    listed,      \* "packages" of services/backend/manifest.yaml
    env,         \* the version in a service's environment, 0 for none
    settings,    \* what the manifests declare a key to be
    files,       \* services/tg_bot/bindings/<package>.yaml
    commands,    \* product commands of services/tg_bot/src/commands.py
    faults,      \* what the product's own files break
    contract,    \* codegen_kit/_active_packages.py
    fragment,    \* the package environment contract: the set it was made for
    bot,         \* generated bindings and command registry
    run,         \* the current or last command and its next step
    promise,     \* installs check-install called mechanical
    troubles     \* edits made and steps that failed

product == <<wheels, lock, listed, env, settings, files, commands, faults, contract, fragment, bot>>
vars == <<product, run, promise, troubles>>

Ended == {"idle", "done", "refused"}
Step == {"copy", "lock", "list", "sync", "binding", "setting", "generate", "contract", "environment", "bot"}
Pinned == [Component -> Version \cup {0}]

TypeOK ==
    /\ wheels \in [Component -> SUBSET Version]
    /\ lock \in Pinned /\ env \in Pinned
    /\ listed \subseteq Package
    /\ settings \in [Key -> {"absent", "timezone", "other"}]
    /\ files \in Files
    /\ commands \subseteq Command /\ faults \subseteq Fault
    /\ contract \in [Package -> Version \cup {0}] /\ fragment \in [Package -> Version \cup {0}]
    /\ bot \in [files : Files, commands : SUBSET Command]
    /\ run \in [cmd : {"add", "bind", "generate"}, item : Component \cup {0},
                version : Version \cup {0}, binding : Binding \cup {NoBinding},
                step : Ended \cup Step]
    /\ promise \subseteq Package \X Version \X {"checked", "installed"}
    /\ troubles \in 0..MaxTroubles

NoPackages == [p \in Package |-> 0]
Unbound == [p \in Package |-> NoBinding]
Stopped(step) ==
    [cmd |-> "generate", item |-> 0, version |-> 0, binding |-> NoBinding, step |-> step]

Init ==
    /\ wheels = [c \in Component |-> {}]
    /\ lock = [c \in Component |-> 0] /\ env = [c \in Component |-> 0]
    /\ listed = {} /\ commands = {} /\ faults = {} /\ promise = {}
    /\ settings = Settings
    /\ files = Unbound
    /\ contract = NoPackages /\ fragment = NoPackages
    /\ bot = [files |-> Unbound, commands |-> {}]
    /\ run = Stopped("idle")
    /\ troubles = 0

-------------------------------------------------------------------------------
(* What the commands look at before they write. *)

Retained == BoundIn(files)
HostValid(selected) == Violations(selected, Retained, commands, faults) = {}

DefaultOf(p, v) == Meta[p][v].default

\* A binding file of the product wins over the default; a package without a
\* default has no effective binding, whatever the product holds.
Effective(p, v) ==
    IF DefaultOf(p, v) = NoBinding \/ files[p] = NoBinding THEN DefaultOf(p, v) ELSE files[p]

Prospective(p, v) ==
    IF files[p] = NoBinding THEN [files EXCEPT ![p] = DefaultOf(p, v)] ELSE files

Fits(b, p, v) == b = NoBinding \/ Content[b].uses \subseteq Meta[p][v].actions

Admits(p, v) ==
    /\ HostValid(files)
    /\ Fits(Effective(p, v), p, v)
    /\ HostValid(Prospective(p, v))

ParentReady(p) ==
    \/ Parent[p] = 0
    \/ Parent[p] \in listed /\ Resolves(listed, env) /\ env[Parent[p]] \in ParentVersions[p]

Newest(p, core) ==
    {v \in Released[p] : /\ core \in Meta[p][v].core
                         /\ \A w \in Released[p] : core \in Meta[p][w].core => w <= v}

\* kit add <name>, --wheel and --package-source.
Accepted(route, p, v) ==
    \/ route = "catalog" /\ v \in Newest(p, ToolCore) /\ ParentReady(p)
    \/ route = "wheel" /\ p \in Catalog /\ ParentReady(p)
    \/ route = "source" /\ ProductCore \in Meta[p][v].core

Needs(b) == {Content[b].zone} \ {NoKey}
LibrariesThere(b) == \A l \in Content[b].libraries : env[l] # 0

\* Mutant: a retained file is not compared with the installed actions.
BindingsActive(selected, declared) ==
    \A p \in BoundIn(selected) :
        LET b == selected[p] IN
        /\ p \in listed /\ Manifest(env, p).actions # {}
        /\ ProductCore \in Manifest(env, p).core
        /\ \A k \in Needs(b) : declared[k] = "timezone"
        /\ LibrariesThere(b)

\* validate_product_bindings, every file against its installed package.
BindingsValid(selected, declared) ==
    \A p \in BoundIn(selected) :
        LET b == selected[p] IN
        /\ p \in listed /\ Manifest(env, p).actions # {}
        /\ ProductCore \in Manifest(env, p).core
        /\ Content[b].uses \subseteq Manifest(env, p).actions
        /\ \A k \in Needs(b) : declared[k] = "timezone"
        /\ LibrariesThere(b)

Generatable ==
    /\ HostValid(files)
    /\ Resolves(listed, env) /\ Merges(listed, env)
    /\ BindingsValid(files, settings)

-------------------------------------------------------------------------------
(* kit check-install: reads only. *)

\* Mutant: the default is looked at, not the retained file.
PreflightOfDefault(p, v) ==
    LET found == Violations(Prospective(p, v), Retained, commands, faults)
        b == DefaultOf(p, v)
    IN  IF \/ ProductCore \notin Meta[p][v].core
           \/ ~Fits(b, p, v)
           \/ \E x \in found : Unresolvable(x)
        THEN "incompatible"
        ELSE IF found # {} \/ (b # NoBinding /\ ~LibrariesThere(b)) THEN "glue"
        ELSE "mechanical"

Preflight(p, v) ==
    LET found == Violations(Prospective(p, v), Retained, commands, faults)
        b == Effective(p, v)
    IN  IF \/ ProductCore \notin Meta[p][v].core
           \/ ~Fits(b, p, v)
           \/ \E x \in found : Unresolvable(x)
        THEN "incompatible"
        ELSE IF found # {} \/ (b # NoBinding /\ ~LibrariesThere(b)) THEN "glue"
        ELSE "mechanical"

CheckInstall(p, v) ==
    /\ run.step \in Ended
    /\ Preflight(p, v) = "mechanical"
    /\ promise' = {<<p, v, "checked">>}
    /\ run' = Stopped("idle")
    /\ UNCHANGED <<product, troubles>>

-------------------------------------------------------------------------------
(* kit add. *)

\* The install may be repeated: the promise for the same version stands.
Add(route, p, v) ==
    /\ run.step \in Ended
    /\ route = "catalog" => v \in Newest(p, ToolCore)
    /\ run' = [cmd |-> "add", item |-> p, version |-> v, binding |-> NoBinding,
               step |-> IF Accepted(route, p, v) /\ Admits(p, v) THEN "copy" ELSE "refused"]
    /\ promise' = {x \in promise : x[1] = p /\ x[2] = v}
    /\ UNCHANGED <<product, troubles>>

AddLibrary(l) ==
    /\ run.step \in Ended
    /\ run' = [cmd |-> "add", item |-> l, version |-> 1, binding |-> NoBinding, step |-> "copy"]
    /\ UNCHANGED <<product, promise, troubles>>

At(step) == run.step = step
Goto(step) == run' = [run EXCEPT !.step = step]

\* Mutant: the package is listed before it is locked.
CopyListing ==
    /\ At("copy") /\ Goto("lock")
    /\ wheels' = [wheels EXCEPT ![run.item] = @ \cup {run.version}]
    /\ listed' = listed \cup ({run.item} \cap Package)
    /\ UNCHANGED <<lock, env, settings, files, commands, faults, contract, fragment, bot>>
    /\ UNCHANGED <<promise, troubles>>

Copy ==
    /\ At("copy") /\ Goto("lock")
    /\ wheels' = [wheels EXCEPT ![run.item] = @ \cup {run.version}]
    /\ UNCHANGED <<lock, listed, env, settings, files, commands, faults, contract, fragment, bot>>
    /\ UNCHANGED <<promise, troubles>>

\* "uv add --no-sync", and the lint exemption of a package.
Lock ==
    /\ At("lock") /\ Goto(IF run.item \in Library THEN "sync" ELSE "list")
    /\ lock' = [lock EXCEPT ![run.item] = run.version]
    /\ UNCHANGED <<wheels, listed, env, settings, files, commands, faults, contract, fragment, bot>>
    /\ UNCHANGED <<promise, troubles>>

List ==
    /\ At("list") /\ Goto("sync")
    /\ listed' = listed \cup {run.item}
    /\ UNCHANGED <<wheels, lock, env, settings, files, commands, faults, contract, fragment, bot>>
    /\ UNCHANGED <<promise, troubles>>

\* "uv sync --frozen" of the component's own service.
Sync ==
    /\ At("sync")
    /\ LET service == IF run.item \in Library THEN Library ELSE Package IN
       env' = [c \in Component |-> IF c \in service THEN lock[c] ELSE env[c]]
    /\ IF run.item \in Library THEN run' = Stopped("idle") ELSE Goto("generate")
    /\ UNCHANGED <<wheels, lock, listed, settings, files, commands, faults, contract, fragment, bot>>
    /\ UNCHANGED <<promise, troubles>>

-------------------------------------------------------------------------------
(* kit bind, with the installed default or a file of the author's. *)

Selected(p, b) == [files EXCEPT ![p] = b]

\* Keys no manifest declares yet become product timezones.
WithTimezones(selected) ==
    [k \in Key |->
        IF settings[k] = "absent" /\ k # LanguageKey
            /\ \E p \in BoundIn(selected) : k \in Needs(selected[p])
        THEN "timezone" ELSE settings[k]]

\* Mutant: the contract is evaluated without the prospective file.
BindAcceptsUnseen(p, b, default) ==
    /\ HostValid(files)
    /\ Resolves(listed, env) /\ Merges(listed, env)
    /\ p \in listed /\ Manifest(env, p).actions # {}
    /\ b # NoBinding
    /\ default => files[p] \in {NoBinding, b}
    /\ BindingsValid(Selected(p, b), WithTimezones(Selected(p, b)))

BindAccepts(p, b, default) ==
    /\ HostValid(files)
    /\ Resolves(listed, env) /\ Merges(listed, env)
    /\ p \in listed /\ Manifest(env, p).actions # {}
    /\ b # NoBinding
    /\ default => files[p] \in {NoBinding, b}
    /\ HostValid(Selected(p, b))
    /\ BindingsValid(Selected(p, b), WithTimezones(Selected(p, b)))

Bind(p, b, default) ==
    /\ run.step \in Ended
    /\ run' = [cmd |-> "bind", item |-> p, version |-> 0, binding |-> b,
               step |-> IF BindAccepts(p, b, default) THEN "binding" ELSE "refused"]
    /\ promise' = {x \in promise : default /\ x[1] = p /\ x[3] = "installed"}
    /\ UNCHANGED <<product, troubles>>

BindDefault(p) ==
    Bind(p, IF env[p] = 0 THEN NoBinding ELSE DefaultOf(p, env[p]), TRUE)

WriteBinding ==
    /\ At("binding") /\ Goto("setting")
    /\ files' = [files EXCEPT ![run.item] = run.binding]
    /\ UNCHANGED <<wheels, lock, listed, env, settings, commands, faults, contract, fragment, bot>>
    /\ UNCHANGED <<promise, troubles>>

WriteSetting ==
    /\ At("setting") /\ Goto("generate")
    /\ settings' = WithTimezones(files)
    /\ UNCHANGED <<wheels, lock, listed, env, files, commands, faults, contract, fragment, bot>>
    /\ UNCHANGED <<promise, troubles>>

-------------------------------------------------------------------------------
(* generate_all: every check first, then the files one by one. *)

Generate ==
    /\ run.step \in Ended
    /\ run' = Stopped("generate")
    /\ UNCHANGED <<product, promise, troubles>>

Validate ==
    /\ At("generate")
    /\ IF Generatable THEN Goto("contract") ELSE run' = Stopped("idle")
    /\ UNCHANGED <<product, promise, troubles>>

WriteContract ==
    /\ At("contract") /\ Goto("environment")
    /\ contract' = [p \in Package |-> IF p \in listed THEN env[p] ELSE 0]
    /\ UNCHANGED <<wheels, lock, listed, env, settings, files, commands, faults, fragment, bot>>
    /\ UNCHANGED <<promise, troubles>>

\* Refused after the contract is written.
WriteEnvironment ==
    /\ At("environment")
    /\ IF EnvironmentFits(listed, env)
       THEN /\ fragment' = [p \in Package |-> IF p \in listed THEN env[p] ELSE 0]
            /\ Goto("bot")
       ELSE run' = Stopped("idle") /\ UNCHANGED fragment
    /\ UNCHANGED <<wheels, lock, listed, env, settings, files, commands, faults, contract, bot>>
    /\ UNCHANGED <<promise, troubles>>

WriteBot ==
    /\ At("bot")
    /\ bot' = [files |-> files, commands |-> commands]
    /\ run' = Stopped("done")
    /\ promise' = {IF run.cmd = "add" THEN <<x[1], x[2], "installed">> ELSE x : x \in promise}
    /\ UNCHANGED <<wheels, lock, listed, env, settings, files, commands, faults, contract, fragment>>
    /\ UNCHANGED troubles

-------------------------------------------------------------------------------
(* Trouble and the author. *)

\* The build or uv fails, the disk is full, the command is killed.
Trouble ==
    /\ run.step \notin Ended
    /\ troubles < MaxTroubles
    /\ troubles' = troubles + 1
    /\ run' = Stopped("idle")
    /\ UNCHANGED <<product, promise>>

Edit ==
    /\ run.step \in Ended
    /\ troubles < MaxTroubles
    /\ troubles' = troubles + 1
    /\ \/ \E c \in Taken :
            commands' = (commands \ {c}) \cup ({c} \ commands) /\ UNCHANGED faults
       \/ \E f \in Broken :
            faults' = (faults \ {f}) \cup ({f} \ faults) /\ UNCHANGED commands
    /\ run' = Stopped("idle") /\ promise' = {}
    /\ UNCHANGED <<wheels, lock, listed, env, settings, files, contract, fragment, bot>>

\* make setup: a frozen sync of every service.
Setup ==
    /\ run.step \in Ended
    /\ env' = lock
    /\ run' = Stopped("idle") /\ promise' = {}
    /\ UNCHANGED <<wheels, lock, listed, settings, files, commands, faults, contract, fragment, bot>>
    /\ UNCHANGED troubles

Next ==
    \/ \E p \in Package, v \in Version : v \in Releases(p) /\
        \/ CheckInstall(p, v)
        \/ \E route \in {"catalog", "wheel", "source"} : Add(route, p, v)
    \/ \E l \in Library : AddLibrary(l)
    \/ \E p \in Package : BindDefault(p)
    \/ \E p \in Package, b \in Binding : Content[b].package = p /\ Bind(p, b, FALSE)
    \/ Copy \/ Lock \/ List \/ Sync \/ WriteBinding \/ WriteSetting
    \/ Generate \/ Validate \/ WriteContract \/ WriteEnvironment \/ WriteBot
    \/ Trouble \/ Edit \/ Setup

Spec == Init /\ [][Next]_vars

-------------------------------------------------------------------------------
(* Properties. *)

\* The committed files install what the manifest lists: at every point where
\* an install may be cut off, a frozen sync of a fresh checkout finds a locked
\* version of each listed package, and its wheel.
CheckoutInstalls == \A p \in listed : lock[p] \in wheels[p]

\* What a completed command leaves can be served: the backend activates and
\* migrates exactly what was generated, its environment contract is of the same
\* set, and the bot's commands have one owner each and reach installed actions
\* and libraries.  Equal prefixes are left out: nothing before activation
\* compares them.
DoneIsWhole ==
    run.step = "done" =>
        /\ ToolCore = ProductCore /\ DistinctPrefixes(listed, env) => Migrates(listed, env, contract)
        /\ fragment = contract
        /\ \A c \in Command : ~Collision(bot.files, bot.commands, c)
        /\ \A p \in BoundIn(bot.files) :
            /\ p \in listed /\ Content[bot.files[p]].uses \subseteq Manifest(env, p).actions
            /\ LibrariesThere(bot.files[p])

\* check-install says mechanical: until the author edits the product, "kit add"
\* of that version is refused only for the parent of an extension or, as a wheel, when
\* the bundled catalog does not know the name, and once it completed, "kit bind
\* --default" for nothing but a setting that the product declares to be no timezone, a
\* binding of the author's, or a package that has nothing to bind.
MechanicalInstallBinds ==
    run.step = "refused" =>
        \A x \in promise : x[1] = run.item =>
            \/ run.cmd = "add" /\ (~ParentReady(x[1]) \/ x[1] \notin Catalog)
            \/ run.cmd = "bind" /\ \/ DefaultOf(x[1], x[2]) = NoBinding
                                   \/ Meta[x[1]][x[2]].actions = {}
                                   \/ files[x[1]] \notin {NoBinding, DefaultOf(x[1], x[2])}
                                   \/ \E k \in Needs(Effective(x[1], x[2])) : settings[k] = "other"

\* Conflicts of the host contract are found before anything is written: when
\* the generation at the end of an add or a bind evaluates it again, it holds;
\* what a bind wrote passes every other check of the generation as well.
WritesAreGeneratable ==
    run.step = "generate" =>
        /\ run.cmd = "add" => HostValid(files)
        /\ run.cmd = "bind" => Generatable

================================================================================
