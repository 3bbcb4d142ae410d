------------------------------- MODULE KitProofs -------------------------------
(***************************************************************************)
(* What an interrupted "kit add" or "kit bind" can and cannot leave        *)
(* behind, for any packages, versions, bindings and number of troubles.    *)
(* Everything a command writes in steps is tied to what it admitted: the   *)
(* wheel comes before the lock and the lock before the manifest.  Then     *)
(* what a backend can start from, for any wheels and changes of them, and  *)
(* what the catalog, the environment contract, the ranking, the merge of   *)
(* declarations and the matching of components answer.                     *)
(***************************************************************************)
EXTENDS Kit, Sequences, FiniteSetTheorems, WellFoundedInduction, TLAPS

\* A command on its way to the manifest carries a released version, which is
\* in the service's packages before it is locked, and locked before it is listed.
RunInv ==
    run.step \in {"copy", "lock", "list", "sync"} =>
        /\ run.item \in Component /\ run.version \in Releases(run.item)
        /\ run.step = "lock" => run.version \in wheels[run.item]
        /\ run.step = "list" => run.item \in Package /\ lock[run.item] = run.version

\* Only released versions are pinned or installed, and a pin has its wheel.
PinsInv ==
    \A c \in Component :
        /\ lock[c] = 0 \/ (lock[c] \in Releases(c) /\ lock[c] \in wheels[c])
        /\ env[c] = 0 \/ env[c] \in Releases(c)

ListedInv == \A p \in listed : lock[p] # 0

Bindable(selected) ==
    /\ HostValid(selected)
    /\ Resolves(listed, env) /\ Merges(listed, env)
    /\ BindingsValid(selected, WithTimezones(selected))

\* What the first look of an add or a bind established holds until the
\* generation looks again; only an add of a package generates.
AdmittedInv ==
    /\ run.step \in {"copy", "lock", "list", "sync"} => run.cmd = "add"
    /\ run.step \in {"binding", "setting"} => run.cmd = "bind"
    /\ run.step \in {"copy", "lock", "list", "sync"} /\ run.item \notin Library => HostValid(files)
    /\ run.step = "binding" => Bindable(Selected(run.item, run.binding))
    /\ run.step = "setting" => Bindable(files)
    /\ WritesAreGeneratable

\* The set the generated files are made from.
ActiveSet == [p \in Package |-> IF p \in listed THEN env[p] ELSE 0]

\* Between the checks of a generation and its last write nothing else writes: the
\* files agree with each other and with what was checked.
DoneInv ==
    /\ run.step \in {"contract", "environment", "bot"} => Generatable
    /\ run.step \in {"environment", "bot"} => contract = ActiveSet
    /\ run.step = "bot" => fragment = ActiveSet
    /\ DoneIsWhole

\* Nothing is installed that no lock pins; an add of a package past its steps left it
\* pinned, listed and installed, and the services as they are locked.
Synced(p, v) == p \in listed /\ env[p] = v /\ \A q \in Package : env[q] = lock[q]
ProgressInv ==
    /\ \A c \in Component : env[c] # 0 => lock[c] # 0
    /\ run.cmd = "add" /\ run.step = "sync" /\ run.item \in Package =>
        run.item \in listed /\ lock[run.item] = run.version
    /\ run.cmd = "add" /\ run.step \in {"generate", "contract", "environment", "bot"} =>
        run.item \in Package /\ Synced(run.item, run.version)

\* What check-install saw: no conflict with the prospective binding, which the installed
\* actions and libraries support.
Sound(p, v) ==
    /\ v \in Releases(p) /\ ProductCore \in Meta[p][v].core
    /\ Admits(p, v)
    /\ Effective(p, v) # NoBinding => LibrariesThere(Effective(p, v))

\* What the add that completed left, but for the binding of the package itself.
Whole(p, v) ==
    /\ Synced(p, v)
    /\ Resolves(listed, env) /\ Merges(listed, env)
    /\ \A q \in BoundIn(files) \ {p} :
        /\ q \in listed /\ Manifest(env, q).actions # {} /\ ProductCore \in Manifest(env, q).core
        /\ Content[files[q]].uses \subseteq Manifest(env, q).actions
        /\ \A k \in Needs(files[q]) : settings[k] = "timezone"
        /\ LibrariesThere(files[q])

\* A promise is of one version: an add under way is of that version, a bind of its
\* default, and both leave it as sound as it was.
PromiseInv ==
    \A x \in promise :
        /\ Sound(x[1], x[2])
        /\ x[3] = "installed" => Whole(x[1], x[2])
        /\ run.cmd = "add" /\ run.step \in Step /\ run.item \in Package =>
            run.item = x[1] /\ run.version = x[2]
        /\ run.step \in {"binding", "setting"} =>
            /\ x[3] = "installed" /\ run.item = x[1] /\ run.binding = DefaultOf(x[1], x[2])
            /\ run.binding # NoBinding /\ files[x[1]] \in {NoBinding, run.binding}
        /\ run.cmd = "bind" /\ run.step \in Step => x[3] = "installed"

Runs ==
    [cmd : {"add", "bind", "generate"}, item : Component \cup {0},
     version : Version \cup {0}, binding : Binding \cup {NoBinding}, step : Ended \cup Step]
Promises == Package \X Version \X {"checked", "installed"}

IInv == TypeOK /\ RunInv /\ PinsInv /\ ListedInv

-------------------------------------------------------------------------------
(* Lemmas about the constants and the helpers. *)

LEMMA ReleasesFacts ==
  ASSUME NEW c \in Component
  PROVE  Releases(c) \subseteq Version /\ 0 \notin Releases(c)
  BY InstallAssumption DEF InstallAssumption, Releases, Component

LEMMA DefaultFact ==
  ASSUME NEW p \in Package, NEW v \in Releases(p)
  PROVE  DefaultOf(p, v) \in Binding \cup {NoBinding}
  BY InstallAssumption DEF InstallAssumption, Releases, DefaultOf, Component

LEMMA TimezonesType ==
  ASSUME NEW selected, settings \in [Key -> {"absent", "timezone", "other"}]
  PROVE  WithTimezones(selected) \in [Key -> {"absent", "timezone", "other"}]
  BY DEF WithTimezones

-------------------------------------------------------------------------------
(* The invariant. *)

LEMMA InitInstall == Init => IInv
  <1> SUFFICES ASSUME Init PROVE IInv
    OBVIOUS
  <1> USE InstallAssumption DEF InstallAssumption, Init
  <1>1. TypeOK
    BY DEF TypeOK, Pinned, Files, Unbound, NoPackages, Stopped, Ended, Component
  <1>2. RunInv /\ PinsInv /\ ListedInv
    BY DEF RunInv, PinsInv, ListedInv, Stopped
  <1> QED
    BY <1>1, <1>2 DEF IInv

\* The invariant is kept by a step that leaves the product alone and, if it
\* leads to the copy, carries a released version of a component.
LEMMA ProductUntouched ==
  ASSUME IInv, UNCHANGED product,
         run' \in Runs, promise' \subseteq Promises, troubles' \in 0..MaxTroubles,
         run'.step \notin {"lock", "list", "sync"},
         run'.step = "copy" => run'.item \in Component /\ run'.version \in Releases(run'.item)
  PROVE  IInv'
  <1>1. TypeOK'
    BY DEF IInv, TypeOK, product, Runs, Promises, Pinned
  <1>2. RunInv' /\ PinsInv' /\ ListedInv'
    BY DEF IInv, RunInv, PinsInv, ListedInv, product
  <1> QED
    BY <1>1, <1>2 DEF IInv

LEMMA StoppedType ==
  ASSUME NEW step \in Ended \cup {"generate"}
  PROVE  Stopped(step) \in Runs /\ Stopped(step).step = step
  BY DEF Stopped, Runs, Step

\* A command that begins, a check, and a command that ends early.
LEMMA CommandStep ==
  ASSUME IInv,
         \/ \E p \in Package, v \in Version : v \in Releases(p) /\
               \/ CheckInstall(p, v)
               \/ \E route \in {"catalog", "wheel", "source"} : Add(route, p, v)
         \/ \E l \in Library : AddLibrary(l)
         \/ \E p \in Package : BindDefault(p)
         \/ \E p \in Package, b \in Binding : Content[b].package = p /\ Bind(p, b, FALSE)
         \/ Generate \/ Validate \/ Trouble
  PROVE  IInv'
  <1>1. /\ run \in Runs /\ promise \subseteq Promises /\ troubles \in 0..MaxTroubles
        /\ MaxTroubles \in Nat
    BY InstallAssumption DEF InstallAssumption, IInv, TypeOK, Runs, Promises
  <1>2. ASSUME NEW p \in Package, NEW v \in Version, v \in Releases(p), CheckInstall(p, v)
        PROVE  IInv'
    <2>1. /\ UNCHANGED <<product, troubles>> /\ run' = Stopped("idle")
          /\ promise' = {<<p, v, "checked">>}
      BY <1>2 DEF CheckInstall
    <2>2. promise' \subseteq Promises
      BY <2>1 DEF Promises
    <2> QED
      BY <1>1, <2>1, <2>2, StoppedType, ProductUntouched DEF Ended
  <1>3. ASSUME NEW p \in Package, NEW v \in Version, v \in Releases(p),
               NEW route, Add(route, p, v)
        PROVE  IInv'
    <2>1. /\ UNCHANGED <<product, troubles>> /\ promise' \subseteq promise
          /\ run' = [cmd |-> "add", item |-> p, version |-> v, binding |-> NoBinding,
                     step |-> IF Accepted(route, p, v) /\ Admits(p, v) THEN "copy" ELSE "refused"]
      BY <1>3 DEF Add
    <2>2. run' \in Runs /\ run'.step \in {"copy", "refused"} /\ run'.item = p /\ run'.version = v
      BY <2>1 DEF Runs, Ended, Step, Component
    <2> QED
      BY <1>1, <1>3, <2>1, <2>2, ProductUntouched DEF Component
  <1>4. ASSUME NEW l \in Library, AddLibrary(l) PROVE IInv'
    <2>1. /\ UNCHANGED <<product, promise, troubles>>
          /\ run' = [cmd |-> "add", item |-> l, version |-> 1, binding |-> NoBinding, step |-> "copy"]
      BY <1>4 DEF AddLibrary
    <2>2. /\ run' \in Runs /\ run'.step = "copy" /\ run'.item = l /\ run'.version = 1
          /\ 1 \in Releases(l) /\ l \in Component
      BY <2>1, InstallAssumption DEF InstallAssumption, Runs, Ended, Step, Component, Releases
    <2> QED
      BY <1>1, <2>1, <2>2, ProductUntouched
  <1>5. ASSUME NEW p \in Package, NEW b \in Binding \cup {NoBinding}, NEW default, Bind(p, b, default)
        PROVE  IInv'
    <2>1. /\ UNCHANGED <<product, troubles>> /\ promise' \subseteq promise
          /\ run' = [cmd |-> "bind", item |-> p, version |-> 0, binding |-> b,
                     step |-> IF BindAccepts(p, b, default) THEN "binding" ELSE "refused"]
      BY <1>5 DEF Bind
    <2>2. run' \in Runs /\ run'.step \in {"binding", "refused"}
      BY <2>1 DEF Runs, Ended, Step, Component
    <2> QED
      BY <1>1, <2>1, <2>2, ProductUntouched
  <1>6. ASSUME NEW p \in Package, BindDefault(p) PROVE IInv'
    <2>1. env[p] = 0 \/ env[p] \in Releases(p)
      BY DEF IInv, PinsInv, Component
    <2>2. (IF env[p] = 0 THEN NoBinding ELSE DefaultOf(p, env[p])) \in Binding \cup {NoBinding}
      BY <2>1, DefaultFact
    <2> QED
      BY <1>5, <1>6, <2>2 DEF BindDefault
  <1>7. CASE Generate
    BY <1>1, <1>7, StoppedType, ProductUntouched DEF Generate
  <1>8. CASE Validate
    <2>1. UNCHANGED <<product, promise, troubles>>
      BY <1>8 DEF Validate
    <2>2. run' = [run EXCEPT !.step = "contract"] \/ run' = Stopped("idle")
      BY <1>8 DEF Validate, Goto
    <2>3. run' \in Runs /\ run'.step \in {"contract", "idle"}
      BY <1>1, <2>2, StoppedType DEF Runs, Ended, Step
    <2> QED
      BY <1>1, <2>1, <2>3, ProductUntouched
  <1>9. CASE Trouble
    <2>1. UNCHANGED <<product, promise>> /\ run' = Stopped("idle") /\ troubles' \in 0..MaxTroubles
      BY <1>1, <1>9 DEF Trouble
    <2> QED
      BY <1>1, <2>1, StoppedType, ProductUntouched DEF Ended
  <1> QED
    BY <1>2, <1>3, <1>4, <1>5, <1>6, <1>7, <1>8, <1>9

\* The next step of the command, with everything else it carries.
LEMMA GotoFacts ==
  ASSUME run \in Runs, NEW step \in Ended \cup Step, Goto(step)
  PROVE  /\ run' \in Runs /\ run'.step = step
         /\ run'.item = run.item /\ run'.version = run.version
         /\ run'.cmd = run.cmd /\ run'.binding = run.binding
  BY DEF Goto, Runs

\* The steps of kit add that bring a component into a service.
LEMMA ServiceStep ==
  ASSUME IInv, Copy \/ Lock \/ List \/ Sync
  PROVE  IInv'
  <1>1. /\ run \in Runs /\ promise \subseteq Promises /\ troubles \in 0..MaxTroubles
        /\ wheels \in [Component -> SUBSET Version] /\ lock \in Pinned /\ env \in Pinned
        /\ listed \subseteq Package
        /\ {"lock", "list", "sync", "generate"} \subseteq Ended \cup Step
    BY DEF IInv, TypeOK, Runs, Promises, Step
  <1>2. CASE Copy
    <2>1. /\ run.item \in Component /\ run.version \in Releases(run.item)
          /\ run'.step = "lock" /\ run' \in Runs
          /\ run'.item = run.item /\ run'.version = run.version
      BY <1>1, <1>2, GotoFacts DEF Copy, At, IInv, RunInv
    <2>2. /\ wheels' \in [Component -> SUBSET Version]
          /\ \A c \in Component : wheels[c] \subseteq wheels'[c]
          /\ run.version \in wheels'[run.item]
      BY <1>1, <1>2, <2>1, ReleasesFacts DEF Copy
    <2>3. TypeOK'
      BY <1>1, <1>2, <2>1, <2>2 DEF IInv, TypeOK, Copy, Runs, Promises
    <2>4. RunInv'
      BY <2>1, <2>2 DEF RunInv, Releases
    <2>5. PinsInv' /\ ListedInv'
      BY <1>2, <2>2 DEF IInv, PinsInv, ListedInv, Copy, Releases
    <2> QED
      BY <2>3, <2>4, <2>5 DEF IInv
  <1>3. CASE Lock
    <2>1. /\ run.item \in Component /\ run.version \in Releases(run.item)
          /\ run.version \in wheels[run.item]
      BY <1>3 DEF Lock, At, IInv, RunInv
    <2>2. /\ run' \in Runs /\ run'.item = run.item /\ run'.version = run.version
          /\ run'.step \in {"list", "sync"}
          /\ run'.step = "list" => run.item \in Package
      <3>1. CASE run.item \in Library
        BY <1>1, <1>3, <3>1, GotoFacts DEF Lock
      <3>2. CASE run.item \notin Library
        BY <1>1, <1>3, <2>1, <3>2, GotoFacts DEF Lock, Component
      <3> QED
        BY <3>1, <3>2
    <2>3. /\ lock' = [lock EXCEPT ![run.item] = run.version]
          /\ lock' \in Pinned /\ lock'[run.item] = run.version
          /\ \A c \in Component : c # run.item => lock'[c] = lock[c]
          /\ run.version # 0
      BY <1>1, <1>3, <2>1, ReleasesFacts DEF Lock, Pinned
    <2>4. TypeOK'
      BY <1>1, <1>3, <2>2, <2>3 DEF IInv, TypeOK, Lock, Runs, Promises
    <2>5. RunInv'
      BY <2>1, <2>2, <2>3 DEF RunInv, Releases
    <2>6. PinsInv' /\ ListedInv'
      BY <1>1, <1>3, <2>1, <2>3 DEF IInv, PinsInv, ListedInv, Lock, Releases, Component
    <2> QED
      BY <2>4, <2>5, <2>6 DEF IInv
  <1>4. CASE List
    <2>1. /\ run.item \in Package /\ lock[run.item] = run.version
          /\ run.item \in Component /\ run.version \in Releases(run.item)
      BY <1>4 DEF List, At, IInv, RunInv
    <2>2. /\ run' \in Runs /\ run'.item = run.item /\ run'.version = run.version
          /\ run'.step = "sync"
      BY <1>1, <1>4, GotoFacts DEF List
    <2>3. listed' = listed \cup {run.item} /\ lock[run.item] # 0
      BY <1>4, <2>1, ReleasesFacts DEF List
    <2>4. TypeOK'
      BY <1>1, <1>4, <2>1, <2>2, <2>3 DEF IInv, TypeOK, List, Runs, Promises
    <2>5. RunInv' /\ PinsInv' /\ ListedInv'
      BY <1>4, <2>1, <2>2, <2>3 DEF IInv, RunInv, PinsInv, ListedInv, List, Releases
    <2> QED
      BY <2>4, <2>5 DEF IInv
  <1>5. CASE Sync
    <2>1. run' \in Runs /\ run'.step \in {"idle", "generate"}
      BY <1>1, <1>5, GotoFacts, StoppedType DEF Sync, Ended
    <2>2. env' \in Pinned /\ \A c \in Component : env'[c] \in {lock[c], env[c]}
      BY <1>1, <1>5 DEF Sync, Pinned
    <2>3. TypeOK'
      BY <1>1, <1>5, <2>1, <2>2 DEF IInv, TypeOK, Sync, Runs, Promises
    <2>4. RunInv' /\ ListedInv'
      BY <1>5, <2>1 DEF IInv, RunInv, ListedInv, Sync
    <2>5. PinsInv'
      BY <1>5, <2>2 DEF IInv, PinsInv, Sync, Releases
    <2> QED
      BY <2>3, <2>4, <2>5 DEF IInv
  <1> QED
    BY <1>2, <1>3, <1>4, <1>5

\* The steps that write a binding, a setting or a generated file, and the author's.
LEMMA FileStep ==
  ASSUME IInv,
         WriteBinding \/ WriteSetting \/ WriteContract \/ WriteEnvironment \/ WriteBot \/ Edit \/ Setup
  PROVE  IInv'
  <1>1. TypeOK /\ run \in Runs /\ promise \subseteq Promises
        /\ env \in Pinned /\ listed \subseteq Package /\ Package \subseteq Component
        /\ {"setting", "generate", "environment", "bot", "idle", "done"} \subseteq Ended \cup Step
    BY DEF IInv, TypeOK, Runs, Promises, Step, Ended, Component
  <1>2. /\ run' \in Runs
        /\ run'.step \in {"setting", "generate", "environment", "bot", "idle", "done"}
    BY <1>1, GotoFacts, StoppedType
       DEF WriteBinding, WriteSetting, WriteContract, WriteEnvironment, WriteBot, Edit, Setup, Ended
  <1>3. [p \in Package |-> IF p \in listed THEN env[p] ELSE 0] \in [Package -> Version \cup {0}]
    BY <1>1 DEF Pinned
  <1>4. TypeOK'
    <2>1. CASE WriteBinding
      BY <1>1, <1>2, <2>1 DEF TypeOK, WriteBinding, Runs, Promises, Files
    <2>2. CASE WriteSetting
      <3>1. settings' \in [Key -> {"absent", "timezone", "other"}]
        BY <1>1, <2>2, TimezonesType DEF TypeOK, WriteSetting
      <3> QED
        BY <1>1, <1>2, <2>2, <3>1 DEF TypeOK, WriteSetting, Runs, Promises
    <2>3. CASE WriteContract
      BY <1>1, <1>2, <1>3, <2>3 DEF TypeOK, WriteContract, Runs, Promises
    <2>4. CASE WriteEnvironment
      <3>1. fragment' \in [Package -> Version \cup {0}]
        BY <1>1, <1>3, <2>4 DEF TypeOK, WriteEnvironment
      <3> QED
        BY <1>1, <1>2, <2>4, <3>1 DEF TypeOK, WriteEnvironment, Runs, Promises
    <2>5. CASE WriteBot
      <3>1. promise' \subseteq Promises
        BY <1>1, <2>5 DEF WriteBot, Promises
      <3>2. bot' \in [files : Files, commands : SUBSET Command]
        BY <1>1, <2>5 DEF TypeOK, WriteBot
      <3> QED
        BY <1>1, <1>2, <2>5, <3>1, <3>2 DEF TypeOK, WriteBot, Runs, Promises
    <2>6. CASE Edit
      <3>1. /\ commands' \subseteq Command /\ faults' \subseteq Fault /\ promise' = {}
            /\ UNCHANGED <<wheels, lock, listed, env, settings, files, contract, fragment, bot>>
        BY <1>1, <2>6, InstallAssumption DEF InstallAssumption, TypeOK, Edit
      <3>2. troubles' \in 0..MaxTroubles
        BY <1>1, <2>6, InstallAssumption DEF InstallAssumption, TypeOK, Edit
      <3> QED
        BY <1>1, <1>2, <3>1, <3>2 DEF TypeOK, Runs, Promises
    <2>7. CASE Setup
      BY <1>1, <1>2, <2>7 DEF TypeOK, Setup, Runs, Promises
    <2> QED
      BY <2>1, <2>2, <2>3, <2>4, <2>5, <2>6, <2>7
  <1>5. RunInv'
    BY <1>2 DEF RunInv
  <1>6. PinsInv' /\ ListedInv'
    BY DEF IInv, PinsInv, ListedInv, Releases,
           WriteBinding, WriteSetting, WriteContract, WriteEnvironment, WriteBot, Edit, Setup
  <1> QED
    BY <1>4, <1>5, <1>6 DEF IInv

LEMMA InstallStep == IInv /\ [Next]_vars => IInv'
  <1> SUFFICES ASSUME IInv, [Next]_vars PROVE IInv'
    OBVIOUS
  <1>1. CASE UNCHANGED vars
    BY <1>1 DEF IInv, TypeOK, RunInv, PinsInv, ListedInv, vars, product
  <1>2. CASE Next
    BY <1>2, CommandStep, ServiceStep, FileStep DEF Next
  <1> QED
    BY <1>1, <1>2

LEMMA InstallInvariance == Spec => []IInv
  BY InitInstall, InstallStep, PTL DEF Spec

-------------------------------------------------------------------------------
(* What was admitted. *)

\* Who has to repair a violation does not decide whether there is one.
LEMMA OwnersDoNotMatter ==
  ASSUME NEW selected, NEW one, NEW other, Violations(selected, one, commands, faults) = {}
  PROVE  Violations(selected, other, commands, faults) = {}
  <1>1. /\ faults \cap ManifestFault = {} /\ faults \ ManifestFault = {}
        /\ {d \in Command : Collision(selected, commands, d)} = {}
        /\ {q \in Package : LanguageElsewhere(selected, q)} = {}
        /\ {q \in Package : ZoneConflict(selected, q)} = {}
    BY DEF Violations
  <1> QED
    BY <1>1 DEF Violations

\* The checks read the product only.
LEMMA ChecksAreStable ==
  ASSUME UNCHANGED <<listed, env, commands, faults>>, UNCHANGED <<files, settings>>
  PROVE  /\ HostValid(files)' <=> HostValid(files)
         /\ Generatable' <=> Generatable
         /\ Bindable(files)' <=> Bindable(files)
  BY DEF HostValid, Retained, Generatable, Bindable, BindingsValid, WithTimezones, LibrariesThere

LEMMA InitAdmitted == Init => AdmittedInv
  BY DEF Init, AdmittedInv, Stopped, WritesAreGeneratable

LEMMA StepAdmitted == IInv /\ AdmittedInv /\ [Next]_vars => AdmittedInv'
  <1> SUFFICES ASSUME IInv, AdmittedInv, [Next]_vars PROVE AdmittedInv'
    OBVIOUS
  <1>1. run \in Runs
    BY DEF IInv, TypeOK, Runs
  \* A step from which no check is pending.
  <1>2. ASSUME run'.step \in (Ended \cup Step)
                   \ {"copy", "lock", "list", "sync", "binding", "setting", "generate"}
        PROVE  AdmittedInv'
    BY <1>2 DEF AdmittedInv, WritesAreGeneratable
  <1>3. ASSUME NEW step \in Ended, run' = Stopped(step) PROVE AdmittedInv'
    BY <1>2, <1>3 DEF Stopped, Ended, Step
  <1>4. ASSUME NEW p \in Package, NEW v, NEW route, Add(route, p, v) PROVE AdmittedInv'
    <2>1. /\ run'.step \in {"copy", "refused"} /\ run'.cmd = "add"
          /\ run'.step = "copy" => Admits(p, v)
      BY <1>4 DEF Add
    <2>2. HostValid(files)' <=> HostValid(files)
      BY <1>4, ChecksAreStable DEF Add, product
    <2> QED
      BY <2>1, <2>2 DEF Admits, AdmittedInv, WritesAreGeneratable
  <1>5. ASSUME NEW l \in Library, AddLibrary(l) PROVE AdmittedInv'
    BY <1>5 DEF AddLibrary, AdmittedInv, WritesAreGeneratable
  <1>6. ASSUME NEW p \in Package, NEW b, NEW default, Bind(p, b, default) PROVE AdmittedInv'
    <2>1. /\ UNCHANGED <<listed, env, commands, faults, files, settings>>
          /\ run'.step \in {"binding", "refused"} /\ run'.cmd = "bind"
          /\ run'.step = "binding" => BindAccepts(p, b, default)
          /\ run'.item = p /\ run'.binding = b
      BY <1>6 DEF Bind, product
    <2>2. run'.step = "binding" => Bindable(Selected(p, b))
      BY <2>1 DEF BindAccepts, Bindable
    <2>3. ASSUME Bindable(Selected(p, b)) PROVE Bindable(Selected(run.item, run.binding))'
      <3>1. Selected(run.item, run.binding)' = Selected(p, b)
        BY <2>1 DEF Selected
      <3>2. HostValid(Selected(run.item, run.binding))'
        BY <2>1, <2>3, <3>1 DEF Bindable, HostValid, Retained
      <3>3. WithTimezones(Selected(run.item, run.binding))' = WithTimezones(Selected(p, b))
        BY <2>1, <3>1 DEF WithTimezones
      <3>4. BindingsValid(Selected(run.item, run.binding), WithTimezones(Selected(run.item, run.binding)))'
        BY <2>1, <2>3, <3>1, <3>3 DEF Bindable, BindingsValid, LibrariesThere
      <3> QED
        BY <2>1, <2>3, <3>2, <3>4 DEF Bindable
    <2> QED
      BY <2>1, <2>2, <2>3 DEF AdmittedInv, WritesAreGeneratable
  <1>7. CASE Copy \/ Lock \/ List
    <2>1. /\ UNCHANGED <<listed, env, commands, faults, files, settings>> \/ List
          /\ run.step \in {"copy", "lock", "list"}
          /\ run'.step \in {"lock", "list", "sync"}
      BY <1>1, <1>7, GotoFacts DEF Copy, Lock, List, At, Step
    <2>2. run'.cmd = run.cmd /\ run'.item = run.item
      BY <1>1, <1>7, GotoFacts DEF Copy, Lock, List, Step
    <2>3. HostValid(files)' <=> HostValid(files)
      BY <1>7 DEF Copy, Lock, List, HostValid, Retained
    <2> QED
      BY <2>1, <2>2, <2>3 DEF AdmittedInv, WritesAreGeneratable
  <1>8. CASE Sync
    <2>1. CASE run.item \in Library
      BY <1>3, <1>8, <2>1 DEF Sync, Ended
    <2>2. CASE run.item \notin Library
      <3>1. /\ run.step = "sync" /\ run'.step = "generate"
            /\ run'.cmd = run.cmd
        BY <1>1, <1>8, <2>2, GotoFacts DEF Sync, At, Step
      <3>2. HostValid(files)' <=> HostValid(files)
        BY <1>8 DEF Sync, HostValid, Retained
      <3> QED
        BY <2>2, <3>1, <3>2 DEF AdmittedInv, WritesAreGeneratable
    <2> QED
      BY <2>1, <2>2
  <1>9. CASE WriteBinding
    <2>1. /\ run.step = "binding" /\ run'.step = "setting" /\ run'.cmd = run.cmd
          /\ files' = Selected(run.item, run.binding)
          /\ UNCHANGED <<listed, env, commands, faults, settings>>
      BY <1>1, <1>9, GotoFacts DEF WriteBinding, At, Step, Selected
    <2>2. Bindable(files') BY <2>1 DEF AdmittedInv
    <2>3. Violations(files', BoundIn(files'), commands, faults) = {}
      BY <2>2, OwnersDoNotMatter DEF Bindable, HostValid
    <2>4. Bindable(files)'
      BY <2>1, <2>2, <2>3 DEF Bindable, HostValid, Retained, BindingsValid, WithTimezones, LibrariesThere
    <2> QED
      BY <2>1, <2>4 DEF AdmittedInv, WritesAreGeneratable
  <1>10. CASE WriteSetting
    <2>1. /\ run.step = "setting" /\ run'.step = "generate" /\ run'.cmd = run.cmd
          /\ settings' = WithTimezones(files)
          /\ UNCHANGED <<listed, env, commands, faults, files>>
      BY <1>1, <1>10, GotoFacts DEF WriteSetting, At, Step
    <2>2. Bindable(files) /\ run.cmd = "bind"
      BY <2>1 DEF AdmittedInv
    <2>3. BindingsValid(files, settings)'
      BY <2>1, <2>2 DEF Bindable, BindingsValid, LibrariesThere
    <2>4. Generatable'
      BY <2>1, <2>2, <2>3 DEF Bindable, Generatable, HostValid, Retained
    <2> QED
      BY <2>1, <2>2, <2>4 DEF AdmittedInv, WritesAreGeneratable
  <1>11. CASE Generate
    BY <1>11 DEF Generate, Stopped, AdmittedInv, WritesAreGeneratable
  <1>12. CASE Validate \/ WriteContract \/ WriteEnvironment \/ WriteBot
    <2>1. run'.step \in {"contract", "environment", "bot", "idle", "done"}
      BY <1>1, <1>12, GotoFacts, StoppedType
         DEF Validate, WriteContract, WriteEnvironment, WriteBot, Ended, Step
    <2> QED
      BY <1>2, <2>1 DEF Ended, Step
  <1>13. CASE Trouble \/ Edit \/ Setup \/ \E p \in Package, v \in Version : CheckInstall(p, v)
    BY <1>3, <1>13 DEF Trouble, Edit, Setup, CheckInstall, Ended
  <1>14. CASE UNCHANGED vars
    <2>1. UNCHANGED run /\ UNCHANGED <<listed, env, commands, faults, files, settings>>
      BY <1>14 DEF vars, product
    <2>2. /\ HostValid(files)' <=> HostValid(files)
          /\ Generatable' <=> Generatable
          /\ Bindable(files)' <=> Bindable(files)
      BY <2>1, ChecksAreStable
    <2>3. Bindable(Selected(run.item, run.binding))' <=> Bindable(Selected(run.item, run.binding))
      BY <2>1 DEF Bindable, Selected, HostValid, Retained, BindingsValid, WithTimezones, LibrariesThere
    <2> QED
      BY <2>1, <2>2, <2>3 DEF AdmittedInv, WritesAreGeneratable
  <1> QED
    BY <1>4, <1>5, <1>6, <1>7, <1>8, <1>9, <1>10, <1>11, <1>12, <1>13, <1>14 DEF Next, BindDefault

-------------------------------------------------------------------------------
(* What a completed command leaves. *)

\* No violation: nothing collides, and nothing else is wrong.
LEMMA NoViolations ==
  ASSUME NEW selected, NEW owners
  PROVE  Violations(selected, owners, commands, faults) = {} <=>
            /\ faults = {}
            /\ \A c \in Command : ~Collision(selected, commands, c)
            /\ \A q \in Package : ~LanguageElsewhere(selected, q) /\ ~ZoneConflict(selected, q)
  <1>1. ASSUME Violations(selected, owners, commands, faults) = {}
        PROVE  /\ faults \cap ManifestFault = {} /\ faults \ ManifestFault = {}
               /\ {d \in Command : Collision(selected, commands, d)} = {}
               /\ {q \in Package : LanguageElsewhere(selected, q)} = {}
               /\ {q \in Package : ZoneConflict(selected, q)} = {}
    BY <1>1 DEF Violations
  <1>2. ASSUME /\ faults = {}
               /\ \A c \in Command : ~Collision(selected, commands, c)
               /\ \A q \in Package : ~LanguageElsewhere(selected, q) /\ ~ZoneConflict(selected, q)
        PROVE  Violations(selected, owners, commands, faults) = {}
    BY <1>2 DEF Violations
  <1> QED
    BY <1>1, <1>2

\* Generation checked all that a backend asks of the set again, but for the prefixes.
LEMMA ChecksServe ==
  ASSUME TypeOK, Generatable
  PROVE  /\ ToolCore = ProductCore /\ DistinctPrefixes(listed, env) => Migrates(listed, env, ActiveSet)
         /\ \A c \in Command : ~Collision(files, commands, c)
         /\ \A p \in BoundIn(files) :
            /\ p \in listed /\ Content[files[p]].uses \subseteq Manifest(env, p).actions
            /\ LibrariesThere(files[p])
  <1>1. /\ Installed(env) = listed /\ \A p \in listed : ToolCore \in Manifest(env, p).core
        /\ Merges(listed, env) /\ BindingsValid(files, settings) /\ HostValid(files)
    BY DEF Generatable, Resolves
  <1>2. DistinctSchemas(listed, env)
    BY <1>1 DEF Merges, DistinctSchemas
  <1>3. \A p \in Package : ActiveSet[p] = env[p]
    BY <1>1 DEF ActiveSet, Installed
  <1>4. ToolCore = ProductCore /\ DistinctPrefixes(listed, env) => Migrates(listed, env, ActiveSet)
    BY <1>1, <1>2, <1>3 DEF Migrates, Activates
  <1>5. \A c \in Command : ~Collision(files, commands, c)
    BY <1>1, NoViolations DEF HostValid
  <1>6. \A p \in BoundIn(files) :
            /\ p \in listed /\ Content[files[p]].uses \subseteq Manifest(env, p).actions
            /\ LibrariesThere(files[p])
    BY <1>1 DEF BindingsValid
  <1> QED
    BY <1>4, <1>5, <1>6

LEMMA StepDone == ASSUME IInv, DoneInv, [Next]_vars PROVE DoneInv'
  <1>1. TypeOK /\ run \in Runs
    BY DEF IInv, TypeOK, Runs
  <1>2. ASSUME run'.step \notin {"contract", "environment", "bot", "done"}
        PROVE  DoneInv'
    BY <1>2 DEF DoneInv, DoneIsWhole
  <1>3. CASE Validate
    <2>1. CASE Generatable
      <3>1. run'.step = "contract"
        BY <1>1, <1>3, <2>1, GotoFacts DEF Validate, Step
      <3>2. Generatable'
        BY <1>3, <2>1, ChecksAreStable DEF Validate, product
      <3> QED
        BY <3>1, <3>2 DEF DoneInv, DoneIsWhole
    <2>2. CASE ~Generatable
      BY <1>2, <1>3, <2>2, StoppedType DEF Validate, Ended
    <2> QED
      BY <2>1, <2>2
  <1>4. CASE WriteContract
    <2>1. /\ run.step = "contract" /\ run'.step = "environment" /\ contract' = ActiveSet
          /\ UNCHANGED <<listed, env, commands, faults, files, settings>>
      BY <1>1, <1>4, GotoFacts DEF WriteContract, At, Step, ActiveSet
    <2>2. Generatable'
      BY <2>1, ChecksAreStable DEF DoneInv
    <2>3. ActiveSet' = ActiveSet
      BY <2>1 DEF ActiveSet
    <2> QED
      BY <2>1, <2>2, <2>3 DEF DoneInv, DoneIsWhole
  <1>5. CASE WriteEnvironment
    <2>1. CASE EnvironmentFits(listed, env)
      <3>1. /\ run.step = "environment" /\ run'.step = "bot" /\ fragment' = ActiveSet
            /\ UNCHANGED <<listed, env, commands, faults, files, settings, contract>>
        BY <1>1, <1>5, <2>1, GotoFacts DEF WriteEnvironment, At, Step, ActiveSet
      <3>2. Generatable'
        BY <3>1, ChecksAreStable DEF DoneInv
      <3>3. ActiveSet' = ActiveSet
        BY <3>1 DEF ActiveSet
      <3> QED
        BY <3>1, <3>2, <3>3 DEF DoneInv, DoneIsWhole
    <2>2. CASE ~EnvironmentFits(listed, env)
      BY <1>2, <1>5, <2>2, StoppedType DEF WriteEnvironment, Ended
    <2> QED
      BY <2>1, <2>2
  <1>6. CASE WriteBot
    <2>1. /\ run.step = "bot" /\ run' = Stopped("done")
          /\ bot' = [files |-> files, commands |-> commands]
          /\ UNCHANGED <<listed, env, commands, faults, files, settings, contract, fragment>>
      BY <1>6 DEF WriteBot, At
    <2>2. Generatable /\ contract = ActiveSet /\ fragment = ActiveSet
      BY <2>1 DEF DoneInv
    <2>3. run'.step = "done" /\ bot'.files = files /\ bot'.commands = commands
      BY <2>1, StoppedType DEF Ended
    <2>4. /\ ToolCore = ProductCore /\ DistinctPrefixes(listed, env) => Migrates(listed, env, contract)
          /\ \A c \in Command : ~Collision(files, commands, c)
          /\ \A p \in BoundIn(files) :
              /\ p \in listed /\ Content[files[p]].uses \subseteq Manifest(env, p).actions
              /\ LibrariesThere(files[p])
      BY <1>1, <2>2, ChecksServe
    <2>5. DoneIsWhole'
      BY <2>1, <2>2, <2>3, <2>4 DEF DoneIsWhole, LibrariesThere
    <2> QED
      BY <2>3, <2>5 DEF DoneInv
  <1>7. CASE UNCHANGED vars
    <2>1. /\ UNCHANGED <<run, contract, fragment, bot>>
          /\ UNCHANGED <<listed, env, commands, faults, files, settings>>
      BY <1>7 DEF vars, product
    <2>2. (Generatable' <=> Generatable) /\ ActiveSet' = ActiveSet
      BY <2>1, ChecksAreStable DEF ActiveSet
    <2>3. DoneIsWhole'
      BY <2>1 DEF DoneInv, DoneIsWhole, LibrariesThere
    <2> QED
      BY <2>1, <2>2, <2>3 DEF DoneInv
  <1>8. CASE \/ \E p \in Package, v \in Version : v \in Releases(p) /\
                 \/ CheckInstall(p, v)
                 \/ \E route \in {"catalog", "wheel", "source"} : Add(route, p, v)
             \/ \E l \in Library : AddLibrary(l)
             \/ \E p \in Package : BindDefault(p)
             \/ \E p \in Package, b \in Binding : Content[b].package = p /\ Bind(p, b, FALSE)
    <2>1. ASSUME NEW p, NEW v, CheckInstall(p, v) PROVE run'.step = "idle"
      BY <2>1, StoppedType DEF CheckInstall, Ended
    <2>2. ASSUME NEW p, NEW v, NEW route, Add(route, p, v) PROVE run'.step \in {"copy", "refused"}
      BY <2>2 DEF Add
    <2>3. ASSUME NEW l, AddLibrary(l) PROVE run'.step = "copy"
      BY <2>3 DEF AddLibrary
    <2>4. ASSUME NEW p, NEW b, NEW default, Bind(p, b, default)
          PROVE  run'.step \in {"binding", "refused"}
      BY <2>4 DEF Bind
    <2>5. run'.step \in {"idle", "copy", "binding", "refused"}
      BY <1>8, <2>1, <2>2, <2>3, <2>4 DEF BindDefault
    <2> QED
      BY <1>2, <2>5
  <1>9. CASE Copy \/ Lock \/ List \/ Sync \/ WriteBinding \/ WriteSetting
    <2>1. run'.step \in {"lock", "list", "sync", "idle", "generate", "setting"}
      BY <1>1, <1>9, GotoFacts, StoppedType
         DEF Copy, Lock, List, Sync, WriteBinding, WriteSetting, Ended, Step
    <2> QED
      BY <1>2, <2>1
  <1>10. CASE Generate \/ Trouble \/ Edit \/ Setup
    <2>1. run'.step \in {"idle", "generate"}
      BY <1>10, StoppedType DEF Generate, Trouble, Edit, Setup, Ended
    <2> QED
      BY <1>2, <2>1
  <1> QED
    BY <1>3, <1>4, <1>5, <1>6, <1>7, <1>8, <1>9, <1>10 DEF Next

-------------------------------------------------------------------------------
(* What check-install promised. *)

\* A binding file less is no violation more: its claims go, and the common timezone
\* key is the same one, if any is left.
LEMMA FewerFilesFewerViolations ==
  ASSUME NEW before \in Files, NEW p \in Package, NEW b \in Binding, before[p] = NoBinding,
         NEW owners, NEW others,
         Violations([before EXCEPT ![p] = b], owners, commands, faults) = {}
  PROVE  Violations(before, others, commands, faults) = {}
  <1> DEFINE after == [before EXCEPT ![p] = b]
  <1>1. /\ faults = {}
        /\ \A c \in Command : ~Collision(after, commands, c)
        /\ \A q \in Package : ~LanguageElsewhere(after, q) /\ ~ZoneConflict(after, q)
    BY NoViolations
  <1>2. /\ \A q \in Package : q # p => after[q] = before[q]
        /\ after[p] = b /\ NoBinding \notin Binding /\ Package \subseteq Nat
    BY HostAssumption DEF HostAssumption, Files
  <1>3. /\ \A q \in Package : q # p =>
            /\ Zone(before, q) = Zone(after, q) /\ Language(before, q) = Language(after, q)
            /\ Ordinary(before, q) <=> Ordinary(after, q)
        /\ Zone(before, p) = NoKey /\ Language(before, p) = NoKey /\ ~Ordinary(before, p)
    BY <1>2 DEF Zone, Language, Ordinary
  <1> HIDE DEF after
  <1>4. ASSUME NEW c \in Command PROVE ~Collision(before, commands, c)
    <2>1. Claimants(before, commands, c) \subseteq Claimants(after, commands, c)
      BY <1>2 DEF Claimants, BoundIn
    <2> QED
      BY <1>1, <2>1 DEF Collision
  <1>5. ASSUME NEW q \in Package PROVE ~LanguageElsewhere(before, q)
    BY <1>1, <1>3 DEF LanguageElsewhere
  <1>6. ASSUME NEW q \in Package, ZoneConflict(before, q) PROVE FALSE
    <2>1. q # p /\ Zone(after, q) # NoKey /\ Ordinary(after, q)
      BY <1>1, <1>3, <1>6 DEF ZoneConflict
    <2>2. PICK l \in Package : Leads(before, l) /\ Zone(before, l) # Zone(before, q)
      BY <1>3, <1>6, <2>1 DEF ZoneConflict
    <2>3. /\ l # p /\ Ordinary(after, l) /\ Zone(after, l) # Zone(after, q) /\ Zone(after, l) # NoKey
          /\ \A m \in Package : m # p /\ Ordinary(after, m) => l <= m
      BY <1>3, <2>1, <2>2 DEF Leads, Ordinary
    <2>4. CASE Ordinary(after, p) /\ p <= l
      <3>1. ASSUME NEW m \in Package, Ordinary(after, m) PROVE p <= m
        BY <1>2, <2>3, <2>4, <3>1
      <3>2. Leads(after, p)
        BY <2>4, <3>1 DEF Leads
      <3> QED
        BY <1>1, <2>1, <2>3, <3>2 DEF ZoneConflict
    <2>5. CASE ~(Ordinary(after, p) /\ p <= l)
      <3>1. ASSUME NEW m \in Package, Ordinary(after, m) PROVE l <= m
        BY <1>2, <2>3, <2>5, <3>1
      <3>2. Leads(after, l)
        BY <2>3, <3>1 DEF Leads
      <3> QED
        BY <1>1, <2>1, <2>3, <3>2 DEF ZoneConflict
    <2> QED
      BY <2>4, <2>5
  <1> QED
    BY <1>1, <1>4, <1>5, <1>6, NoViolations

\* Libraries stay, and so does what rests on them.
LibrariesStay == \A l \in Library : env[l] # 0 => env'[l] # 0

LEMMA LibrariesStayThere ==
  ASSUME LibrariesStay, NEW b \in Binding, LibrariesThere(b)
  PROVE  LibrariesThere(b)'
  <1>1. Content[b].libraries \subseteq Library
    BY InstallAssumption DEF InstallAssumption
  <1> QED
    BY <1>1 DEF LibrariesStay, LibrariesThere

LEMMA EffectiveFact ==
  ASSUME TypeOK, NEW p \in Package, NEW v \in Releases(p)
  PROVE  Effective(p, v) \in Binding \cup {NoBinding}
  BY DefaultFact DEF Effective, TypeOK, Files

LEMMA SoundStays ==
  ASSUME TypeOK, NEW p \in Package, NEW v, Sound(p, v), UNCHANGED <<files, commands, faults>>, LibrariesStay
  PROVE  Sound(p, v)'
  <1>1. Effective(p, v)' = Effective(p, v) /\ Prospective(p, v)' = Prospective(p, v)
    BY DEF Effective, Prospective
  <1>2. Admits(p, v)'
    BY <1>1 DEF Sound, Admits, HostValid, Retained
  <1>3. ASSUME NEW b \in Binding, b = Effective(p, v) PROVE LibrariesThere(b)'
    <2>1. LibrariesThere(b)
      BY <1>3, HostAssumption DEF HostAssumption, Sound
    <2> QED
      BY <2>1, LibrariesStayThere
  <1>4. v \in Releases(p)
    BY DEF Sound
  <1>5. Effective(p, v)' # NoBinding => LibrariesThere(Effective(p, v))'
    BY <1>1, <1>3, <1>4, EffectiveFact DEF LibrariesThere
  <1> QED
    BY <1>2, <1>5 DEF Sound, LibrariesThere

LEMMA WholeStays ==
  ASSUME TypeOK, NEW p \in Package, NEW v, Whole(p, v), LibrariesStay, listed' = listed,
         \A q \in Package : env'[q] = env[q] /\ lock'[q] = lock[q] /\ (q # p => files'[q] = files[q]),
         \A k \in Key : settings[k] = "timezone" => settings'[k] = "timezone"
  PROVE  Whole(p, v)'
  <1>1. listed \subseteq Package /\ \A q \in Package : Manifest(env', q) = Manifest(env, q)
    BY DEF TypeOK, Manifest
  <1>2. Synced(p, v)'
    BY DEF Whole, Synced
  <1>3. Resolves(listed, env)'
    BY <1>1 DEF Whole, Resolves, Installed
  <1>4. Merges(listed, env)'
    BY <1>1 DEF Whole, Merges
  <1>5. ASSUME NEW q \in BoundIn(files') \ {p}
        PROVE  /\ q \in listed /\ Manifest(env', q).actions # {} /\ ProductCore \in Manifest(env', q).core
               /\ Content[files'[q]].uses \subseteq Manifest(env', q).actions
               /\ \A k \in Needs(files'[q]) : settings'[k] = "timezone"
               /\ LibrariesThere(files[q])'
    <2>1. q \in Package /\ files'[q] = files[q] /\ q \in BoundIn(files) \ {p} /\ files[q] \in Binding
      BY DEF BoundIn, TypeOK, Files
    <2>2. Needs(files[q]) \subseteq Key
      BY <2>1, HostAssumption DEF HostAssumption, Needs
    <2>3. LibrariesThere(files[q])'
      BY <2>1, LibrariesStayThere DEF Whole, LibrariesThere
    <2> QED
      BY <1>1, <2>1, <2>2, <2>3 DEF Whole
  <1> QED
    BY <1>2, <1>3, <1>4, <1>5 DEF Whole, LibrariesThere

\* What passed the checks of a generation after a sync of the package is whole.
LEMMA GeneratedIsWhole ==
  ASSUME NEW p \in Package, NEW v, Synced(p, v), Generatable
  PROVE  Whole(p, v)
  BY DEF Whole, Generatable, BindingsValid

\* The default, once written, is as sound as it was prospective.
LEMMA BoundIsSound ==
  ASSUME TypeOK, NEW p \in Package, NEW v, Sound(p, v), DefaultOf(p, v) # NoBinding,
         files[p] \in {NoBinding, DefaultOf(p, v)}, files' = [files EXCEPT ![p] = DefaultOf(p, v)],
         UNCHANGED <<commands, faults, env>>
  PROVE  Sound(p, v)'
  <1>1. /\ files \in Files /\ DefaultOf(p, v) \in Binding
        /\ files'[p] = DefaultOf(p, v) /\ Prospective(p, v)' = files'
    BY DefaultFact DEF TypeOK, Files, Sound, Prospective
  <1>2. Effective(p, v)' = DefaultOf(p, v) /\ Effective(p, v) = DefaultOf(p, v)
    BY <1>1 DEF Effective
  <1>3. files' = Prospective(p, v)
    <2>1. files[p] # NoBinding => files' = files
      BY <1>1 DEF Files
    <2> QED
      BY <2>1 DEF Prospective
  <1>4. Violations(files', BoundIn(files'), commands, faults) = {}
    BY <1>3, OwnersDoNotMatter DEF Sound, Admits, HostValid
  <1>5. HostValid(files)'
    BY <1>4 DEF HostValid, Retained
  <1>6. Admits(p, v)'
    BY <1>1, <1>2, <1>5 DEF Admits, Sound
  <1> QED
    BY <1>2, <1>6 DEF Sound, LibrariesThere

\* What check-install calls mechanical is sound.
LEMMA MechanicalIsSound ==
  ASSUME TypeOK, NEW p \in Package, NEW v \in Releases(p), Preflight(p, v) = "mechanical"
  PROVE  Sound(p, v)
  <1>1. /\ ProductCore \in Meta[p][v].core /\ Fits(Effective(p, v), p, v)
        /\ HostValid(Prospective(p, v))
        /\ Effective(p, v) # NoBinding => LibrariesThere(Effective(p, v))
    BY DEF Preflight, HostValid
  <1>2. HostValid(files)
    <2>1. CASE files[p] = NoBinding /\ DefaultOf(p, v) # NoBinding
      <3>1. DefaultOf(p, v) \in Binding /\ files \in Files
        BY <2>1, DefaultFact DEF TypeOK
      <3> QED
        BY <1>1, <2>1, <3>1, FewerFilesFewerViolations DEF HostValid, Prospective
    <2>2. CASE ~(files[p] = NoBinding /\ DefaultOf(p, v) # NoBinding)
      <3>1. Prospective(p, v) = files
        BY <2>2 DEF Prospective, TypeOK, Files
      <3> QED
        BY <1>1, <3>1
    <2> QED
      BY <2>1, <2>2
  <1> QED
    BY <1>1, <1>2 DEF Sound, Admits

LEMMA StepProgress == ASSUME IInv, AdmittedInv, ProgressInv, [Next]_vars PROVE ProgressInv'
  <1>1. /\ TypeOK /\ run \in Runs /\ Package \cap Library = {}
        /\ lock \in Pinned /\ env \in Pinned /\ listed \subseteq Package
    BY InstallAssumption DEF InstallAssumption, IInv, TypeOK, Runs
  <1>2. ASSUME UNCHANGED <<lock, env, listed>>,
               \/ run'.cmd # "add"
               \/ run'.step \notin {"sync", "generate", "contract", "environment", "bot"}
        PROVE  ProgressInv'
    BY <1>2 DEF ProgressInv
  <1>3. ASSUME NEW step \in Ended \cup {"generate"}, run' = Stopped(step), UNCHANGED <<lock, env, listed>>
        PROVE  ProgressInv'
    BY <1>2, <1>3 DEF Stopped
  \* The steps of a generation that go on with the command.
  <1>4. ASSUME UNCHANGED <<lock, env, listed>>,
               run.step \in {"generate", "contract", "environment"},
               NEW step \in {"contract", "environment", "bot"}, Goto(step)
        PROVE  ProgressInv'
    <2>1. run'.step = step /\ run'.item = run.item /\ run'.version = run.version /\ run'.cmd = run.cmd
      BY <1>1, <1>4, GotoFacts DEF Step
    <2> QED
      BY <1>4, <2>1 DEF ProgressInv, Synced
  <1>5. CASE \/ \E p \in Package, v \in Version : v \in Releases(p) /\
                 \/ CheckInstall(p, v)
                 \/ \E route \in {"catalog", "wheel", "source"} : Add(route, p, v)
             \/ \E l \in Library : AddLibrary(l)
             \/ \E p \in Package : BindDefault(p)
             \/ \E p \in Package, b \in Binding : Content[b].package = p /\ Bind(p, b, FALSE)
    <2>1. ASSUME NEW p, NEW v, CheckInstall(p, v) PROVE ProgressInv'
      BY <1>3, <2>1 DEF CheckInstall, Ended, product
    <2>2. ASSUME NEW p, NEW v, NEW route, Add(route, p, v) PROVE ProgressInv'
      BY <1>2, <2>2 DEF Add, product
    <2>3. ASSUME NEW l, AddLibrary(l) PROVE ProgressInv'
      BY <1>2, <2>3 DEF AddLibrary, product
    <2>4. ASSUME NEW p, NEW b, NEW default, Bind(p, b, default) PROVE ProgressInv'
      BY <1>2, <2>4 DEF Bind, product
    <2> QED
      BY <1>5, <2>1, <2>2, <2>3, <2>4 DEF BindDefault
  <1>6. CASE Copy
    BY <1>1, <1>2, <1>6, GotoFacts DEF Copy, Step
  <1>7. CASE Lock
    <2>1. /\ run.item \in Component /\ run.version \in Releases(run.item)
          /\ lock' = [lock EXCEPT ![run.item] = run.version] /\ UNCHANGED <<env, listed>>
      BY <1>7 DEF Lock, At, IInv, RunInv
    <2>2. \A c \in Component : env'[c] # 0 => lock'[c] # 0
      BY <1>1, <2>1, ReleasesFacts DEF ProgressInv, Pinned
    <2>3. run'.item = run.item /\ run'.step = (IF run.item \in Library THEN "sync" ELSE "list")
      BY <1>1, <1>7, GotoFacts DEF Lock, Step
    <2> QED
      BY <1>1, <2>2, <2>3 DEF ProgressInv
  <1>8. CASE List
    <2>1. /\ run'.item = run.item /\ run'.version = run.version /\ run'.step = "sync"
      BY <1>1, <1>8, GotoFacts DEF List, Step
    <2>2. lock[run.item] = run.version /\ UNCHANGED <<lock, env>> /\ run.item \in listed'
      BY <1>8 DEF List, At, IInv, RunInv
    <2> QED
      BY <2>1, <2>2 DEF ProgressInv
  <1>9. CASE Sync
    <2>1. /\ run.item \in Component /\ UNCHANGED <<lock, listed>>
          /\ \A c \in Component : env'[c] = lock[c] \/ env'[c] = env[c]
      BY <1>9 DEF Sync, At, IInv, RunInv
    <2>2. \A c \in Component : env'[c] # 0 => lock'[c] # 0
      BY <2>1 DEF ProgressInv
    <2>3. CASE run.item \in Library
      BY <1>9, <2>2, <2>3 DEF Sync, Stopped, ProgressInv
    <2>4. CASE run.item \notin Library
      <3>1. /\ run'.item = run.item /\ run'.version = run.version
            /\ run'.step = "generate" /\ run'.cmd = run.cmd
        BY <1>1, <1>9, <2>4, GotoFacts DEF Sync, Step
      <3>2. run.item \in Package /\ \A q \in Package : env'[q] = lock[q]
        BY <1>9, <2>1, <2>4 DEF Sync, Component
      <3>3. run.cmd = "add" => run.item \in listed /\ lock[run.item] = run.version
        BY <1>9, <3>2 DEF Sync, At, ProgressInv
      <3> QED
        BY <2>1, <2>2, <3>1, <3>2, <3>3 DEF ProgressInv, Synced
    <2> QED
      BY <2>3, <2>4
  <1>10. CASE WriteBinding \/ WriteSetting
    <2>1. run'.cmd = run.cmd /\ run.cmd = "bind"
      BY <1>1, <1>10, GotoFacts DEF WriteBinding, WriteSetting, At, Step, AdmittedInv
    <2> QED
      BY <1>2, <1>10, <2>1 DEF WriteBinding, WriteSetting
  <1>11. CASE Validate
    <2>1. run.step = "generate" /\ UNCHANGED <<lock, env, listed>>
      BY <1>11 DEF Validate, At, product
    <2>2. Goto("contract") \/ run' = Stopped("idle")
      BY <1>11 DEF Validate
    <2> QED
      BY <1>3, <1>4, <2>1, <2>2 DEF Ended
  <1>12. CASE WriteContract
    BY <1>4, <1>12 DEF WriteContract, At
  <1>13. CASE WriteEnvironment
    <2>1. run.step = "environment" /\ UNCHANGED <<lock, env, listed>>
      BY <1>13 DEF WriteEnvironment, At
    <2>2. Goto("bot") \/ run' = Stopped("idle")
      BY <1>13 DEF WriteEnvironment
    <2> QED
      BY <1>3, <1>4, <2>1, <2>2 DEF Ended
  <1>14. CASE Generate \/ WriteBot \/ Trouble \/ Edit
    BY <1>3, <1>14 DEF Generate, WriteBot, Trouble, Edit, product, Ended
  <1>15. CASE Setup
    BY <1>15 DEF Setup, Stopped, ProgressInv
  <1>16. CASE UNCHANGED vars
    BY <1>16 DEF vars, product, ProgressInv, Synced
  <1> QED
    BY <1>5, <1>6, <1>7, <1>8, <1>9, <1>10, <1>11, <1>12, <1>13, <1>14, <1>15, <1>16 DEF Next

\* A default whose install completed is bound, unless the product forbids it.
LEMMA BindNotRefused ==
  ASSUME IInv, NEW p \in Package, NEW v \in Releases(p), Sound(p, v), Whole(p, v),
         NEW b, b = DefaultOf(p, v), b # NoBinding, files[p] \in {NoBinding, b},
         Meta[p][v].actions # {}, \A k \in Needs(Effective(p, v)) : settings[k] # "other"
  PROVE  BindAccepts(p, b, TRUE)
  <1> DEFINE selected == Selected(p, b)
  <1>1. /\ files \in Files /\ b \in Binding /\ settings \in [Key -> {"absent", "timezone", "other"}]
        /\ \A c \in Binding : Needs(c) \subseteq Key
    BY DefaultFact, HostAssumption DEF HostAssumption, IInv, TypeOK, Needs
  <1>2. /\ selected[p] = b /\ p \in BoundIn(selected)
        /\ \A q \in Package : q # p => selected[q] = files[q]
    BY <1>1 DEF Selected, Files, BoundIn
  <1>3. selected = Prospective(p, v)
    <2>1. files[p] # NoBinding => selected = files
      BY <1>1 DEF Selected, Files
    <2> QED
      BY <2>1 DEF Prospective, Selected
  <1>4. Effective(p, v) = b
    BY DEF Effective
  <1>5. HostValid(files) /\ HostValid(selected)
    BY <1>3 DEF Sound, Admits
  <1> HIDE DEF selected
  <1>6. \A k \in Needs(b) : k # LanguageKey
    <2>1. ~ZoneConflict(selected, p)
      BY <1>5, NoViolations DEF HostValid
    <2>2. Zone(selected, p) = Content[b].zone
      BY <1>2 DEF Zone
    <2> QED
      BY <2>1, <2>2 DEF ZoneConflict, Ordinary, Needs
  <1>7. \A k \in Needs(b) : WithTimezones(selected)[k] = "timezone"
    <2> SUFFICES ASSUME NEW k \in Needs(b) PROVE WithTimezones(selected)[k] = "timezone"
      OBVIOUS
    <2>1. k \in Key /\ k # LanguageKey /\ settings[k] \in {"absent", "timezone"}
      BY <1>1, <1>4, <1>6
    <2>2. \E q \in BoundIn(selected) : k \in Needs(selected[q])
      BY <1>2
    <2> QED
      BY <2>1, <2>2 DEF WithTimezones
  <1>8. /\ p \in listed /\ Manifest(env, p).actions # {} /\ ProductCore \in Manifest(env, p).core
        /\ Content[b].uses \subseteq Manifest(env, p).actions /\ LibrariesThere(b)
    <2>1. p \in listed /\ Manifest(env, p) = Meta[p][v]
      BY DEF Whole, Synced, Manifest
    <2> QED
      BY <1>4, <2>1 DEF Sound, Admits, Fits
  <1>9. ASSUME NEW q \in BoundIn(selected), q # p
        PROVE  /\ q \in listed /\ Manifest(env, q).actions # {} /\ ProductCore \in Manifest(env, q).core
               /\ Content[selected[q]].uses \subseteq Manifest(env, q).actions
               /\ \A k \in Needs(selected[q]) : WithTimezones(selected)[k] = "timezone"
               /\ LibrariesThere(selected[q])
    <2>1. selected[q] = files[q] /\ q \in BoundIn(files) \ {p} /\ files[q] \in Binding
      BY <1>1, <1>2, <1>9 DEF BoundIn, Files
    <2>2. \A k \in Needs(files[q]) : k \in Key /\ settings[k] = "timezone"
      BY <1>1, <2>1 DEF Whole
    <2>3. \A k \in Needs(files[q]) : WithTimezones(selected)[k] = "timezone"
      BY <2>2 DEF WithTimezones
    <2> QED
      BY <2>1, <2>3 DEF Whole
  <1>10. BindingsValid(selected, WithTimezones(selected))
    BY <1>2, <1>7, <1>8, <1>9 DEF BindingsValid
  <1> QED
    BY <1>5, <1>8, <1>10 DEF BindAccepts, Whole, selected

\* A step that leaves the services, the bindings and the contract alone leaves a
\* promise as it was.
LEMMA PromiseStays ==
  ASSUME TypeOK, NEW x \in promise, Sound(x[1], x[2]), NEW kind, kind = "installed" => Whole(x[1], x[2]),
         UNCHANGED <<lock, env, listed, settings, files, commands, faults>>
  PROVE  Sound(x[1], x[2])' /\ (kind = "installed" => Whole(x[1], x[2])')
  <1>1. x[1] \in Package /\ LibrariesStay
    BY DEF TypeOK, LibrariesStay
  <1>2. Sound(x[1], x[2])'
    BY <1>1, SoundStays
  <1>3. kind = "installed" => Whole(x[1], x[2])'
    BY <1>1, WholeStays
  <1> QED
    BY <1>2, <1>3

LEMMA StepPromise ==
  ASSUME IInv, AdmittedInv, DoneInv, ProgressInv, PromiseInv, [Next]_vars
  PROVE  PromiseInv'
  <1>1. /\ TypeOK /\ run \in Runs /\ Package \cap Library = {} /\ promise \subseteq Promises
        /\ lock \in Pinned /\ env \in Pinned /\ listed \subseteq Package
        /\ \A x \in promise : x[1] \in Package /\ x[2] \in Releases(x[1]) /\ x[2] # 0
    <2>1. \A x \in promise : x[1] \in Package /\ x[2] \in Releases(x[1])
      BY DEF IInv, TypeOK, PromiseInv, Sound
    <2> QED
      BY <2>1, InstallAssumption, ReleasesFacts
         DEF InstallAssumption, IInv, TypeOK, Runs, Promises, Component
  <1>2. ASSUME promise' \subseteq promise,
               UNCHANGED <<lock, env, listed, settings, files, commands, faults>>
        PROVE  \A x \in promise' : Sound(x[1], x[2])' /\ (x[3] = "installed" => Whole(x[1], x[2])')
    BY <1>1, <1>2, PromiseStays DEF PromiseInv
  <1>3. ASSUME promise' \subseteq promise,
               UNCHANGED <<lock, env, listed, settings, files, commands, faults>>,
               \/ run'.step \in Ended
               \/ run'.cmd = "generate"
               \/ run'.cmd = "add" /\ run'.item \in Library,
               run'.step \notin {"binding", "setting"}
        PROVE  PromiseInv'
    <2>1. run'.cmd # "bind" \/ run'.step \notin Step
      BY <1>3 DEF Ended, Step
    <2>2. ~(run'.cmd = "add" /\ run'.step \in Step /\ run'.item \in Package)
      BY <1>1, <1>3 DEF Ended, Step
    <2> QED
      BY <1>2, <1>3, <2>1, <2>2 DEF PromiseInv
  <1>4. ASSUME NEW step \in Ended \cup {"generate"}, run' = Stopped(step), promise' \subseteq promise,
               UNCHANGED <<lock, env, listed, settings, files, commands, faults>>
        PROVE  PromiseInv'
    <2>1. run'.cmd = "generate" /\ run'.step \in Ended \cup {"generate"}
      BY <1>4 DEF Stopped
    <2>2. run'.step \notin {"binding", "setting"}
      BY <2>1 DEF Ended
    <2> QED
      BY <1>3, <1>4, <2>1, <2>2
  \* A step of a command that goes on.
  <1>5. ASSUME NEW step \in Step \ {"binding", "setting"}, Goto(step), run.step \in Step,
               UNCHANGED promise,
               \A x \in promise : Sound(x[1], x[2])' /\ (x[3] = "installed" => Whole(x[1], x[2])')
        PROVE  PromiseInv'
    <2>1. /\ run'.step = step /\ run'.item = run.item /\ run'.version = run.version
          /\ run'.cmd = run.cmd
      BY <1>1, <1>5, GotoFacts
    <2> QED
      BY <1>5, <2>1 DEF PromiseInv
  <1>6. ASSUME NEW p \in Package, NEW v \in Version, v \in Releases(p), CheckInstall(p, v)
        PROVE  PromiseInv'
    <2>1. /\ promise' = {<<p, v, "checked">>} /\ run' = Stopped("idle")
          /\ UNCHANGED <<lock, env, listed, settings, files, commands, faults>>
      BY <1>6 DEF CheckInstall, product
    <2>2. Sound(p, v)
      BY <1>1, <1>6, MechanicalIsSound DEF CheckInstall
    <2>3. LibrariesStay
      BY <2>1 DEF LibrariesStay
    <2>4. Sound(p, v)'
      BY <1>1, <2>1, <2>2, <2>3, SoundStays
    <2>5. run'.cmd = "generate" /\ run'.step = "idle"
      BY <2>1 DEF Stopped
    <2> QED
      BY <2>1, <2>4, <2>5 DEF PromiseInv, Step
  <1>7. ASSUME NEW p \in Package, NEW v, NEW route, Add(route, p, v) PROVE PromiseInv'
    <2>1. /\ promise' = {x \in promise : x[1] = p /\ x[2] = v}
          /\ UNCHANGED <<lock, env, listed, settings, files, commands, faults>>
          /\ run'.cmd = "add" /\ run'.item = p /\ run'.version = v /\ run'.step \in {"copy", "refused"}
      BY <1>7 DEF Add, product
    <2> QED
      BY <1>2, <2>1 DEF PromiseInv
  <1>8. ASSUME NEW l \in Library, AddLibrary(l) PROVE PromiseInv'
    BY <1>3, <1>8 DEF AddLibrary, product
  <1>9. ASSUME NEW p \in Package, NEW b, Bind(p, b, FALSE) PROVE PromiseInv'
    <2>1. promise' = {}
      BY <1>9 DEF Bind
    <2> QED
      BY <2>1 DEF PromiseInv
  <1>10. ASSUME NEW p \in Package, BindDefault(p) PROVE PromiseInv'
    <2> DEFINE b == IF env[p] = 0 THEN NoBinding ELSE DefaultOf(p, env[p])
    <2>1. /\ promise' = {x \in promise : x[1] = p /\ x[3] = "installed"}
          /\ UNCHANGED <<lock, env, listed, settings, files, commands, faults>>
          /\ run'.cmd = "bind" /\ run'.item = p /\ run'.binding = b
          /\ run'.step \in {"binding", "refused"}
          /\ run'.step = "binding" => BindAccepts(p, b, TRUE)
      BY <1>10 DEF BindDefault, Bind, product
    <2>2. ASSUME NEW x \in promise' PROVE b = DefaultOf(x[1], x[2]) /\ x[1] = p /\ x[3] = "installed"
      <3>1. x \in promise /\ x[1] = p /\ x[3] = "installed"
        BY <2>1
      <3>2. env[p] = x[2] /\ x[2] # 0
        BY <1>1, <3>1 DEF PromiseInv, Whole, Synced
      <3> QED
        BY <3>1, <3>2
    <2>3. run'.step = "binding" => b # NoBinding /\ files[p] \in {NoBinding, b}
      BY <2>1 DEF BindAccepts
    <2> HIDE DEF b
    <2> QED
      BY <1>2, <2>1, <2>2, <2>3 DEF PromiseInv
  <1>11. CASE Copy
    BY <1>2, <1>5, <1>11 DEF Copy, At, Step
  <1>12. CASE Lock
    <2>1. /\ run.step = "lock" /\ run.cmd = "add" /\ run.item \in Component
          /\ lock' = [lock EXCEPT ![run.item] = run.version]
          /\ UNCHANGED <<env, listed, settings, files, commands, faults, promise>>
          /\ Goto(IF run.item \in Library THEN "sync" ELSE "list")
      BY <1>12 DEF Lock, At, IInv, RunInv, AdmittedInv
    <2>2. LibrariesStay
      BY <2>1 DEF LibrariesStay
    <2>3. ASSUME NEW x \in promise, Whole(x[1], x[2]) PROVE \A q \in Package : lock'[q] = lock[q]
      <3>1. run.item \in Package => run.item = x[1] /\ run.version = x[2]
        BY <2>1 DEF PromiseInv, Step
      <3>2. lock[x[1]] = x[2]
        BY <1>1, <2>3 DEF Whole, Synced
      <3>3. Package \subseteq Component
        BY DEF Component
      <3> QED
        BY <1>1, <2>1, <3>1, <3>2, <3>3 DEF Pinned
    <2>4. ASSUME NEW x \in promise
          PROVE  Sound(x[1], x[2])' /\ (x[3] = "installed" => Whole(x[1], x[2])')
      <3>1. Sound(x[1], x[2])'
        BY <1>1, <2>1, <2>2, SoundStays DEF PromiseInv
      <3>2. ASSUME x[3] = "installed" PROVE Whole(x[1], x[2])'
        <4>1. Whole(x[1], x[2])
          BY <3>2 DEF PromiseInv
        <4> QED
          BY <1>1, <2>1, <2>2, <2>3, <4>1, WholeStays
      <3> QED
        BY <3>1, <3>2
    <2> QED
      BY <1>5, <2>1, <2>4 DEF Step
  <1>13. CASE List
    <2>1. /\ run.step = "list" /\ run.cmd = "add" /\ run.item \in Package
          /\ listed' = listed \cup {run.item} /\ Goto("sync")
          /\ UNCHANGED <<env, lock, settings, files, commands, faults, promise>>
      BY <1>13 DEF List, At, IInv, RunInv, AdmittedInv
    <2>2. LibrariesStay
      BY <2>1 DEF LibrariesStay
    <2>3. ASSUME NEW x \in promise
          PROVE  Sound(x[1], x[2])' /\ (x[3] = "installed" => Whole(x[1], x[2])')
      <3>1. Sound(x[1], x[2])'
        BY <1>1, <2>1, <2>2, SoundStays DEF PromiseInv
      <3>2. ASSUME x[3] = "installed" PROVE Whole(x[1], x[2])'
        <4>1. Whole(x[1], x[2]) /\ run.item = x[1]
          BY <2>1, <3>2 DEF PromiseInv, Step
        <4>2. listed' = listed
          BY <2>1, <4>1 DEF Whole, Synced
        <4> QED
          BY <1>1, <2>1, <2>2, <4>1, <4>2, WholeStays
      <3> QED
        BY <3>1, <3>2
    <2> QED
      BY <1>5, <2>1, <2>3 DEF Step
  <1>14. CASE Sync
    <2>1. /\ run.step = "sync" /\ run.item \in Component
          /\ UNCHANGED <<lock, listed, settings, files, commands, faults, promise>>
          /\ \A c \in Component : env'[c] = lock[c] \/ env'[c] = env[c]
          /\ \A c \in Component : env[c] # 0 => lock[c] # 0
      BY <1>14 DEF Sync, At, IInv, RunInv, ProgressInv
    <2>2. LibrariesStay
      BY <2>1 DEF LibrariesStay, Component
    <2>3. ASSUME NEW x \in promise
          PROVE  Sound(x[1], x[2])' /\ (x[3] = "installed" => Whole(x[1], x[2])')
      <3>1. Sound(x[1], x[2])'
        BY <1>1, <2>1, <2>2, SoundStays DEF PromiseInv
      <3>2. ASSUME x[3] = "installed" PROVE Whole(x[1], x[2])'
        <4>1. Whole(x[1], x[2])
          BY <3>2 DEF PromiseInv
        <4>2. \A q \in Package : env'[q] = env[q]
          BY <2>1, <4>1 DEF Whole, Synced, Component
        <4> QED
          BY <1>1, <2>1, <2>2, <4>1, <4>2, WholeStays
      <3> QED
        BY <3>1, <3>2
    <2>4. CASE run.item \in Library
      <3>1. run'.cmd = "generate" /\ run'.step = "idle"
        BY <1>14, <2>4 DEF Sync, Stopped
      <3> QED
        BY <2>1, <2>3, <3>1 DEF PromiseInv, Step
    <2>5. CASE run.item \notin Library
      BY <1>5, <1>14, <2>1, <2>3, <2>5 DEF Sync, Step
    <2> QED
      BY <2>4, <2>5
  <1>15. CASE WriteBinding
    <2>1. /\ run.step = "binding" /\ run.cmd = "bind" /\ Goto("setting")
          /\ files' = [files EXCEPT ![run.item] = run.binding]
          /\ UNCHANGED <<lock, env, listed, settings, commands, faults, promise>>
      BY <1>15 DEF WriteBinding, At, AdmittedInv
    <2>2. /\ run'.step = "setting" /\ run'.item = run.item /\ run'.cmd = run.cmd
          /\ run'.binding = run.binding
      BY <1>1, <2>1, GotoFacts DEF Step
    <2>3. ASSUME NEW x \in promise
          PROVE  /\ Sound(x[1], x[2])' /\ Whole(x[1], x[2])'
                 /\ files'[x[1]] = run.binding
      <3>1. /\ x[3] = "installed" /\ run.item = x[1] /\ run.binding = DefaultOf(x[1], x[2])
            /\ run.binding # NoBinding /\ files[x[1]] \in {NoBinding, run.binding}
            /\ Sound(x[1], x[2]) /\ Whole(x[1], x[2])
        BY <2>1 DEF PromiseInv
      <3>2. Sound(x[1], x[2])'
        BY <1>1, <2>1, <3>1, BoundIsSound
      <3>3. LibrariesStay /\ files \in Files
        BY <1>1, <2>1 DEF LibrariesStay, TypeOK
      <3>4. \A q \in Package : q # x[1] => files'[q] = files[q]
        BY <2>1, <3>1, <3>3 DEF Files
      <3>5. Whole(x[1], x[2])'
        BY <1>1, <2>1, <3>1, <3>3, <3>4, WholeStays
      <3> QED
        BY <1>1, <2>1, <3>1, <3>2, <3>3, <3>5 DEF Files
    <2> QED
      BY <2>1, <2>2, <2>3 DEF PromiseInv
  <1>16. CASE WriteSetting
    <2>1. /\ run.step = "setting" /\ run.cmd = "bind" /\ Goto("generate")
          /\ settings' = WithTimezones(files)
          /\ UNCHANGED <<lock, env, listed, files, commands, faults, promise>>
      BY <1>16 DEF WriteSetting, At, AdmittedInv
    <2>2. LibrariesStay /\ \A k \in Key : settings[k] = "timezone" => settings'[k] = "timezone"
      BY <2>1 DEF LibrariesStay, WithTimezones
    <2>3. ASSUME NEW x \in promise
          PROVE  Sound(x[1], x[2])' /\ (x[3] = "installed" => Whole(x[1], x[2])')
      <3>1. Sound(x[1], x[2])'
        BY <1>1, <2>1, <2>2, SoundStays DEF PromiseInv
      <3>2. x[3] = "installed" => Whole(x[1], x[2])'
        BY <1>1, <2>1, <2>2, WholeStays DEF PromiseInv
      <3> QED
        BY <3>1, <3>2
    <2> QED
      BY <1>5, <2>1, <2>3 DEF Step
  <1>17. CASE Generate \/ Trouble
    BY <1>4, <1>17 DEF Generate, Trouble, product, Ended
  <1>18. CASE Validate
    <2>1. run.step = "generate" /\ UNCHANGED <<product, promise>>
      BY <1>18 DEF Validate, At
    <2>2. Goto("contract") \/ run' = Stopped("idle")
      BY <1>18 DEF Validate
    <2> QED
      BY <1>2, <1>4, <1>5, <2>1, <2>2 DEF product, Ended, Step
  <1>19. CASE WriteContract
    BY <1>2, <1>5, <1>19 DEF WriteContract, At, Step
  <1>20. CASE WriteEnvironment
    <2>1. /\ run.step = "environment"
          /\ UNCHANGED <<lock, env, listed, settings, files, commands, faults, promise>>
      BY <1>20 DEF WriteEnvironment, At
    <2>2. Goto("bot") \/ run' = Stopped("idle")
      BY <1>20 DEF WriteEnvironment
    <2> QED
      BY <1>2, <1>4, <1>5, <2>1, <2>2 DEF Ended, Step
  <1>21. CASE WriteBot
    <2>1. /\ run.step = "bot" /\ run' = Stopped("done")
          /\ promise' = {IF run.cmd = "add" THEN <<x[1], x[2], "installed">> ELSE x : x \in promise}
          /\ UNCHANGED <<lock, env, listed, settings, files, commands, faults>>
      BY <1>21 DEF WriteBot, At
    <2>2. Generatable
      BY <2>1 DEF DoneInv
    <2>3. ASSUME run.cmd = "add", NEW x \in promise PROVE Whole(x[1], x[2])
      <3>1. run.item \in Package /\ Synced(run.item, run.version)
        BY <2>1, <2>3 DEF ProgressInv
      <3>2. run.item = x[1] /\ run.version = x[2]
        BY <2>1, <2>3, <3>1 DEF PromiseInv, Step
      <3> QED
        BY <2>2, <3>1, <3>2, GeneratedIsWhole
    <2>4. ASSUME NEW y \in promise'
          PROVE  Sound(y[1], y[2])' /\ (y[3] = "installed" => Whole(y[1], y[2])')
      <3>1. PICK x \in promise : y = IF run.cmd = "add" THEN <<x[1], x[2], "installed">> ELSE x
        BY <2>1
      <3>2. y[1] = x[1] /\ y[2] = x[2] /\ (y[3] = "installed" => run.cmd = "add" \/ x[3] = "installed")
        BY <3>1
      <3>3. Sound(x[1], x[2]) /\ (y[3] = "installed" => Whole(x[1], x[2]))
        BY <2>3, <3>2 DEF PromiseInv
      <3>4. Sound(x[1], x[2])' /\ (y[3] = "installed" => Whole(x[1], x[2])')
        BY <1>1, <2>1, <3>3, PromiseStays
      <3> QED
        BY <3>2, <3>4
    <2>5. run'.cmd = "generate" /\ run'.step = "done"
      BY <2>1 DEF Stopped
    <2> QED
      BY <2>4, <2>5 DEF PromiseInv, Step
  <1>22. CASE Edit \/ Setup
    <2>1. promise' = {}
      BY <1>22 DEF Edit, Setup
    <2> QED
      BY <2>1 DEF PromiseInv
  <1>23. CASE UNCHANGED vars
    BY <1>2, <1>23 DEF vars, product, PromiseInv
  <1> QED
    BY <1>6, <1>7, <1>8, <1>9, <1>10, <1>11, <1>12, <1>13, <1>14, <1>15, <1>16, <1>17, <1>18,
       <1>19, <1>20, <1>21, <1>22, <1>23 DEF Next

\* Only an add or a bind is refused; what is left of the promises then is sound, so the
\* refusal is one of those check-install did not rule out.
LEMMA StepBinds ==
  ASSUME IInv, PromiseInv, MechanicalInstallBinds, [Next]_vars
  PROVE  MechanicalInstallBinds'
  <1>1. /\ TypeOK /\ run \in Runs
        /\ \A x \in promise : /\ x[1] \in Package /\ x[2] \in Releases(x[1]) /\ x[2] # 0
                              /\ Sound(x[1], x[2])
    <2>1. \A x \in promise : x[1] \in Package /\ x[2] \in Releases(x[1]) /\ Sound(x[1], x[2])
      BY DEF IInv, TypeOK, PromiseInv, Sound
    <2> QED
      BY <2>1, ReleasesFacts DEF IInv, TypeOK, Runs, Component
  <1>2. ASSUME run'.step # "refused" PROVE MechanicalInstallBinds'
    BY <1>2 DEF MechanicalInstallBinds
  <1>3. ASSUME NEW p \in Package, NEW v, NEW route \in {"catalog", "wheel", "source"}, Add(route, p, v)
        PROVE  MechanicalInstallBinds'
    <2>1. /\ promise' = {x \in promise : x[1] = p /\ x[2] = v}
          /\ UNCHANGED <<listed, env>> /\ run'.cmd = "add"
          /\ run'.step = "refused" => ~(Accepted(route, p, v) /\ Admits(p, v))
          /\ route = "catalog" => v \in Newest(p, ToolCore)
      BY <1>3 DEF Add, product
    <2>2. ASSUME NEW x \in promise', run'.step = "refused"
          PROVE  ~ParentReady(x[1])' \/ x[1] \notin Catalog
      <3>1. x[1] = p /\ x[2] = v /\ Admits(p, v) /\ ProductCore \in Meta[p][v].core
        BY <1>1, <2>1 DEF Sound
      <3>2. ~ParentReady(p) \/ p \notin Catalog
        BY <2>1, <2>2, <3>1 DEF Accepted
      <3> QED
        BY <2>1, <3>1, <3>2 DEF ParentReady
    <2> QED
      BY <2>1, <2>2 DEF MechanicalInstallBinds
  <1>4. ASSUME NEW p \in Package, BindDefault(p) PROVE MechanicalInstallBinds'
    <2> DEFINE b == IF env[p] = 0 THEN NoBinding ELSE DefaultOf(p, env[p])
    <2>1. /\ promise' = {x \in promise : x[1] = p /\ x[3] = "installed"}
          /\ UNCHANGED <<files, settings>> /\ run'.cmd = "bind"
          /\ run'.step = "refused" => ~BindAccepts(p, b, TRUE)
      BY <1>4 DEF BindDefault, Bind, product
    <2>2. ASSUME NEW x \in promise', run'.step = "refused"
          PROVE  \/ DefaultOf(x[1], x[2]) = NoBinding
                 \/ Meta[x[1]][x[2]].actions = {}
                 \/ files[x[1]] \notin {NoBinding, DefaultOf(x[1], x[2])}
                 \/ \E k \in Needs(Effective(x[1], x[2])) : settings[k] = "other"
      <3>1. x \in promise /\ x[1] = p /\ x[3] = "installed" /\ Whole(x[1], x[2])
        BY <2>1 DEF PromiseInv
      <3>2. b = DefaultOf(p, x[2])
        BY <1>1, <3>1 DEF Whole, Synced
      <3> HIDE DEF b
      <3> QED
        BY <1>1, <2>1, <2>2, <3>1, <3>2, BindNotRefused
    <2>3. \A x \in promise' : Effective(x[1], x[2])' = Effective(x[1], x[2])
      BY <2>1 DEF Effective
    <2> HIDE DEF b
    <2> QED
      BY <2>1, <2>2, <2>3 DEF MechanicalInstallBinds
  <1>5. ASSUME NEW p \in Package, NEW b, Bind(p, b, FALSE) PROVE MechanicalInstallBinds'
    <2>1. promise' = {}
      BY <1>5 DEF Bind
    <2> QED
      BY <2>1 DEF MechanicalInstallBinds
  <1>6. CASE \/ \E p \in Package, v \in Version : CheckInstall(p, v)
             \/ \E l \in Library : AddLibrary(l)
             \/ Generate \/ Validate \/ WriteContract \/ WriteEnvironment \/ WriteBot
             \/ Trouble \/ Edit \/ Setup
    <2>1. \/ run'.step = "copy"
          \/ \E step \in {"idle", "generate", "done"} : run' = Stopped(step)
          \/ \E step \in {"contract", "environment", "bot"} : Goto(step)
      BY <1>6 DEF CheckInstall, AddLibrary, Generate, Validate, WriteContract, WriteEnvironment,
                  WriteBot, Trouble, Edit, Setup
    <2> QED
      BY <1>1, <1>2, <2>1, GotoFacts DEF Stopped, Step
  <1>7. CASE Copy \/ Lock \/ List \/ Sync \/ WriteBinding \/ WriteSetting
    <2>1. \/ run' = Stopped("idle")
          \/ \E step \in {"lock", "list", "sync", "generate", "setting"} : Goto(step)
      BY <1>7 DEF Copy, Lock, List, Sync, WriteBinding, WriteSetting
    <2> QED
      BY <1>1, <1>2, <2>1, GotoFacts DEF Stopped, Step
  <1>8. CASE UNCHANGED vars
    <2>1. UNCHANGED <<run, promise, listed, env, files, settings>>
      BY <1>8 DEF vars, product
    <2>2. ASSUME NEW x \in promise
          PROVE  /\ ParentReady(x[1])' <=> ParentReady(x[1])
                 /\ Effective(x[1], x[2])' = Effective(x[1], x[2])
      BY <2>1 DEF ParentReady, Effective
    <2> QED
      BY <2>1, <2>2 DEF MechanicalInstallBinds
  <1> QED
    BY <1>3, <1>4, <1>5, <1>6, <1>7, <1>8 DEF Next

-------------------------------------------------------------------------------
(* Theorems. *)

\* Every command, step, trouble and edit keeps PackageInstall well typed.
THEOREM InstallTypeCorrect == Spec => []TypeOK
  <1>1. IInv => TypeOK
    BY DEF IInv
  <1> QED
    BY <1>1, InstallInvariance, PTL

\* Wherever an install is cut off, and whatever was installed before, a frozen
\* sync of the committed files finds a wheel for every listed package.
THEOREM ListedPackagesInstall == Spec => []CheckoutInstalls
  <1>1. IInv => CheckoutInstalls
    BY DEF IInv, TypeOK, PinsInv, ListedInv, CheckoutInstalls, Component
  <1> QED
    BY <1>1, InstallInvariance, PTL

\* A bind writes only what the generation after it accepts up to its environment
\* contract, and an add leaves the host contract as valid as it found it: no edit,
\* trouble or other command comes in between.
THEOREM WritesGenerate == Spec => []WritesAreGeneratable
  <1>1. IInv /\ AdmittedInv /\ [Next]_vars => AdmittedInv'
    BY StepAdmitted
  <1>2. AdmittedInv => WritesAreGeneratable
    BY DEF AdmittedInv
  <1> QED
    BY <1>1, <1>2, InitAdmitted, InstallInvariance, PTL DEF Spec

\* What a completed command leaves can be served by the backend and the bot, for any
\* packages, whatever was interrupted before it.
THEOREM CompletedCommandsServe == Spec => []DoneIsWhole
  <1>1. Init => DoneInv
    BY StoppedType DEF Init, DoneInv, DoneIsWhole, Ended
  <1>2. IInv /\ DoneInv /\ [Next]_vars => DoneInv'
    BY StepDone
  <1>3. DoneInv => DoneIsWhole
    BY DEF DoneInv
  <1> QED
    BY <1>1, <1>2, <1>3, InstallInvariance, PTL DEF Spec

\* What check-install calls mechanical installs and binds, for any packages and bindings:
\* the refusals left are those it does not look at.
THEOREM PromisesHold == Spec => []MechanicalInstallBinds
  <1>1. Init => AdmittedInv /\ DoneInv /\ ProgressInv /\ PromiseInv /\ MechanicalInstallBinds
    BY InitAdmitted DEF Init, DoneInv, DoneIsWhole, ProgressInv, PromiseInv, MechanicalInstallBinds,
                        Stopped
  <1>2. IInv /\ AdmittedInv /\ [Next]_vars => AdmittedInv'
    BY StepAdmitted
  <1>3. IInv /\ DoneInv /\ [Next]_vars => DoneInv'
    BY StepDone
  <1>4. IInv /\ AdmittedInv /\ ProgressInv /\ [Next]_vars => ProgressInv'
    BY StepProgress
  <1>5. IInv /\ AdmittedInv /\ DoneInv /\ ProgressInv /\ PromiseInv /\ [Next]_vars => PromiseInv'
    BY StepPromise
  <1>6. IInv /\ PromiseInv /\ MechanicalInstallBinds /\ [Next]_vars => MechanicalInstallBinds'
    BY StepBinds
  <1> QED
    BY <1>1, <1>2, <1>3, <1>4, <1>5, <1>6, InstallInvariance, PTL DEF Spec

-------------------------------------------------------------------------------
(* Activation: what generation wrote was checked, and wheels keep what makes them one. *)

\* Generation resolves before it writes: what it writes was read in whole.
LockIsChecked ==
    generated # <<>> =>
        \A i \in DOMAIN generated[1] : Activation!BuildAccepts(generated[1][i].manifest)
ActivationInv == Activation!TypeOK /\ LockIsChecked

\* A set of naturals has a least element.
LEMMA LeastExists ==
  ASSUME NEW S, S \subseteq Nat, S # {}
  PROVE  \E n \in S : \A m \in S : n <= m
  <1> DEFINE R == {p \in Nat \X Nat : p[1] < p[2]}
  <1>1. IsWellFoundedOn(R, Nat)
    BY NatLessThanWellFounded DEF OpToRel
  <1>2. \A m, n \in Nat : m < n => <<m, n>> \in R
    OBVIOUS
  <1> HIDE DEF R
  <1>3. PICK n \in S : \A m \in S : <<m, n>> \notin R
    BY <1>1, WFMin
  <1>4. n \in Nat /\ \A m \in S : m \in Nat /\ ~(m < n)
    BY <1>2, <1>3
  <1>5. \A m \in S : n <= m
    BY <1>4
  <1> QED
    BY <1>5

\* A bounded one has a greatest.
LEMMA GreatestExists ==
  ASSUME NEW S, S \subseteq Nat, S # {}, NEW b \in Nat, \A n \in S : n <= b
  PROVE  \E n \in S : \A m \in S : m <= n
  <1> DEFINE T == {t \in Nat : \E n \in S : t + n = b}
  <1>1. \A n \in S : n \in Nat /\ b - n \in T
    OBVIOUS
  <1>2. T \subseteq Nat /\ T # {}
    BY <1>1
  <1>3. PICK t \in T : \A u \in T : t <= u
    <2> HIDE DEF T
    <2> QED
      BY <1>2, LeastExists
  <1>4. PICK n \in S : t + n = b
    OBVIOUS
  <1>5. \A m \in S : m \in Nat /\ t <= b - m
    BY <1>1, <1>3
  <1>6. t \in Nat /\ n \in Nat
    BY <1>1
  <1>7. \A m \in S : m <= n
    BY <1>4, <1>5, <1>6
  <1> QED
    BY <1>7

\* A sequence is one over its own elements.
LEMMA OwnElements ==
  ASSUME NEW S, NEW s \in Seq(S)
  PROVE  s \in Seq(Activation!ToSet(s)) /\ Activation!ToSet(s) \subseteq S
  <1>1. s = [i \in 1..Len(s) |-> s[i]] /\ Len(s) \in Nat
    OBVIOUS
  <1>2. \A i \in 1..Len(s) : s[i] \in Activation!ToSet(s)
    BY <1>1 DEF Activation!ToSet
  <1>3. Activation!ToSet(s) \subseteq S
    BY DEF Activation!ToSet
  <1> QED
    BY <1>1, <1>2, <1>3

\* What a wheel never loses.
WholeWheel(w) ==
    /\ DOMAIN w = Activation!Wheel /\ Activation!IsFiniteSet(w.manifests)
    /\ Activation!IsList(Activation!Default(w.manifest, "setting_seeds", <<>>))
    /\ \E b \in Activation!ToSet(Base) : w.entry = b.entry /\ w.dirs = b.dirs

LEMMA BaseIsWhole == \A w \in Activation!ToSet(Base) : WholeWheel(w)
  BY ActivationAssumption DEF Activation!BaseAssumption, WholeWheel

LEMMA ReplaceType ==
  ASSUME Activation!TypeOK, NEW i \in DOMAIN site, NEW w, WholeWheel(w), Activation!Replace(i, w),
         changes' \in 0..MaxChanges
  PROVE  Activation!TypeOK'
  <1> DEFINE S == Activation!ToSet(site) \cup {w}
  <1>1. site' = [site EXCEPT ![i] = w] /\ UNCHANGED <<allowed, generated>>
    BY DEF Activation!Replace
  <1>2. \A v \in S : WholeWheel(v)
    BY DEF Activation!TypeOK, WholeWheel
  <1>3. site' \in Seq(S)
    BY <1>1 DEF Activation!TypeOK
  <1>4. site' \in Seq(Activation!ToSet(site')) /\ Activation!ToSet(site') \subseteq S
    BY <1>3, OwnElements
  <1>5. Activation!ToSet(site)' = Activation!ToSet(site')
    BY DEF Activation!ToSet
  <1> QED
    BY <1>1, <1>2, <1>4, <1>5 DEF Activation!TypeOK, WholeWheel

LEMMA InitActivation == Activation!Init => ActivationInv
  <1> SUFFICES ASSUME Activation!Init PROVE ActivationInv
    OBVIOUS
  <1>1. Base \in Seq(Activation!ToSet(Base)) /\ MaxChanges \in Nat
    BY ActivationAssumption DEF Activation!BaseAssumption
  <1>2. \A i \in DOMAIN Base : Base[i] \in Activation!ToSet(Base)
    BY DEF Activation!ToSet
  <1>3. allowed \in Seq({b.entry : b \in Activation!ToSet(Base)})
    BY <1>1, <1>2 DEF Activation!Init
  <1>4. Activation!TypeOK
    BY <1>1, <1>3, BaseIsWhole DEF Activation!Init, Activation!TypeOK, WholeWheel
  <1> QED
    BY <1>4 DEF Activation!Init, ActivationInv, LockIsChecked

LEMMA SameFiniteSets ==
  /\ \A S : Activation!IsFiniteSet(S) = IsFiniteSet(S)
  /\ \A S : Activation!Cardinality(S) = Cardinality(S)
  <1>1. \A S : Activation!IsFiniteSet(S) = IsFiniteSet(S)
    BY DEF Activation!IsFiniteSet, IsFiniteSet
  <1>2. \A S : Activation!Cardinality(S) = Cardinality(S)
    BY DEF Activation!Cardinality, Cardinality
  <1> QED
    BY <1>1, <1>2

LEMMA ChangesType ==
  ASSUME Activation!TypeOK, Activation!Change
  PROVE  changes' \in 0..MaxChanges
  <1>1. MaxChanges \in Nat
    BY ActivationAssumption DEF Activation!BaseAssumption
  <1>2. changes \in 0..MaxChanges /\ changes < MaxChanges /\ changes' = changes + 1
    BY DEF Activation!TypeOK, Activation!Change
  <1> QED
    BY <1>1, <1>2

LEMMA EditManifestType ==
  ASSUME Activation!TypeOK, Activation!EditManifest
  PROVE  Activation!TypeOK'
  <1>1. PICK i \in DOMAIN site, f \in Activation!Fields \cup {"colour"} :
          \E m \in {Activation!With(site[i].manifest, f, v) : v \in Alternatives[f]}
                     \cup {Activation!Without(site[i].manifest, f)} :
            Activation!Replace(i, [site[i] EXCEPT !.manifest = m])
    BY DEF Activation!EditManifest
  <1>2. PICK m \in {Activation!With(site[i].manifest, f, v) : v \in Alternatives[f]}
                     \cup {Activation!Without(site[i].manifest, f)} :
            Activation!Replace(i, [site[i] EXCEPT !.manifest = m])
    BY <1>1
  <1> DEFINE w == site[i]
             was == Activation!Default(w.manifest, "setting_seeds", <<>>)
             is == Activation!Default(m, "setting_seeds", <<>>)
  <1>3. WholeWheel(w)
    BY DEF Activation!TypeOK, Activation!ToSet, WholeWheel
  <1>4. is = was \/ is = <<>> \/ (f = "setting_seeds" /\ is \in Alternatives[f])
    <2>1. CASE m = Activation!Without(w.manifest, f)
      BY <2>1 DEF Activation!Without, Activation!Default, Activation!Has
    <2>2. ASSUME NEW v \in Alternatives[f], m = Activation!With(w.manifest, f, v)
          PROVE  is = was \/ (f = "setting_seeds" /\ is = v)
      BY <2>2 DEF Activation!With, Activation!Default, Activation!Has
    <2> QED
      BY <2>1, <2>2
  <1>5. Activation!IsList(<<>>)
    BY DEF Activation!IsList
  <1>6. Activation!IsList(is)
    BY <1>3, <1>4, <1>5, ActivationAssumption DEF Activation!BaseAssumption, WholeWheel
  <1>7. WholeWheel([w EXCEPT !.manifest = m])
    BY <1>3, <1>6 DEF WholeWheel, Activation!Wheel
  <1>8. changes' \in 0..MaxChanges
    BY ChangesType DEF Activation!EditManifest
  <1> QED
    BY <1>2, <1>7, <1>8, ReplaceType

LEMMA EditWheelType ==
  ASSUME Activation!TypeOK, Activation!EditWheel
  PROVE  Activation!TypeOK'
  <1>1. PICK i \in DOMAIN site :
          \E w \in {[site[i] EXCEPT !.module = d] : d \in {"", "elsewhere"}}
                     \cup {[site[i] EXCEPT !.manifests = @ \cup {"elsewhere"}], [site[i] EXCEPT !.manifests = {}]}
                     \cup {[site[i] EXCEPT !.distribution = "other"], [site[i] EXCEPT !.resources = FALSE]}
                     \cup {[site[i] EXCEPT !.version = v] :
                             v \in {[text |-> "1.0.0", key |-> 10], [text |-> "1.1", key |-> 11]}}
                     \cup {[site[i] EXCEPT !.runtime = FALSE]}
                     \cup {[site[i] EXCEPT !.seeds = c] : c \in {"none", "sync", "other_parameters"}} :
            Activation!Replace(i, w)
    BY DEF Activation!EditWheel
  <1>2. DOMAIN site[i] = Activation!Wheel
    BY DEF Activation!TypeOK, Activation!ToSet
  <1>3. PICK w :
          /\ DOMAIN w = DOMAIN site[i]
          /\ w.manifest = site[i].manifest /\ w.entry = site[i].entry /\ w.dirs = site[i].dirs
          /\ w.manifests \in {site[i].manifests, site[i].manifests \cup {"elsewhere"}, {}}
          /\ Activation!Replace(i, w)
    BY <1>1, <1>2 DEF Activation!Wheel
  <1>4. WholeWheel(site[i])
    BY DEF Activation!TypeOK, Activation!ToSet, WholeWheel
  <1>5. IsFiniteSet(w.manifests)
    <2>1. IsFiniteSet(site[i].manifests)
      BY <1>4, SameFiniteSets DEF WholeWheel
    <2>2. IsFiniteSet(site[i].manifests \cup {"elsewhere"})
      BY <2>1, FS_AddElement
    <2> QED
      BY <1>3, <2>1, <2>2, FS_EmptySet
  <1>6. WholeWheel(w)
    BY <1>3, <1>4, <1>5, SameFiniteSets DEF WholeWheel
  <1>7. changes' \in 0..MaxChanges
    BY ChangesType DEF Activation!EditWheel
  <1> QED
    BY <1>3, <1>6, <1>7, ReplaceType

LEMMA EditProductType ==
  ASSUME Activation!TypeOK, Activation!EditProduct
  PROVE  Activation!TypeOK'
  <1> DEFINE S == Activation!ToSet(site) \cup Activation!ToSet(Base)
             Names == {b.entry : b \in Activation!ToSet(Base)}
  <1>1. changes' \in 0..MaxChanges
    BY ChangesType DEF Activation!EditProduct
  <1>2. \A w \in S : WholeWheel(w)
    BY BaseIsWhole DEF Activation!TypeOK, WholeWheel
  <1>3. site \in Seq(S) /\ allowed \in Seq(Names)
    BY DEF Activation!TypeOK
  <1>4. Head(Base) \in S
    <2>1. Base \in Seq(Activation!ToSet(Base)) /\ Base # <<>>
      BY ActivationAssumption DEF Activation!BaseAssumption
    <2> QED
      BY <2>1
  <1>5. site' \in Seq(S) /\ allowed' \in Seq(Names)
    <2>1. CASE allowed' = SubSeq(allowed, 1, Len(allowed) - 1) /\ UNCHANGED site
      BY <1>3, <2>1
    <2>2. CASE allowed' = Activation!Reverse(allowed) /\ UNCHANGED site
      <3>1. Len(allowed) \in Nat /\ \A i \in 1..Len(allowed) : allowed[i] \in Names
        BY <1>3
      <3>2. \A i \in 1..Len(allowed) : allowed[(Len(allowed) - i) + 1] \in Names
        BY <3>1
      <3>3. allowed' = [i \in 1..Len(allowed) |-> allowed[(Len(allowed) - i) + 1]]
        BY <2>2 DEF Activation!Reverse
      <3> HIDE DEF Names
      <3>4. allowed' \in Seq(Names)
        BY <3>1, <3>2, <3>3
      <3> QED
        BY <1>3, <2>2, <3>4
    <2>3. CASE site # <<>> /\ site' = Tail(site) /\ UNCHANGED allowed
      BY <1>3, <2>3
    <2>4. CASE site' = Append(site, Head(Base)) /\ UNCHANGED allowed
      BY <1>3, <1>4, <2>4
    <2> QED
      BY <2>1, <2>2, <2>3, <2>4 DEF Activation!EditProduct
  <1>6. site' \in Seq(Activation!ToSet(site')) /\ Activation!ToSet(site') \subseteq S
    BY <1>5, OwnElements
  <1>7. Activation!ToSet(site)' = Activation!ToSet(site')
    BY DEF Activation!ToSet
  <1> QED
    BY <1>1, <1>2, <1>5, <1>6, <1>7 DEF Activation!TypeOK, WholeWheel

LEMMA ActivationStep == ActivationInv /\ [Activation!Next]_activation => ActivationInv'
  <1> SUFFICES ASSUME ActivationInv, [Activation!Next]_activation PROVE ActivationInv'
    OBVIOUS
  <1>1. Activation!TypeOK /\ LockIsChecked
    BY DEF ActivationInv
  <1>2. ASSUME UNCHANGED generated PROVE LockIsChecked'
    BY <1>1, <1>2 DEF LockIsChecked
  <1>3. ASSUME Activation!EditManifest PROVE ActivationInv'
    <2>1. UNCHANGED generated
      BY <1>3 DEF Activation!EditManifest, Activation!Replace
    <2> QED
      BY <1>1, <1>2, <1>3, <2>1, EditManifestType DEF ActivationInv
  <1>4. ASSUME Activation!EditWheel PROVE ActivationInv'
    <2>1. UNCHANGED generated
      BY <1>4 DEF Activation!EditWheel, Activation!Replace
    <2> QED
      BY <1>1, <1>2, <1>4, <2>1, EditWheelType DEF ActivationInv
  <1>5. ASSUME Activation!EditProduct PROVE ActivationInv'
    <2>1. UNCHANGED generated
      BY <1>5 DEF Activation!EditProduct
    <2> QED
      BY <1>1, <1>2, <1>5, <2>1, EditProductType DEF ActivationInv
  <1>6. ASSUME Activation!Generate PROVE ActivationInv'
    <2>1. generated' = <<Activation!Generated>> /\ Activation!Resolves
      BY <1>6 DEF Activation!Generate
    <2>2. \A i \in DOMAIN allowed : Activation!EntryResolves(Activation!Installed(allowed[i]))
      BY <2>1 DEF Activation!Resolves, Activation!ToSet
    <2>3. LockIsChecked'
      BY <2>1, <2>2 DEF LockIsChecked, Activation!Generated, Activation!Identity, Activation!EntryResolves
    <2>4. UNCHANGED <<site, allowed, changes>>
      BY <1>6 DEF Activation!Generate
    <2> QED
      BY <1>1, <2>3, <2>4 DEF ActivationInv, Activation!TypeOK, Activation!ToSet
  <1>7. ASSUME UNCHANGED activation PROVE ActivationInv'
    BY <1>1, <1>2, <1>7 DEF ActivationInv, Activation!TypeOK, Activation!ToSet, activation
  <1> QED
    BY <1>3, <1>4, <1>5, <1>6, <1>7 DEF Activation!Next

LEMMA ActivationInvariance == Activation!Spec => []ActivationInv
  <1> QED
    BY InitActivation, ActivationStep, PTL DEF Activation!Spec, Activation!vars, activation

\* The wheel a backend sees under a name is installed under it, at some place.
LEMMA DiscoveredFact ==
  ASSUME Activation!TypeOK, NEW n \in Activation!Entries
  PROVE  \E i \in DOMAIN site :
            /\ site[i].entry = n /\ Activation!Discovered(n) = site[i]
            /\ \A j \in DOMAIN site : site[j].entry = n => j <= i
  <1> DEFINE places == {i \in DOMAIN site : site[i].entry = n}
             Last(i) == site[i].entry = n /\ \A j \in DOMAIN site : site[j].entry = n => j <= i
  <1>1. Len(site) \in Nat /\ DOMAIN site = 1..Len(site)
    BY DEF Activation!TypeOK
  <1>2. places \subseteq Nat /\ places # {} /\ \A i \in places : i <= Len(site)
    BY <1>1 DEF Activation!Entries
  <1>3. PICK i \in places : \A j \in places : j <= i
    <2> HIDE DEF places
    <2> QED
      BY <1>1, <1>2, GreatestExists
  <1>4. \E l \in DOMAIN site : Last(l)
    BY <1>3
  <1>5. Last(CHOOSE l \in DOMAIN site : Last(l)) /\ (CHOOSE l \in DOMAIN site : Last(l)) \in DOMAIN site
    <2> HIDE DEF Last
    <2> QED
      BY <1>4
  <1> QED
    BY <1>5 DEF Activation!Discovered

LEMMA CheckedBeforeStart ==
  ASSUME ActivationInv
  PROVE  StartsOnlyChecked
  <1> SUFFICES ASSUME Activation!Starts, NEW n \in Activation!ToSet(allowed)
               PROVE  LET w == Activation!Discovered(n)
                          timers == Activation!Default(w.manifest, "timers", <<>>) IN
                      /\ Activation!BuildAccepts(w.manifest)
                      /\ \A i \in DOMAIN timers :
                          /\ timers[i].job \in Activation!DeclaredIn(w.manifest, "jobs_schema")
                          /\ timers[i].every_seconds \in Activation!TimerSeconds
                      /\ Activation!OwnedSchema(w.module) \subseteq
                             (IF Activation!Has(w.manifest, "database")
                              THEN {w.manifest.database.schema} ELSE {})
    BY DEF StartsOnlyChecked, Activation!StartsOnlyChecked
  <1> DEFINE w == Activation!Discovered(n)
             owners == {i \in DOMAIN site : site[i].module = w.module /\ w.module \in site[i].dirs}
  <1>1. Activation!TypeOK /\ LockIsChecked
    BY DEF ActivationInv
  <1>2. /\ generated # <<>> /\ Activation!Discovers
        /\ [i \in DOMAIN generated[1] |-> generated[1][i].name] = allowed
        /\ \A i \in DOMAIN generated[1] : Activation!Unchanged(generated[1][i])
    BY DEF Activation!Starts
  <1>3. PICK k \in DOMAIN generated[1] : generated[1][k].name = n
    BY <1>2 DEF Activation!ToSet
  <1>4. w.manifest = generated[1][k].manifest
    BY <1>2, <1>3 DEF Activation!Unchanged
  <1>5. Activation!BuildAccepts(w.manifest)
    BY <1>1, <1>2, <1>4 DEF LockIsChecked
  <1>6. n \in Activation!Entries /\ Activation!Placed(w)
    BY <1>2 DEF Activation!Discovers, Activation!Activates
  <1>7. PICK last \in DOMAIN site : w = site[last]
    BY <1>1, <1>6, DiscoveredFact
  <1>8. last \in owners
    BY <1>6, <1>7 DEF Activation!Placed
  <1>9. \A o \in owners : owners = {o} => site[o] = w
    BY <1>7, <1>8
  <1>10. Activation!OwnedSchema(w.module) \subseteq
             (IF Activation!Has(w.manifest, "database") THEN {w.manifest.database.schema} ELSE {})
    <2> HIDE DEF w
    <2> QED
      BY <1>9 DEF Activation!OwnedSchema
  <1>11. Activation!TimersAccepted(w.manifest)
    BY <1>5 DEF Activation!BuildAccepts
  <1> DEFINE timers == Activation!Default(w.manifest, "timers", <<>>)
  <1>12. \A i \in DOMAIN timers :
           /\ timers[i].job \in Activation!DeclaredIn(w.manifest, "jobs_schema")
           /\ timers[i].every_seconds \in Activation!TimerSeconds
    BY <1>11 DEF Activation!TimersAccepted
  <1> QED
    BY <1>5, <1>10, <1>12

\* Of the sources of the packages one has the entry point of an installed wheel.
LEMMA SourceFact ==
  ASSUME Activation!TypeOK, NEW w \in Activation!ToSet(site)
  PROVE  Activation!Source(w.entry).module # "" /\ Activation!Source(w.entry).module \in w.dirs
  <1>1. PICK b \in Activation!ToSet(Base) : w.entry = b.entry /\ w.dirs = b.dirs
    BY DEF Activation!TypeOK
  <1> DEFINE s == Activation!Source(w.entry)
  <1>2. s \in Activation!ToSet(Base) /\ s.entry = w.entry
    BY <1>1 DEF Activation!Source
  <1> HIDE DEF s
  <1>3. PICK i \in DOMAIN Base, j \in DOMAIN Base : b = Base[i] /\ s = Base[j]
    BY <1>2 DEF Activation!ToSet
  <1>4. s = b
    BY <1>1, <1>2, <1>3, ActivationAssumption DEF Activation!BaseAssumption
  <1>5. b.module # "" /\ b.module \in b.dirs
    BY ActivationAssumption DEF Activation!BaseAssumption
  <1> QED
    BY <1>1, <1>4, <1>5 DEF s

LEMMA VerifiedResolves ==
  ASSUME Activation!TypeOK, NEW w \in Activation!ToSet(site),
         Activation!CatalogVerified(w), Activation!BuildAccepts(w.manifest),
         Activation!Compatible(w.manifest), w.resources, w.manifest.name = w.entry,
         w.manifest.version = w.version.text, ~Activation!EntryResolves(w)
  PROVE  IF Activation!Verified(w) THEN Activation!Cardinality(w.manifests) > 1
                                   ELSE ~Activation!Placed(w)
  <1>1. ~Activation!Placed(w)
    BY DEF Activation!EntryResolves, Activation!Identified
  <1>2. ASSUME Activation!Verified(w) PROVE Activation!Cardinality(w.manifests) > 1
    <2>1. w.module # "" /\ w.module \in w.dirs /\ w.module \in w.manifests
      BY <1>2, SourceFact DEF Activation!Verified
    <2>2. PICK other \in w.manifests : other # w.module
      BY <1>1, <2>1 DEF Activation!Placed
    <2>3. IsFiniteSet(w.manifests)
      BY SameFiniteSets DEF Activation!TypeOK
    <2>4. {w.module, other} \subseteq w.manifests
      BY <2>1, <2>2
    <2>5. Cardinality({w.module, other}) = 2
      <3>1. IsFiniteSet({w.module}) /\ Cardinality({w.module}) = 1
        BY FS_Singleton
      <3>2. Cardinality({w.module} \cup {other}) = Cardinality({w.module}) + 1
        BY <2>2, <3>1, FS_AddElement
      <3>3. {w.module, other} = {w.module} \cup {other}
        OBVIOUS
      <3> QED
        BY <3>1, <3>2, <3>3
    <2>6. Cardinality({w.module, other}) <= Cardinality(w.manifests)
          /\ Cardinality(w.manifests) \in Nat
      BY <2>3, <2>4, FS_Subset, FS_CardinalityType
    <2> QED
      BY <2>5, <2>6, SameFiniteSets
  <1> QED
    BY <1>1, <1>2

\* What the tooling read in whole the backend activates, but for the named differences.
LEMMA ResolvedActivates ==
  ASSUME NEW w, Activation!EntryResolves(w), ~Activation!OnlyTheBackendSees(w),
         Activation!IsList(Activation!Default(w.manifest, "setting_seeds", <<>>))
  PROVE  Activation!Activates(w)
  <1> DEFINE m == w.manifest
             seeds == Activation!Default(m, "setting_seeds", <<>>)
  <1>1. /\ Activation!Placed(w) /\ Activation!BuildAccepts(m) /\ Activation!Identified(w)
        /\ w.runtime /\ Activation!SeedsBound(w)
        /\ Activation!Has(m, "deployment") => DOMAIN m.deployment # {}
        /\ Activation!Has(m, "database") => Activation!Has(m.database, "schema")
    BY DEF Activation!EntryResolves, Activation!OnlyTheBackendSees
  <1> HIDE DEF m
  <1>2. Activation!RuntimeDatabase(m)
    BY <1>1 DEF Activation!BuildAccepts, Activation!DatabaseAccepted, Activation!RuntimeDatabase,
                Activation!Has
  <1>3. Activation!RuntimePrefix(m)
    BY <1>1 DEF Activation!BuildAccepts, Activation!PrefixAccepted, Activation!RuntimePrefix,
                Activation!Has, Activation!Mandatory
  <1>4. Activation!RuntimeDeployment(m)
    BY <1>1 DEF Activation!BuildAccepts, Activation!DeploymentAccepted,
                Activation!RuntimeDeployment, Activation!Has
  <1>5. Activation!RuntimeSeeds(m)
    <2> SUFFICES ASSUME seeds # <<>>
                 PROVE  /\ Activation!Has(m, "settings_schema")
                        /\ Activation!IsInjective(seeds)
                        /\ \A i \in DOMAIN seeds :
                            /\ DOMAIN seeds[i] = {"key", "scope"} /\ seeds[i].scope = "product"
                            /\ seeds[i].key # ""
                            /\ seeds[i].key \in DOMAIN m.settings_schema.properties
      BY DEF Activation!RuntimeSeeds
    <2>1. /\ Activation!IsInjective(seeds)
          /\ \A i \in DOMAIN seeds :
              /\ DOMAIN seeds[i] = {"key", "scope"} /\ seeds[i].scope = "product"
              /\ seeds[i].key # ""
              /\ seeds[i].key \in Activation!DeclaredIn(m, "settings_schema")
      BY <1>1 DEF Activation!BuildAccepts, Activation!SeedsAccepted
    <2>2. PICK i \in DOMAIN seeds : TRUE
      <3>1. seeds \in Seq(Activation!ToSet(seeds))
        BY DEF Activation!IsList, m
      <3> HIDE DEF seeds
      <3>2. Len(seeds) \in Nat /\ DOMAIN seeds = 1..Len(seeds) /\ Len(seeds) # 0
        BY <3>1
      <3> QED
        BY <3>2
    <2> HIDE DEF seeds
    <2>3. Activation!Has(m, "settings_schema")
      BY <2>1, <2>2 DEF Activation!DeclaredIn, Activation!Default, Activation!Nothing
    <2>4. Activation!DeclaredIn(m, "settings_schema") = DOMAIN m.settings_schema.properties
      BY <2>3 DEF Activation!DeclaredIn, Activation!Default
    <2> QED
      BY <2>1, <2>3, <2>4
  <1>6. /\ Activation!Mandatory \subseteq DOMAIN m /\ DOMAIN m \subseteq Activation!RuntimeFields
        /\ m.name # "" /\ m.version # ""
    BY <1>1 DEF Activation!BuildAccepts, Activation!RuntimeFields
  <1> QED
    BY <1>1, <1>2, <1>3, <1>4, <1>5, <1>6 DEF Activation!Activates, Activation!RuntimeAccepts, m

LEMMA EarlierChecksHold ==
  ASSUME Activation!TypeOK
  PROVE  CheckedOnceIsAccepted
  <1>1. ASSUME NEW w \in Activation!ToSet(site),
               Activation!CatalogVerified(w), Activation!BuildAccepts(w.manifest),
               Activation!Compatible(w.manifest), w.resources, w.manifest.name = w.entry
        PROVE  \/ Activation!EntryResolves(w)
               \/ w.manifest.version # w.version.text
               \/ IF Activation!Verified(w) THEN Activation!Cardinality(w.manifests) > 1
                                            ELSE ~Activation!Placed(w)
    BY <1>1, VerifiedResolves
  <1>2. ASSUME Activation!Resolves, Activation!PrefixesDiffer(allowed),
               \A n \in Activation!ToSet(allowed) :
                  ~Activation!OnlyTheBackendSees(Activation!Installed(n))
        PROVE  Activation!Discovers
    <2>1. /\ \A i, j \in DOMAIN site : site[i].entry = site[j].entry => i = j
          /\ Activation!ToSet(allowed) = Activation!Entries
          /\ \A n \in Activation!ToSet(allowed) :
                Activation!EntryResolves(Activation!Installed(n))
      BY <1>2 DEF Activation!Resolves
    <2>2. ASSUME NEW n \in Activation!ToSet(allowed)
          PROVE  Activation!Activates(Activation!Discovered(n))
      <3>1. PICK i \in DOMAIN site : site[i].entry = n /\ Activation!Discovered(n) = site[i]
        BY <2>1, <2>2, DiscoveredFact
      <3>2. site[i] \in Activation!ToSet(site)
        BY DEF Activation!ToSet
      <3>3. \A w \in Activation!ToSet(site) : w.entry = n => w = site[i]
        BY <2>1, <3>1 DEF Activation!ToSet
      <3>4. Activation!Installed(n) = site[i]
        BY <3>1, <3>2, <3>3 DEF Activation!Installed
      <3>5. Activation!IsList(Activation!Default(site[i].manifest, "setting_seeds", <<>>))
        BY <3>2 DEF Activation!TypeOK
      <3> QED
        BY <1>2, <2>1, <2>2, <3>1, <3>4, <3>5, ResolvedActivates
    <2> QED
      BY <1>2, <2>1, <2>2 DEF Activation!Discovers
  <1> QED
    BY <1>1, <1>2 DEF CheckedOnceIsAccepted, Activation!CheckedOnceIsAccepted

\* PackageActivation is well typed, for any wheels, changes and lists.
THEOREM ActivationTypes == Activation!Spec => []Activation!TypeOK
  <1>1. ActivationInv => Activation!TypeOK
    BY DEF ActivationInv
  <1> QED
    BY <1>1, ActivationInvariance, PTL

\* A backend that starts (generated_packages, discover_generated_packages) runs only manifests that
\* parse_package_manifest read in whole when the product was generated: its timers name jobs they
\* can fire, and the schema its files own is the one generation read.
THEOREM OnlyCheckedStarts == Activation!Spec => []StartsOnlyChecked
  <1> QED
    BY CheckedBeforeStart, ActivationInvariance, PTL

\* What the verification of a wheel accepts resolves, and what resolve_active_packages accepts
\* discover_generated_packages activates, but for the differences CheckedOnceIsAccepted names.
THEOREM ChecksAgree == Activation!Spec => []CheckedOnceIsAccepted
  <1>1. ActivationInv => CheckedOnceIsAccepted
    BY EarlierChecksHold DEF ActivationInv
  <1> QED
    BY <1>1, ActivationInvariance, PTL

\* A finite set has an element that no other is before, in an order given as a set of pairs.
LEMMA FirstExists ==
  ASSUME NEW S, IsFiniteSet(S), S # {}, NEW R,
         \A i \in S : <<i, i>> \notin R,
         \A i, j, k \in S : <<i, j>> \in R /\ <<j, k>> \in R => <<i, k>> \in R
  PROVE  \E i \in S : \A j \in S : <<j, i>> \notin R
  <1> DEFINE Before(i) == {j \in S : <<j, i>> \in R}
             Size(i) == Cardinality(Before(i))
             sizes == {Size(i) : i \in S}
  <1>1. \A i \in S : IsFiniteSet(Before(i)) /\ Size(i) \in Nat
    <2> TAKE i \in S
    <2>1. Before(i) \in SUBSET S
      OBVIOUS
    <2> HIDE DEF Before
    <2> QED
      BY <2>1, FS_Subset, FS_CardinalityType
  <1>2. sizes \subseteq Nat /\ sizes # {}
    <2>1. \E i : i \in S
      OBVIOUS
    <2>2. \A i \in S : Size(i) \in Nat
      BY <1>1
    <2> HIDE DEF Size
    <2>3. sizes \subseteq Nat
      BY <2>2
    <2> QED
      BY <2>1, <2>3
  <1>3. PICK least \in sizes : \A m \in sizes : least <= m
    <2> HIDE DEF sizes
    <2> QED
      BY <1>2, LeastExists
  <1>4. PICK i \in S : \A j \in S : Size(i) <= Size(j)
    <2> HIDE DEF Size
    <2> QED
      BY <1>3
  <1>5. ASSUME NEW j \in S, <<j, i>> \in R PROVE FALSE
    <2>1. Before(j) \subseteq Before(i) /\ j \in Before(i) /\ j \notin Before(j)
      BY <1>5
    <2> HIDE DEF Before
    <2>2. Cardinality(Before(j)) <= Cardinality(Before(i)) /\ Cardinality(Before(j)) # Cardinality(Before(i))
      <3>1. Before(j) \in SUBSET Before(i) /\ Before(i) # Before(j)
        BY <2>1
      <3> QED
        BY <1>1, <3>1, FS_Subset
    <2>3. Size(j) \in Nat /\ Size(i) \in Nat /\ Size(i) <= Size(j)
      BY <1>1, <1>4
    <2> QED
      BY <2>2, <2>3
  <1> QED
    BY <1>5

-------------------------------------------------------------------------------
(* The catalog: of an accepted entry's admitted releases one is the newest. *)

ReleaseShape == [version : Known, tag : {<<n, v.text>> : n \in Title, v \in Known},
                 hosts : SUBSET Host, range : BOOLEAN]
Shape ==
    [name : Title, distribution : Distribution, blank : SUBSET {"summary", "capabilities"},
     settings : Seq({"zone"}), actions : Seq(Listing!Action), recommended_with : Seq(Title),
     versions : Seq(ReleaseShape), extends : {<<>>} \cup (Title \X BOOLEAN)]
Shelves == [format : {1, 2}, packages : Seq(Shape), libraries : Seq(Shape), extensions : Seq(Shape)]

LEMMA ListingType == Listing!TypeOK <=> catalog \in Shelves /\ edits \in 0..MaxEdits
  BY DEF Listing!TypeOK, Shelves, Shape, ReleaseShape

LEMMA InitListing == Listing!Init => Listing!TypeOK
  BY ListingType, ListingAssumption DEF Listing!Init, Listing!CatalogAssumption, Shelves

\* A shelf stays one when an entry is appended or replaced.
LEMMA ShelvesStay ==
  ASSUME catalog \in Shelves, NEW kind \in Listing!Lists, NEW shelf \in Seq(Shape)
  PROVE  [catalog EXCEPT ![kind] = shelf] \in Shelves
  BY DEF Shelves, Listing!Lists

LEMMA ShelfType ==
  ASSUME catalog \in Shelves, NEW kind \in Listing!Lists
  PROVE  catalog[kind] \in Seq(Shape)
  BY DEF Shelves, Listing!Lists

LEMMA ReplacedType ==
  ASSUME catalog \in Shelves, NEW kind \in Listing!Lists, NEW i \in DOMAIN catalog[kind], NEW e \in Shape
  PROVE  [catalog[kind] EXCEPT ![i] = e] \in Seq(Shape)
  <1>1. catalog[kind] \in Seq(Shape)
    BY ShelfType
  <1> QED
    BY <1>1

LEMMA ReleaseType ==
  ASSUME NEW n \in Title, NEW v \in Known, NEW hosts \in SUBSET Host
  PROVE  Listing!ReleaseOf(n, v, hosts) \in ReleaseShape
  BY DEF Listing!ReleaseOf, ReleaseShape

\* One field of an entry or of a release may be given another value of its kind.
LEMMA AmendedType ==
  ASSUME NEW e \in Shape
  PROVE  /\ \A x \in SUBSET {"summary", "capabilities"} : [e EXCEPT !.blank = x] \in Shape
         /\ \A x \in Seq({"zone"}) : [e EXCEPT !.settings = x] \in Shape
         /\ \A x \in Seq(Listing!Action) : [e EXCEPT !.actions = x] \in Shape
         /\ \A x \in Seq(Title) : [e EXCEPT !.recommended_with = x] \in Shape
         /\ \A x \in Seq(ReleaseShape) : [e EXCEPT !.versions = x] \in Shape
         /\ \A x \in {<<>>} \cup (Title \X BOOLEAN) : [e EXCEPT !.extends = x] \in Shape
  BY DEF Shape

LEMMA RangeType ==
  ASSUME NEW r \in ReleaseShape, NEW readable \in BOOLEAN
  PROVE  [r EXCEPT !.range = readable] \in ReleaseShape
  BY DEF ReleaseShape

LEMMA FieldTypes ==
  ASSUME NEW e \in Shape
  PROVE  /\ e.name \in Title /\ e.settings \in Seq({"zone"}) /\ e.actions \in Seq(Listing!Action)
         /\ e.recommended_with \in Seq(Title) /\ e.versions \in Seq(ReleaseShape)
  BY DEF Shape

LEMMA ListingStep == Listing!TypeOK /\ [Listing!Next]_listing => Listing!TypeOK'
  <1> SUFFICES ASSUME Listing!TypeOK, [Listing!Next]_listing PROVE Listing!TypeOK'
    OBVIOUS
  <1>1. catalog \in Shelves /\ edits \in 0..MaxEdits
    BY ListingType
  <1>2. ASSUME catalog' \in Shelves, edits' \in 0..MaxEdits PROVE Listing!TypeOK'
    BY <1>2 DEF Listing!TypeOK, Shelves, Shape, ReleaseShape
  <1>3. ASSUME Listing!Edit PROVE edits' \in 0..MaxEdits
    BY <1>1, <1>3, ListingAssumption DEF Listing!Edit, Listing!CatalogAssumption
  <1>4. ASSUME NEW kind \in Listing!Lists, Listing!Add(kind) PROVE Listing!TypeOK'
    <2>1. PICK n \in Title, d \in Distribution, v \in First,
               parent \in IF kind = "extensions" THEN Title \X BOOLEAN ELSE {<<>>} :
            catalog' = [catalog EXCEPT ![kind] = Append(@,
                [Listing!Entry(n, d, Listing!ReleaseOf(n, v, Host)) EXCEPT
                    !.actions = IF kind = "libraries" THEN <<Listing!Sound>> ELSE <<>>, !.extends = parent])]
      BY <1>4 DEF Listing!Add
    <2> DEFINE acts == IF kind = "libraries" THEN <<Listing!Sound>> ELSE <<>>
               r == Listing!ReleaseOf(n, v, Host)
               bare == Listing!Entry(n, d, r)
               e == [bare EXCEPT !.actions = acts, !.extends = parent]
    <2>2. acts \in Seq(Listing!Action)
      <3>1. Listing!Sound \in Listing!Action
        BY DEF Listing!Action
      <3> HIDE DEF Listing!Sound
      <3>2. <<Listing!Sound>> \in Seq(Listing!Action) /\ <<>> \in Seq(Listing!Action)
        BY <3>1
      <3> QED
        BY <3>2
    <2>3. parent \in {<<>>} \cup (Title \X BOOLEAN)
      BY <2>1
    <2>4. r \in ReleaseShape
      BY ReleaseType, ListingAssumption DEF Listing!CatalogAssumption
    <2> HIDE DEF acts, r
    <2>5. e \in Shape
      <3>1. <<>> \in Seq({"zone"}) /\ <<>> \in Seq(Listing!Action) /\ <<>> \in Seq(Title)
            /\ <<r>> \in Seq(ReleaseShape)
        BY <2>4
      <3>2. bare \in Shape
        BY <3>1 DEF Listing!Entry, Shape
      <3> HIDE DEF bare
      <3>3. [bare EXCEPT !.actions = acts] \in Shape
        BY <2>2, <3>2, AmendedType
      <3>4. [[bare EXCEPT !.actions = acts] EXCEPT !.extends = parent] \in Shape
        BY <2>3, <3>3, AmendedType
      <3>5. e = [[bare EXCEPT !.actions = acts] EXCEPT !.extends = parent]
        OBVIOUS
      <3> QED
        BY <3>4, <3>5
    <2>6. catalog' = [catalog EXCEPT ![kind] = Append(catalog[kind], e)]
      BY <2>1 DEF acts, r
    <2> HIDE DEF e
    <2>7. Append(catalog[kind], e) \in Seq(Shape)
      BY <1>1, <2>5, ShelfType
    <2>8. catalog' \in Shelves
      BY <1>1, <2>6, <2>7, ShelvesStay
    <2> QED
      BY <1>2, <1>3, <1>4, <2>8 DEF Listing!Add
  <1>5. ASSUME NEW kind \in Listing!Lists, Listing!Release(kind) PROVE Listing!TypeOK'
    <2>1. PICK i \in DOMAIN catalog[kind], v \in Known : LET own == Listing!ReleaseOf(catalog[kind][i].name, v, Host) IN
            \E r \in {[own EXCEPT !.hosts = {h}] : h \in Host}
                     \cup {[own EXCEPT !.range = FALSE]} \cup {Listing!ReleaseOf(n, v, Host) : n \in Title} :
                catalog' = [catalog EXCEPT ![kind][i].versions = Append(@, r)]
      BY <1>5 DEF Listing!Release
    <2> DEFINE own == Listing!ReleaseOf(catalog[kind][i].name, v, Host)
    <2>2. catalog[kind][i] \in Shape
      BY <1>1, ShelfType
    <2>3. own \in ReleaseShape
      <3>1. catalog[kind][i].name \in Title
        BY <2>2 DEF Shape
      <3> QED
        BY <3>1, ReleaseType
    <2>4. PICK r : /\ \/ \E h \in Host : r = [own EXCEPT !.hosts = {h}]
                      \/ r = [own EXCEPT !.range = FALSE]
                      \/ \E n \in Title : r = Listing!ReleaseOf(n, v, Host)
                   /\ catalog' = [catalog EXCEPT ![kind][i].versions = Append(@, r)]
      BY <2>1
    <2> HIDE DEF own
    <2>5. r \in ReleaseShape
      <3>1. ASSUME NEW h \in Host PROVE [own EXCEPT !.hosts = {h}] \in ReleaseShape
        BY <2>3 DEF ReleaseShape
      <3>2. [own EXCEPT !.range = FALSE] \in ReleaseShape
        BY <2>3, RangeType
      <3> QED
        BY <2>4, <3>1, <3>2, ReleaseType
    <2> DEFINE e == [catalog[kind][i] EXCEPT !.versions = Append(catalog[kind][i].versions, r)]
               shelf == [catalog[kind] EXCEPT ![i] = e]
    <2>6. e \in Shape
      <3>1. Append(catalog[kind][i].versions, r) \in Seq(ReleaseShape)
        BY <2>2, <2>5, FieldTypes
      <3> QED
        BY <2>2, <3>1, AmendedType
    <2>7. catalog' = [catalog EXCEPT ![kind] = shelf]
      BY <2>4
    <2> HIDE DEF e
    <2>8. shelf \in Seq(Shape)
      BY <1>1, <2>6, ReplacedType
    <2> HIDE DEF shelf
    <2>9. catalog' \in Shelves
      BY <1>1, <2>7, <2>8, ShelvesStay
    <2> QED
      BY <1>2, <1>3, <1>5, <2>9 DEF Listing!Release
  <1>6. ASSUME NEW kind \in Listing!Lists, Listing!Amend(kind) PROVE Listing!TypeOK'
    <2>1. PICK i \in DOMAIN catalog[kind] : \E e \in {catalog[kind][i]} :
            \E changed \in {[e EXCEPT !.blank = {f}] : f \in {"summary", "capabilities"}}
                           \cup {[e EXCEPT !.settings = Append(@, "zone")]}
                           \cup {[e EXCEPT !.actions = Append(@, a)] : a \in Listing!Action}
                           \cup {[e EXCEPT !.recommended_with = Append(@, n)] : n \in Title}
                           \cup {[e EXCEPT !.versions = <<>>], [e EXCEPT !.extends = <<e.name, TRUE>>]} :
                catalog' = [catalog EXCEPT ![kind][i] = changed]
      BY <1>6 DEF Listing!Amend
    <2> DEFINE e == catalog[kind][i]
    <2>2. PICK changed :
            /\ \/ \E f \in {"summary", "capabilities"} : changed = [e EXCEPT !.blank = {f}]
               \/ changed = [e EXCEPT !.settings = Append(@, "zone")]
               \/ \E a \in Listing!Action : changed = [e EXCEPT !.actions = Append(@, a)]
               \/ \E n \in Title : changed = [e EXCEPT !.recommended_with = Append(@, n)]
               \/ changed = [e EXCEPT !.versions = <<>>]
               \/ changed = [e EXCEPT !.extends = <<e.name, TRUE>>]
            /\ catalog' = [catalog EXCEPT ![kind][i] = changed]
      BY <2>1
    <2>3. e \in Shape
      BY <1>1, ShelfType
    <2>4. catalog' = [catalog EXCEPT ![kind] = [catalog[kind] EXCEPT ![i] = changed]]
      BY <2>2
    <2> HIDE DEF e
    <2>5. changed \in Shape
      <3>1. ASSUME NEW f \in {"summary", "capabilities"} PROVE [e EXCEPT !.blank = {f}] \in Shape
        BY <2>3, AmendedType
      <3>2. [e EXCEPT !.settings = Append(@, "zone")] \in Shape
        <4>1. Append(e.settings, "zone") \in Seq({"zone"})
          BY <2>3, FieldTypes
        <4> QED
          BY <2>3, <4>1, AmendedType
      <3>3. ASSUME NEW a \in Listing!Action PROVE [e EXCEPT !.actions = Append(@, a)] \in Shape
        <4>1. Append(e.actions, a) \in Seq(Listing!Action)
          BY <2>3, <3>3, FieldTypes
        <4> QED
          BY <2>3, <4>1, AmendedType
      <3>4. ASSUME NEW n \in Title PROVE [e EXCEPT !.recommended_with = Append(@, n)] \in Shape
        <4>1. Append(e.recommended_with, n) \in Seq(Title)
          BY <2>3, <3>4, FieldTypes
        <4> QED
          BY <2>3, <4>1, AmendedType
      <3>5. [e EXCEPT !.versions = <<>>] \in Shape
        <4>1. <<>> \in Seq(ReleaseShape)
          OBVIOUS
        <4> QED
          BY <2>3, <4>1, AmendedType
      <3>6. [e EXCEPT !.extends = <<e.name, TRUE>>] \in Shape
        <4>1. <<e.name, TRUE>> \in Title \X BOOLEAN
          BY <2>3, FieldTypes
        <4> QED
          BY <2>3, <4>1, AmendedType
      <3> QED
        BY <2>2, <3>1, <3>2, <3>3, <3>4, <3>5, <3>6
    <2>6. [catalog[kind] EXCEPT ![i] = changed] \in Seq(Shape)
      BY <1>1, <2>5, ReplacedType
    <2>7. catalog' \in Shelves
      BY <1>1, <2>4, <2>6, ShelvesStay
    <2> QED
      BY <1>2, <1>3, <1>6, <2>7 DEF Listing!Amend
  <1>7. ASSUME Listing!Reformat PROVE Listing!TypeOK'
    <2>1. catalog' \in Shelves
      BY <1>1, <1>7 DEF Listing!Reformat, Shelves
    <2> QED
      BY <1>2, <1>3, <1>7, <2>1 DEF Listing!Reformat
  <1>8. ASSUME UNCHANGED listing PROVE Listing!TypeOK'
    BY <1>1, <1>2, <1>8 DEF listing
  <1> QED
    BY <1>4, <1>5, <1>6, <1>7, <1>8 DEF Listing!Next

LEMMA ListingInvariance == Listing!Spec => []Listing!TypeOK
  <1> QED
    BY InitListing, ListingStep, PTL DEF Listing!Spec, Listing!vars, listing

\* Of some releases of an entry one is newer than every other, or comes first among the newest.
LEMMA NewestFact ==
  ASSUME NEW e \in Shape, NEW places \in SUBSET DOMAIN e.versions, places # {}
  PROVE  \E i \in places : /\ Listing!Newest(e, places) = e.versions[i]
                           /\ \A j \in places \ {i} : Listing!Newer(e, i, j)
  <1> DEFINE R == {p \in places \X places : Listing!Newer(e, p[1], p[2])}
  <1>1. e.versions \in Seq(ReleaseShape)
    BY DEF Shape
  <1>2. /\ Len(e.versions) \in Nat /\ DOMAIN e.versions = 1..Len(e.versions)
        /\ \A i \in DOMAIN e.versions : e.versions[i] \in ReleaseShape
    BY <1>1
  <1>3. \A i \in places : i \in Nat /\ e.versions[i].version.key \in Nat
    <2>1. \A i \in places : e.versions[i].version \in Known
      BY <1>2 DEF ReleaseShape
    <2> QED
      BY <1>2, <2>1, ListingAssumption DEF Listing!CatalogAssumption
  <1>4. IsFiniteSet(places)
    <2>1. IsFiniteSet(1..Len(e.versions)) /\ places \in SUBSET (1..Len(e.versions))
      BY <1>2, FS_Interval
    <2> QED
      BY <2>1, FS_Subset
  <1>5. /\ \A i \in places : <<i, i>> \notin R
        /\ \A i, j, k \in places : <<i, j>> \in R /\ <<j, k>> \in R => <<i, k>> \in R
    BY <1>3 DEF Listing!Newer
  <1>6. \A i, j \in places : i # j => Listing!Newer(e, i, j) \/ Listing!Newer(e, j, i)
    BY <1>3 DEF Listing!Newer
  <1>7. PICK i \in places : \A j \in places : <<j, i>> \notin R
    <2> HIDE DEF R
    <2> QED
      BY <1>4, <1>5, FirstExists
  <1> DEFINE Foremost(k) == \A j \in places \ {k} : Listing!Newer(e, k, j)
  <1>8. Foremost(i)
    BY <1>6, <1>7
  <1>9. (CHOOSE k \in places : Foremost(k)) \in places /\ Foremost(CHOOSE k \in places : Foremost(k))
    <2> HIDE DEF Foremost
    <2> QED
      BY <1>8
  <1> QED
    BY <1>9 DEF Listing!Newest

\* The component of a name has it, and stands in the list it is said to.
LEMMA ComponentFact ==
  ASSUME catalog \in Shelves, NEW n, Listing!Component(n) # <<>>
  PROVE  \E kind \in Listing!Lists : \E i \in DOMAIN catalog[kind] :
            Listing!Component(n) = <<kind, catalog[kind][i]>> /\ catalog[kind][i].name = n
  <1> DEFINE found(k) == {i \in DOMAIN catalog[k] : catalog[k][i].name = n}
             kind == IF found("libraries") # {} THEN "libraries"
                     ELSE IF found("extensions") # {} THEN "extensions" ELSE "packages"
             Least(i) == \A j \in found(kind) : i <= j
  <1>1. found(kind) # {} /\ Listing!Component(n) = <<kind, catalog[kind][CHOOSE i \in found(kind) : Least(i)]>>
    BY DEF Listing!Component
  <1>2. kind \in Listing!Lists
    BY DEF Listing!Lists
  <1> HIDE DEF kind
  <1>3. catalog[kind] \in Seq(Shape)
    BY <1>2, ShelfType
  <1>4. found(kind) \subseteq Nat
    BY <1>3
  <1>5. \E i \in found(kind) : Least(i)
    <2> HIDE DEF found
    <2> QED
      BY <1>1, <1>4, LeastExists
  <1>6. (CHOOSE i \in found(kind) : Least(i)) \in found(kind)
    <2> HIDE DEF found, Least
    <2> QED
      BY <1>5
  <1> QED
    BY <1>1, <1>2, <1>6

LEMMA NewestIsSelected ==
  ASSUME Listing!TypeOK
  PROVE  SelectionIsNewest
  <1> SUFFICES ASSUME Listing!Accepted, NEW n \in Title, NEW host \in Host, Listing!Component(n) # <<>>,
                      NEW r \in Listing!Select(Listing!Component(n)[1], Listing!Component(n)[2], host)
      PROVE  LET kind == Listing!Component(n)[1]  e == Listing!Component(n)[2] IN
             /\ r \in Listing!ToSet(e.versions) /\ host \in r.hosts /\ r.tag[1] = n
             /\ \A q \in Listing!ToSet(e.versions) \ {r} :
                  host \in q.hosts =>
                      \/ q.version.key < r.version.key
                      \/ kind = "libraries" /\ (q.version.pre \/ q.version.key = r.version.key)
    BY DEF SelectionIsNewest, Listing!SelectionIsNewest
  <1>1. catalog \in Shelves
    BY ListingType
  <1>2. PICK kind \in Listing!Lists : \E i \in DOMAIN catalog[kind] :
            Listing!Component(n) = <<kind, catalog[kind][i]>> /\ catalog[kind][i].name = n
    BY <1>1, ComponentFact
  <1>3. PICK at \in DOMAIN catalog[kind] :
            Listing!Component(n) = <<kind, catalog[kind][at]>> /\ catalog[kind][at].name = n
    BY <1>2
  <1> DEFINE e == catalog[kind][at]
             places == Listing!Compatible(kind, e, host)
  <1>4. e \in Shape /\ e.name = n
    BY <1>1, <1>3, ShelfType
  <1>5. e \in Listing!ToSet(catalog[kind])
    BY DEF Listing!ToSet
  <1>6. /\ \A i \in DOMAIN e.versions : Listing!VersionAccepted(e.versions[i], n)
        /\ kind # "libraries" => Listing!Distinct(e)
    BY <1>4, <1>5 DEF Listing!Accepted, Listing!LibraryAccepted, Listing!PackageAccepted,
                      Listing!ExtensionAccepted, Listing!Lists
  <1>7. Listing!Component(n)[1] = kind /\ Listing!Component(n)[2] = e
    BY <1>3
  <1> HIDE DEF e
  <1>8. places # {} /\ r = Listing!Newest(e, places)
    BY <1>7 DEF Listing!Select
  <1>9. places \in SUBSET DOMAIN e.versions
    BY DEF Listing!Compatible
  <1>10. PICK i \in places : r = e.versions[i] /\ \A j \in places \ {i} : Listing!Newer(e, i, j)
    <2> HIDE DEF places
    <2> QED
      BY <1>4, <1>8, <1>9, NewestFact
  <1>11. i \in DOMAIN e.versions /\ host \in r.hosts
    BY <1>10 DEF Listing!Compatible
  <1>12. r \in Listing!ToSet(e.versions) /\ r.tag[1] = n
    BY <1>6, <1>10, <1>11 DEF Listing!ToSet, Listing!VersionAccepted
  <1>13. ASSUME NEW q \in Listing!ToSet(e.versions) \ {r}, host \in q.hosts
         PROVE  \/ q.version.key < r.version.key
                \/ kind = "libraries" /\ (q.version.pre \/ q.version.key = r.version.key)
    <2>1. PICK j \in DOMAIN e.versions : q = e.versions[j]
      BY <1>13 DEF Listing!ToSet
    <2>2. CASE kind = "libraries" /\ q.version.pre
      BY <2>2
    <2>3. CASE kind = "libraries" => ~q.version.pre
      <3>1. j \in places
        BY <1>13, <2>1, <2>3 DEF Listing!Compatible
      <3>2. Listing!Newer(e, i, j) /\ i # j
        BY <1>10, <1>13, <2>1, <3>1
      <3>3. CASE kind = "libraries"
        BY <1>10, <2>1, <3>2, <3>3 DEF Listing!Newer
      <3>4. CASE kind # "libraries"
        <4>1. e.versions[i].version.key # e.versions[j].version.key
          BY <1>6, <1>11, <2>1, <3>2, <3>4 DEF Listing!Distinct, Listing!Unique, Listing!IsInjective
        <4> QED
          BY <1>10, <2>1, <3>2, <4>1 DEF Listing!Newer
      <3> QED
        BY <3>3, <3>4
    <2> QED
      BY <2>2, <2>3
  <1> QED
    BY <1>7, <1>11, <1>12, <1>13

\* Catalog is well typed, for any names, versions, hosts and edits.
THEOREM ListingTypes == Listing!Spec => []Listing!TypeOK
  BY ListingInvariance

\* In a catalog parse_catalog admits, the release CatalogPackage.select or CatalogLibrary.select
\* answers is one of the component's own the host admits, and no other admitted release is as new,
\* but for a library's second text of one version.
THEOREM NewestSelected == Listing!Spec => []SelectionIsNewest
  <1> QED
    BY NewestIsSelected, ListingInvariance, PTL

-------------------------------------------------------------------------------
(* The environment contract: what the fragment holds met the requirements it was made for, *)
(* and where two files agree the merge holds what either says.                             *)

KeptMeets ==
    /\ kept = <<>> => madeFor = <<>>
    /\ kept # <<>> =>
        /\ DOMAIN kept[1] = Environment!WantedNames(madeFor)
        /\ \A n \in DOMAIN kept[1] : Environment!Meets(kept[1][n], Environment!Requirement(madeFor, n))
EnvironmentInv == Environment!TypeOK /\ KeptMeets

\* Of fragments that agree, the merge holds every entry of each.
LEMMA MergedHoldsEach ==
  ASSUME NEW m \in Nat, NEW fragments, DOMAIN fragments = 1..m, Environment!Merges(fragments),
         NEW i \in DOMAIN fragments, NEW n \in DOMAIN fragments[i]
  PROVE  n \in DOMAIN Environment!Merged(fragments) /\ Environment!Merged(fragments)[n] = fragments[i][n]
  <1> DEFINE holders == {j \in DOMAIN fragments : n \in DOMAIN fragments[j]}
             Last(j) == /\ n \in DOMAIN fragments[j]
                        /\ \A k \in DOMAIN fragments : n \in DOMAIN fragments[k] => k <= j
             last == CHOOSE j \in DOMAIN fragments : Last(j)
  <1>1. holders \subseteq Nat /\ holders # {} /\ \A j \in holders : j <= m
    OBVIOUS
  <1>2. PICK j \in holders : \A k \in holders : k <= j
    <2> HIDE DEF holders
    <2> QED
      BY <1>1, GreatestExists
  <1>3. j \in DOMAIN fragments /\ Last(j)
    BY <1>2
  <1>4. last \in DOMAIN fragments /\ Last(last)
    <2> HIDE DEF Last
    <2> QED
      BY <1>3
  <1>5. n \in UNION {DOMAIN fragments[k] : k \in DOMAIN fragments}
    OBVIOUS
  <1>6. Environment!Merged(fragments)[n] = fragments[last][n]
    BY <1>5 DEF Environment!Merged
  <1>7. Environment!Agree(fragments[last], fragments[i])
    BY <1>4 DEF Environment!Merges, Environment!ToSet
  <1> HIDE DEF last
  <1>8. fragments[last][n] = fragments[i][n]
    BY <1>4, <1>7 DEF Environment!Agree
  <1> QED
    BY <1>5, <1>6, <1>8 DEF Environment!Merged

LEMMA MergedDomain ==
  ASSUME NEW fragments
  PROVE  DOMAIN Environment!Merged(fragments) = UNION {DOMAIN fragments[k] : k \in DOMAIN fragments}
  BY DEF Environment!Merged

\* The packages of one set have one source for a variable, if any.
LEMMA OneSource ==
  ASSUME NEW list \in Requiring \cup {<<>>}, Environment!SourcesAgree(list), NEW n,
         NEW s \in Environment!Requirement(list, n).source, NEW t \in Environment!Requirement(list, n).source
  PROVE  s = t
  <1>1. PICK r \in Environment!Wanted(list), q \in Environment!Wanted(list) :
           r.name = n /\ q.name = n /\ s \in r.source /\ t \in q.source
    BY DEF Environment!Requirement
  <1>2. r.source = q.source
    BY <1>1 DEF Environment!SourcesAgree
  <1>3. \A u, v \in r.source : u = v
    BY EnvironmentAssumption DEF Environment!ContractAssumption, Environment!Wanted, Environment!ToSet
  <1> QED
    BY <1>1, <1>2, <1>3

\* The entry made for a requirement meets it.
LEMMA EntryMeets ==
  ASSUME NEW list \in Requiring \cup {<<>>}, Environment!SourcesAgree(list), NEW n
  PROVE  Environment!Meets(Environment!EntryFor(Environment!Requirement(list, n)),
                           Environment!Requirement(list, n))
  <1> DEFINE requirement == Environment!Requirement(list, n)
             e == Environment!EntryFor(requirement)
  <1>1. /\ e.environments = {"local", "production"} /\ e.consumers = {"backend"}
        /\ e.required = requirement.required
    BY DEF Environment!EntryFor
  <1>2. ASSUME NEW s \in requirement.source
        PROVE  e.source = s.kind /\ e.detail = s.detail
    <2>1. (CHOOSE t \in requirement.source : TRUE) = s
      BY <1>2, OneSource
    <2>2. requirement.source # {}
      BY <1>2
    <2> HIDE DEF requirement
    <2> QED
      BY <2>1, <2>2 DEF Environment!EntryFor
  <1> HIDE DEF e, requirement
  <1> QED
    BY <1>1, <1>2 DEF Environment!Meets, e, requirement

\* What generation writes meets what it was made for.
LEMMA NewFragmentMeets ==
  ASSUME Environment!TypeOK, Environment!Generates
  PROVE  /\ DOMAIN Environment!NewFragment = Environment!WantedNames(wanted)
         /\ \A n \in DOMAIN Environment!NewFragment :
              Environment!Meets(Environment!NewFragment[n], Environment!Requirement(wanted, n))
  <1>1. DOMAIN Environment!NewFragment = Environment!WantedNames(wanted)
    BY DEF Environment!NewFragment
  <1>2. ASSUME NEW n \in Environment!WantedNames(wanted)
        PROVE  Environment!Meets(Environment!NewFragment[n], Environment!Requirement(wanted, n))
    <2>1. CASE n \in DOMAIN Environment!Merged(entries)
      BY <1>2, <2>1 DEF Environment!NewFragment, Environment!Generates
    <2>2. CASE n \notin DOMAIN Environment!Merged(entries)
      <3>1. Environment!NewFragment[n] = Environment!EntryFor(Environment!Requirement(wanted, n))
        BY <1>2, <2>2 DEF Environment!NewFragment
      <3>2. Environment!SourcesAgree(wanted) /\ wanted \in Requiring \cup {<<>>}
        BY DEF Environment!Generates, Environment!TypeOK
      <3> QED
        BY <3>1, <3>2, EntryMeets
    <2> QED
      BY <2>1, <2>2
  <1> QED
    BY <1>1, <1>2

LEMMA InitEnvironment == Environment!Init => EnvironmentInv
  <1> SUFFICES ASSUME Environment!Init PROVE EnvironmentInv
    OBVIOUS
  <1>1. [n \in {} |-> n] \in [{} -> Declaration]
    OBVIOUS
  <1>2. [n \in {} |-> n] \in Environment!Entries
    BY <1>1 DEF Environment!Entries
  <1>3. rewrites \in 0..MaxRewrites
    BY EnvironmentAssumption DEF Environment!Init, Environment!ContractAssumption
  <1> QED
    BY <1>2, <1>3 DEF Environment!Init, EnvironmentInv, Environment!TypeOK, KeptMeets

LEMMA EnvironmentStep == EnvironmentInv /\ [Environment!Next]_environment => EnvironmentInv'
  <1> SUFFICES ASSUME EnvironmentInv, [Environment!Next]_environment PROVE EnvironmentInv'
    OBVIOUS
  <1> USE DEF EnvironmentInv
  <1>1. ASSUME UNCHANGED <<kept, madeFor>> PROVE KeptMeets'
    BY <1>1 DEF KeptMeets, Environment!Meets, Environment!Requirement, Environment!WantedNames,
                Environment!Wanted, Environment!ToSet
  <1>2. ASSUME Environment!Edit
        PROVE  rewrites' \in 0..MaxRewrites /\ UNCHANGED <<kept, madeFor>>
    BY <1>2, EnvironmentAssumption
       DEF Environment!Edit, Environment!ContractAssumption, Environment!TypeOK
  <1>3. ASSUME NEW i \in 1..Owners, NEW n \in Variable, Environment!Declare(i, n) PROVE EnvironmentInv'
    <2>1. PICK e \in Declaration :
            entries' = [entries EXCEPT ![i] = [m \in DOMAIN @ \cup {n} |-> IF m = n THEN e ELSE @[m]]]
      BY <1>3 DEF Environment!Declare
    <2> DEFINE new == [m \in DOMAIN entries[i] \cup {n} |-> IF m = n THEN e ELSE entries[i][m]]
    <2>2. entries[i] \in Environment!Entries
      BY DEF Environment!TypeOK
    <2>3. PICK N \in SUBSET Variable : entries[i] \in [N -> Declaration]
      BY <2>2 DEF Environment!Entries
    <2>4. new \in [N \cup {n} -> Declaration]
      BY <2>3
    <2>5. new \in Environment!Entries
      BY <2>4 DEF Environment!Entries
    <2>6. entries' = [entries EXCEPT ![i] = new]
      BY <2>1
    <2> HIDE DEF new
    <2>7. entries' \in [1..Owners -> Environment!Entries]
      BY <2>5, <2>6 DEF Environment!TypeOK
    <2>8. UNCHANGED <<wanted, uses>> /\ Environment!Edit
      BY <1>3 DEF Environment!Declare
    <2> QED
      BY <1>1, <1>2, <2>7, <2>8 DEF Environment!TypeOK, Environment!Entries
  <1>4. ASSUME NEW i \in 1..Owners, NEW n \in Variable, Environment!Withdraw(i, n) PROVE EnvironmentInv'
    <2> DEFINE new == [m \in DOMAIN entries[i] \ {n} |-> entries[i][m]]
    <2>1. entries' = [entries EXCEPT ![i] = new]
      BY <1>4 DEF Environment!Withdraw
    <2>2. entries[i] \in Environment!Entries
      BY DEF Environment!TypeOK
    <2>3. PICK N \in SUBSET Variable : entries[i] \in [N -> Declaration]
      BY <2>2 DEF Environment!Entries
    <2>4. new \in [N \ {n} -> Declaration]
      BY <2>3
    <2>5. new \in Environment!Entries
      BY <2>4 DEF Environment!Entries
    <2> HIDE DEF new
    <2>7. entries' \in [1..Owners -> Environment!Entries]
      BY <2>5, <2>1 DEF Environment!TypeOK
    <2>8. UNCHANGED <<wanted, uses>> /\ Environment!Edit
      BY <1>4 DEF Environment!Withdraw
    <2> QED
      BY <1>1, <1>2, <2>7, <2>8 DEF Environment!TypeOK, Environment!Entries
  <1>5. ASSUME Environment!ListPackages PROVE EnvironmentInv'
    BY <1>1, <1>2, <1>5 DEF Environment!ListPackages, Environment!TypeOK, Environment!Entries
  <1>6. ASSUME Environment!Read PROVE EnvironmentInv'
    BY <1>1, <1>2, <1>6 DEF Environment!Read, Environment!TypeOK, Environment!Entries
  <1>7. ASSUME Environment!Generate PROVE EnvironmentInv'
    <2>1. UNCHANGED <<entries, wanted, uses, rewrites>> /\ madeFor' = wanted
      BY <1>7 DEF Environment!Generate
    <2>2. CASE wanted = <<>>
      <3>1. kept' = <<>>
        BY <1>7, <2>2 DEF Environment!Generate
      <3> QED
        BY <2>1, <2>2, <3>1 DEF Environment!TypeOK, Environment!Entries, KeptMeets
    <2>3. CASE wanted # <<>>
      <3>1. Environment!Generates /\ kept' = <<Environment!NewFragment>>
        BY <1>7, <2>3 DEF Environment!Generate
      <3>2. /\ DOMAIN Environment!NewFragment = Environment!WantedNames(wanted)
            /\ \A n \in DOMAIN Environment!NewFragment :
                 Environment!Meets(Environment!NewFragment[n], Environment!Requirement(wanted, n))
        BY <3>1, NewFragmentMeets
      <3>3. kept'[1] = Environment!NewFragment /\ kept' # <<>>
        BY <3>1
      <3>4. KeptMeets'
        BY <2>1, <3>2, <3>3 DEF KeptMeets, Environment!Meets, Environment!Requirement, Environment!WantedNames,
                Environment!Wanted, Environment!ToSet
      <3> QED
        BY <2>1, <3>1, <3>3, <3>4 DEF Environment!TypeOK, Environment!Entries
    <2> QED
      BY <2>2, <2>3
  <1>8. ASSUME UNCHANGED environment PROVE EnvironmentInv'
    BY <1>1, <1>8 DEF environment, Environment!TypeOK, Environment!Entries
  <1> QED
    BY <1>3, <1>4, <1>5, <1>6, <1>7, <1>8 DEF Environment!Next

LEMMA EnvironmentInvariance == Environment!Spec => []EnvironmentInv
  <1> QED
    BY InitEnvironment, EnvironmentStep, PTL DEF Environment!Spec, Environment!vars, environment

LEMMA ArtifactHolds ==
  ASSUME EnvironmentInv
  PROVE  ArtifactMeetsRequirements
  <1> SUFFICES ASSUME Environment!Builds
      PROVE /\ \A n \in Environment!WantedNames(madeFor) :
                /\ n \in DOMAIN Environment!Contract
                /\ Environment!Meets(Environment!Contract[n], Environment!Requirement(madeFor, n))
            /\ wanted = madeFor /\ wanted # <<>> /\ Environment!Generates =>
                LET fresh == Environment!Merged(Append(entries, Environment!NewFragment)) IN
                /\ DOMAIN fresh = DOMAIN Environment!Contract
                /\ \A n \in DOMAIN fresh :
                    \/ fresh[n] = Environment!Contract[n]
                    \/ n \notin DOMAIN Environment!Merged(entries)
    BY DEF ArtifactMeetsRequirements, Environment!ArtifactMeetsRequirements
  <1> DEFINE All == Environment!All
  <1>1. /\ entries \in [1..Owners -> Environment!Entries] /\ Owners \in Nat
        /\ entries \in Seq(Environment!Entries) /\ Len(entries) = Owners /\ DOMAIN entries = 1..Owners
    <2>1. entries \in [1..Owners -> Environment!Entries] /\ Owners \in Nat
      BY EnvironmentAssumption DEF EnvironmentInv, Environment!TypeOK, Environment!ContractAssumption
    <2> QED
      BY <2>1
  <1>2. Environment!Merges(All) /\ Environment!Merges(entries)
    <2>1. Environment!Merges(All)
      BY DEF Environment!Builds
    <2>2. \A i \in DOMAIN entries : i \in DOMAIN All /\ All[i] = entries[i]
      <3>1. CASE kept = <<>>
        BY <1>1, <3>1 DEF Environment!All
      <3>2. CASE kept = <<kept[1]>>
        BY <1>1, <3>2 DEF Environment!All
      <3> QED
        BY <3>1, <3>2 DEF EnvironmentInv, Environment!TypeOK
    <2> QED
      BY <2>1, <2>2 DEF Environment!Merges, Environment!ToSet
  <1>3. CASE kept = <<>>
    <2>1. madeFor = <<>>
      BY <1>3 DEF EnvironmentInv, KeptMeets
    <2>2. Environment!WantedNames(madeFor) = {}
      BY <2>1 DEF Environment!WantedNames, Environment!Wanted, Environment!ToSet
    <2> QED
      BY <2>1, <2>2
  <1>4. CASE kept # <<>>
    <2> DEFINE F == kept[1]
    <2>1. kept = <<F>> /\ DOMAIN F = Environment!WantedNames(madeFor)
          /\ \A n \in DOMAIN F : Environment!Meets(F[n], Environment!Requirement(madeFor, n))
      BY <1>4 DEF EnvironmentInv, KeptMeets, Environment!TypeOK
    <2> HIDE DEF F
    <2>2. /\ DOMAIN All = 1..(Owners + 1) /\ All[Owners + 1] = F
          /\ \A i \in 1..Owners : All[i] = entries[i]
      BY <1>1, <2>1 DEF Environment!All
    <2>3. \A n \in DOMAIN F : n \in DOMAIN Environment!Contract /\ Environment!Contract[n] = F[n]
      BY <1>1, <1>2, <2>2, MergedHoldsEach DEF Environment!Contract
    <2>4. ASSUME wanted = madeFor, Environment!Generates
          PROVE  LET fresh == Environment!Merged(Append(entries, Environment!NewFragment)) IN
                 /\ DOMAIN fresh = DOMAIN Environment!Contract
                 /\ \A n \in DOMAIN fresh :
                     \/ fresh[n] = Environment!Contract[n]
                     \/ n \notin DOMAIN Environment!Merged(entries)
      <3> DEFINE G == Environment!NewFragment
                 next == Append(entries, G)
                 fresh == Environment!Merged(next)
      <3>1. DOMAIN G = DOMAIN F
        BY <2>1, <2>4 DEF Environment!NewFragment
      <3>2. /\ DOMAIN next = 1..(Owners + 1) /\ next[Owners + 1] = G
            /\ \A i \in 1..Owners : next[i] = entries[i]
        <4> HIDE DEF G
        <4> QED
          BY <1>1
      <3> HIDE DEF next
      <3>3. DOMAIN fresh = DOMAIN Environment!Contract
        <4>1. \A i \in DOMAIN next : DOMAIN next[i] = DOMAIN All[i]
          BY <1>1, <2>2, <3>1, <3>2
        <4>2. DOMAIN next = DOMAIN All
          BY <2>2, <3>2
        <4>3. {DOMAIN next[k] : k \in DOMAIN next} = {DOMAIN All[k] : k \in DOMAIN All}
          <5> HIDE DEF All
          <5> QED
            BY <4>1, <4>2
        <4>4. DOMAIN fresh = UNION {DOMAIN next[k] : k \in DOMAIN next}
          BY MergedDomain
        <4>5. DOMAIN Environment!Contract = UNION {DOMAIN All[k] : k \in DOMAIN All}
          BY MergedDomain DEF Environment!Contract
        <4> QED
          BY <4>3, <4>4, <4>5
      <3>4. \A i \in 1..Owners : \A n \in DOMAIN entries[i] :
               Environment!Merged(entries)[n] = entries[i][n] /\ n \in DOMAIN Environment!Merged(entries)
        BY <1>1, <1>2, MergedHoldsEach
      <3>5. \A i \in 1..Owners : Environment!Agree(entries[i], G) /\ Environment!Agree(G, entries[i])
        BY <3>4 DEF Environment!Agree, Environment!NewFragment
      <3>6. \A i, j \in 1..Owners : Environment!Agree(entries[i], entries[j])
        BY <1>1, <1>2 DEF Environment!Merges, Environment!ToSet
      <3>7. Environment!Agree(G, G)
        BY DEF Environment!Agree
      <3> HIDE DEF G
      <3>8. \A i, j \in DOMAIN next : Environment!Agree(next[i], next[j])
        <4>1. \A i \in DOMAIN next : (i \in 1..Owners /\ next[i] = entries[i]) \/ next[i] = G
          BY <1>1, <3>2
        <4> QED
          BY <3>5, <3>6, <3>7, <4>1
      <3>9. Environment!Merges(next)
        BY <3>8 DEF Environment!Merges, Environment!ToSet
      <3>10. ASSUME NEW n \in DOMAIN fresh, n \in DOMAIN Environment!Merged(entries)
             PROVE  fresh[n] = Environment!Contract[n]
        <4>1. PICK i \in 1..Owners : n \in DOMAIN entries[i]
          <5>1. n \in UNION {DOMAIN entries[k] : k \in DOMAIN entries}
            BY <3>10, MergedDomain
          <5> QED
            BY <1>1, <5>1
        <4>2. i \in DOMAIN next /\ n \in DOMAIN next[i] /\ i \in DOMAIN All /\ n \in DOMAIN All[i]
          BY <1>1, <2>2, <3>2, <4>1
        <4>3. fresh[n] = next[i][n]
          BY <1>1, <3>2, <3>9, <4>2, MergedHoldsEach
        <4>4. Environment!Contract[n] = All[i][n]
          BY <1>1, <1>2, <2>2, <4>2, MergedHoldsEach DEF Environment!Contract
        <4> QED
          BY <2>2, <3>2, <4>3, <4>4
      <3> QED
        BY <3>3, <3>10 DEF next, G
    <2> QED
      BY <2>1, <2>3, <2>4
  <1> QED
    BY <1>3, <1>4

\* EnvContract is well typed, for any declarations, requirements and edits.
THEOREM EnvironmentTypes == Environment!Spec => []Environment!TypeOK
  <1>1. EnvironmentInv => Environment!TypeOK
    BY DEF EnvironmentInv
  <1> QED
    BY <1>1, EnvironmentInvariance, PTL

\* An artifact that build_env_contract_artifact makes holds an entry for every variable the packages
\* of the fragment require, which meets the requirement, whatever the author edited since the
\* fragment was generated.
THEOREM ArtifactsMeetRequirements == Environment!Spec => []ArtifactMeetsRequirements
  <1>1. EnvironmentInv => ArtifactMeetsRequirements
    BY ArtifactHolds
  <1> QED
    BY <1>1, EnvironmentInvariance, PTL

-------------------------------------------------------------------------------
(* The ranking: scores are fractions, the order of posts is strict and total, and a place is *)
(* counted, so that it is the same from whichever end the posts are read.                     *)

LEMMA SameRankedSets ==
  /\ \A S : Ranked!IsFiniteSet(S) = IsFiniteSet(S)
  /\ \A S : Ranked!Cardinality(S) = Cardinality(S)
  <1>1. \A S : Ranked!IsFiniteSet(S) = IsFiniteSet(S)
    BY DEF Ranked!IsFiniteSet, IsFiniteSet
  <1>2. \A S : Ranked!Cardinality(S) = Cardinality(S)
    BY DEF Ranked!Cardinality, Cardinality
  <1> QED
    BY <1>1, <1>2

LEMMA PostFacts ==
  ASSUME NEW p \in Post
  PROVE  /\ p.id \in Int /\ p.age \in Int
         /\ \A m \in Ranked!Metrics : p[m] \subseteq Nat /\ \A k, n \in p[m] : k = n
  BY RankedAssumption DEF Ranked!RankingAssumption

\* The largest value the posts report is a number.
LEMMA MaximumType ==
  ASSUME NEW items \in Seq(Post), NEW m \in Ranked!Metrics
  PROVE  Ranked!Maximum(items, m) \in Nat
  <1> DEFINE reported == UNION {items[i][m] : i \in DOMAIN items}
             n == Len(items)
             R == {p \in reported \X reported : p[1] > p[2]}
             Greatest(k) == \A l \in reported : l <= k
  <1>1. n \in Nat /\ DOMAIN items = 1..n /\ \A i \in 1..n : items[i] \in Post
    OBVIOUS
  <1>2. reported \subseteq Nat
    BY <1>1, PostFacts
  <1>3. IsFiniteSet(reported)
    <2> DEFINE at == [k \in reported |-> CHOOSE i \in 1..n : k \in items[i][m]]
    <2>1. \A k \in reported : at[k] \in 1..n /\ k \in items[at[k]][m]
      BY <1>1
    <2>2. at \in [reported -> 1..n]
      <3>1. \A k \in reported : at[k] \in 1..n
        BY <2>1
      <3> HIDE DEF reported
      <3> QED
        BY <3>1
    <2>3. \A k, l \in reported : at[k] = at[l] => k = l
      <3> TAKE k, l \in reported
      <3> HAVE at[k] = at[l]
      <3>1. k \in items[at[k]][m] /\ l \in items[at[k]][m] /\ items[at[k]] \in Post
        BY <1>1, <2>1
      <3> HIDE DEF at
      <3> QED
        BY <3>1, PostFacts
    <2> HIDE DEF at, reported
    <2>4. at \in Injection(reported, 1..n)
      BY <2>2, <2>3 DEF Injection, IsInjective
    <2> QED
      BY <1>1, <2>4, FS_Interval, FS_Injection
  <1>4. CASE reported = {}
    BY <1>4 DEF Ranked!Maximum
  <1>5. CASE reported # {}
    <2>1. /\ \A i \in reported : <<i, i>> \notin R
          /\ \A i, j, k \in reported : <<i, j>> \in R /\ <<j, k>> \in R => <<i, k>> \in R
      <3> HIDE DEF reported
      <3> QED
        BY <1>2
    <2>2. PICK k \in reported : \A l \in reported : <<l, k>> \notin R
      <3> HIDE DEF R, reported
      <3> QED
        BY <1>3, <1>5, <2>1, FirstExists
    <2>3. Greatest(k)
      <3> SUFFICES ASSUME NEW l \in reported PROVE l <= k
        OBVIOUS
      <3>1. <<l, k>> \notin R /\ l \in Nat /\ k \in Nat /\ k \in reported
        BY <1>2, <2>2
      <3> HIDE DEF reported
      <3> QED
        BY <3>1
    <2>4. (CHOOSE l \in reported : Greatest(l)) \in reported
      <3> HIDE DEF Greatest, reported
      <3> QED
        BY <2>3
    <2>5. Ranked!Maximum(items, m) = CHOOSE l \in reported : Greatest(l)
      BY <1>5 DEF Ranked!Maximum
    <2> HIDE DEF reported
    <2> QED
      BY <1>2, <2>4, <2>5
  <1> QED
    BY <1>4, <1>5

Seeded(s) == s.weights \in Weights /\ s.keywords \in Keyword

LEMMA CriterionType ==
  ASSUME NEW p \in Post, NEW s, Seeded(s), NEW items \in Seq(Post), NEW c \in Ranked!Carries(p, s)
  PROVE  c \in Ranked!Criteria /\ Ranked!CriterionScore(p, c, s, items) \in Int
  <1>1. CASE c = "freshness"
    <2>1. Ranked!Freshness(p) \in Int
      BY PostFacts DEF Ranked!Freshness, Ranked!Unit
    <2> QED
      BY <1>1, <2>1 DEF Ranked!CriterionScore, Ranked!Criteria
  <1>2. CASE c = "keywords"
    <2>1. Ranked!UsesKeywords(s)
      BY <1>2 DEF Ranked!Carries, Ranked!Metrics
    <2>2. IsFiniteSet(s.keywords) /\ s.keywords # {}
      BY <2>1, RankedAssumption, SameRankedSets DEF Ranked!UsesKeywords, Ranked!RankingAssumption, Seeded
    <2>3. Cardinality(s.keywords) \in Nat \ {0}
      BY <2>2, FS_CardinalityType, FS_EmptySet
    <2>4. Cardinality(s.keywords \cap UNION p.words) \in Nat
      BY <2>2, FS_Intersection, FS_CardinalityType
    <2>5. Ranked!CriterionScore(p, c, s, items) =
            (Ranked!Unit * Cardinality(s.keywords \cap UNION p.words)) \div Cardinality(s.keywords)
      <3>1. Ranked!CriterionScore(p, c, s, items) =
              (Ranked!Unit * Ranked!Cardinality(s.keywords \cap UNION p.words))
              \div Ranked!Cardinality(s.keywords)
        BY <1>2 DEF Ranked!CriterionScore
      <3> QED
        BY <3>1, SameRankedSets
    <2> QED
      BY <1>2, <2>3, <2>4, <2>5 DEF Ranked!Unit, Ranked!Criteria
  <1>3. CASE c \in Ranked!Metrics
    <2>1. Ranked!Maximum(items, c) \in Nat
      BY <1>3, MaximumType
    <2>2. <<p>> \in Seq(Post)
      OBVIOUS
    <2>3. Ranked!Maximum(<<p>>, c) \in Nat
      BY <1>3, <2>2, MaximumType
    <2>4. c # "freshness" /\ c # "keywords"
      BY <1>3 DEF Ranked!Metrics
    <2> QED
      BY <1>3, <2>1, <2>3, <2>4 DEF Ranked!CriterionScore, Ranked!Unit, Ranked!Criteria
  <1> QED
    BY <1>1, <1>2, <1>3 DEF Ranked!Carries

LEMMA TotalType ==
  ASSUME NEW f, \A c : Ranked!At(f, c) \in Int
  PROVE  /\ Ranked!Total(f) \in Int
         /\ (\A c : Ranked!At(f, c) \in Nat) => Ranked!Total(f) \in Nat
  <1> DEFINE a == Ranked!At(f, "views")  b == Ranked!At(f, "reactions")  c == Ranked!At(f, "forwards")
             d == Ranked!At(f, "freshness")  e == Ranked!At(f, "keywords")
  <1>1. Ranked!Total(f) = a + b + c + d + e
    BY DEF Ranked!Total
  <1>2. a \in Int /\ b \in Int /\ c \in Int /\ d \in Int /\ e \in Int
    OBVIOUS
  <1>3. (\A x : Ranked!At(f, x) \in Nat) => a >= 0 /\ b >= 0 /\ c >= 0 /\ d >= 0 /\ e >= 0
    OBVIOUS
  <1> HIDE DEF a, b, c, d, e
  <1> QED
    BY <1>1, <1>2, <1>3

Fraction == [num : Int, den : Nat \ {0}]

LEMMA ScoreType ==
  ASSUME NEW p \in Post, NEW s, Seeded(s), NEW items \in Seq(Post)
  PROVE  Ranked!Score(p, s, items) \in Fraction
  <1> DEFINE applicable == {c \in Ranked!Carries(p, s) : s.weights[c] > 0}
             W == [c \in applicable |-> s.weights[c]]
             N == [c \in applicable |-> s.weights[c] * Ranked!CriterionScore(p, c, s, items)]
  <1>1. \A c \in Ranked!Criteria : s.weights[c] \in Nat
    BY RankedAssumption DEF Ranked!RankingAssumption, Seeded
  <1>2. \A c \in applicable : s.weights[c] \in Nat /\ Ranked!CriterionScore(p, c, s, items) \in Int
    BY <1>1, CriterionType
  <1> HIDE DEF applicable
  <1>3. \A c : Ranked!At(W, c) \in Nat /\ Ranked!At(N, c) \in Int
    BY <1>2 DEF Ranked!At
  <1> HIDE DEF W, N
  <1>4. Ranked!Total(W) \in Nat /\ Ranked!Total(N) \in Int
    BY <1>3, TotalType
  <1>5. Ranked!Score(p, s, items) = IF Ranked!Total(W) = 0 THEN [num |-> 0, den |-> 1]
                                    ELSE [num |-> Ranked!Total(N), den |-> Ranked!Total(W)]
    BY DEF Ranked!Score, W, N, applicable
  <1> QED
    BY <1>4, <1>5 DEF Fraction

LEMMA Multiplied ==
  ASSUME NEW x \in Int, NEW y \in Int, NEW z \in Nat \ {0}
  PROVE  (x >= y) <=> (x * z >= y * z)
  OBVIOUS

\* Fractions compared crosswise are ordered as numbers are.
LEMMA Crosswise ==
  ASSUME NEW a \in Int, NEW b \in Int, NEW c \in Int,
         NEW u \in Nat \ {0}, NEW v \in Nat \ {0}, NEW w \in Nat \ {0},
         a * v >= b * u, b * w >= c * v
  PROVE  a * w >= c * u /\ (a * w = c * u => a * v = b * u /\ b * w = c * v)
  <1>1. (a * v) * w >= (b * u) * w
    BY Multiplied
  <1>2. (b * w) * u >= (c * v) * u
    BY Multiplied
  <1>3. (a * w) * v >= (c * u) * v
    BY <1>1, <1>2
  <1>4. a * w >= c * u
    BY <1>3, Multiplied
  <1>5. ASSUME a * w = c * u PROVE a * v = b * u /\ b * w = c * v
    <2>1. (a * w) * v = (c * u) * v
      BY <1>5
    <2>2. (b * u) * w >= (a * v) * w /\ (c * v) * u >= (b * w) * u
      BY <1>1, <1>2, <2>1
    <2>3. b * u >= a * v /\ c * v >= b * w
      BY <2>2, Multiplied
    <2> QED
      BY <2>3
  <1> QED
    BY <1>4, <1>5

LEMMA FractionOrder ==
  ASSUME NEW a \in Fraction, NEW b \in Fraction, NEW c \in Fraction
  PROVE  /\ ~Ranked!Higher(a, a) /\ Ranked!Equal(a, a)
         /\ Ranked!Higher(a, b) \/ Ranked!Equal(a, b) \/ Ranked!Higher(b, a)
         /\ ~(Ranked!Higher(a, b) /\ (Ranked!Equal(a, b) \/ Ranked!Higher(b, a)))
         /\ Ranked!Equal(a, b) = Ranked!Equal(b, a)
         /\ Ranked!Higher(a, b) /\ (Ranked!Higher(b, c) \/ Ranked!Equal(b, c)) => Ranked!Higher(a, c)
         /\ Ranked!Equal(a, b) /\ Ranked!Higher(b, c) => Ranked!Higher(a, c)
         /\ Ranked!Equal(a, b) /\ Ranked!Equal(b, c) => Ranked!Equal(a, c)
  <1> DEFINE k == a.num  l == b.num  m == c.num  u == a.den  v == b.den  w == c.den
  <1>1. k \in Int /\ l \in Int /\ m \in Int /\ u \in Nat \ {0} /\ v \in Nat \ {0} /\ w \in Nat \ {0}
    BY DEF Fraction
  <1>2. /\ Ranked!Higher(a, a) = (k * u > k * u) /\ Ranked!Equal(a, a) = (k * u = k * u)
        /\ Ranked!Higher(a, b) = (k * v > l * u) /\ Ranked!Higher(b, a) = (l * u > k * v)
        /\ Ranked!Equal(a, b) = (k * v = l * u) /\ Ranked!Equal(b, a) = (l * u = k * v)
        /\ Ranked!Higher(b, c) = (l * w > m * v) /\ Ranked!Equal(b, c) = (l * w = m * v)
        /\ Ranked!Higher(a, c) = (k * w > m * u) /\ Ranked!Equal(a, c) = (k * w = m * u)
    BY DEF Ranked!Higher, Ranked!Equal
  <1> HIDE DEF k, l, m, u, v, w
  <1>3. ASSUME k * v >= l * u, l * w >= m * v
        PROVE  k * w >= m * u /\ (k * w = m * u => k * v = l * u /\ l * w = m * v)
    BY <1>1, <1>3, Crosswise
  <1>4. ASSUME m * v >= l * w, l * u >= k * v PROVE m * u >= k * w
    BY <1>1, <1>4, Crosswise
  <1>5. /\ k * v \in Int /\ l * u \in Int /\ l * w \in Int /\ m * v \in Int /\ k * w \in Int
        /\ m * u \in Int /\ k * u \in Int
    BY <1>1
  <1> DEFINE kv == k * v  lu == l * u  lw == l * w  mv == m * v  kw == k * w  mu == m * u  ku == k * u
  <1>6. /\ kv \in Int /\ lu \in Int /\ lw \in Int /\ mv \in Int /\ kw \in Int /\ mu \in Int /\ ku \in Int
        /\ kv >= lu /\ lw >= mv => kw >= mu /\ (kw = mu => kv = lu /\ lw = mv)
        /\ mv >= lw /\ lu >= kv => mu >= kw
    BY <1>3, <1>4, <1>5
  <1> HIDE DEF kv, lu, lw, mv, kw, mu, ku
  <1>7. /\ ~(ku > ku)
        /\ kv > lu \/ kv = lu \/ lu > kv
        /\ ~(kv > lu /\ (kv = lu \/ lu > kv))
        /\ kv > lu /\ (lw > mv \/ lw = mv) => kw > mu
        /\ kv = lu /\ lw > mv => kw > mu
        /\ kv = lu /\ lw = mv => kw = mu
    BY <1>6
  <1> QED
    BY <1>2, <1>7 DEF kv, lu, lw, mv, kw, mu, ku

\* The order of posts is strict, and total where the identifiers differ.
LEMMA PostOrder ==
  ASSUME NEW s, Seeded(s), NEW items \in Seq(Post), NEW p \in Post, NEW q \in Post, NEW r \in Post
  PROVE  /\ ~Ranked!Ordered(p, p, s, items)
         /\ Ranked!Ordered(p, q, s, items) => ~Ranked!Ordered(q, p, s, items)
         /\ Ranked!Ordered(p, q, s, items) /\ Ranked!Ordered(q, r, s, items) => Ranked!Ordered(p, r, s, items)
         /\ p.id # q.id => Ranked!Ordered(p, q, s, items) \/ Ranked!Ordered(q, p, s, items)
  <1> DEFINE a == Ranked!Score(p, s, items)
             b == Ranked!Score(q, s, items)
             c == Ranked!Score(r, s, items)
  <1>1. a \in Fraction /\ b \in Fraction /\ c \in Fraction
    BY ScoreType
  <1>2. /\ p.id \in Int /\ q.id \in Int /\ r.id \in Int
        /\ p.age \in Int /\ q.age \in Int /\ r.age \in Int
    BY PostFacts
  <1> HIDE DEF a, b, c
  <1>3. /\ ~Ranked!Higher(a, a) /\ Ranked!Equal(a, a)
        /\ Ranked!Higher(a, b) \/ Ranked!Equal(a, b) \/ Ranked!Higher(b, a)
        /\ ~(Ranked!Higher(a, b) /\ (Ranked!Equal(a, b) \/ Ranked!Higher(b, a)))
        /\ ~(Ranked!Higher(b, a) /\ (Ranked!Equal(a, b) \/ Ranked!Higher(a, b)))
        /\ Ranked!Equal(a, b) = Ranked!Equal(b, a)
        /\ Ranked!Higher(a, b) /\ (Ranked!Higher(b, c) \/ Ranked!Equal(b, c)) => Ranked!Higher(a, c)
        /\ Ranked!Equal(a, b) /\ Ranked!Higher(b, c) => Ranked!Higher(a, c)
        /\ Ranked!Equal(a, b) /\ Ranked!Equal(b, c) => Ranked!Equal(a, c)
    BY <1>1, FractionOrder
  <1>4. /\ Ranked!Ordered(p, p, s, items) <=>
            (Ranked!Higher(a, a) \/ (Ranked!Equal(a, a) /\ p.age < p.age)
             \/ (Ranked!Equal(a, a) /\ p.age = p.age /\ p.id < p.id))
        /\ Ranked!Ordered(p, q, s, items) <=>
            (Ranked!Higher(a, b) \/ (Ranked!Equal(a, b) /\ p.age < q.age)
             \/ (Ranked!Equal(a, b) /\ p.age = q.age /\ p.id < q.id))
        /\ Ranked!Ordered(q, p, s, items) <=>
            (Ranked!Higher(b, a) \/ (Ranked!Equal(b, a) /\ q.age < p.age)
             \/ (Ranked!Equal(b, a) /\ q.age = p.age /\ q.id < p.id))
        /\ Ranked!Ordered(q, r, s, items) <=>
            (Ranked!Higher(b, c) \/ (Ranked!Equal(b, c) /\ q.age < r.age)
             \/ (Ranked!Equal(b, c) /\ q.age = r.age /\ q.id < r.id))
        /\ Ranked!Ordered(p, r, s, items) <=>
            (Ranked!Higher(a, c) \/ (Ranked!Equal(a, c) /\ p.age < r.age)
             \/ (Ranked!Equal(a, c) /\ p.age = r.age /\ p.id < r.id))
    BY DEF Ranked!Ordered, a, b, c
  <1> QED
    BY <1>2, <1>3, <1>4

Identified(items) == \A i, j \in DOMAIN items : items[i].id = items[j].id => i = j

\* A post stands behind those ordered before it, and every place is taken by one post.
LEMMA Places ==
  ASSUME NEW s, Seeded(s), NEW items \in Seq(Post), Identified(items)
  PROVE  /\ \A i \in DOMAIN items :
              Ranked!Before(i, s, items) = {j \in DOMAIN items : Ranked!Ordered(items[j], items[i], s, items)}
         /\ \A i, j \in DOMAIN items :
              Ranked!Place(i, s, items) = Ranked!Place(j, s, items) => i = j
         /\ \A k \in DOMAIN items : \E i \in DOMAIN items : Ranked!Place(i, s, items) = k
  <1> DEFINE n == Len(items)
             B(i) == {j \in 1..n : Ranked!Ordered(items[j], items[i], s, items)}
             place == [i \in 1..n |-> Cardinality(B(i)) + 1]
  <1>1. n \in Nat /\ DOMAIN items = 1..n /\ \A i \in 1..n : items[i] \in Post
    OBVIOUS
  <1>2. \A i, j \in 1..n : i # j =>
           /\ Ranked!Ordered(items[i], items[j], s, items) \/ Ranked!Ordered(items[j], items[i], s, items)
           /\ ~(Ranked!Ordered(items[i], items[j], s, items) /\ Ranked!Ordered(items[j], items[i], s, items))
    BY <1>1, PostOrder DEF Identified
  <1>3. \A i \in 1..n : ~Ranked!Ordered(items[i], items[i], s, items)
    BY <1>1, PostOrder
  <1>4. \A i, j, k \in 1..n :
           Ranked!Ordered(items[i], items[j], s, items) /\ Ranked!Ordered(items[j], items[k], s, items)
           => Ranked!Ordered(items[i], items[k], s, items)
    BY <1>1, PostOrder
  <1>5. \A i \in 1..n : Ranked!Before(i, s, items) = B(i)
    <2> TAKE i \in 1..n
    <2>1. \A j \in 1..n : j < i /\ ~Ranked!Ordered(items[i], items[j], s, items)
                          => Ranked!Ordered(items[j], items[i], s, items)
      BY <1>2
    <2> QED
      BY <1>1, <2>1 DEF Ranked!Before
  <1>6. \A i \in 1..n : IsFiniteSet(B(i)) /\ Cardinality(B(i)) \in Nat /\ Cardinality(B(i)) < n
    <2> TAKE i \in 1..n
    <2>1. IsFiniteSet(1..n) /\ Cardinality(1..n) = n
      BY <1>1, FS_Interval
    <2>2. B(i) \in SUBSET (1..n) /\ i \notin B(i)
      BY <1>3
    <2>3. B(i) # 1..n
      BY <2>2
    <2> HIDE DEF B
    <2>4. IsFiniteSet(B(i)) /\ Cardinality(B(i)) <= n /\ Cardinality(B(i)) # n
      BY <2>1, <2>2, <2>3, FS_Subset
    <2>5. Cardinality(B(i)) \in Nat
      BY <2>4, FS_CardinalityType
    <2> QED
      BY <1>1, <2>4, <2>5
  <1>7. \A i, j \in 1..n : Ranked!Ordered(items[i], items[j], s, items) => Cardinality(B(i)) < Cardinality(B(j))
    <2> TAKE i, j \in 1..n
    <2> HAVE Ranked!Ordered(items[i], items[j], s, items)
    <2>1. B(i) \in SUBSET B(j)
      BY <1>4
    <2>2. i \in B(j) /\ i \notin B(i)
      BY <1>3
    <2>3. IsFiniteSet(B(j)) /\ Cardinality(B(i)) \in Nat /\ Cardinality(B(j)) \in Nat
      BY <1>6
    <2> HIDE DEF B
    <2>4. Cardinality(B(i)) <= Cardinality(B(j)) /\ Cardinality(B(i)) # Cardinality(B(j))
      BY <2>1, <2>2, <2>3, FS_Subset
    <2> QED
      BY <2>3, <2>4
  <1>8. \A i \in 1..n : Ranked!Place(i, s, items) = place[i]
    BY <1>5, SameRankedSets DEF Ranked!Place
  <1>9. \A i, j \in 1..n : place[i] = place[j] => i = j
    <2> TAKE i, j \in 1..n
    <2> HAVE place[i] = place[j]
    <2> HIDE DEF B
    <2>1. Cardinality(B(i)) = Cardinality(B(j))
      BY <1>6
    <2>2. ~Ranked!Ordered(items[i], items[j], s, items) /\ ~Ranked!Ordered(items[j], items[i], s, items)
      BY <1>6, <1>7, <2>1
    <2> QED
      BY <1>2, <2>2
  <1>10. place \in [1..n -> 1..n]
    <2> HIDE DEF B
    <2> QED
      BY <1>1, <1>6
  <1> HIDE DEF place
  <1>11. place \in Injection(1..n, 1..n)
    BY <1>9, <1>10 DEF Injection, IsInjective
  <1>12. place \in Surjection(1..n, 1..n)
    BY <1>1, <1>11, FS_Interval, FS_Injection
  <1>13. \A k \in 1..n : \E i \in 1..n : place[i] = k
    BY <1>12 DEF Surjection
  <1> QED
    BY <1>1, <1>5, <1>8, <1>9, <1>13

LEMMA ReverseFacts ==
  ASSUME NEW items \in Seq(Post)
  PROVE  /\ Ranked!Reverse(items) \in Seq(Post) /\ Len(Ranked!Reverse(items)) = Len(items)
         /\ DOMAIN Ranked!Reverse(items) = 1..Len(items) /\ DOMAIN items = 1..Len(items) /\ Len(items) \in Nat
         /\ \A i \in 1..Len(items) :
              /\ Ranked!Reverse(items)[i] = items[Len(items) - i + 1]
              /\ Len(items) - i + 1 \in 1..Len(items)
  <1>1. Len(items) \in Nat /\ DOMAIN items = 1..Len(items) /\ \A i \in 1..Len(items) : items[i] \in Post
    OBVIOUS
  <1>2. \A i \in 1..Len(items) : Len(items) - i + 1 \in 1..Len(items)
    BY <1>1
  <1>3. Ranked!Reverse(items) = [i \in 1..Len(items) |-> items[Len(items) - i + 1]]
    BY DEF Ranked!Reverse
  <1>4. Ranked!Reverse(items) \in [1..Len(items) -> Post]
    BY <1>1, <1>2, <1>3
  <1> QED
    BY <1>1, <1>2, <1>3, <1>4

\* A score depends on which posts there are, and not on where.
LEMMA SameOrder ==
  ASSUME NEW items \in Seq(Post), NEW p, NEW q, NEW s
  PROVE  Ranked!Ordered(p, q, s, Ranked!Reverse(items)) = Ranked!Ordered(p, q, s, items)
  <1> DEFINE turned == Ranked!Reverse(items)
             n == Len(items)
  <1>1. /\ n \in Nat /\ DOMAIN turned = 1..n /\ DOMAIN items = 1..n
        /\ \A i \in 1..n : turned[i] = items[n - i + 1] /\ n - i + 1 \in 1..n
    BY ReverseFacts
  <1> HIDE DEF turned, n
  <1>2. \A i \in 1..n : \E j \in 1..n : items[i] = turned[j]
    <2> TAKE i \in 1..n
    <2>1. n - i + 1 \in 1..n /\ turned[n - i + 1] = items[n - (n - i + 1) + 1]
      BY <1>1
    <2>2. n - (n - i + 1) + 1 = i
      BY <1>1
    <2> QED
      BY <2>1, <2>2
  <1>3. \A m : UNION {turned[i][m] : i \in DOMAIN turned} = UNION {items[i][m] : i \in DOMAIN items}
    <2> TAKE m
    <2>1. \A x : (\E i \in DOMAIN turned : x \in turned[i][m]) <=> (\E i \in DOMAIN items : x \in items[i][m])
      BY <1>1, <1>2
    <2> QED
      BY <2>1
  <1>4. \A m : Ranked!Maximum(turned, m) = Ranked!Maximum(items, m)
    <2> TAKE m
    <2> DEFINE here == UNION {turned[i][m] : i \in DOMAIN turned}
               there == UNION {items[i][m] : i \in DOMAIN items}
    <2>1. Ranked!Maximum(turned, m) =
            IF here = {} THEN 0 ELSE CHOOSE k \in here : \A l \in here : l <= k
      BY DEF Ranked!Maximum
    <2>2. Ranked!Maximum(items, m) =
            IF there = {} THEN 0 ELSE CHOOSE k \in there : \A l \in there : l <= k
      BY DEF Ranked!Maximum
    <2>3. here = there
      BY <1>3
    <2> HIDE DEF here, there
    <2> QED
      BY <2>1, <2>2, <2>3
  <1>5. \A r, c : Ranked!CriterionScore(r, c, s, turned) = Ranked!CriterionScore(r, c, s, items)
    BY <1>4 DEF Ranked!CriterionScore
  <1>6. \A r : Ranked!Score(r, s, turned) = Ranked!Score(r, s, items)
    BY <1>5 DEF Ranked!Score
  <1> QED
    BY <1>6 DEF Ranked!Ordered, turned

\* Read from the other end, every post has the place it had.
LEMMA SamePlace ==
  ASSUME NEW s, Seeded(s), NEW items \in Seq(Post), Identified(items), Identified(Ranked!Reverse(items)),
         NEW i \in 1..Len(items)
  PROVE  Ranked!Place(i, s, Ranked!Reverse(items)) = Ranked!Place(Len(items) - i + 1, s, items)
  <1> DEFINE turned == Ranked!Reverse(items)
             n == Len(items)
             here == {j \in 1..n : Ranked!Ordered(turned[j], turned[i], s, turned)}
             there == {j \in 1..n : Ranked!Ordered(items[j], items[n - i + 1], s, items)}
             f == [j \in here |-> n - j + 1]
  <1>1. /\ n \in Nat /\ DOMAIN turned = 1..n /\ DOMAIN items = 1..n /\ turned \in Seq(Post)
        /\ \A j \in 1..n : turned[j] = items[n - j + 1] /\ n - j + 1 \in 1..n
    BY ReverseFacts
  <1>2. Ranked!Before(i, s, turned) = here /\ Ranked!Before(n - i + 1, s, items) = there
    <2>1. \A j \in DOMAIN turned : Ranked!Before(j, s, turned) =
              {k \in DOMAIN turned : Ranked!Ordered(turned[k], turned[j], s, turned)}
      BY <1>1, Places
    <2>2. \A j \in DOMAIN items : Ranked!Before(j, s, items) =
              {k \in DOMAIN items : Ranked!Ordered(items[k], items[j], s, items)}
      BY <1>1, Places
    <2> HIDE DEF turned
    <2> QED
      BY <1>1, <2>1, <2>2
  <1>3. \A j \in 1..n : j \in here <=> n - j + 1 \in there
    BY <1>1, SameOrder
  <1>4. here \subseteq 1..n /\ there \subseteq 1..n
    OBVIOUS
  <1> HIDE DEF turned, here, there
  <1>5. f \in [here -> there]
    BY <1>3, <1>4
  <1>6. \A j, k \in here : f[j] = f[k] => j = k
    BY <1>1, <1>4
  <1>7. \A k \in there : \E j \in here : f[j] = k
    <2> TAKE k \in there
    <2>1. k \in 1..n /\ n - k + 1 \in 1..n /\ n - (n - k + 1) + 1 = k
      BY <1>1, <1>4
    <2>2. n - k + 1 \in here
      BY <1>3, <2>1
    <2> QED
      BY <2>1, <2>2
  <1> HIDE DEF f
  <1>8. f \in Bijection(here, there)
    BY <1>5, <1>6, <1>7 DEF Bijection, Injection, Surjection, IsInjective
  <1>9. IsFiniteSet(here)
    <2>1. IsFiniteSet(1..n) /\ here \in SUBSET (1..n)
      BY <1>1, <1>4, FS_Interval
    <2> QED
      BY <2>1, FS_Subset
  <1>10. Cardinality(there) = Cardinality(here)
    BY <1>8, <1>9, FS_Bijection DEF ExistsBijection
  <1> QED
    BY <1>2, <1>10, SameRankedSets DEF Ranked!Place, turned

LEMMA SameSorted ==
  ASSUME NEW s, Seeded(s), NEW items \in Seq(Post), Identified(items), Identified(Ranked!Reverse(items))
  PROVE  Ranked!Sorted(Ranked!Reverse(items), s) = Ranked!Sorted(items, s)
  <1> DEFINE turned == Ranked!Reverse(items)
             n == Len(items)
             Place(i) == Ranked!Place(i, s, items)
             Turned(i) == Ranked!Place(i, s, turned)
             a(k) == CHOOSE i \in DOMAIN turned : [j \in DOMAIN turned |-> Turned(j)][i] = k
             b(k) == CHOOSE i \in DOMAIN items : [j \in DOMAIN items |-> Place(j)][i] = k
  <1>1. /\ n \in Nat /\ DOMAIN turned = 1..n /\ DOMAIN items = 1..n /\ turned \in Seq(Post)
        /\ \A j \in 1..n : turned[j] = items[n - j + 1] /\ n - j + 1 \in 1..n
    BY ReverseFacts
  <1>2. /\ \A i, j \in DOMAIN items : Place(i) = Place(j) => i = j
        /\ \A k \in DOMAIN items : \E i \in DOMAIN items : Place(i) = k
    BY Places
  <1>3. \A k \in DOMAIN turned : \E i \in DOMAIN turned : Turned(i) = k
    BY <1>1, Places
  <1>4. \A i \in 1..n : Turned(i) = Place(n - i + 1)
    BY SamePlace
  <1>5. Ranked!Sorted(turned, s) = [k \in DOMAIN turned |-> turned[a(k)]]
    BY DEF Ranked!Sorted
  <1>6. Ranked!Sorted(items, s) = [k \in DOMAIN items |-> items[b(k)]]
    BY DEF Ranked!Sorted
  <1> HIDE DEF turned, Place, Turned
  <1>7. ASSUME NEW k \in 1..n PROVE turned[a(k)] = items[b(k)]
    <2>1. a(k) \in 1..n /\ Turned(a(k)) = k
      BY <1>1, <1>3
    <2>2. b(k) \in 1..n /\ Place(b(k)) = k
      BY <1>1, <1>2
    <2> HIDE DEF a, b
    <2>3. n - a(k) + 1 \in 1..n /\ Place(n - a(k) + 1) = k
      BY <1>1, <1>4, <2>1
    <2>4. n - a(k) + 1 = b(k)
      BY <1>1, <1>2, <2>2, <2>3
    <2> QED
      BY <1>1, <2>1, <2>4
  <1> HIDE DEF a, b
  <1> QED
    BY <1>1, <1>5, <1>6, <1>7 DEF turned

RankedInv ==
    /\ Ranked!TypeOK
    /\ shown = "top" => DOMAIN copy = Ranked!Names /\ Ranked!Rank(posts, copy, copy.top_count) # {}

LEMMA InitRanked == Ranked!Init => RankedInv
  BY DEF Ranked!Init, RankedInv, Ranked!TypeOK

LEMMA RankedStep == RankedInv /\ [Ranked!Next]_ranked => RankedInv'
  <1> SUFFICES ASSUME RankedInv, [Ranked!Next]_ranked PROVE RankedInv'
    OBVIOUS
  <1>1. Ranked!TypeOK
    BY DEF RankedInv
  <1>2. CASE Ranked!Seed
    <2>1. PICK n \in Ranked!Names :
            \E v \in (CASE n = "weights" -> Weights [] n = "keywords" -> Keyword [] OTHER -> Count) :
                copy' = [m \in DOMAIN copy \cup {n} |-> IF m = n THEN v ELSE copy[m]]
      BY <1>2 DEF Ranked!Seed
    <2>2. PICK v \in (CASE n = "weights" -> Weights [] n = "keywords" -> Keyword [] OTHER -> Count) :
                copy' = [m \in DOMAIN copy \cup {n} |-> IF m = n THEN v ELSE copy[m]]
      BY <2>1
    <2>3. shown' = "none" /\ posts' = posts
      BY <1>2 DEF Ranked!Seed
    <2>4. DOMAIN copy' = DOMAIN copy \cup {n} /\ \A m \in DOMAIN copy' : copy'[m] = IF m = n THEN v ELSE copy[m]
      BY <2>2
    <2>5. DOMAIN copy' \subseteq Ranked!Names
      BY <1>1, <2>4 DEF Ranked!TypeOK
    <2>6. "weights" \in DOMAIN copy' => copy'["weights"] \in Weights
      BY <1>1, <2>2, <2>4 DEF Ranked!TypeOK
    <2>7. "keywords" \in DOMAIN copy' => copy'["keywords"] \in Keyword
      BY <1>1, <2>2, <2>4 DEF Ranked!TypeOK
    <2>8. "top_count" \in DOMAIN copy' => copy'["top_count"] \in Count
      BY <1>1, <2>2, <2>4 DEF Ranked!TypeOK
    <2> QED
      BY <1>1, <2>3, <2>5, <2>6, <2>7, <2>8 DEF RankedInv, Ranked!TypeOK
  <1>3. CASE Ranked!Request
    <2>1. PICK provided \in {"posts", "not_configured", "try_later"} :
            /\ posts' \in IF provided = "posts" THEN Ranked!BoundedSeq(Post, MaxPosts) ELSE {<<>>}
            /\ shown' = Ranked!Top(provided)
      BY <1>3 DEF Ranked!Request
    <2>2. copy' = copy
      BY <1>3 DEF Ranked!Request
    <2>3. posts' \in Seq(Post)
      <3>1. CASE provided = "posts"
        <4>1. PICK m \in 0..MaxPosts : posts' \in [1..m -> Post]
          BY <2>1, <3>1 DEF Ranked!BoundedSeq, Ranked!SeqOf
        <4>2. m \in Nat
          BY RankedAssumption DEF Ranked!RankingAssumption
        <4> QED
          BY <4>1, <4>2
      <3>2. CASE provided # "posts"
        <4>1. posts' = <<>>
          BY <2>1, <3>2
        <4> QED
          BY <4>1
      <3> QED
        BY <3>1, <3>2
    <2>4. shown' \in {"none", "top", "not_configured", "try_later"}
      BY <2>1 DEF Ranked!Top
    <2>5. shown' = "top" => DOMAIN copy = Ranked!Names /\ Ranked!Rank(posts', copy, copy.top_count) # {}
      BY <2>1 DEF Ranked!Top
    <2>6. Ranked!Rank(posts, copy, copy.top_count)' = Ranked!Rank(posts', copy, copy.top_count)
      BY <2>2 DEF Ranked!Rank
    <2> QED
      BY <1>1, <2>2, <2>3, <2>4, <2>5, <2>6 DEF RankedInv, Ranked!TypeOK
  <1>4. CASE UNCHANGED ranked
    <2>1. copy' = copy /\ posts' = posts /\ shown' = shown
      BY <1>4 DEF ranked
    <2>2. Ranked!Rank(posts, copy, copy.top_count)' = Ranked!Rank(posts, copy, copy.top_count)
      BY <2>1
    <2> QED
      BY <2>1, <2>2 DEF RankedInv, Ranked!TypeOK
  <1> QED
    BY <1>2, <1>3, <1>4 DEF Ranked!Next

LEMMA RankedInvariance == Ranked!Spec => []RankedInv
  <1> QED
    BY InitRanked, RankedStep, PTL DEF Ranked!Spec, Ranked!vars, ranked

LEMMA Reproducible ==
  ASSUME RankedInv
  PROVE  TopIsReproducible
  <1> SUFFICES ASSUME shown = "top"
      PROVE /\ Ranked!Rank(Ranked!Reverse(posts), copy, copy.top_count) = {Ranked!Shown}
            /\ \A n \in Count : \E larger \in Ranked!Rank(posts, copy, Len(posts) + 1) :
                 Ranked!Rank(posts, copy, n) = {SubSeq(larger, 1, IF n < Len(posts) THEN n ELSE Len(posts))}
    BY DEF TopIsReproducible, Ranked!TopIsReproducible
  <1> DEFINE sorted == Ranked!Sorted(posts, copy)
             turned == Ranked!Reverse(posts)
             limit == copy.top_count
             IdsDiffer(items) == Ranked!IsInjective([i \in DOMAIN items |-> items[i].id])
  <1>1. posts \in Seq(Post) /\ Seeded(copy) /\ limit \in Count /\ Ranked!Rank(posts, copy, limit) # {}
    BY DEF RankedInv, Ranked!TypeOK, Ranked!Names, Seeded
  <1>2. IdsDiffer(posts) /\ ~(Ranked!Total(copy.weights) <= 0) /\ ~(limit < 1)
    BY <1>1 DEF Ranked!Rank
  <1>3. Identified(posts)
    BY <1>2 DEF Ranked!IsInjective, Identified
  <1>4. /\ Len(posts) \in Nat /\ DOMAIN turned = 1..Len(posts) /\ DOMAIN posts = 1..Len(posts)
        /\ \A j \in 1..Len(posts) : turned[j] = posts[Len(posts) - j + 1] /\ Len(posts) - j + 1 \in 1..Len(posts)
        /\ Len(turned) = Len(posts)
    BY <1>1, ReverseFacts
  <1>5. Identified(turned) /\ IdsDiffer(turned)
    <2> HIDE DEF turned
    <2>1. ASSUME NEW i \in 1..Len(posts), NEW j \in 1..Len(posts), turned[i].id = turned[j].id PROVE i = j
      <3>1. posts[Len(posts) - i + 1].id = posts[Len(posts) - j + 1].id
        BY <1>4, <2>1
      <3>2. Len(posts) - i + 1 = Len(posts) - j + 1
        BY <1>3, <1>4, <3>1 DEF Identified
      <3> QED
        BY <1>4, <3>2
    <2>2. Identified(turned)
      BY <1>4, <2>1 DEF Identified
    <2> QED
      BY <2>2 DEF Identified, Ranked!IsInjective
  <1>6. Ranked!Sorted(turned, copy) = sorted
    BY <1>1, <1>3, <1>5, SameSorted
  <1>7. DOMAIN sorted = 1..Len(posts) /\ sorted \in Seq({sorted[i] : i \in 1..Len(posts)})
    <2>1. DOMAIN sorted = 1..Len(posts) /\ sorted = [i \in 1..Len(posts) |-> sorted[i]]
      BY <1>4 DEF Ranked!Sorted
    <2> HIDE DEF sorted
    <2>2. sorted \in [1..Len(posts) -> {sorted[i] : i \in 1..Len(posts)}]
      BY <2>1
    <2> QED
      BY <1>4, <2>1, <2>2
  <1> HIDE DEF sorted
  <1> DEFINE Cut(n) == IF Len(posts) <= n THEN sorted ELSE SubSeq(sorted, 1, n)
  <1>8. /\ Ranked!Rank(posts, copy, limit) = {Cut(limit)}
        /\ Ranked!Rank(turned, copy, limit) = {Cut(limit)}
    <2>1. Ranked!Rank(posts, copy, limit) = {Cut(limit)}
      BY <1>2 DEF Ranked!Rank, sorted
    <2>2. Ranked!Rank(turned, copy, limit) =
            {IF Len(turned) <= limit THEN Ranked!Sorted(turned, copy)
             ELSE SubSeq(Ranked!Sorted(turned, copy), 1, limit)}
      BY <1>2, <1>5 DEF Ranked!Rank
    <2> QED
      BY <1>4, <1>6, <2>1, <2>2
  <1>9. Ranked!Shown = Cut(limit)
    BY <1>8 DEF Ranked!Shown
  <1>10. ASSUME NEW n \in Count
         PROVE  \E larger \in Ranked!Rank(posts, copy, Len(posts) + 1) :
                  Ranked!Rank(posts, copy, n) = {SubSeq(larger, 1, IF n < Len(posts) THEN n ELSE Len(posts))}
    <2>1. n \in Nat \ {0}
      BY RankedAssumption DEF Ranked!RankingAssumption
    <2>2. Ranked!Rank(posts, copy, n) = {Cut(n)}
      BY <1>2, <2>1 DEF Ranked!Rank, sorted
    <2>3. Ranked!Rank(posts, copy, Len(posts) + 1) = {sorted}
      BY <1>2, <1>4 DEF Ranked!Rank, sorted
    <2>4. Cut(n) = SubSeq(sorted, 1, IF n < Len(posts) THEN n ELSE Len(posts))
      <3>1. Len(sorted) = Len(posts)
        BY <1>4, <1>7
      <3>2. SubSeq(sorted, 1, Len(posts)) = sorted
        BY <1>7, <3>1
      <3>3. CASE n < Len(posts)
        BY <1>4, <2>1, <3>3
      <3>4. CASE ~(n < Len(posts))
        BY <1>4, <2>1, <3>2, <3>4
      <3> QED
        BY <3>3, <3>4
    <2> QED
      BY <2>2, <2>3, <2>4
  <1> QED
    BY <1>8, <1>9, <1>10

\* Ranking is well typed, for any posts, settings and answers of the provider.
THEOREM RankedTypes == Ranked!Spec => []Ranked!TypeOK
  <1>1. RankedInv => Ranked!TypeOK
    BY DEF RankedInv
  <1> QED
    BY <1>1, RankedInvariance, PTL

\* A top that rank answers does not depend on the order the provider answered in, and a smaller top
\* is the beginning of a larger one, whatever the posts, the weights and the number of posts.
THEOREM TopsAreReproducible == Ranked!Spec => []TopIsReproducible
  <1>1. RankedInv => TopIsReproducible
    BY Reproducible
  <1> QED
    BY <1>1, RankedInvariance, PTL

-------------------------------------------------------------------------------
(* The merge of declarations: the registries of the walk, by induction over the packages, hold what *)
(* was declared so far, so that a package meets the same conflicts wherever it stands.               *)

\* Induction over a walk of N steps.
LEMMA SetInduction ==
  ASSUME NEW N \in Nat, NEW S, 0 \in S, \A n \in 0 .. N - 1 : n \in S => n + 1 \in S
  PROVE  \A n \in 0 .. N : n \in S
  <1> DEFINE T == {n \in 0 .. N : n \notin S}
  <1>1. SUFFICES ASSUME T # {}  PROVE FALSE
    OBVIOUS
  <1>2. PICK n \in T : \A m \in T : n <= m
    <2>1. T \subseteq Nat
      OBVIOUS
    <2> HIDE DEF T
    <2> QED
      BY <1>1, <2>1, LeastExists
  <1>3. n \in 1 .. N /\ n - 1 \in 0 .. N - 1 /\ n - 1 \notin T
    BY <1>2
  <1>4. n - 1 \in S /\ (n - 1) + 1 = n
    BY <1>3
  <1> QED
    BY <1>2, <1>3, <1>4

\* A walk over packages has its registries.
LEMMA WalkExists ==
  ASSUME NEW N \in Nat
  PROVE  \E g : g = [m \in 0 .. N |-> IF m = 0 THEN Merging!Before ELSE Merging!MergePackage(g[m - 1], theirs[m])]
  <1> DEFINE Is(g, n) == g = [m \in 0 .. n |-> IF m = 0 THEN Merging!Before ELSE Merging!MergePackage(g[m - 1], theirs[m])]
  <1>1. \E g : Is(g, 0)
    <2>1. Is([m \in 0 .. 0 |-> Merging!Before], 0)
      OBVIOUS
    <2> QED
      BY <2>1
  <1>2. ASSUME NEW n \in Nat, NEW g, Is(g, n)  PROVE \E h : Is(h, n + 1)
    <2> DEFINE h == [m \in 0 .. n + 1 |-> IF m = n + 1 THEN Merging!MergePackage(g[n], theirs[n + 1]) ELSE g[m]]
    <2>1. ASSUME NEW m \in 0 .. n + 1  PROVE h[m] = IF m = 0 THEN Merging!Before ELSE Merging!MergePackage(h[m - 1], theirs[m])
      <3>1. CASE m = n + 1
        BY <3>1
      <3>2. CASE m \in 0 .. n
        BY <3>2, <1>2
      <3> QED
        BY <3>1, <3>2
    <2>2. Is(h, n + 1)
      <3> HIDE DEF h
      <3>1. h = [m \in 0 .. n + 1 |-> h[m]]
        BY DEF h
      <3> QED
        BY <3>1, <2>1
    <2> QED
      BY <2>2
  <1>3. PICK S : S = {n \in Nat : \E g : Is(g, n)}
    OBVIOUS
  <1>4. 0 \in S /\ \A n \in 0 .. N - 1 : n \in S => n + 1 \in S
    <2> HIDE DEF Is
    <2> QED
      BY <1>1, <1>2, <1>3
  <1>5. N \in S
    BY <1>4, SetInduction
  <1> QED
    BY <1>3, <1>5

\* The registries after each package are those of the walk.
LEMMA WalkFact ==
  ASSUME Len(theirs) \in Nat
  PROVE  /\ Merging!After[0] = Merging!Before
         /\ \A n \in 1 .. Len(theirs) : Merging!After[n] = Merging!MergePackage(Merging!After[n - 1], theirs[n])
  <1> DEFINE Is(g) == g = [m \in 0 .. Len(theirs) |->
                            IF m = 0 THEN Merging!Before ELSE Merging!MergePackage(g[m - 1], theirs[m])]
  <1>1. \E g : Is(g)
    BY WalkExists
  <1>2. Merging!After = CHOOSE g : Is(g)
    BY DEF Merging!After
  <1>3. Is(Merging!After)
    <2> HIDE DEF Is
    <2> QED
      BY <1>1, <1>2
  <1> QED
    BY <1>3


\* After n packages a registry holds what was there before and what these declare.
Held(n) ==
  LET s == Merging!After[n]  b == Merging!Before IN
  /\ \A x : x \in s.databases <=> \E i \in 1 .. n : x \in theirs[i].database
  /\ \A x : x \in s.settings <=> x \in b.settings \/ \E i \in 1 .. n : x \in Merging!Prefixed(theirs[i], theirs[i].settings)
  /\ \A x : x \in DOMAIN s.jobs <=> x \in DOMAIN b.jobs \/ \E i \in 1 .. n : x \in Merging!Prefixed(theirs[i], theirs[i].jobs)
  /\ s.capabilities = b.capabilities
  /\ \A x : x \in DOMAIN s.events <=> x \in DOMAIN b.events \/ \E i \in 1 .. n : x \in Merging!EventsOf(theirs[i].publishes)
  /\ \A x : x \in s.identifiers <=> x \in b.identifiers \/ \E i \in 1 .. n : x \in Merging!IdentifiersOf(theirs[i].publishes)
  /\ \A x : x \in s.models <=> x \in b.models \/ \E i \in 1 .. n : x \in Merging!ModelsOf(theirs[i].publishes)

\* The registries start with what the core and the product hold.
LEMMA HeldAtStart ==
  ASSUME Len(theirs) \in Nat
  PROVE  Held(0)
  <1>1. Merging!After[0] = Merging!Before /\ Merging!Before.databases = {}
    BY WalkFact DEF Merging!Before
  <1>2. \A i : i \notin 1 .. 0
    OBVIOUS
  <1> QED
    BY <1>1, <1>2, Zenon DEF Held

\* Merging a package adds its names, conflict or not.
LEMMA HeldStays ==
  ASSUME Len(theirs) \in Nat, NEW n \in 0 .. Len(theirs) - 1, Held(n)
  PROVE  Held(n + 1)
  <1> DEFINE s == Merging!After[n]
             r == Merging!After[n + 1]
             p == theirs[n + 1]
  <1>1. r = Merging!MergePackage(s, p)
    <2>1. n + 1 \in 1 .. Len(theirs) /\ (n + 1) - 1 = n
      OBVIOUS
    <2> QED
      BY <2>1, WalkFact
  <1>2. /\ r.databases = s.databases \cup p.database
        /\ r.settings = s.settings \cup Merging!Prefixed(p, p.settings)
        /\ DOMAIN r.jobs = DOMAIN s.jobs \cup Merging!Prefixed(p, p.jobs)
        /\ r.capabilities = s.capabilities
        /\ DOMAIN r.events = DOMAIN s.events \cup Merging!EventsOf(p.publishes)
        /\ r.identifiers = s.identifiers \cup Merging!IdentifiersOf(p.publishes)
        /\ r.models = s.models \cup Merging!ModelsOf(p.publishes)
    <2> HIDE DEF s, r, p
    <2> QED
      BY <1>1 DEF Merging!MergePackage, Merging!Claim
  <1>3. \A i : i \in 1 .. n + 1 <=> i \in 1 .. n \/ i = n + 1
    OBVIOUS
  <1>4. \A x : (\E i \in 1 .. n + 1 : x \in theirs[i].database) <=> (\E i \in 1 .. n : x \in theirs[i].database) \/ x \in p.database
    BY <1>3, Zenon
  <1>5. \A x : (\E i \in 1 .. n + 1 : x \in Merging!Prefixed(theirs[i], theirs[i].settings))
               <=> (\E i \in 1 .. n : x \in Merging!Prefixed(theirs[i], theirs[i].settings)) \/ x \in Merging!Prefixed(p, p.settings)
    BY <1>3, Zenon
  <1>6. \A x : (\E i \in 1 .. n + 1 : x \in Merging!Prefixed(theirs[i], theirs[i].jobs))
               <=> (\E i \in 1 .. n : x \in Merging!Prefixed(theirs[i], theirs[i].jobs)) \/ x \in Merging!Prefixed(p, p.jobs)
    BY <1>3, Zenon
  <1>7. \A x : (\E i \in 1 .. n + 1 : x \in Merging!EventsOf(theirs[i].publishes))
               <=> (\E i \in 1 .. n : x \in Merging!EventsOf(theirs[i].publishes)) \/ x \in Merging!EventsOf(p.publishes)
    BY <1>3, Zenon
  <1>8. \A x : (\E i \in 1 .. n + 1 : x \in Merging!IdentifiersOf(theirs[i].publishes))
               <=> (\E i \in 1 .. n : x \in Merging!IdentifiersOf(theirs[i].publishes)) \/ x \in Merging!IdentifiersOf(p.publishes)
    BY <1>3, Zenon
  <1>9. \A x : (\E i \in 1 .. n + 1 : x \in Merging!ModelsOf(theirs[i].publishes))
               <=> (\E i \in 1 .. n : x \in Merging!ModelsOf(theirs[i].publishes)) \/ x \in Merging!ModelsOf(p.publishes)
    BY <1>3, Zenon
  <1> HIDE DEF p
  <1>10. /\ \A x : x \in r.databases <=> \E i \in 1 .. n + 1 : x \in theirs[i].database
         /\ \A x : x \in r.settings <=> x \in Merging!Before.settings
                \/ \E i \in 1 .. n + 1 : x \in Merging!Prefixed(theirs[i], theirs[i].settings)
         /\ \A x : x \in DOMAIN r.jobs <=> x \in DOMAIN Merging!Before.jobs
                \/ \E i \in 1 .. n + 1 : x \in Merging!Prefixed(theirs[i], theirs[i].jobs)
    BY <1>2, <1>4, <1>5, <1>6, Zenon DEF Held
  <1>11. /\ \A x : x \in DOMAIN r.events <=> x \in DOMAIN Merging!Before.events
                \/ \E i \in 1 .. n + 1 : x \in Merging!EventsOf(theirs[i].publishes)
         /\ \A x : x \in r.identifiers <=> x \in Merging!Before.identifiers
                \/ \E i \in 1 .. n + 1 : x \in Merging!IdentifiersOf(theirs[i].publishes)
         /\ \A x : x \in r.models <=> x \in Merging!Before.models
                \/ \E i \in 1 .. n + 1 : x \in Merging!ModelsOf(theirs[i].publishes)
    BY <1>2, <1>7, <1>8, <1>9, Zenon DEF Held
  <1> QED
    BY <1>2, <1>10, <1>11 DEF Held

\* So they hold all that was declared, after any number of packages.
LEMMA AllHeld ==
  ASSUME Len(theirs) \in Nat
  PROVE  \A n \in 0 .. Len(theirs) : Held(n)
  <1> DEFINE S == {n \in 0 .. Len(theirs) : Held(n)}
  <1>1. 0 \in S
    BY HeldAtStart
  <1>2. \A n \in 0 .. Len(theirs) - 1 : n \in S => n + 1 \in S
    BY HeldStays
  <1>3. \A n \in 0 .. Len(theirs) : n \in S
    <2> HIDE DEF S
    <2> QED
      BY <1>1, <1>2, SetInduction
  <1> QED
    BY <1>3

\* Two packages take nothing of each other that the walk looks at.
Beside(p, q) ==
    /\ Merging!Free(p.database, q.database)
    /\ Merging!Free(Merging!Prefixed(p, p.settings), Merging!Prefixed(q, q.settings))
    /\ Merging!Free(Merging!Prefixed(p, p.jobs), Merging!Prefixed(q, q.jobs))
    /\ Merging!Free(Merging!EventsOf(p.publishes), Merging!EventsOf(q.publishes))
    /\ Merging!Free(Merging!IdentifiersOf(p.publishes), Merging!IdentifiersOf(q.publishes))
    /\ Merging!Free(Merging!ModelsOf(p.publishes), Merging!ModelsOf(q.publishes))

\* Apart from capabilities, that is what Disjoint says.
LEMMA BesideIsDisjoint ==
  ASSUME NEW p, NEW q
  PROVE  Merging!Disjoint(p, q) <=> Beside(p, q) /\ Merging!Free(p.provides, q.provides)
  <1>1. ASSUME NEW S, NEW T
        PROVE  Merging!Free(Merging!Prefixed(p, S), Merging!Prefixed(q, T)) <=> (p.prefix = q.prefix => Merging!Free(S, T))
    <2>1. \A x : x \in Merging!Prefixed(p, S) <=> \E n \in S : x = <<p.prefix, n>>
      BY DEF Merging!Prefixed
    <2>2. \A x : x \in Merging!Prefixed(q, T) <=> \E n \in T : x = <<q.prefix, n>>
      BY DEF Merging!Prefixed
    <2>3. ASSUME NEW x, x \in Merging!Prefixed(p, S), x \in Merging!Prefixed(q, T)
          PROVE  p.prefix = q.prefix /\ \E n : n \in S /\ n \in T
      <3>1. PICK n \in S : x = <<p.prefix, n>>
        BY <2>1, <2>3
      <3>2. PICK m \in T : x = <<q.prefix, m>>
        BY <2>2, <2>3
      <3> QED
        BY <3>1, <3>2
    <2>4. ASSUME NEW n, n \in S, n \in T, p.prefix = q.prefix
          PROVE  <<p.prefix, n>> \in Merging!Prefixed(p, S) \cap Merging!Prefixed(q, T)
      BY <2>1, <2>2, <2>4
    <2> QED
      BY <2>3, <2>4 DEF Merging!Free
  <1>2. /\ Merging!Free(Merging!Prefixed(p, p.settings), Merging!Prefixed(q, q.settings))
            <=> (p.prefix = q.prefix => Merging!Free(p.settings, q.settings))
        /\ Merging!Free(Merging!Prefixed(p, p.jobs), Merging!Prefixed(q, q.jobs))
            <=> (p.prefix = q.prefix => Merging!Free(p.jobs, q.jobs))
    BY <1>1
  <1>3. Merging!Free(Merging!IdentifiersOf(p.publishes), Merging!IdentifiersOf(q.publishes))
            <=> \A d \in Merging!ToSet(p.publishes), e \in Merging!ToSet(q.publishes) : Identifier(d.event) # Identifier(e.event)
    BY DEF Merging!Free, Merging!IdentifiersOf, Merging!ToSet
  <1>4. Merging!Free(Merging!ModelsOf(p.publishes), Merging!ModelsOf(q.publishes))
            <=> \A d \in Merging!ToSet(p.publishes), e \in Merging!ToSet(q.publishes) : d.model # e.model
    BY DEF Merging!Free, Merging!ModelsOf, Merging!ToSet
  <1>5. Merging!Free(Merging!IdentifiersOf(p.publishes), Merging!IdentifiersOf(q.publishes))
            => Merging!Free(Merging!EventsOf(p.publishes), Merging!EventsOf(q.publishes))
    BY DEF Merging!Free, Merging!IdentifiersOf, Merging!EventsOf
  <1> QED
    BY <1>2, <1>3, <1>4, <1>5, Zenon DEF Beside, Merging!Disjoint

\* Where the walk stands, a package meets the core, the product and the packages before it.
LEMMA FreeAt ==
  ASSUME Len(theirs) \in Nat, NEW n \in 1 .. Len(theirs)
  PROVE  /\ Merging!NamesFree(Merging!After[n - 1], theirs[n])
         /\ Merging!EventsFree(Merging!After[n - 1], theirs[n])
         <=> /\ Merging!NamesFree(Merging!Before, theirs[n])
             /\ Merging!EventsFree(Merging!Before, theirs[n])
             /\ \A i \in 1 .. n - 1 : Beside(theirs[i], theirs[n])
  <1> DEFINE s == Merging!After[n - 1]
             b == Merging!Before
             p == theirs[n]
  <1>1. n - 1 \in 0 .. Len(theirs)
    OBVIOUS
  <1>2. Held(n - 1)
    BY <1>1, AllHeld
  <1>3. b.databases = {}
    BY DEF Merging!Before
  <1> HIDE DEF b, p, s
  <1>4. /\ Merging!Free(s.databases, p.database) <=>
            Merging!Free(b.databases, p.database) /\ \A i \in 1 .. n - 1 : Merging!Free(theirs[i].database, p.database)
        /\ s.capabilities = b.capabilities
    BY <1>2, <1>3 DEF Held, b, s, Merging!Free
  <1>5. Merging!Free(s.settings, Merging!Prefixed(p, p.settings)) <=>
            /\ Merging!Free(b.settings, Merging!Prefixed(p, p.settings))
            /\ \A i \in 1 .. n - 1 : Merging!Free(Merging!Prefixed(theirs[i], theirs[i].settings), Merging!Prefixed(p, p.settings))
    BY <1>2 DEF Held, b, s, Merging!Free
  <1>6. Merging!Free(DOMAIN s.jobs, Merging!Prefixed(p, p.jobs)) <=>
            /\ Merging!Free(DOMAIN b.jobs, Merging!Prefixed(p, p.jobs))
            /\ \A i \in 1 .. n - 1 : Merging!Free(Merging!Prefixed(theirs[i], theirs[i].jobs), Merging!Prefixed(p, p.jobs))
    BY <1>2 DEF Held, b, s, Merging!Free
  <1>7. Merging!Free(DOMAIN s.events, Merging!EventsOf(p.publishes)) <=>
            /\ Merging!Free(DOMAIN b.events, Merging!EventsOf(p.publishes))
            /\ \A i \in 1 .. n - 1 : Merging!Free(Merging!EventsOf(theirs[i].publishes), Merging!EventsOf(p.publishes))
    BY <1>2 DEF Held, b, s, Merging!Free
  <1>8. Merging!Free(s.identifiers, Merging!IdentifiersOf(p.publishes)) <=>
            /\ Merging!Free(b.identifiers, Merging!IdentifiersOf(p.publishes))
            /\ \A i \in 1 .. n - 1 : Merging!Free(Merging!IdentifiersOf(theirs[i].publishes), Merging!IdentifiersOf(p.publishes))
    BY <1>2 DEF Held, b, s, Merging!Free
  <1>9. Merging!Free(s.models, Merging!ModelsOf(p.publishes)) <=>
            /\ Merging!Free(b.models, Merging!ModelsOf(p.publishes))
            /\ \A i \in 1 .. n - 1 : Merging!Free(Merging!ModelsOf(theirs[i].publishes), Merging!ModelsOf(p.publishes))
    BY <1>2 DEF Held, b, s, Merging!Free
  <1>10. Merging!NamesFree(s, p) /\ Merging!EventsFree(s, p) <=>
            Merging!NamesFree(b, p) /\ Merging!EventsFree(b, p) /\ \A i \in 1 .. n - 1 : Beside(theirs[i], p)
    BY <1>4, <1>5, <1>6, <1>7, <1>8, <1>9, Zenon DEF Beside, Merging!NamesFree, Merging!EventsFree
  <1> QED
    BY <1>10 DEF b, p, s

\* In a list without repeated events, an event is bound as it is declared.
LEMMA BindingFact ==
  ASSUME NEW ds, Merging!IsInjective([i \in DOMAIN ds |-> ds[i].event]), NEW e \in Merging!ToSet(ds)
  PROVE  Merging!BoundTo(ds, e.event) = <<e.model, e.schema>>
  <1> DEFINE Is(d) == d.event = e.event
  <1>1. (CHOOSE d \in Merging!ToSet(ds) : Is(d)) \in Merging!ToSet(ds) /\ Is(CHOOSE d \in Merging!ToSet(ds) : Is(d))
    <2>1. Is(e)
      OBVIOUS
    <2> HIDE DEF Is
    <2> QED
      BY <2>1
  <1>2. ASSUME NEW d \in Merging!ToSet(ds), Is(d)  PROVE d = e
    BY <1>2 DEF Merging!ToSet, Merging!IsInjective
  <1>3. (CHOOSE d \in Merging!ToSet(ds) : Is(d)) = e
    <2> HIDE DEF Is
    <2> QED
      BY <1>1, <1>2
  <1> QED
    BY <1>3 DEF Merging!BoundTo


\* While nothing collides, the first n packages bind their events as they declare them, and their timers are theirs.
Bound(n) ==
  LET s == Merging!After[n] IN
  /\ \A e \in Merging!ToSet(ours.events) : s.events[e.event] = <<e.model, e.schema>>
  /\ \A i \in 1 .. n : \A e \in Merging!ToSet(theirs[i].publishes) : s.events[e.event] = <<e.model, e.schema>>
  /\ \A x : x \in s.timers <=> \E i \in 1 .. n : x \in Merging!Prefixed(theirs[i], theirs[i].timers)

\* The product's events are bound as it declares them.
LEMMA BoundAtStart ==
  ASSUME Len(theirs) \in Nat, Merging!ProductFits
  PROVE  Bound(0)
  <1>1. Merging!After[0] = Merging!Before
    BY WalkFact
  <1>2. \A i : i \notin 1 .. 0
    OBVIOUS
  <1>3. /\ Merging!Before.timers = {}
        /\ Merging!Before.events = [n \in Merging!EventsOf(ours.events) |-> Merging!BoundTo(ours.events, n)]
    BY DEF Merging!Before
  <1>4. ASSUME NEW e \in Merging!ToSet(ours.events)
        PROVE  Merging!Before.events[e.event] = <<e.model, e.schema>>
    <2>1. e.event \in Merging!EventsOf(ours.events)
      BY DEF Merging!ToSet, Merging!EventsOf
    <2>2. Merging!BoundTo(ours.events, e.event) = <<e.model, e.schema>>
      BY BindingFact DEF Merging!ProductFits
    <2> QED
      BY <1>3, <2>1, <2>2
  <1> QED
    BY <1>1, <1>2, <1>3, <1>4, Zenon DEF Bound

\* A package that meets nothing leaves the bindings before it alone and adds its own.
LEMMA BoundStays ==
  ASSUME Len(theirs) \in Nat, NEW n \in 0 .. Len(theirs) - 1, Bound(n), Merging!Manifest(theirs[n + 1]),
         Merging!NamesFree(Merging!After[n], theirs[n + 1]), Merging!EventsFree(Merging!After[n], theirs[n + 1])
  PROVE  Bound(n + 1)
  <1> DEFINE s == Merging!After[n]
             r == Merging!After[n + 1]
             p == theirs[n + 1]
  <1>1. r = Merging!MergePackage(s, p)
    <2>1. n + 1 \in 1 .. Len(theirs) /\ (n + 1) - 1 = n
      OBVIOUS
    <2> QED
      BY <2>1, WalkFact
  <1>2. n \in 0 .. Len(theirs) /\ \A i : i \in 1 .. n + 1 <=> i \in 1 .. n \/ i = n + 1
    OBVIOUS
  <1>3. Held(n)
    BY <1>2, AllHeld
  <1> HIDE DEF s, r, p
  <1>4. /\ r.events = [m \in DOMAIN s.events \cup Merging!EventsOf(p.publishes) |->
                         IF m \in DOMAIN s.events THEN s.events[m] ELSE Merging!BoundTo(p.publishes, m)]
        /\ r.timers = s.timers \cup {t \in Merging!Prefixed(p, p.timers) : r.jobs[t] = p.name}
        /\ r.jobs = Merging!Claim(s.jobs, Merging!Prefixed(p, p.jobs), p.name)
    BY <1>1 DEF Merging!MergePackage
  <1>5. \A e \in Merging!ToSet(ours.events) : e.event \in DOMAIN s.events
    <2>1. \A e \in Merging!ToSet(ours.events) : e.event \in DOMAIN Merging!Before.events
      BY DEF Merging!ToSet, Merging!EventsOf, Merging!Before
    <2> QED
      BY <1>3, <2>1, Zenon DEF Held, s
  <1>6. \A i \in 1 .. n : \A e \in Merging!ToSet(theirs[i].publishes) : e.event \in DOMAIN s.events
    <2>1. \A i \in 1 .. n : \A e \in Merging!ToSet(theirs[i].publishes) : e.event \in Merging!EventsOf(theirs[i].publishes)
      BY DEF Merging!ToSet, Merging!EventsOf
    <2> QED
      BY <1>3, <2>1, Zenon DEF Held, s
  <1>7. \A e \in Merging!ToSet(p.publishes) :
            /\ e.event \in Merging!EventsOf(p.publishes) /\ e.event \notin DOMAIN s.events
            /\ Merging!BoundTo(p.publishes, e.event) = <<e.model, e.schema>>
    <2> SUFFICES ASSUME NEW e \in Merging!ToSet(p.publishes)
                 PROVE  /\ e.event \in Merging!EventsOf(p.publishes) /\ e.event \notin DOMAIN s.events
                        /\ Merging!BoundTo(p.publishes, e.event) = <<e.model, e.schema>>
      OBVIOUS
    <2>1. e.event \in Merging!EventsOf(p.publishes)
      BY DEF Merging!ToSet, Merging!EventsOf
    <2>2. Merging!Free(DOMAIN s.events, Merging!EventsOf(p.publishes))
      BY DEF s, p, Merging!EventsFree
    <2>3. Merging!IsInjective([i \in DOMAIN p.publishes |-> p.publishes[i].event])
      BY DEF p, Merging!Manifest
    <2>4. Merging!BoundTo(p.publishes, e.event) = <<e.model, e.schema>>
      BY <2>3, BindingFact
    <2> QED
      BY <2>1, <2>2, <2>4 DEF Merging!Free
  <1>8. \A e \in Merging!ToSet(ours.events) : r.events[e.event] = <<e.model, e.schema>>
    BY <1>4, <1>5 DEF Bound, s
  <1>9. \A i \in 1 .. n : \A e \in Merging!ToSet(theirs[i].publishes) : r.events[e.event] = <<e.model, e.schema>>
    BY <1>4, <1>6 DEF Bound, s
  <1>10. \A e \in Merging!ToSet(p.publishes) : r.events[e.event] = <<e.model, e.schema>>
    BY <1>4, <1>7
  <1>11. r.timers = s.timers \cup Merging!Prefixed(p, p.timers)
    <2>1. Merging!Prefixed(p, p.timers) \subseteq Merging!Prefixed(p, p.jobs)
      BY DEF p, Merging!Manifest, Merging!Prefixed
    <2>2. Merging!Free(DOMAIN s.jobs, Merging!Prefixed(p, p.jobs))
      BY DEF s, p, Merging!NamesFree
    <2>3. \A t \in Merging!Prefixed(p, p.timers) : r.jobs[t] = p.name
      BY <1>4, <2>1, <2>2 DEF Merging!Claim, Merging!Free
    <2> QED
      BY <1>4, <2>3
  <1>12. \A x : x \in r.timers <=> \E i \in 1 .. n + 1 : x \in Merging!Prefixed(theirs[i], theirs[i].timers)
    BY <1>2, <1>11, Zenon DEF Bound, s, p
  <1>13. \A i \in 1 .. n + 1 : \A e \in Merging!ToSet(theirs[i].publishes) : r.events[e.event] = <<e.model, e.schema>>
    BY <1>2, <1>9, <1>10, Zenon DEF p
  <1> QED
    BY <1>8, <1>12, <1>13 DEF Bound, r

\* Every package met nothing where the walk stood.
Met == \A n \in 1 .. Len(theirs) :
          Merging!NamesFree(Merging!After[n - 1], theirs[n]) /\ Merging!EventsFree(Merging!After[n - 1], theirs[n])

\* At the end of a walk without a conflict every event is bound as declared.
LEMMA AllBound ==
  ASSUME Len(theirs) \in Nat, \A i \in 1 .. Len(theirs) : Merging!Manifest(theirs[i]), Merging!ProductFits, Met
  PROVE  Bound(Len(theirs))
  <1> DEFINE S == {n \in 0 .. Len(theirs) : Bound(n)}
  <1>1. 0 \in S
    BY BoundAtStart
  <1>2. ASSUME NEW n \in 0 .. Len(theirs) - 1, n \in S  PROVE n + 1 \in S
    <2>1. n + 1 \in 1 .. Len(theirs) /\ (n + 1) - 1 = n
      OBVIOUS
    <2>2. Merging!NamesFree(Merging!After[n], theirs[n + 1]) /\ Merging!EventsFree(Merging!After[n], theirs[n + 1])
      BY <2>1 DEF Met
    <2> QED
      BY <1>2, <2>1, <2>2, BoundStays
  <1>3. \A n \in 0 .. Len(theirs) : n \in S
    <2> HIDE DEF S
    <2> QED
      BY <1>1, <1>2, SetInduction
  <1>4. Len(theirs) \in 0 .. Len(theirs)
    OBVIOUS
  <1> QED
    BY <1>3, <1>4

\* Being disjoint has no direction.
LEMMA DisjointEitherWay ==
  ASSUME NEW p, NEW q, Merging!Disjoint(p, q)
  PROVE  Merging!Disjoint(q, p)
  BY DEF Merging!Disjoint, Merging!Free

\* What the walk asks of each package where it stands is what a package is asked on its own and beside any other.
LEMMA MetIsPairwise ==
  ASSUME theirs \in Seq(Declarations), \A i, j \in DOMAIN theirs : theirs[i].name = theirs[j].name => i = j
  PROVE  Met /\ Merging!ProvidersDiffer
         <=> \A p \in Merging!ToSet(theirs) :
                /\ Merging!NamesFree(Merging!Before, p) /\ Merging!EventsFree(Merging!Before, p)
                /\ Merging!Free(ours.provides, p.provides)
                /\ \A q \in Merging!ToSet(theirs) : p # q => Merging!Disjoint(p, q)
  <1> DEFINE all == Merging!ToSet(theirs)
             N == Len(theirs)
  <1>1. N \in Nat /\ DOMAIN theirs = 1 .. N
    OBVIOUS
  <1>2. \A p : p \in all <=> \E i \in 1 .. N : p = theirs[i]
    BY <1>1 DEF Merging!ToSet
  <1>3. Met <=> \A n \in 1 .. N : /\ Merging!NamesFree(Merging!Before, theirs[n])
                                  /\ Merging!EventsFree(Merging!Before, theirs[n])
                                  /\ \A i \in 1 .. n - 1 : Beside(theirs[i], theirs[n])
    BY <1>1, FreeAt DEF Met
  <1>4. Merging!ProvidersDiffer <=> \A n \in 1 .. N : /\ Merging!Free(ours.provides, theirs[n].provides)
                                                     /\ \A i \in 1 .. n - 1 : Merging!Free(theirs[i].provides, theirs[n].provides)
    BY <1>1 DEF Merging!ProvidersDiffer
  <1> DEFINE Alone(p) == /\ Merging!NamesFree(Merging!Before, p) /\ Merging!EventsFree(Merging!Before, p)
                         /\ Merging!Free(ours.provides, p.provides)
  <1>5. Met /\ Merging!ProvidersDiffer
        <=> \A n \in 1 .. N : Alone(theirs[n]) /\ \A i \in 1 .. n - 1 : Merging!Disjoint(theirs[i], theirs[n])
    BY <1>3, <1>4, BesideIsDisjoint
  <1> HIDE DEF N, Alone, all
  <1>6. ASSUME \A n \in 1 .. N : Alone(theirs[n]) /\ \A i \in 1 .. n - 1 : Merging!Disjoint(theirs[i], theirs[n]),
               NEW p \in all
        PROVE  Alone(p) /\ \A q \in all : p # q => Merging!Disjoint(p, q)
    <2>1. PICK n \in 1 .. N : p = theirs[n]
      BY <1>2
    <2>2. ASSUME NEW q \in all, p # q  PROVE Merging!Disjoint(p, q)
      <3>1. PICK i \in 1 .. N : q = theirs[i]
        BY <1>2
      <3>2. i # n
        BY <2>1, <2>2, <3>1
      <3>3. CASE i < n
        <4>1. i \in 1 .. n - 1
          BY <1>1, <3>3
        <4> QED
          BY <4>1, <1>6, <2>1, <3>1, DisjointEitherWay
      <3>4. CASE n < i
        <4>1. n \in 1 .. i - 1
          BY <1>1, <3>4
        <4> QED
          BY <4>1, <1>6, <2>1, <3>1
      <3> QED
        BY <1>1, <3>2, <3>3, <3>4
    <2> QED
      BY <1>6, <2>1, <2>2
  <1>7. ASSUME \A p \in all : Alone(p) /\ \A q \in all : p # q => Merging!Disjoint(p, q),
               NEW n \in 1 .. N
        PROVE  Alone(theirs[n]) /\ \A i \in 1 .. n - 1 : Merging!Disjoint(theirs[i], theirs[n])
    <2>1. theirs[n] \in all
      BY <1>2
    <2>2. ASSUME NEW i \in 1 .. n - 1  PROVE Merging!Disjoint(theirs[i], theirs[n])
      <3>1. i \in 1 .. N /\ i # n
        BY <1>1
      <3>2. theirs[i] \in all /\ theirs[i] # theirs[n]
        BY <1>1, <1>2, <3>1
      <3> QED
        BY <1>7, <2>1, <3>2
    <2> QED
      BY <1>7, <2>1, <2>2
  <1> QED
    BY <1>5, <1>6, <1>7 DEF Alone, all

\* Where no package met another, the bindings are those of the declarations.
LEMMA MergedBindings ==
  ASSUME theirs \in Seq(Declarations), ours.events \in Seq(Merging!Message), Merging!ProductFits, Met,
         \A i \in 1 .. Len(theirs) : Merging!Manifest(theirs[i])
  PROVE  LET published == (UNION {Merging!ToSet(p.publishes) : p \in Merging!ToSet(theirs)}) \cup Merging!ToSet(ours.events) IN
         /\ Merging!Merged.timers = UNION {Merging!Prefixed(p, p.timers) : p \in Merging!ToSet(theirs)}
         /\ DOMAIN Merging!Merged.events = {e.event : e \in published}
         /\ \A e \in published : e \in Merging!Message /\ Merging!Merged.events[e.event] = <<e.model, e.schema>>
  <1> DEFINE N == Len(theirs)
             m == Merging!After[N]
             published == (UNION {Merging!ToSet(p.publishes) : p \in Merging!ToSet(theirs)}) \cup Merging!ToSet(ours.events)
  <1>1. N \in Nat /\ N \in 0 .. N /\ DOMAIN theirs = 1 .. N
    OBVIOUS
  <1>2. \A p : p \in Merging!ToSet(theirs) <=> \E i \in 1 .. N : p = theirs[i]
    BY <1>1 DEF Merging!ToSet
  <1>3. Held(N) /\ Bound(N)
    BY <1>1, AllHeld, AllBound
  <1>4. Merging!Merged = m
    BY DEF Merging!Merged
  <1>5. \A e : e \in published <=> (\E i \in 1 .. N : e \in Merging!ToSet(theirs[i].publishes)) \/ e \in Merging!ToSet(ours.events)
    <2>1. \A e : e \in published <=> (\E p \in Merging!ToSet(theirs) : e \in Merging!ToSet(p.publishes)) \/ e \in Merging!ToSet(ours.events)
      OBVIOUS
    <2> HIDE DEF published, N
    <2> QED
      BY <1>2, <2>1
  <1> HIDE DEF N, published, m
  <1>6. m.timers = UNION {Merging!Prefixed(p, p.timers) : p \in Merging!ToSet(theirs)}
    <2>1. \A x : x \in m.timers <=> \E i \in 1 .. N : x \in Merging!Prefixed(theirs[i], theirs[i].timers)
      BY <1>3 DEF Bound, m
    <2>2. \A x : x \in UNION {Merging!Prefixed(p, p.timers) : p \in Merging!ToSet(theirs)}
                 <=> \E i \in 1 .. N : x \in Merging!Prefixed(theirs[i], theirs[i].timers)
      BY <1>2
    <2> QED
      BY <2>1, <2>2
  <1>7. \A e \in published : e \in Merging!Message /\ m.events[e.event] = <<e.model, e.schema>>
    <2>1. ASSUME NEW e \in Merging!ToSet(ours.events)  PROVE e \in Merging!Message
      BY DEF Merging!ToSet
    <2>2. ASSUME NEW i \in 1 .. N, NEW e \in Merging!ToSet(theirs[i].publishes)  PROVE e \in Merging!Message
      <3>1. theirs[i].publishes \in Seq(Merging!Message)
        BY DEF N, Merging!Manifest
      <3> QED
        BY <3>1 DEF Merging!ToSet
    <2> QED
      BY <1>3, <1>5, <2>1, <2>2 DEF Bound, m
  <1>8. DOMAIN m.events = {e.event : e \in published}
    <2>1. DOMAIN Merging!Before.events = Merging!EventsOf(ours.events)
      BY DEF Merging!Before
    <2>2. \A x : x \in DOMAIN m.events <=> x \in Merging!EventsOf(ours.events) \/ \E i \in 1 .. N : x \in Merging!EventsOf(theirs[i].publishes)
      BY <1>3, <2>1 DEF Held, m
    <2>3. \A ds, x : x \in Merging!EventsOf(ds) <=> \E e \in Merging!ToSet(ds) : x = e.event
      BY DEF Merging!EventsOf, Merging!ToSet
    <2>4. \A x : x \in DOMAIN m.events <=> \E e \in published : x = e.event
      BY <1>5, <2>2, <2>3
    <2> QED
      BY <2>4
  <1> QED
    BY <1>4, <1>6, <1>7, <1>8 DEF published

\* Put together: what is accepted, and what an accepted merge binds.
LEMMA MergeNeedsNoOrder ==
  ASSUME theirs \in Seq(Declarations), ours.events \in Seq(Merging!Message),
         \A i, j \in DOMAIN theirs : theirs[i].name = theirs[j].name => i = j,
         \A i \in 1 .. Len(theirs) : Merging!Manifest(theirs[i])
  PROVE  Merging!MergeIsOrderFree
  <1> DEFINE all == Merging!ToSet(theirs)
             published == (UNION {Merging!ToSet(p.publishes) : p \in all}) \cup Merging!ToSet(ours.events)
             Fitting == Merging!ProductFits /\ Met /\ Merging!ProvidersDiffer
             Consumed == \A p \in all : Merging!ToSet(p.consumes) \subseteq published
  <1>1. DOMAIN theirs = 1 .. Len(theirs)
    OBVIOUS
  <1>2. Merging!Merges <=> Fitting /\ Merging!ConsumersBound(Merging!Merged)
    BY <1>1 DEF Merging!Merges, Met
  <1>3. Fitting <=> /\ Merging!ProductFits
                 /\ \A p \in all :
                      /\ Merging!NamesFree(Merging!Before, p) /\ Merging!EventsFree(Merging!Before, p)
                      /\ Merging!Free(ours.provides, p.provides)
                      /\ \A q \in all : p # q => Merging!Disjoint(p, q)
    BY MetIsPairwise
  <1>4. Fitting => /\ Merging!Merged.timers = UNION {Merging!Prefixed(p, p.timers) : p \in all}
                /\ DOMAIN Merging!Merged.events = {e.event : e \in published}
                /\ \A e \in published : e \in Merging!Message /\ Merging!Merged.events[e.event] = <<e.model, e.schema>>
    BY MergedBindings
  <1>5. ASSUME NEW e \in Merging!Message, Fitting
        PROVE  (e.event \in DOMAIN Merging!Merged.events /\ Merging!Merged.events[e.event] = <<e.model, e.schema>>)
               <=> e \in published
    <2>1. ASSUME e.event \in DOMAIN Merging!Merged.events, Merging!Merged.events[e.event] = <<e.model, e.schema>>
          PROVE  e \in published
      <3>1. PICK d \in published : e.event = d.event
        BY <1>4, <1>5, <2>1
      <3>2. d \in Merging!Message /\ Merging!Merged.events[d.event] = <<d.model, d.schema>>
        BY <1>4, <1>5
      <3>3. d.event = e.event /\ d.model = e.model /\ d.schema = e.schema
        BY <2>1, <3>1, <3>2
      <3>4. d = e
        BY <3>2, <3>3 DEF Merging!Message
      <3> QED
        BY <3>4
    <2> QED
      BY <1>4, <1>5, <2>1
  <1>6. Fitting => (Merging!ConsumersBound(Merging!Merged) <=> Consumed)
    <2>1. \A p : p \in all <=> \E i \in DOMAIN theirs : p = theirs[i]
      BY DEF Merging!ToSet
    <2>2. \A p \in all : \A e \in Merging!ToSet(p.consumes) : e \in Merging!Message
      <3> SUFFICES ASSUME NEW p \in all, NEW e \in Merging!ToSet(p.consumes)  PROVE e \in Merging!Message
        OBVIOUS
      <3>1. p.consumes \in Seq(Merging!Message)
        BY <1>1, <2>1 DEF Merging!Manifest
      <3> QED
        BY <3>1 DEF Merging!ToSet
    <2>3. Merging!ConsumersBound(Merging!Merged)
          <=> \A p \in all : \A e \in Merging!ToSet(p.consumes) :
                e.event \in DOMAIN Merging!Merged.events /\ Merging!Merged.events[e.event] = <<e.model, e.schema>>
      BY <2>1 DEF Merging!ConsumersBound
    <2> HIDE DEF all, published, Fitting
    <2> QED
      BY <1>5, <2>2, <2>3
  <1> HIDE DEF Fitting
  <1>7. Merging!Merges <=> Fitting /\ Consumed
    BY <1>2, <1>6
  <1>8. Merging!Merges =>
            /\ Merging!Merged.timers = UNION {Merging!Prefixed(p, p.timers) : p \in all}
            /\ DOMAIN Merging!Merged.events = {e.event : e \in published}
            /\ \A e \in published : Merging!Merged.events[e.event] = <<e.model, e.schema>>
    BY <1>4, <1>7
  <1> QED
    BY <1>3, <1>7, <1>8 DEF Merging!MergeIsOrderFree

\* The declarations keep their types, and no package is listed twice.
LEMMA MergingInvariance == Merging!Spec => []Merging!TypeOK
  <1>1. Merging!Init => Merging!TypeOK
    BY MergingAssumption DEF Merging!Init, Merging!TypeOK, Merging!MergeAssumption
  <1>2. Merging!TypeOK /\ [Merging!Next]_(Merging!vars) => Merging!TypeOK'
    <2> SUFFICES ASSUME Merging!TypeOK, [Merging!Next]_(Merging!vars)  PROVE Merging!TypeOK'
      OBVIOUS
    <2>1. CASE Merging!Declare
      BY <2>1 DEF Merging!TypeOK, Merging!Declare
    <2>2. CASE Merging!List
      <3>1. PICK p \in Declarations : (\A i \in DOMAIN theirs : theirs[i].name # p.name) /\ theirs' = Append(theirs, p)
        BY <2>2 DEF Merging!List
      <3>2. theirs \in Seq(Declarations) /\ Len(theirs) \in Nat /\ Len(theirs) < MaxPackages /\ MaxPackages \in Nat
        BY <2>2, MergingAssumption DEF Merging!TypeOK, Merging!List, Merging!MergeAssumption
      <3>3. /\ theirs' \in Seq(Declarations) /\ Len(theirs') = Len(theirs) + 1 /\ DOMAIN theirs' = 1 .. Len(theirs) + 1
            /\ \A i \in 1 .. Len(theirs) : theirs'[i] = theirs[i]
            /\ theirs'[Len(theirs) + 1] = p
        BY <3>1, <3>2
      <3>4. \A i, j \in DOMAIN theirs' : theirs'[i].name = theirs'[j].name => i = j
        BY <3>1, <3>2, <3>3 DEF Merging!TypeOK
      <3> QED
        BY <2>2, <3>2, <3>3, <3>4 DEF Merging!TypeOK, Merging!List
    <2>3. CASE UNCHANGED Merging!vars
      BY <2>3 DEF Merging!TypeOK, Merging!vars
    <2> QED
      BY <2>1, <2>2, <2>3 DEF Merging!Next
  <1> QED
    BY <1>1, <1>2, PTL DEF Merging!Spec

\* SpecMerge is well typed: the product lists packages of distinct names whose manifests were read.
THEOREM MergingTypes == Merging!Spec => []Merging!TypeOK
  BY MergingInvariance

\* For any packages in any order, _validate_and_merge_packages accepts exactly what fits package by
\* package and pair by pair, and the timers and event bindings it yields are those declared.
THEOREM MergesNeedNoOrder == Merging!Spec => []MergeIsOrderFree
  <1>1. Merging!TypeOK => MergeIsOrderFree
    <2> SUFFICES ASSUME Merging!TypeOK  PROVE Merging!MergeIsOrderFree
      BY DEF MergeIsOrderFree
    <2>1. theirs \in Seq(Declarations) /\ \A i, j \in DOMAIN theirs : theirs[i].name = theirs[j].name => i = j
      BY DEF Merging!TypeOK
    <2>2. \A i \in 1 .. Len(theirs) : Merging!Manifest(theirs[i])
      BY <2>1, MergingAssumption DEF Merging!MergeAssumption
    <2>3. ours.events \in Seq(Merging!Message)
      <3>1. CASE ours \in Own
        BY <3>1, MergingAssumption DEF Merging!MergeAssumption
      <3>2. CASE ours = Merging!Silent
        <4>1. ours.events = <<>>
          BY <3>2 DEF Merging!Silent
        <4> QED
          BY <4>1
      <3> QED
        BY <3>1, <3>2 DEF Merging!TypeOK
    <2> QED
      BY <2>1, <2>2, <2>3, MergeNeedsNoOrder
  <1> QED
    BY <1>1, MergingInvariance, PTL

-------------------------------------------------------------------------------
(* The matching of components.  What a schema accepts, its form without annotations and the match of *)
(* two schemas are recursions over nested schemas: each exists by induction over the depth, and that *)
(* a match is sound is shown by the same induction.                                                  *)

\* A part of a schema is less deep.
LEMMA PartFacts ==
  ASSUME NEW s \in Schema
  PROVE  /\ \A t \in Matching!Parts(s) : t \in Schema /\ Depth[t] < Depth[s]
         /\ Depth[s] \in 0 .. MaxDepth /\ MaxDepth \in Nat
         /\ \A t \in s.items \cup s.union : t \in Matching!Parts(s)
         /\ \A f \in DOMAIN s.props : s.props[f] \in Matching!Parts(s)
  BY MatchingAssumption DEF Matching!MatchingAssumption, Matching!Parts

\* What a schema accepts depends on what its parts accept.
LEMMA MeaningFollows ==
  ASSUME NEW s \in Schema, NEW v \in Instance, NEW g, NEW h,
         \A t \in Matching!Parts(s), w \in Instance : g[<<t, w>>] => h[<<t, w>>],
         Matching!AcceptsBy(g, s, v)
  PROVE  Matching!AcceptsBy(h, s, v)
  <1>1. v[1] = "array" => \A w \in v[2] : w \in Instance
    BY MatchingAssumption DEF Matching!MatchingAssumption
  <1>2. v[1] = "object" => \A f \in DOMAIN v[2] : v[2][f] \in Instance
    BY MatchingAssumption DEF Matching!MatchingAssumption
  <1>3. \A t \in s.items \cup s.union : t \in Matching!Parts(s)
    BY PartFacts
  <1>4. \A f \in DOMAIN s.props : s.props[f] \in Matching!Parts(s)
    BY PartFacts
  <1>5. v[1] = "array" => \A s1 \in s.items : \A v1 \in v[2] : h[<<s1, v1>>]
    BY <1>1, <1>3 DEF Matching!AcceptsBy
  <1>6. v[1] = "object" => \A f \in DOMAIN v[2] \cap DOMAIN s.props : h[<<s.props[f], v[2][f]>>]
    BY <1>2, <1>4 DEF Matching!AcceptsBy
  <1>7. s.union = {} \/ \E s1 \in s.union : h[<<s1, v>>]
    BY <1>3 DEF Matching!AcceptsBy
  <1> QED
    BY <1>5, <1>6, <1>7 DEF Matching!AcceptsBy

LEMMA SameMeaning ==
  ASSUME NEW s \in Schema, NEW v \in Instance, NEW g, NEW h,
         \A t \in Matching!Parts(s), w \in Instance : g[<<t, w>>] = h[<<t, w>>]
  PROVE  Matching!AcceptsBy(g, s, v) = Matching!AcceptsBy(h, s, v)
  <1>1. Matching!AcceptsBy(g, s, v) => Matching!AcceptsBy(h, s, v)
    BY MeaningFollows
  <1>2. Matching!AcceptsBy(h, s, v) => Matching!AcceptsBy(g, s, v)
    BY MeaningFollows
  <1>3. Matching!AcceptsBy(g, s, v) \in BOOLEAN /\ Matching!AcceptsBy(h, s, v) \in BOOLEAN
    BY DEF Matching!AcceptsBy
  <1> QED
    BY <1>1, <1>2, <1>3

\* Every schema has a meaning.
LEMMA MeaningExists ==
  \E g : g = [x \in Schema \X Instance |-> Matching!AcceptsBy(g, x[1], x[2])]
  <1> DEFINE Deeper(g) == [x \in Schema \X Instance |-> Matching!AcceptsBy(g, x[1], x[2])]
             Is(g, n) == \A s \in Schema, v \in Instance : Depth[s] < n => g[<<s, v>>] = Matching!AcceptsBy(g, s, v)
  <1>1. ASSUME NEW g, NEW n \in Nat, Is(g, n)  PROVE Is(Deeper(g), n + 1)
    <2> DEFINE h == Deeper(g)
    <2>1. ASSUME NEW s \in Schema, NEW v \in Instance, Depth[s] < n + 1
          PROVE  h[<<s, v>>] = Matching!AcceptsBy(h, s, v)
      <3>1. ASSUME NEW t \in Matching!Parts(s), NEW w \in Instance  PROVE g[<<t, w>>] = h[<<t, w>>]
        <4>1. t \in Schema /\ Depth[t] < n
          BY <2>1, PartFacts
        <4>2. h[<<t, w>>] = Matching!AcceptsBy(g, t, w)
          BY <4>1
        <4> QED
          BY <1>1, <4>1, <4>2
      <3>2. h[<<s, v>>] = Matching!AcceptsBy(g, s, v)
        OBVIOUS
      <3> HIDE DEF h
      <3> QED
        BY <3>1, <3>2, SameMeaning
    <2> QED
      BY <2>1
  <1>2. PICK S : S = {n \in Nat : \E g : Is(g, n)}
    OBVIOUS
  <1>3. MaxDepth + 1 \in S
    <2>1. 0 \in S
      BY <1>2, PartFacts
    <2>2. \A n \in 0 .. MaxDepth : n \in S => n + 1 \in S
      <3> HIDE DEF Is, Deeper
      <3> QED
        BY <1>1, <1>2
    <2>3. MaxDepth + 1 \in Nat /\ 0 .. (MaxDepth + 1) - 1 = 0 .. MaxDepth
      BY MatchingAssumption DEF Matching!MatchingAssumption
    <2>4. \A n \in 0 .. MaxDepth + 1 : n \in S
      BY <2>1, <2>2, <2>3, SetInduction
    <2> QED
      BY <2>3, <2>4
  <1>4. PICK g : Is(g, MaxDepth + 1)
    BY <1>2, <1>3
  <1>5. Is(Deeper(g), MaxDepth + 1 + 1)
    <2> HIDE DEF Is, Deeper
    <2> QED
      BY <1>1, <1>2, <1>3, <1>4
  <1> QED
    <2> DEFINE h == Deeper(g)
    <2>1. ASSUME NEW x \in Schema \X Instance  PROVE h[x] = Matching!AcceptsBy(h, x[1], x[2])
      <3>1. Depth[x[1]] < MaxDepth + 1 + 1 /\ x = <<x[1], x[2]>>
        BY PartFacts
      <3> HIDE DEF h
      <3> QED
        BY <1>5, <3>1 DEF h
    <2>2. h = [x \in Schema \X Instance |-> h[x]]
      OBVIOUS
    <2> HIDE DEF h
    <2> QED
      BY <2>1, <2>2

\* A schema means what its keywords say.
LEMMA MeaningFact ==
  ASSUME NEW s \in Schema, NEW v \in Instance
  PROVE  Matching!Accepts(s, v) <=> Matching!AcceptsBy(Matching!Meaning, s, v)
  <1> DEFINE Is(g) == g = [x \in Schema \X Instance |-> Matching!AcceptsBy(g, x[1], x[2])]
  <1>1. \E g : Is(g)
    BY MeaningExists
  <1>2. Matching!Meaning = CHOOSE g : Is(g)
    BY DEF Matching!Meaning
  <1>3. Is(Matching!Meaning)
    <2> HIDE DEF Is
    <2> QED
      BY <1>1, <1>2
  <1> QED
    BY <1>3 DEF Matching!Accepts

\* Which schemas match depends on which of their parts do.
LEMMA MatchesFollow ==
  ASSUME NEW s \in Schema, NEW t \in Schema, NEW g, NEW h,
         \A p \in Matching!Parts(s), q \in Matching!Parts(t) : g[<<p, q>>] => h[<<p, q>>],
         Matching!CompatibleBy(g, s, t)
  PROVE  Matching!CompatibleBy(h, s, t)
  <1>1. CASE s.union # {} \/ t.union # {} \/ Matching!Several(s.types) \/ Matching!Several(t.types)
    BY <1>1 DEF Matching!CompatibleBy
  <1>2. CASE ~(s.union # {} \/ t.union # {} \/ Matching!Several(s.types) \/ Matching!Several(t.types))
    <2>1. s.types = {"array"} => \E s1 \in s.items : \E t1 \in t.items : h[<<s1, t1>>]
      BY <1>2, PartFacts DEF Matching!CompatibleBy
    <2>2. s.types = {"object"} => Matching!ObjectMatches(h, s, t)
      BY <1>2, PartFacts DEF Matching!CompatibleBy, Matching!ObjectMatches
    <2> QED
      BY <1>2, <2>1, <2>2 DEF Matching!CompatibleBy
  <1> QED
    BY <1>1, <1>2

LEMMA SameMatches ==
  ASSUME NEW s \in Schema, NEW t \in Schema, NEW g, NEW h,
         \A p \in Matching!Parts(s), q \in Matching!Parts(t) : g[<<p, q>>] = h[<<p, q>>]
  PROVE  Matching!CompatibleBy(g, s, t) = Matching!CompatibleBy(h, s, t)
  <1>1. Matching!CompatibleBy(g, s, t) => Matching!CompatibleBy(h, s, t)
    BY MatchesFollow
  <1>2. Matching!CompatibleBy(h, s, t) => Matching!CompatibleBy(g, s, t)
    BY MatchesFollow
  <1>3. Matching!CompatibleBy(g, s, t) \in BOOLEAN /\ Matching!CompatibleBy(h, s, t) \in BOOLEAN
    BY DEF Matching!CompatibleBy
  <1> QED
    BY <1>1, <1>2, <1>3

\* The comparison ends, for schemas of any depth.
LEMMA MatchesExist ==
  \E g : g = [x \in Schema \X Schema |-> Matching!CompatibleBy(g, x[1], x[2])]
  <1> DEFINE Deeper(g) == [x \in Schema \X Schema |-> Matching!CompatibleBy(g, x[1], x[2])]
             Is(g, n) == \A s \in Schema, t \in Schema : Depth[s] < n => g[<<s, t>>] = Matching!CompatibleBy(g, s, t)
  <1>1. ASSUME NEW g, NEW n \in Nat, Is(g, n)  PROVE Is(Deeper(g), n + 1)
    <2> DEFINE h == Deeper(g)
    <2>1. ASSUME NEW s \in Schema, NEW t \in Schema, Depth[s] < n + 1
          PROVE  h[<<s, t>>] = Matching!CompatibleBy(h, s, t)
      <3>1. ASSUME NEW p \in Matching!Parts(s), NEW q \in Matching!Parts(t)  PROVE g[<<p, q>>] = h[<<p, q>>]
        <4>1. p \in Schema /\ Depth[p] < n /\ q \in Schema
          BY <2>1, PartFacts
        <4>2. h[<<p, q>>] = Matching!CompatibleBy(g, p, q)
          BY <4>1
        <4> QED
          BY <1>1, <4>1, <4>2
      <3>2. h[<<s, t>>] = Matching!CompatibleBy(g, s, t)
        OBVIOUS
      <3> HIDE DEF h
      <3> QED
        BY <3>1, <3>2, SameMatches
    <2> QED
      BY <2>1
  <1>2. PICK S : S = {n \in Nat : \E g : Is(g, n)}
    OBVIOUS
  <1>3. MaxDepth + 1 \in S
    <2>1. 0 \in S
      BY <1>2, PartFacts
    <2>2. \A n \in 0 .. MaxDepth : n \in S => n + 1 \in S
      <3> HIDE DEF Is, Deeper
      <3> QED
        BY <1>1, <1>2
    <2>3. MaxDepth + 1 \in Nat /\ 0 .. (MaxDepth + 1) - 1 = 0 .. MaxDepth
      BY MatchingAssumption DEF Matching!MatchingAssumption
    <2>4. \A n \in 0 .. MaxDepth + 1 : n \in S
      BY <2>1, <2>2, <2>3, SetInduction
    <2> QED
      BY <2>3, <2>4
  <1>4. PICK g : Is(g, MaxDepth + 1)
    BY <1>2, <1>3
  <1>5. Is(Deeper(g), MaxDepth + 1 + 1)
    <2> HIDE DEF Is, Deeper
    <2> QED
      BY <1>1, <1>2, <1>3, <1>4
  <1> QED
    <2> DEFINE h == Deeper(g)
    <2>1. ASSUME NEW x \in Schema \X Schema  PROVE h[x] = Matching!CompatibleBy(h, x[1], x[2])
      <3>1. Depth[x[1]] < MaxDepth + 1 + 1 /\ x = <<x[1], x[2]>>
        BY PartFacts
      <3> HIDE DEF h
      <3> QED
        BY <1>5, <3>1 DEF h
    <2>2. h = [x \in Schema \X Schema |-> h[x]]
      OBVIOUS
    <2> HIDE DEF h
    <2> QED
      BY <2>1, <2>2

\* Two schemas match when their keywords do.
LEMMA MatchesFact ==
  ASSUME NEW s \in Schema, NEW t \in Schema
  PROVE  Matching!Compatible(s, t) <=> Matching!CompatibleBy(Matching!Matches, s, t)
  <1> DEFINE Is(g) == g = [x \in Schema \X Schema |-> Matching!CompatibleBy(g, x[1], x[2])]
  <1>1. \E g : Is(g)
    BY MatchesExist
  <1>2. Matching!Matches = CHOOSE g : Is(g)
    BY DEF Matching!Matches
  <1>3. Is(Matching!Matches)
    <2> HIDE DEF Is
    <2> QED
      BY <1>1, <1>2
  <1> QED
    BY <1>3 DEF Matching!Compatible

\* Every schema has a form without annotations.
LEMMA SameNormal ==
  ASSUME NEW s \in Schema, NEW g, NEW h, \A t \in Matching!Parts(s) : g[t] = h[t]
  PROVE  Matching!NormalizedBy(g, s) = Matching!NormalizedBy(h, s)
  <1>1. {g[t] : t \in s.items} = {h[t] : t \in s.items} /\ {g[t] : t \in s.union} = {h[t] : t \in s.union}
    BY PartFacts
  <1>2. [f \in DOMAIN s.props |-> g[s.props[f]]] = [f \in DOMAIN s.props |-> h[s.props[f]]]
    BY PartFacts
  <1> QED
    BY <1>1, <1>2 DEF Matching!NormalizedBy

LEMMA NormalExists ==
  \E g : g = [s \in Schema |-> Matching!NormalizedBy(g, s)]
  <1> DEFINE Deeper(g) == [s \in Schema |-> Matching!NormalizedBy(g, s)]
             Is(g, n) == \A s \in Schema : Depth[s] < n => g[s] = Matching!NormalizedBy(g, s)
  <1>1. ASSUME NEW g, NEW n \in Nat, Is(g, n)  PROVE Is(Deeper(g), n + 1)
    <2> DEFINE h == Deeper(g)
    <2>1. ASSUME NEW s \in Schema, Depth[s] < n + 1
          PROVE  h[s] = Matching!NormalizedBy(h, s)
      <3>1. ASSUME NEW t \in Matching!Parts(s)  PROVE g[t] = h[t]
        <4>1. t \in Schema /\ Depth[t] < n
          BY <2>1, PartFacts
        <4>2. h[t] = Matching!NormalizedBy(g, t)
          BY <4>1
        <4> QED
          BY <1>1, <4>1, <4>2
      <3>2. h[s] = Matching!NormalizedBy(g, s)
        OBVIOUS
      <3> HIDE DEF h
      <3> QED
        BY <3>1, <3>2, SameNormal
    <2> QED
      BY <2>1
  <1>2. PICK S : S = {n \in Nat : \E g : Is(g, n)}
    OBVIOUS
  <1>3. MaxDepth + 1 \in S
    <2>1. 0 \in S
      BY <1>2, PartFacts
    <2>2. \A n \in 0 .. MaxDepth : n \in S => n + 1 \in S
      <3> HIDE DEF Is, Deeper
      <3> QED
        BY <1>1, <1>2
    <2>3. MaxDepth + 1 \in Nat /\ 0 .. (MaxDepth + 1) - 1 = 0 .. MaxDepth
      BY MatchingAssumption DEF Matching!MatchingAssumption
    <2>4. \A n \in 0 .. MaxDepth + 1 : n \in S
      BY <2>1, <2>2, <2>3, SetInduction
    <2> QED
      BY <2>3, <2>4
  <1>4. PICK g : Is(g, MaxDepth + 1)
    BY <1>2, <1>3
  <1>5. Is(Deeper(g), MaxDepth + 1 + 1)
    <2> HIDE DEF Is, Deeper
    <2> QED
      BY <1>1, <1>2, <1>3, <1>4
  <1> QED
    <2> DEFINE h == Deeper(g)
    <2>1. ASSUME NEW s \in Schema  PROVE h[s] = Matching!NormalizedBy(h, s)
      <3>1. Depth[s] < MaxDepth + 1 + 1
        BY PartFacts
      <3> HIDE DEF h
      <3> QED
        BY <1>5, <3>1 DEF h
    <2>2. h = [s \in Schema |-> h[s]]
      OBVIOUS
    <2> HIDE DEF h
    <2> QED
      BY <2>1, <2>2

LEMMA NormalFact ==
  ASSUME NEW s \in Schema
  PROVE  Matching!Normalized[s] = Matching!NormalizedBy(Matching!Normalized, s)
  <1> DEFINE Is(g) == g = [x \in Schema |-> Matching!NormalizedBy(g, x)]
  <1>1. \E g : Is(g)
    BY NormalExists
  <1>2. Matching!Normalized = CHOOSE g : Is(g)
    BY DEF Matching!Normalized
  <1>3. Is(Matching!Normalized)
    <2> HIDE DEF Is
    <2> QED
      BY <1>1, <1>2
  <1> QED
    BY <1>3

LEMMA NormalFields ==
  ASSUME NEW s \in Schema
  PROVE  LET n == Matching!Normalized[s] IN
         /\ n \in Schema
         /\ n.types = s.types /\ n.format = s.format /\ n.values = s.values /\ n.min = s.min
         /\ n.other = s.other /\ n.required = s.required /\ n.closed = s.closed
         /\ n.items = {Matching!Normalized[t] : t \in s.items}
         /\ n.union = {Matching!Normalized[t] : t \in s.union}
         /\ DOMAIN n.props = DOMAIN s.props
         /\ \A f \in DOMAIN s.props : n.props[f] = Matching!Normalized[s.props[f]]
  <1> DEFINE N == Matching!Normalized
  <1>1. N[s] \in Schema
    BY MatchingAssumption DEF Matching!MatchingAssumption
  <1>2. N[s] = Matching!NormalizedBy(N, s)
    BY NormalFact
  <1> HIDE DEF N
  <1>3. QED
    BY <1>1, <1>2 DEF Matching!NormalizedBy, N

\* Annotations mean nothing: dropping them changes no answer of a schema whose parts keep theirs.
LEMMA NormalStep ==
  ASSUME NEW s \in Schema, NEW v \in Instance,
         \A t \in Matching!Parts(s), w \in Instance :
            Matching!Meaning[<<t, w>>] <=> Matching!Meaning[<<Matching!Normalized[t], w>>]
  PROVE  Matching!AcceptsBy(Matching!Meaning, s, v) <=> Matching!AcceptsBy(Matching!Meaning, Matching!Normalized[s], v)
  <1> DEFINE M == Matching!Meaning
             N == Matching!Normalized
             n == N[s]
  <1>1. \A t \in Matching!Parts(s), w \in Instance : M[<<t, w>>] <=> M[<<N[t], w>>]
    OBVIOUS
  <1>2. /\ n.types = s.types /\ n.format = s.format /\ n.values = s.values /\ n.min = s.min
        /\ n.other = s.other /\ n.required = s.required /\ n.closed = s.closed
        /\ n.items = {N[t] : t \in s.items} /\ n.union = {N[t] : t \in s.union}
        /\ DOMAIN n.props = DOMAIN s.props
        /\ \A f \in DOMAIN s.props : n.props[f] = N[s.props[f]]
    BY NormalFields
  <1> HIDE DEF M, N, n
  <1>3. v[1] = "array" => \A w \in v[2] : w \in Instance
    BY MatchingAssumption DEF Matching!MatchingAssumption
  <1>4. v[1] = "object" => \A f \in DOMAIN v[2] : v[2][f] \in Instance
    BY MatchingAssumption DEF Matching!MatchingAssumption
  <1>5. v[1] = "array" => ((\A s1 \in s.items : \A v1 \in v[2] : M[<<s1, v1>>])
                            <=> (\A s1 \in n.items : \A v1 \in v[2] : M[<<s1, v1>>]))
    <2>1. \A t \in s.items : t \in Matching!Parts(s) /\ N[t] \in n.items
      BY <1>2, PartFacts
    <2>2. \A t \in n.items : \E s1 \in s.items : t = N[s1]
      BY <1>2
    <2>3. SUFFICES ASSUME v[1] = "array"
                   PROVE  (\A s1 \in s.items : \A v1 \in v[2] : M[<<s1, v1>>])
                             <=> (\A s1 \in n.items : \A v1 \in v[2] : M[<<s1, v1>>])
      OBVIOUS
    <2>4. \A t \in s.items : \A w \in v[2] : M[<<t, w>>] <=> M[<<N[t], w>>]
      BY <1>1, <1>3, <2>1, <2>3
    <2>5. ASSUME \A s1 \in s.items : \A v1 \in v[2] : M[<<s1, v1>>], NEW t \in n.items, NEW w \in v[2]
          PROVE  M[<<t, w>>]
      <3>1. PICK s1 \in s.items : t = N[s1]
        BY <2>2
      <3> QED
        BY <2>4, <2>5, <3>1
    <2>6. ASSUME \A s1 \in n.items : \A v1 \in v[2] : M[<<s1, v1>>], NEW t \in s.items, NEW w \in v[2]
          PROVE  M[<<t, w>>]
      BY <2>1, <2>4, <2>6
    <2> QED
      BY <2>5, <2>6
  <1>6. v[1] = "object" => \A f \in DOMAIN v[2] \cap DOMAIN s.props : M[<<s.props[f], v[2][f]>>] <=> M[<<n.props[f], v[2][f]>>]
    <2>1. ASSUME v[1] = "object", NEW f \in DOMAIN v[2] \cap DOMAIN s.props
          PROVE  M[<<s.props[f], v[2][f]>>] <=> M[<<n.props[f], v[2][f]>>]
      <3>1. s.props[f] \in Matching!Parts(s) /\ v[2][f] \in Instance
        BY <1>4, <2>1, PartFacts
      <3>2. n.props[f] = N[s.props[f]]
        BY <1>2
      <3> QED
        BY <1>1, <3>1, <3>2
    <2> QED
      BY <2>1
  <1>7. (s.union = {} \/ \E s1 \in s.union : M[<<s1, v>>]) <=> (n.union = {} \/ \E s1 \in n.union : M[<<s1, v>>])
    <2>1. \A t \in s.union : t \in Matching!Parts(s) /\ N[t] \in n.union
      BY <1>2, PartFacts
    <2>2. \A t \in n.union : \E s1 \in s.union : t = N[s1]
      BY <1>2
    <2>3. \A t \in s.union : M[<<t, v>>] <=> M[<<N[t], v>>]
      BY <1>1, <2>1
    <2>4. s.union = {} <=> n.union = {}
      BY <2>1, <2>2
    <2>5. ASSUME NEW t \in s.union, M[<<t, v>>]  PROVE \E s1 \in n.union : M[<<s1, v>>]
      BY <2>1, <2>3, <2>5
    <2>6. ASSUME NEW t \in n.union, M[<<t, v>>]  PROVE \E s1 \in s.union : M[<<s1, v>>]
      <3>1. PICK s1 \in s.union : t = N[s1]
        BY <2>2
      <3> QED
        BY <2>3, <2>6, <3>1
    <2> QED
      BY <2>4, <2>5, <2>6
  <1>8. Matching!AcceptsBy(M, s, v) => Matching!AcceptsBy(M, n, v)
    BY <1>2, <1>5, <1>6, <1>7 DEF Matching!AcceptsBy
  <1>9. Matching!AcceptsBy(M, n, v) => Matching!AcceptsBy(M, s, v)
    BY <1>2, <1>5, <1>6, <1>7 DEF Matching!AcceptsBy
  <1> QED
    BY <1>8, <1>9 DEF M, N, n

LEMMA NormalMeansTheSame ==
  ASSUME NEW s \in Schema, NEW v \in Instance
  PROVE  Matching!Accepts(s, v) <=> Matching!Accepts(Matching!Normalized[s], v)
  <1> DEFINE M == Matching!Meaning
             N == Matching!Normalized
             Same(n) == \A t \in Schema, w \in Instance : Depth[t] < n => (M[<<t, w>>] <=> M[<<N[t], w>>])
  <1>1. \A t \in Schema, w \in Instance :
            /\ N[t] \in Schema
            /\ M[<<t, w>>] <=> Matching!AcceptsBy(M, t, w)
            /\ M[<<N[t], w>>] <=> Matching!AcceptsBy(M, N[t], w)
    BY MeaningFact, NormalFields DEF Matching!Accepts
  <1>2. ASSUME NEW n \in Nat, Same(n)  PROVE Same(n + 1)
    <2>1. ASSUME NEW t \in Schema, NEW w \in Instance, Depth[t] < n + 1  PROVE M[<<t, w>>] <=> M[<<N[t], w>>]
      <3>1. \A p \in Matching!Parts(t) : p \in Schema /\ Depth[p] < n
        BY <2>1, PartFacts
      <3>2. \A p \in Matching!Parts(t), x \in Instance : M[<<p, x>>] <=> M[<<N[p], x>>]
        BY <1>2, <3>1
      <3>3. Matching!AcceptsBy(M, t, w) <=> Matching!AcceptsBy(M, N[t], w)
        BY <3>2, NormalStep
      <3> HIDE DEF M, N
      <3> QED
        BY <1>1, <3>3
    <2> QED
      BY <2>1
  <1>3. PICK S : S = {n \in Nat : Same(n)}
    OBVIOUS
  <1>4. MaxDepth + 1 \in S
    <2>1. 0 \in S
      BY <1>3, PartFacts
    <2>2. \A n \in 0 .. MaxDepth : n \in S => n + 1 \in S
      <3> HIDE DEF Same
      <3> QED
        BY <1>2, <1>3
    <2>3. MaxDepth + 1 \in Nat /\ 0 .. (MaxDepth + 1) - 1 = 0 .. MaxDepth
      BY MatchingAssumption DEF Matching!MatchingAssumption
    <2>4. \A n \in 0 .. MaxDepth + 1 : n \in S
      BY <2>1, <2>2, <2>3, SetInduction
    <2> QED
      BY <2>3, <2>4
  <1> QED
    BY <1>3, <1>4, PartFacts DEF Matching!Accepts

\* What one schema accepts a compatible one does too, when that holds of their parts.
LEMMA CompatibleStep ==
  ASSUME NEW s \in Schema, NEW t \in Schema, NEW v \in Instance,
         \A p \in Matching!Parts(s), q \in Matching!Parts(t), w \in Instance :
            Matching!Matches[<<p, q>>] /\ Matching!Meaning[<<p, w>>] => Matching!Meaning[<<q, w>>],
         Matching!CompatibleBy(Matching!Matches, s, t),
         Matching!AcceptsBy(Matching!Meaning, s, v)
  PROVE  Matching!AcceptsBy(Matching!Meaning, t, v)
  <1> DEFINE M == Matching!Meaning
             C == Matching!Matches
  <1>1. \A p \in Matching!Parts(s), q \in Matching!Parts(t), w \in Instance : C[<<p, q>>] /\ M[<<p, w>>] => M[<<q, w>>]
    OBVIOUS
  <1>2. Matching!CompatibleBy(C, s, t) /\ Matching!AcceptsBy(M, s, v)
    OBVIOUS
  <1> HIDE DEF M, C
  <1>3. CASE s = t
    BY <1>2, <1>3 DEF M
  <1>4. CASE s # t
    <2>1. /\ s.union = {} /\ t.union = {} /\ ~Matching!Several(s.types)
          /\ s.types = t.types /\ s.types # {} /\ s.format = t.format
          /\ ~Matching!Unknown(s) /\ ~Matching!Unknown(t)
          /\ t.values # {} => s.values # {} /\ s.values \subseteq t.values
          /\ s.types = {"array"} => \E s1 \in s.items : \E t1 \in t.items : C[<<s1, t1>>]
          /\ s.types = {"object"} => Matching!ObjectMatches(C, s, t)
      BY <1>2, <1>4 DEF Matching!CompatibleBy
    <2>2. v[1] \in s.types /\ s.types = {v[1]}
      BY <1>2, <2>1 DEF Matching!AcceptsBy, Matching!Several
    <2>3. t.min = 0 /\ ~t.other
      BY <2>1, MatchingAssumption DEF Matching!Unknown, Matching!MatchingAssumption
    <2>4. v[1] = "array" => \A t1 \in t.items : \A v1 \in v[2] : M[<<t1, v1>>]
      <3>1. SUFFICES ASSUME v[1] = "array", NEW t1 \in t.items, NEW v1 \in v[2]  PROVE M[<<t1, v1>>]
        OBVIOUS
      <3>2. PICK s1 \in s.items : C[<<s1, t1>>]
        <4>1. \A t2 \in t.items : t2 = t1
          BY MatchingAssumption DEF Matching!MatchingAssumption, Matching!Several
        <4> QED
          BY <2>1, <2>2, <3>1, <4>1
      <3>3. M[<<s1, v1>>]
        BY <1>2, <3>1 DEF Matching!AcceptsBy
      <3>4. v1 \in Instance
        BY <3>1, MatchingAssumption DEF Matching!MatchingAssumption
      <3> QED
        BY <1>1, <3>2, <3>3, <3>4, PartFacts
    <2>5. v[1] = "object" =>
            /\ t.required \subseteq DOMAIN v[2]
            /\ t.closed => DOMAIN v[2] \subseteq DOMAIN t.props
            /\ \A f \in DOMAIN v[2] \cap DOMAIN t.props : M[<<t.props[f], v[2][f]>>]
      <3>1. SUFFICES ASSUME v[1] = "object"
                     PROVE /\ t.required \subseteq DOMAIN v[2]
                           /\ t.closed => DOMAIN v[2] \subseteq DOMAIN t.props
                           /\ \A f \in DOMAIN v[2] \cap DOMAIN t.props : M[<<t.props[f], v[2][f]>>]
        OBVIOUS
      <3>2. Matching!ObjectMatches(C, s, t)
        BY <2>1, <2>2, <3>1
      <3>3. /\ s.required \subseteq DOMAIN v[2]
            /\ s.closed => DOMAIN v[2] \subseteq DOMAIN s.props
            /\ \A f \in DOMAIN v[2] \cap DOMAIN s.props : M[<<s.props[f], v[2][f]>>]
        BY <1>2, <3>1 DEF Matching!AcceptsBy
      <3>4. ASSUME NEW f \in DOMAIN v[2] \cap DOMAIN t.props  PROVE M[<<t.props[f], v[2][f]>>]
        <4>1. f \in DOMAIN s.props /\ C[<<s.props[f], t.props[f]>>]
          BY <3>2, <3>3 DEF Matching!ObjectMatches
        <4>2. v[2][f] \in Instance
          BY <3>1, MatchingAssumption DEF Matching!MatchingAssumption
        <4> QED
          BY <1>1, <3>3, <4>1, <4>2, PartFacts
      <3>5. t.required \subseteq DOMAIN v[2]
        BY <3>2, <3>3 DEF Matching!ObjectMatches
      <3>6. t.closed => DOMAIN v[2] \subseteq DOMAIN t.props
        BY <3>2, <3>3 DEF Matching!ObjectMatches
      <3> QED
        BY <3>4, <3>5, <3>6
    <2>6. (t.values = {} \/ v \in t.values) /\ (t.format = "none" \/ v[1] # "string" \/ v[2] = "day")
      BY <1>2, <2>1 DEF Matching!AcceptsBy
    <2>7. t.types = {} \/ v[1] \in t.types
      BY <2>1, <2>2
    <2>8. Matching!AcceptsBy(M, t, v)
      BY <2>1, <2>3, <2>4, <2>5, <2>6, <2>7 DEF Matching!AcceptsBy
    <2> QED
      BY <2>8 DEF M
  <1> QED
    BY <1>3, <1>4

\* Of two compatible schemas the second accepts all that the first does.
LEMMA CompatibleIsSound ==
  ASSUME NEW s \in Schema, NEW t \in Schema, NEW v \in Instance, Matching!Compatible(s, t), Matching!Accepts(s, v)
  PROVE  Matching!Accepts(t, v)
  <1> DEFINE M == Matching!Meaning
             C == Matching!Matches
             Carries(n) == \A p, q \in Schema, w \in Instance : Depth[p] < n => (C[<<p, q>>] /\ M[<<p, w>>] => M[<<q, w>>])
  <1>1. \A p, q \in Schema, w \in Instance :
            /\ C[<<p, q>>] <=> Matching!CompatibleBy(C, p, q)
            /\ M[<<p, w>>] <=> Matching!AcceptsBy(M, p, w)
    BY MeaningFact, MatchesFact DEF Matching!Accepts, Matching!Compatible
  <1>2. ASSUME NEW n \in Nat, Carries(n)  PROVE Carries(n + 1)
    <2>1. ASSUME NEW p \in Schema, NEW q \in Schema, NEW w \in Instance, Depth[p] < n + 1, C[<<p, q>>], M[<<p, w>>]
          PROVE  M[<<q, w>>]
      <3>1. (\A x \in Matching!Parts(p) : x \in Schema /\ Depth[x] < n) /\ (\A x \in Matching!Parts(q) : x \in Schema)
        BY <2>1, PartFacts
      <3>2. \A x \in Matching!Parts(p), y \in Matching!Parts(q), z \in Instance : C[<<x, y>>] /\ M[<<x, z>>] => M[<<y, z>>]
        BY <1>2, <3>1
      <3>3. Matching!CompatibleBy(C, p, q) /\ Matching!AcceptsBy(M, p, w)
        <4> HIDE DEF M, C
        <4> QED
          BY <1>1, <2>1
      <3>4. Matching!AcceptsBy(M, q, w)
        BY <3>2, <3>3, CompatibleStep
      <3> HIDE DEF M, C
      <3> QED
        BY <1>1, <3>4
    <2> QED
      BY <2>1
  <1>3. PICK S : S = {n \in Nat : Carries(n)}
    OBVIOUS
  <1>4. MaxDepth + 1 \in S
    <2>1. 0 \in S
      BY <1>3, PartFacts
    <2>2. \A n \in 0 .. MaxDepth : n \in S => n + 1 \in S
      <3> HIDE DEF Carries
      <3> QED
        BY <1>2, <1>3
    <2>3. MaxDepth + 1 \in Nat /\ 0 .. (MaxDepth + 1) - 1 = 0 .. MaxDepth
      BY MatchingAssumption DEF Matching!MatchingAssumption
    <2>4. \A n \in 0 .. MaxDepth + 1 : n \in S
      BY <2>1, <2>2, <2>3, SetInduction
    <2> QED
      BY <2>3, <2>4
  <1> QED
    BY <1>3, <1>4, PartFacts DEF Matching!Accepts, Matching!Compatible

\* Where the unwrapping keeps a property, values of it are accepted that the whole accepts.
LEMMA UnwrappedValue ==
  ASSUME NEW s \in Schema, NEW v \in Instance, Matching!Accepts(s, v), v[1] = "object",
         Matching!NonNull(s).types = {"object"}, NEW f \in Matching!NonNull(s).required, f \in DOMAIN Matching!NonNull(s).props
  PROVE  /\ f \in DOMAIN v[2] /\ v[2][f] \in Instance
         /\ Matching!NonNull(s).props[f] \in Schema
         /\ Matching!Accepts(Matching!NonNull(s).props[f], v[2][f])
  <1> DEFINE M == Matching!Meaning
             n == Matching!Normalized[s]
             bare == IF Matching!Several(n.types) /\ Matching!Single(n.types \ {"null"})
                     THEN [n EXCEPT !.types = n.types \ {"null"}] ELSE n
             rest == {t \in n.union : ~Matching!IsNull(t)}
             u == CHOOSE t \in rest : TRUE
             whole == IF Matching!Single(rest) THEN Matching!Overlay(bare, u) ELSE bare
  <1>1. Matching!NonNull(s) = whole
    BY DEF Matching!NonNull
  <1>2. n \in Schema /\ Matching!AcceptsBy(M, n, v)
    BY NormalFields, NormalMeansTheSame, MeaningFact DEF Matching!Accepts
  <1>3. bare.required = n.required /\ bare.props = n.props
    BY NormalFact DEF Matching!NormalizedBy
  <1>4. f \in whole.required /\ f \in DOMAIN whole.props
    BY <1>1
  <1> HIDE DEF n, M, bare
  <1>5. CASE ~Matching!Single(rest)
    <2>1. whole = bare
      BY <1>5
    <2>2. f \in n.required /\ f \in DOMAIN n.props /\ whole.props = n.props
      BY <1>3, <1>4, <2>1
    <2> HIDE DEF whole
    <2>3. f \in DOMAIN v[2] /\ M[<<n.props[f], v[2][f]>>]
      BY <1>2, <2>2 DEF Matching!AcceptsBy
    <2>4. n.props[f] \in Schema
      BY <1>2, <2>2, PartFacts
    <2> QED
      BY <1>1, <2>2, <2>3, <2>4, MatchingAssumption DEF Matching!Accepts, Matching!MatchingAssumption, M
  <1>6. CASE Matching!Single(rest)
    <2>1. u \in n.union /\ \A t \in rest : t = u
      BY <1>6 DEF Matching!Single, Matching!Several
    <2>2. whole = Matching!Overlay(bare, u)
      BY <1>6
    <2>3. u \in Schema
      BY <1>2, <2>1, PartFacts
    <2> HIDE DEF whole, u
    <2>4. Matching!AcceptsBy(M, u, v)
      <3>1. PICK t \in n.union : M[<<t, v>>]
        BY <1>2, <2>1 DEF Matching!AcceptsBy
      <3>2. t \in Schema
        BY <1>2, <3>1, PartFacts
      <3>3. Matching!AcceptsBy(M, t, v)
        BY <3>1, <3>2, MeaningFact DEF Matching!Accepts, M
      <3>4. ~Matching!IsNull(t)
        BY <3>3 DEF Matching!AcceptsBy, Matching!IsNull
      <3> QED
        BY <2>1, <3>1, <3>3, <3>4
    <2>5. /\ whole.required \in {n.required, u.required}
          /\ whole.props \in {n.props, u.props}
      BY <1>3, <2>2 DEF Matching!Overlay
    <2>6. f \in DOMAIN v[2]
      BY <1>2, <1>4, <2>4, <2>5 DEF Matching!AcceptsBy
    <2>7. M[<<whole.props[f], v[2][f]>>] /\ whole.props[f] \in Schema
      <3>1. CASE whole.props = n.props
        BY <1>2, <1>4, <2>6, <3>1, PartFacts DEF Matching!AcceptsBy
      <3>2. CASE whole.props = u.props
        BY <1>4, <2>3, <2>4, <2>6, <3>2, PartFacts DEF Matching!AcceptsBy
      <3> QED
        BY <2>5, <3>1, <3>2
    <2> QED
      BY <1>1, <2>6, <2>7, MatchingAssumption DEF Matching!Accepts, Matching!MatchingAssumption, M
  <1> QED
    BY <1>5, <1>6

\* The value of a function that connects is one the action accepts.
LEMMA ConnectsIsSound ==
  ASSUME NEW s \in Schema, NEW t \in Schema, NEW v \in Instance,
         Matching!Accepts(s, v), v[1] = "object", Matching!Connects(s, t)
  PROVE  Matching!Accepts(t, v[2][Value])
  <1> DEFINE p == Matching!NonNull(s).props[Value]
  <1>1. /\ Matching!NonNull(s).types = {"object"}
        /\ Value \in Matching!NonNull(s).required /\ Value \in DOMAIN Matching!NonNull(s).props
        /\ Matching!Compatible(p, Matching!Normalized[t])
    BY DEF Matching!Connects
  <1>2. v[2][Value] \in Instance /\ p \in Schema /\ Matching!Accepts(p, v[2][Value])
    BY <1>1, UnwrappedValue
  <1> HIDE DEF p
  <1>3. Matching!Accepts(Matching!Normalized[t], v[2][Value])
    BY <1>1, <1>2, CompatibleIsSound, NormalFields
  <1> QED
    BY <1>2, <1>3, NormalMeansTheSame

\* Without the bound on its length a schema accepts the same values and shorter ones.
LEMMA UnboundedFact ==
  ASSUME NEW s \in Schema, NEW v \in Instance
  PROVE  LET n == Matching!Normalized[s] IN
         /\ Matching!Unbounded(n) \in Schema
         /\ Matching!Accepts(n, v)
             <=> Matching!Accepts(Matching!Unbounded(n), v) /\ (n.min = 0 \/ v[1] # "string" \/ v[2] # "")
  <1> DEFINE n == Matching!Normalized[s]
             u == Matching!Unbounded(n)
  <1>1. n \in Schema /\ u \in Schema
    BY MatchingAssumption DEF Matching!MatchingAssumption
  <1>2. /\ u.types = n.types /\ u.format = n.format /\ u.values = n.values /\ u.min = 0 /\ u.other = n.other
        /\ u.items = n.items /\ u.props = n.props /\ u.required = n.required /\ u.closed = n.closed /\ u.union = n.union
    BY NormalFact DEF Matching!NormalizedBy, Matching!Unbounded
  <1>3. (Matching!Accepts(n, v) <=> Matching!AcceptsBy(Matching!Meaning, n, v))
        /\ (Matching!Accepts(u, v) <=> Matching!AcceptsBy(Matching!Meaning, u, v))
    BY <1>1, MeaningFact
  <1> HIDE DEF n, u
  <1>4. Matching!AcceptsBy(Matching!Meaning, n, v)
         <=> Matching!AcceptsBy(Matching!Meaning, u, v) /\ (n.min = 0 \/ v[1] # "string" \/ v[2] # "")
    BY <1>2 DEF Matching!AcceptsBy
  <1> QED
    BY <1>1, <1>3, <1>4 DEF n, u

LEMMA ArgumentIsSound ==
  ASSUME NEW s \in Schema, NEW t \in Schema, NEW v \in Instance, Matching!Accepts(s, v), Matching!ArgumentFits(s, t)
  PROVE  Matching!Accepts(t, v)
  <1> DEFINE n == Matching!Normalized[s]
             m == Matching!Normalized[t]
  <1>1. n.min >= m.min /\ Matching!Compatible(Matching!Unbounded(n), Matching!Unbounded(m))
    BY DEF Matching!ArgumentFits
  <1>2. n.min \in Nat /\ m.min \in Nat
    BY NormalFields, MatchingAssumption DEF Matching!MatchingAssumption
  <1>3. Matching!Accepts(n, v)
    BY NormalMeansTheSame
  <1>4. Matching!Accepts(Matching!Unbounded(n), v) /\ (n.min = 0 \/ v[1] # "string" \/ v[2] # "")
    BY <1>3, UnboundedFact
  <1>5. Matching!Accepts(Matching!Unbounded(m), v)
    BY <1>1, <1>4, UnboundedFact, CompatibleIsSound
  <1>6. Matching!Accepts(m, v)
    <2>1. m.min = 0 \/ v[1] # "string" \/ v[2] # ""
      <3>1. n.min = 0 => m.min = 0
        <4>1. \A x, y \in Nat : x >= y /\ x = 0 => y = 0
          OBVIOUS
        <4>2. n.min >= m.min
          BY <1>1
        <4> HIDE DEF n, m
        <4> QED
          BY <1>2, <4>1, <4>2
      <3> QED
        BY <1>4, <3>1
    <2>2. Matching!Accepts(m, v) <=> Matching!Accepts(Matching!Unbounded(m), v) /\ (m.min = 0 \/ v[1] # "string" \/ v[2] # "")
      BY UnboundedFact
    <2> HIDE DEF m
    <2> QED
      BY <1>5, <2>1, <2>2
  <1> QED
    BY <1>6, NormalMeansTheSame

\* A function that was called for an edge answered by its schema.
AnswerInv == \A v \in answer : Matching!Accepts(output, v)

MatchingInv == Matching!TypeOK /\ AnswerInv

LEMMA InitMatching == Matching!Init => MatchingInv
  BY MatchingAssumption
  DEF Matching!Init, MatchingInv, AnswerInv, Matching!TypeOK, Matching!Several, Matching!MatchingAssumption

LEMMA MatchingStep == MatchingInv /\ [Matching!Next]_matching => MatchingInv'
  <1> SUFFICES ASSUME MatchingInv, [Matching!Next]_matching  PROVE MatchingInv'
    OBVIOUS
  <1>1. CASE Matching!Offer
    <2>1. answer' = {} /\ {output', parameter'} \subseteq Schema
      BY <1>1, MatchingAssumption DEF Matching!Offer, Matching!MatchingAssumption
    <2> QED
      BY <2>1 DEF MatchingInv, AnswerInv, Matching!TypeOK, Matching!Several
  <1>2. CASE Matching!Call
    <2>1. PICK v \in Instance : Matching!Accepts(output, v) /\ answer' = {v}
      BY <1>2 DEF Matching!Call
    <2>2. output' = output /\ parameter' = parameter
      BY <1>2 DEF Matching!Call
    <2>3. Matching!TypeOK'
      BY <2>1, <2>2 DEF MatchingInv, Matching!TypeOK, Matching!Several
    <2>4. AnswerInv'
      BY <2>1, <2>2 DEF AnswerInv, Matching!Accepts, Matching!Meaning
    <2> QED
      BY <2>3, <2>4 DEF MatchingInv
  <1>3. CASE UNCHANGED matching
    BY <1>3 DEF matching, MatchingInv, AnswerInv, Matching!TypeOK, Matching!Accepts, Matching!Meaning
  <1> QED
    BY <1>1, <1>2, <1>3 DEF Matching!Next, matching

LEMMA MatchingInvariance == Matching!Spec => []MatchingInv
  <1> QED
    BY InitMatching, MatchingStep, PTL DEF Matching!Spec, Matching!vars, matching

\* A schema and a parameter are schemas, and a function answers once, with a JSON value, for any schemas
\* nested to any depth: component_matching.py looks at nothing else.
THEOREM MatchingTypes == Matching!Spec => []Matching!TypeOK
  <1>1. MatchingInv => Matching!TypeOK
    BY DEF MatchingInv
  <1> QED
    BY <1>1, MatchingInvariance, PTL

\* An edge component_matching.py draws carries every value the function may answer, for any schemas
\* nested to any depth and any JSON values.
THEOREM DrawnEdgesAreSound == Matching!Spec => []EdgesAreSound
  <1>1. MatchingInv => EdgesAreSound
    <2> SUFFICES ASSUME MatchingInv, NEW v \in answer
                 PROVE  /\ Matching!Connects(output, parameter) /\ v[1] = "object" => Matching!Accepts(parameter, v[2][Value])
                        /\ Matching!ArgumentFits(output, parameter) => Matching!Accepts(parameter, v)
      BY DEF EdgesAreSound, Matching!EdgesAreSound
    <2>1. output \in Schema /\ parameter \in Schema /\ v \in Instance /\ Matching!Accepts(output, v)
      BY DEF MatchingInv, AnswerInv, Matching!TypeOK
    <2> QED
      BY <2>1, ConnectsIsSound, ArgumentIsSound
  <1> QED
    BY <1>1, MatchingInvariance, PTL

================================================================================
