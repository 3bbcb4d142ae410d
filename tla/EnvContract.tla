------------------------------- MODULE EnvContract -------------------------------
(***************************************************************************)
(* The environment contract of a product: declarations in the product's    *)
(* own env.contract.yaml files, the fragment generated for its packages'   *)
(* requirements (framework/generators/package_environment.py), and the     *)
(* artifact a build makes of all of them (framework/contracts).  The       *)
(* fragment is written by one command and read by another: the product may *)
(* be edited in between.  Lists of an entry are sets here.                 *)
(***************************************************************************)
EXTENDS Naturals, Sequences, SequencesExt

CONSTANTS
    Owners,         \* how many files the product itself has, in the order of their owners
    Name,           \* environment variables
    Declaration,    \* entries an author writes, see Valid
    PackageSet,     \* lists of packages: sequences of sets of requirements [name, required, source],
                    \* where source is {} or {[kind, detail]}, of the platform
    Use,            \* what the source reads: pairs of a variable and where it is read
    MaxEdits        \* bound on the author's edits

ContractAssumption ==
    /\ Owners \in Nat /\ MaxEdits \in Nat
    /\ \A list \in PackageSet : \A i \in DOMAIN list : \A r \in list[i] : \A s, t \in r.source : s = t

VARIABLES
    declared,       \* the entries of each file, functions from names
    packages,       \* the active packages' requirements
    uses,           \* what the source reads
    fragment,       \* services/backend/packages/env.contract.yaml: <<>> or <<entries>>
    madeFor,        \* the packages it was generated for
    edits

vars == <<declared, packages, uses, fragment, madeFor, edits>>

Entries == UNION {[N -> Declaration] : N \in SUBSET Name}

TypeOK ==
    /\ declared \in [1..Owners -> Entries]
    /\ packages \in PackageSet \cup {<<>>} /\ madeFor \in PackageSet \cup {<<>>}
    /\ uses \subseteq Use
    /\ fragment = <<>> \/ fragment = <<fragment[1]>>
    /\ edits \in 0..MaxEdits

-------------------------------------------------------------------------------
(* env_contract.py *)

Secret == {"user_secret", "generated_secret", "platform_key"}
Detailed == {"allocation", "literal", "platform_key", "platform_base_url"}

\* "detail" stands for the fields only one source has: a selector, a value, a platform grant or URL.
Valid(e) ==
    /\ e.environments # {}
    /\ e.source = "user_secret" => e.consumers # {} /\ e.description # ""
    /\ e.source # "allocation" => e.sensitive = (e.source \in Secret)
    /\ (e.detail # "none") = (e.source \in Detailed)

FragmentValid(entries) == \A n \in DOMAIN entries : Valid(entries[n])

\* Mutant: two declarations of one source are taken for one.
AgreeOnSource(one, other) ==
    \A n \in DOMAIN one \cap DOMAIN other : one[n].source = other[n].source

Agree(one, other) == \A n \in DOMAIN one \cap DOMAIN other : one[n] = other[n]

\* merge_env_contract_fragments: the later owner's entry stands, which is the same one.
Merges(fragments) == \A one, other \in ToSet(fragments) : Agree(one, other)
Merged(fragments) ==
    LET last(n) == CHOOSE i \in DOMAIN fragments :
            /\ n \in DOMAIN fragments[i]
            /\ \A j \in DOMAIN fragments : n \in DOMAIN fragments[j] => j <= i
    IN [n \in UNION {DOMAIN fragments[i] : i \in DOMAIN fragments} |-> fragments[last(n)][n]]

-------------------------------------------------------------------------------
(* PackageEnvironmentGenerator reads the product's own files and never its own fragment. *)

Wanted(list) == UNION ToSet(list)
WantedNames(list) == {r.name : r \in Wanted(list)}

\* _requirements: one platform source at most, and required if a package requires it.
SourcesAgree(list) ==
    \A r, q \in Wanted(list) : r.name = q.name /\ r.source # {} /\ q.source # {} => r.source = q.source
Requirement(list, n) ==
    [required |-> \E r \in Wanted(list) : r.name = n /\ r.required,
     source |-> UNION {r.source : r \in {q \in Wanted(list) : q.name = n}}]

\* _require_compatible and _require_matching_source, for an entry the product declares.
Meets(e, requirement) ==
    /\ {"local", "production"} \subseteq e.environments
    /\ "backend" \in e.consumers
    /\ requirement.required => e.required
    /\ \A s \in requirement.source : e.source = s.kind /\ e.detail = s.detail

\* The entry of a requirement the product does not declare.
EntryFor(requirement) ==
    LET platform(field, default) ==
            IF requirement.source = {} THEN default ELSE (CHOOSE s \in requirement.source : TRUE)[field]
    IN [source |-> platform("kind", "user_secret"), environments |-> {"local", "production"},
        consumers |-> {"backend"}, required |-> requirement.required,
        description |-> "required by packages", detail |-> platform("detail", "none"),
        sensitive |-> platform("kind", "platform_key") = "platform_key"]

Generates ==
    /\ \A i \in DOMAIN declared : FragmentValid(declared[i])
    /\ Merges(declared) /\ SourcesAgree(packages)
    /\ \A n \in WantedNames(packages) \cap DOMAIN Merged(declared) :
        Meets(Merged(declared)[n], Requirement(packages, n))

NewFragment ==
    [n \in WantedNames(packages) |->
        IF n \in DOMAIN Merged(declared) THEN Merged(declared)[n] ELSE EntryFor(Requirement(packages, n))]

-------------------------------------------------------------------------------
(* check_env_contract_usage and the artifact *)

All == declared \o fragment
Contract == Merged(All)

\* Uses in shell scripts and workflows only warn.
Undeclared == {u \in uses : u[1] \notin DOMAIN Contract /\ u[2] \notin {"shell", "workflow"}}

Builds ==
    /\ \A i \in DOMAIN All : FragmentValid(All[i])
    /\ Merges(All) /\ Undeclared = {}

-------------------------------------------------------------------------------
Init ==
    /\ declared = [i \in 1..Owners |-> [n \in {} |-> n]]
    /\ packages = <<>> /\ madeFor = <<>>
    /\ uses = {} /\ fragment = <<>> /\ edits = 0

Edit == edits < MaxEdits /\ edits' = edits + 1 /\ UNCHANGED <<fragment, madeFor>>

Declare(i, n) ==
    /\ Edit
    /\ \E e \in Declaration :
        declared' = [declared EXCEPT ![i] = [m \in DOMAIN @ \cup {n} |-> IF m = n THEN e ELSE @[m]]]
    /\ UNCHANGED <<packages, uses>>

Withdraw(i, n) ==
    /\ n \in DOMAIN declared[i] /\ Edit
    /\ declared' = [declared EXCEPT ![i] = [m \in DOMAIN @ \ {n} |-> @[m]]]
    /\ UNCHANGED <<packages, uses>>

ListPackages ==
    /\ Edit /\ packages' \in PackageSet /\ packages' # packages
    /\ UNCHANGED <<declared, uses>>

Read ==
    /\ Edit /\ \E u \in Use \ uses : uses' = uses \cup {u}
    /\ UNCHANGED <<declared, packages>>

\* Without packages the file is removed; a refusal writes nothing.
Generate ==
    /\ packages = <<>> \/ Generates
    /\ fragment' = IF packages = <<>> THEN <<>> ELSE <<NewFragment>>
    /\ madeFor' = packages
    /\ UNCHANGED <<declared, packages, uses, edits>>

Next ==
    \/ \E i \in 1..Owners, n \in Name : Declare(i, n) \/ Withdraw(i, n)
    \/ ListPackages \/ Read \/ Generate

Spec == Init /\ [][Next]_vars

-------------------------------------------------------------------------------
\* An artifact that is built holds what the packages of the fragment require, whatever the author
\* declared, moved or withdrew since it was generated, and it is the one a fresh generation would
\* lead to, except for variables the product no longer declares and the fragment remembers.
ArtifactMeetsRequirements ==
    Builds =>
        /\ \A n \in WantedNames(madeFor) :
            n \in DOMAIN Contract /\ Meets(Contract[n], Requirement(madeFor, n))
        /\ packages = madeFor /\ packages # <<>> /\ Generates =>
            LET fresh == Merged(Append(declared, NewFragment)) IN
            /\ DOMAIN fresh = DOMAIN Contract
            /\ \A n \in DOMAIN fresh : fresh[n] = Contract[n] \/ n \notin DOMAIN Merged(declared)
===============================================================================
