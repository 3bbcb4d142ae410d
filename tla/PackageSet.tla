------------------------------- MODULE PackageSet -------------------------------
(***************************************************************************)
(* The active package set: what the build-time resolver and the loader     *)
(* accept, what the environment contract accepts, and what the backend's   *)
(* own activation and migrations accept.  "env" maps a package to the      *)
(* version installed in services/backend, 0 for none.                      *)
(***************************************************************************)
EXTENDS HostContract

CONSTANTS
    Version,      \* released versions, newer ones larger
    Meta,         \* Meta[p][v]: package.yaml of version v of package p
    NoSchema,     \* a package without a database
    AnySource,    \* an environment requirement without a platform source
    Provided,     \* capabilities and events services provide, job_fired among them
    Declared,     \* the product's own environment contract: name and source
    ToolCore,     \* CORE_VERSION of the tooling
    ProductCore   \* CORE_VERSION of the product's facade

ASSUME SetAssumption ==
    /\ Version \subseteq Nat \ {0}
    /\ ToolCore \in Nat /\ ProductCore \in Nat

Installed(env) == {p \in Package : env[p] # 0}
Manifest(env, p) == Meta[p][env[p]]

-------------------------------------------------------------------------------
(* Build time. *)

Resolves(listed, env) ==
    /\ Installed(env) = listed
    /\ \A p \in listed : ToolCore \in Manifest(env, p).core

\* Capabilities, published events and schemas have one owner each; what is
\* required or consumed is provided by someone.
Merges(listed, env) ==
    /\ \A p \in listed :
        /\ Manifest(env, p).owns \cap Provided = {}
        /\ \A n \in Manifest(env, p).needs :
            n \in Provided \/ \E q \in listed : n \in Manifest(env, q).owns
    /\ \A p, q \in listed : p # q =>
        /\ Manifest(env, p).owns \cap Manifest(env, q).owns = {}
        /\ \/ Manifest(env, p).schema = NoSchema
           \/ Manifest(env, p).schema # Manifest(env, q).schema

Requirements(listed, env) == UNION {Manifest(env, p).environment : p \in listed}

\* One variable is asked of one platform source, and the product's own
\* declaration of it names that source.
EnvironmentFits(listed, env) ==
    \A r, s \in Requirements(listed, env) \cup Declared :
        \/ r.name # s.name \/ r.source = s.source
        \/ AnySource \in {r.source, s.source}

-------------------------------------------------------------------------------
(* Run time: configure_generated_packages and the package migrations.      *)

DistinctPrefixes(listed, env) ==
    \A p, q \in listed : p # q => Manifest(env, p).prefix # Manifest(env, q).prefix

DistinctSchemas(listed, env) ==
    \A p, q \in listed : p # q =>
        \/ Manifest(env, p).schema = NoSchema
        \/ Manifest(env, p).schema # Manifest(env, q).schema

Activates(listed, env, generated) ==
    /\ Installed(env) = listed
    /\ \A p \in listed : ProductCore \in Manifest(env, p).core
    /\ DistinctPrefixes(listed, env)
    /\ \A p \in Package : generated[p] = env[p]

Migrates(listed, env, generated) ==
    Activates(listed, env, generated) /\ DistinctSchemas(listed, env)
================================================================================
