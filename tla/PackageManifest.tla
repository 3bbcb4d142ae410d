---------------------------- MODULE PackageManifest ----------------------------
(***************************************************************************)
(* package.yaml and its two readers.  The tooling validates all of it when *)
(* a product is generated (framework/spec); the running backend, which     *)
(* cannot import the tooling, validates again the part activation needs    *)
(* (template/codegen_kit/packages.py).  A manifest is a function from the  *)
(* fields it gives to their values, as YAML leaves it: a field, nested or  *)
(* not, may be absent, unknown or of the wrong form.                       *)
(***************************************************************************)
EXTENDS Naturals, Sequences, SequencesExt

CONSTANTS
    GoodPrefix, GoodSchema, GoodResource,   \* texts of the right form
    Core                                    \* requirements that admit this core

Fields == {"protocol_version", "name", "version", "requires_core", "provides", "requires",
           "package_dependencies", "http", "database", "events", "settings_schema",
           "setting_seeds", "jobs_schema", "timers", "deployment", "environment", "resources",
           "actions", "default_binding"}

Mandatory == {"protocol_version", "name", "version", "requires_core", "http"}

Has(m, f) == f \in DOMAIN m

Default(m, f, value) == IF Has(m, f) THEN m[f] ELSE value

Nothing == [sound |-> TRUE, properties |-> [x \in {} |-> {}]]    \* empty_declaration_schema

TimerSeconds == 10 .. 86400

-------------------------------------------------------------------------------
(* The tooling: framework/spec/packages.py. *)

PrefixAccepted(http) == DOMAIN http = {"prefix"} /\ http.prefix \in GoodPrefix

\* The schema may also stand under its Python name.
DatabaseAccepted(d) ==
    /\ DOMAIN d \in {{"schema", "migrations"}, {"schema_name", "migrations"}}
    /\ (IF Has(d, "schema") THEN d.schema ELSE d.schema_name) \in GoodSchema
    /\ d.migrations \in GoodResource

\* A message is sound when its schema is an object's and its model an identifier; its recipient,
\* when it names one, must be a required string field.
EventsAccepted(e) ==
    /\ IsInjective(e.publishes) /\ IsInjective(e.consumes)
    /\ DOMAIN e.messages = ToSet(e.publishes \o e.consumes)
    /\ \A name \in DOMAIN e.messages :
        e.messages[name].sound /\ e.messages[name].recipient \subseteq e.messages[name].required

\* Named lists of provided and required capabilities, variables, resources and actions.
NamedAccepted(m) ==
    \A f \in {"provides", "requires", "environment", "resources", "actions"} \cap DOMAIN m :
        /\ IsInjective([i \in DOMAIN m[f] |-> m[f][i].name])
        /\ \A i \in DOMAIN m[f] : m[f][i].sound

\* An action's schemas are inline and typed, its input an object, and each parameter of its path a
\* required input.
ActionsAccepted(m) ==
    \A i \in DOMAIN Default(m, "actions", <<>>) :
        m.actions[i].typed /\ m.actions[i].path \subseteq m.actions[i].required

DeploymentAccepted(d) ==
    /\ DOMAIN d \subseteq {"modes"}
    /\ Has(d, "modes") => d.modes = <<"in_process">>

DeclaredIn(m, f) == DOMAIN Default(m, f, Nothing).properties

SeedsAccepted(m) ==
    LET seeds == Default(m, "setting_seeds", <<>>) IN
    /\ IsInjective(seeds)
    /\ \A i \in DOMAIN seeds :
        /\ DOMAIN seeds[i] = {"key", "scope"} /\ seeds[i].scope = "product"
        /\ seeds[i].key # "" /\ seeds[i].key \in DeclaredIn(m, "settings_schema")

JobsAccepted(m) ==
    \A j \in DeclaredIn(m, "jobs_schema") : m.jobs_schema.properties[j] \in {"closed", "at"}

TimersAccepted(m) ==
    LET timers == Default(m, "timers", <<>>) IN
    /\ IsInjective([i \in DOMAIN timers |-> timers[i].job])
    /\ \A i \in DOMAIN timers :
        /\ timers[i].job \in DeclaredIn(m, "jobs_schema")
        /\ timers[i].every_seconds \in TimerSeconds
        /\ m.jobs_schema.properties[timers[i].job] = "at"

\* _validate_declaration_schema: the Draft 2020-12 meta-schema, a closed object, no required, named
\* object entries and no reference; here in one word, sound.
DeclarationAccepted(m, f) == Default(m, f, Nothing).sound

\* parse_package_manifest
BuildAccepts(m) ==
    /\ Mandatory \subseteq DOMAIN m /\ DOMAIN m \subseteq Fields
    /\ m.protocol_version = 1 /\ m.name # "" /\ m.version # ""
    /\ PrefixAccepted(m.http)
    /\ Has(m, "database") => DatabaseAccepted(m.database)
    /\ Has(m, "events") => EventsAccepted(m.events)
    /\ NamedAccepted(m) /\ ActionsAccepted(m)
    /\ DeclarationAccepted(m, "settings_schema") /\ DeclarationAccepted(m, "jobs_schema")
    /\ SeedsAccepted(m) /\ JobsAccepted(m) /\ TimersAccepted(m)
    /\ Has(m, "deployment") => DeploymentAccepted(m.deployment)
    /\ Has(m, "default_binding") => m.default_binding \in GoodResource

-------------------------------------------------------------------------------
(* The backend: template/codegen_kit/packages.py. *)

\* Mutant: a field the tooling has come to know is unknown here.
RuntimeFieldsStale == Fields \ {"default_binding"}

RuntimeFields == Fields

RuntimePrefix(m) == Has(m, "http") /\ Has(m.http, "prefix") /\ m.http.prefix \in GoodPrefix

RuntimeDatabase(m) ==
    Has(m, "database") =>
        /\ Has(m.database, "schema") /\ m.database.schema \in GoodSchema
        /\ Has(m.database, "migrations") /\ m.database.migrations \in GoodResource

RuntimeDeployment(m) ==
    Has(m, "deployment") => DOMAIN m.deployment = {"modes"} /\ m.deployment.modes = <<"in_process">>

RuntimeSeeds(m) ==
    LET seeds == Default(m, "setting_seeds", <<>>) IN
    seeds # <<>> =>
        /\ Has(m, "settings_schema")
        /\ IsInjective(seeds)
        /\ \A i \in DOMAIN seeds :
            /\ DOMAIN seeds[i] = {"key", "scope"} /\ seeds[i].scope = "product"
            /\ seeds[i].key # "" /\ seeds[i].key \in DOMAIN m.settings_schema.properties

RuntimeAccepts(m) ==
    /\ Mandatory \ {"http"} \subseteq DOMAIN m /\ DOMAIN m \subseteq RuntimeFields
    /\ m.name # "" /\ m.version # ""
    /\ RuntimeDatabase(m) /\ RuntimePrefix(m) /\ RuntimeDeployment(m) /\ RuntimeSeeds(m)

\* _validate_compatibility
Compatible(m) == m.protocol_version = 1 /\ m.requires_core \in Core

===============================================================================
