------------------------------ MODULE HostContract ------------------------------
(***************************************************************************)
(* framework/host_contract.py as operators: who claims a bot command, who  *)
(* owns the settings that bindings share, and which breaches the author of *)
(* the product can repair.  Generation, "kit add", "kit bind" and "kit     *)
(* check-install" all evaluate it, each with binding files of its own.  A  *)
(* package is the number of its binding file in file-name order.           *)
(***************************************************************************)
EXTENDS Naturals

CONSTANTS
    Package,      \* packages, numbered by the names of their binding files
    Binding,      \* bindings: package defaults and overrides of the product
    NoBinding,    \* no binding file, or no default binding
    Content,      \* Content[b]: what the binding b declares
    Command,      \* bot commands
    Reserved,     \* RESERVED_COMMANDS
    Key,          \* names of settings
    NoKey,        \* the key of a binding without timezone, or without language
    LanguageKey   \* the setting core owns

ASSUME HostAssumption ==
    /\ Package \subseteq Nat
    /\ NoBinding \notin Binding /\ NoKey \notin Key
    /\ Reserved \subseteq Command /\ LanguageKey \in Key
    /\ \A b \in Binding : Content[b].zone \in Key \cup {NoKey}

Files == [Package -> Binding \cup {NoBinding}]
BoundIn(files) == {p \in Package : files[p] # NoBinding}

\* What the product's own files may break, whatever is bound.
ManifestFault == {"manifest_invalid", "core_setting_redeclared"}
Fault == ManifestFault \cup {"unsupported_product_command", "registration_bypass"}

GlueCodes == (Fault \ {"manifest_invalid"}) \cup {"command_collision"}

-------------------------------------------------------------------------------
(* Commands: core's own, the product's, and those of the binding files. *)

Claimants(files, commands, c) ==
    {<<"core">> : r \in {c} \cap Reserved}
        \cup {<<"product">> : r \in {c} \cap commands}
        \cup {<<"package", p>> : p \in {q \in BoundIn(files) : c \in Content[files[q]].commands}}

Collision(files, commands, c) ==
    \E x, y \in Claimants(files, commands, c) : x # y

-------------------------------------------------------------------------------
(* Settings: language is core's, and all bindings share one timezone key. *)

Zone(files, p) == IF files[p] = NoBinding THEN NoKey ELSE Content[files[p]].zone
Language(files, p) == IF files[p] = NoBinding THEN NoKey ELSE Content[files[p]].language

LanguageElsewhere(files, p) == Language(files, p) \notin {NoKey, LanguageKey}

\* A timezone no rule but the common key can refuse.
Ordinary(files, p) == Zone(files, p) \notin {NoKey, LanguageKey, Language(files, p)}

\* The first file with an ordinary timezone settles the key for the others.
Leads(files, p) ==
    /\ Ordinary(files, p)
    /\ \A q \in Package : Ordinary(files, q) => p <= q

ZoneConflict(files, p) ==
    /\ Zone(files, p) # NoKey
    /\ \/ ~Ordinary(files, p)
       \/ \E q \in Package : Leads(files, q) /\ Zone(files, q) # Zone(files, p)

-------------------------------------------------------------------------------
(* retained: the packages whose binding is a file of the product, not a    *)
(* prospective default; their settings are the product's to repair.        *)

SettingOwner(retained, p) == IF p \in retained THEN "product" ELSE "package"

Violations(files, retained, commands, faults) ==
    {[code |-> f, owner |-> "service"] : f \in faults \cap ManifestFault}
    \cup {[code |-> f, owner |-> "product"] : f \in faults \ ManifestFault}
    \cup {[code |-> "command_collision", owner |-> "product"] :
            c \in {d \in Command : Collision(files, commands, d)}}
    \cup {[code |-> "binding_language_owner", owner |-> SettingOwner(retained, p)] :
            p \in {q \in Package : LanguageElsewhere(files, q)}}
    \cup {[code |-> "binding_setting_conflict", owner |-> SettingOwner(retained, p)] :
            p \in {q \in Package : ZoneConflict(files, q)}}

\* preflight.evaluate_install: what no edit of the product can repair.
Unresolvable(violation) ==
    violation.code \notin GlueCodes /\ violation.owner # "product"
================================================================================
