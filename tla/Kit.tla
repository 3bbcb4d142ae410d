---------------------------------- MODULE Kit ----------------------------------
(***************************************************************************)
(* What the kit does to a product and what a backend makes of it: the      *)
(* commands that install packages, the checks between a package's source,  *)
(* its generation and the start of a process, the catalog packages come    *)
(* from, the merge of their declarations, the matching of components, the  *)
(* environment contract they lead to, and the ranking package.             *)
(* The first looks at sets of sound packages, the second into their        *)
(* manifests; the parts share no state.                                    *)
(***************************************************************************)
EXTENDS PackageInstall

(* Activation: the allowlist and the record of the generation are named apart from an installation's. *)
CONSTANTS
    Base,            \* wheels as they should be, one of each package
    Alternatives,    \* Alternatives[f]: other values a manifest field may be given
    MaxChanges,      \* bound: changes of wheels and lists
    GoodPrefix, GoodSchema, GoodResource,   \* texts of the right form
    Core             \* requirements that admit this core

VARIABLES site, allowed, generated, changes

Activation == INSTANCE PackageActivation WITH listed <- allowed, lock <- generated

activation == <<site, allowed, generated, changes>>

ASSUME ActivationAssumption == Activation!BaseAssumption

-------------------------------------------------------------------------------
(* The catalog. *)
CONSTANTS
    Title,           \* names of components
    Distribution,    \* spellings of their distributions' names
    Known, First,    \* versions, and those a component may start with
    Host,            \* versions a release may admit
    MaxEdits         \* bound: edits of the catalog

VARIABLES catalog, edits

Listing == INSTANCE Catalog WITH Name <- Title, Version <- Known

listing == <<catalog, edits>>

ASSUME ListingAssumption == Listing!CatalogAssumption

-------------------------------------------------------------------------------
(* The environment contract of a product and of its packages. *)
CONSTANTS
    Owners,          \* files of the product's own
    Variable,        \* environment variables
    Declaration,     \* entries an author writes
    Requiring,       \* lists of packages, by what each requires
    Use,             \* what the source reads
    MaxRewrites      \* bound: edits of the product

VARIABLES entries, wanted, uses, kept, madeFor, rewrites

Environment == INSTANCE EnvContract WITH
    Name <- Variable, PackageSet <- Requiring, MaxEdits <- MaxRewrites,
    declared <- entries, packages <- wanted, fragment <- kept, edits <- rewrites

environment == <<entries, wanted, uses, kept, madeFor, rewrites>>

ASSUME EnvironmentAssumption == Environment!ContractAssumption

-------------------------------------------------------------------------------
(* The ranking package. *)
CONSTANTS
    Post, Weights, Keyword, Count,   \* posts and values of the settings
    MaxPosts                         \* bound: posts of one answer

VARIABLES copy, posts, shown

Ranked == INSTANCE Ranking WITH answer <- shown

ranked == <<copy, posts, shown>>

ASSUME RankedAssumption == Ranked!RankingAssumption

-------------------------------------------------------------------------------
(* The specification of a product, merged from its packages. *)
CONSTANTS
    Declarations,    \* what a package's manifest declares
    Own,             \* what the product itself declares
    Identifier(_),   \* the generated identifier of an event's name
    MaxPackages      \* bound: packages of one product

VARIABLES
    ours, theirs     \* the declarations of the product and of its packages

Merging == INSTANCE SpecMerge WITH Package <- Declarations, Product <- Own, product <- ours, packages <- theirs

merging == <<ours, theirs>>

ASSUME MergingAssumption == Merging!MergeAssumption

-------------------------------------------------------------------------------
(* The matching of components by the schemas of what they return and accept. *)
CONSTANTS
    Schema, Depth,       \* JSON Schemas, and how deep each is nested
    MaxDepth,            \* bound on that
    Output, Parameter,   \* those of the functions and of the actions
    Value,               \* the property a function names as its value
    Instance             \* JSON values

VARIABLES output, parameter, answer

Matching == INSTANCE ComponentMatching

matching == <<output, parameter, answer>>

ASSUME MatchingAssumption == Matching!MatchingAssumption

-------------------------------------------------------------------------------
(* The properties of the parts. *)

\* An edge drawn between two components carries every value its source can give.
EdgesAreSound == Matching!EdgesAreSound

\* What verification accepts resolves, and what generation accepts activates, up to named differences.
CheckedOnceIsAccepted == Activation!CheckedOnceIsAccepted

\* A backend that starts runs only manifests the whole of package.yaml was checked in.
StartsOnlyChecked == Activation!StartsOnlyChecked

\* The release a catalog resolves a name to is its newest one the host admits.
SelectionIsNewest == Listing!SelectionIsNewest

\* An artifact of the environment contract holds what the packages of its fragment require.
ArtifactMeetsRequirements == Environment!ArtifactMeetsRequirements

\* The merge of the packages' declarations does not depend on the order of the packages.
MergeIsOrderFree == Merging!MergeIsOrderFree

\* A top does not depend on the order the provider answered in.
TopIsReproducible == Ranked!TopIsReproducible
================================================================================
