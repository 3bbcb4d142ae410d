-------------------------------- MODULE Catalog --------------------------------
(***************************************************************************)
(* framework/catalog.py: the list of released packages, libraries and      *)
(* extensions, edited by hand, admitted by parse_catalog, and asked for a  *)
(* component by name and for its newest release a host admits.  A refusal  *)
(* is one outcome here; its wording and its class are left out.            *)
(***************************************************************************)
EXTENDS Naturals, Sequences, SequencesExt

CONSTANTS
    Name,            \* names of components
    Distribution,    \* [canonical, text]: spellings of distribution names
    Version,         \* [text, key, canonical, pre]: version texts, ordered by key
    First,           \* those a component may start with
    Host,            \* versions of the core or of Python
    MaxEdits         \* bound on the edits of the maintainer

CatalogAssumption ==
    /\ First \subseteq Version /\ MaxEdits \in Nat
    /\ \A v \in Version : v.key \in Nat

VARIABLES
    catalog,         \* [format, packages, libraries, extensions]
    edits

vars == <<catalog, edits>>

Lists == {"packages", "libraries", "extensions"}

(* An entry.  blank holds its mandatory fields left empty. *)
Entry(n, d, r) ==
    [name |-> n, distribution |-> d, blank |-> {}, settings |-> <<>>, actions |-> <<>>,
     recommended_with |-> <<>>, versions |-> <<r>>, extends |-> <<>>]

ReleaseOf(n, v, hosts) == [version |-> v, tag |-> <<n, v.text>>, hosts |-> hosts, range |-> TRUE]

\* An action or function: its input is an object declaring what it requires, its value a required
\* property of a function's output.
Sound == [name |-> "act", input |-> TRUE, value |-> TRUE]
Action == {Sound, [Sound EXCEPT !.name = "look"], [Sound EXCEPT !.input = FALSE], [Sound EXCEPT !.value = FALSE]}

TypeOK ==
    LET release == [version : Version, tag : {<<n, v.text>> : n \in Name, v \in Version},
                    hosts : SUBSET Host, range : BOOLEAN]
        entry == [name : Name, distribution : Distribution, blank : SUBSET {"summary", "capabilities"},
                  settings : Seq({"zone"}), actions : Seq(Action), recommended_with : Seq(Name),
                  versions : Seq(release), extends : {<<>>} \cup (Name \X BOOLEAN)]
    IN /\ catalog \in [format : {1, 2}, packages : Seq(entry), libraries : Seq(entry), extensions : Seq(entry)]
       /\ edits \in 0..MaxEdits

Unique(names) == IsInjective(names)

Names(seq) == [i \in DOMAIN seq |-> seq[i].name]

-------------------------------------------------------------------------------
(* parse_catalog *)

VersionAccepted(r, n) == r.version.canonical /\ r.tag = <<n, r.version.text>> /\ r.range

ActionsAccepted(e, kind) ==
    /\ \A i \in DOMAIN e.actions : e.actions[i].input /\ (kind = "libraries" => e.actions[i].value)
    /\ Unique(Names(e.actions))

\* Mutant: versions are told apart by their text, as a library's are.
DistinctText(e) == Unique([i \in DOMAIN e.versions |-> e.versions[i].version.text])

Distinct(e) == Unique([i \in DOMAIN e.versions |-> e.versions[i].version.key])

LibraryAccepted(e) ==
    /\ e.blank \subseteq {"capabilities"}
    /\ e.versions # <<>> /\ \A i \in DOMAIN e.versions : VersionAccepted(e.versions[i], e.name)
    /\ Unique([i \in DOMAIN e.versions |-> e.versions[i].version.text])
    /\ e.actions # <<>> /\ ActionsAccepted(e, "libraries")

PackageAccepted(e) ==
    /\ e.blank = {}
    /\ Unique(e.settings)
    /\ e.versions # <<>> /\ \A i \in DOMAIN e.versions : VersionAccepted(e.versions[i], e.name)
    /\ Distinct(e)
    /\ ActionsAccepted(e, "packages")
    /\ Unique(e.recommended_with)

ExtensionAccepted(e) ==
    /\ PackageAccepted(e)
    /\ e.extends # <<>> /\ e.extends[1] \in ToSet(Names(catalog.packages)) /\ e.extends[2]

Components == catalog.packages \o catalog.libraries \o catalog.extensions

\* _component_identities
IdentitiesDiffer ==
    /\ Unique(Names(Components))
    /\ Unique([i \in DOMAIN Components |-> Components[i].distribution.canonical])
    /\ \A e \in ToSet(catalog.packages \o catalog.extensions) :
        ToSet(e.recommended_with) \subseteq ToSet(Names(catalog.libraries))

Accepted ==
    /\ catalog.format = 1
    /\ \A e \in ToSet(catalog.packages) : e.extends = <<>> /\ PackageAccepted(e)
    /\ \A e \in ToSet(catalog.libraries) : LibraryAccepted(e)
    /\ \A e \in ToSet(catalog.extensions) : ExtensionAccepted(e)
    /\ IdentitiesDiffer

-------------------------------------------------------------------------------
(* Questions to a catalog. *)

\* The component of a name and the list it stands in: libraries, then extensions, then packages.
Component(n) ==
    LET found(k) == {i \in DOMAIN catalog[k] : catalog[k][i].name = n}
        kind == IF found("libraries") # {} THEN "libraries"
                ELSE IF found("extensions") # {} THEN "extensions" ELSE "packages"
    IN IF found(kind) = {} THEN <<>>
       ELSE <<kind, catalog[kind][CHOOSE i \in found(kind) : \A j \in found(kind) : i <= j]>>

\* The places of the releases a host admits.
Compatible(kind, e, host) ==
    {i \in DOMAIN e.versions :
        host \in e.versions[i].hosts /\ (kind = "libraries" => ~e.versions[i].version.pre)}

\* max keeps the first of equals.
Newer(e, i, j) ==
    \/ e.versions[j].version.key < e.versions[i].version.key
    \/ e.versions[j].version.key = e.versions[i].version.key /\ i < j
Newest(e, places) == e.versions[CHOOSE i \in places : \A j \in places \ {i} : Newer(e, i, j)]

Select(kind, e, host) ==
    LET compatible == Compatible(kind, e, host)
    IN IF compatible = {} THEN {} ELSE {Newest(e, compatible)}

-------------------------------------------------------------------------------
(* The maintainer. *)

Init ==
    /\ catalog = [format |-> 1, packages |-> <<>>, libraries |-> <<>>, extensions |-> <<>>]
    /\ edits = 0

Edit == edits < MaxEdits /\ edits' = edits + 1

Add(kind) ==
    /\ Edit
    /\ Len(catalog[kind]) < 2
    /\ \E n \in Name, d \in Distribution, v \in First,
          parent \in IF kind = "extensions" THEN Name \X BOOLEAN ELSE {<<>>} :
        catalog' = [catalog EXCEPT ![kind] = Append(@,
            [Entry(n, d, ReleaseOf(n, v, Host)) EXCEPT
                !.actions = IF kind = "libraries" THEN <<Sound>> ELSE <<>>, !.extends = parent])]

\* A release, or one with the tag of another component or with an unreadable range.
Release(kind) ==
    /\ Edit
    /\ \E i \in DOMAIN catalog[kind], v \in Version :
        LET own == ReleaseOf(catalog[kind][i].name, v, Host) IN
        \E r \in {[own EXCEPT !.hosts = {h}] : h \in Host}
                 \cup {[own EXCEPT !.range = FALSE]} \cup {ReleaseOf(n, v, Host) : n \in Name} :
            catalog' = [catalog EXCEPT ![kind][i].versions = Append(@, r)]

\* One field of an entry is changed or left out.
Amend(kind) ==
    /\ Edit
    /\ \E i \in DOMAIN catalog[kind] : \E e \in {catalog[kind][i]} :
        \E changed \in {[e EXCEPT !.blank = {f}] : f \in {"summary", "capabilities"}}
                       \cup {[e EXCEPT !.settings = Append(@, "zone")]}
                       \cup {[e EXCEPT !.actions = Append(@, a)] : a \in Action}
                       \cup {[e EXCEPT !.recommended_with = Append(@, n)] : n \in Name}
                       \cup {[e EXCEPT !.versions = <<>>], [e EXCEPT !.extends = <<e.name, TRUE>>]} :
            catalog' = [catalog EXCEPT ![kind][i] = changed]

Reformat == Edit /\ catalog' = [catalog EXCEPT !.format = 2]

Next == Reformat \/ \E kind \in Lists : Add(kind) \/ Release(kind) \/ Amend(kind)

Spec == Init /\ [][Next]_vars

-------------------------------------------------------------------------------
\* In an accepted catalog the release a name resolves to is one of its own, the host admits it, and
\* no other admitted release is as new; a library may list one version under two texts.
SelectionIsNewest ==
    Accepted => \A n \in Name, host \in Host :
        Component(n) # <<>> =>
            LET kind == Component(n)[1]  e == Component(n)[2] IN
            \A r \in Select(kind, e, host) :
                /\ r \in ToSet(e.versions) /\ host \in r.hosts /\ r.tag[1] = n
                /\ \A q \in ToSet(e.versions) \ {r} :
                    host \in q.hosts =>
                        \/ q.version.key < r.version.key
                        \/ kind = "libraries" /\ (q.version.pre \/ q.version.key = r.version.key)

===============================================================================
