--------------------------- MODULE ComponentMatching ---------------------------
(***************************************************************************)
(* framework/component_matching.py: which result of a library function may *)
(* become an argument of a package action, told from their JSON Schemas    *)
(* alone.  An inferred edge becomes a binding whose calls validate what    *)
(* they pass, so an edge has to be sound: what the function can answer,    *)
(* the action accepts.                                                     *)
(***************************************************************************)
EXTENDS Naturals

CONSTANTS
    Schema,       \* schemas, and those they are made of
    Depth,        \* Depth[s]: how deep schema s is nested
    MaxDepth,     \* bound on the nesting of a schema
    Output,       \* schemas a function of the catalog returns
    Parameter,    \* schemas an action of the catalog has
    Value,        \* the property a function names as its value
    Instance      \* JSON values, <<kind, content>>

VARIABLES
    output,       \* the schema of what the function returns
    parameter,    \* the schema of one input of the action
    answer        \* what the function returned: {} or one JSON value

vars == <<output, parameter, answer>>

NoProps == [f \in {} |-> {}]

\* A schema as a record.  types, values and union are {} where the keyword is absent, items is {}
\* or holds one schema; other is a keyword the tool does not know, note an annotation.
Plain == [types |-> {}, format |-> "none", values |-> {}, min |-> 0, other |-> FALSE, note |-> FALSE,
          items |-> {}, props |-> NoProps, required |-> {}, closed |-> FALSE, union |-> {}]

\* The schemas a schema is made of.
Parts(s) == s.items \cup s.union \cup {s.props[f] : f \in DOMAIN s.props}

Several(S) == \E x, y \in S : x # y
Single(S) == S # {} /\ ~Several(S)

-------------------------------------------------------------------------------
(* What a JSON Schema means.  "day" is a date-time, "" is shorter than one. *)

AcceptsBy(meaning, s, v) ==
    /\ s.types = {} \/ v[1] \in s.types
    /\ s.values = {} \/ v \in s.values
    /\ s.format = "none" \/ v[1] # "string" \/ v[2] = "day"
    /\ s.min = 0 \/ v[1] # "string" \/ v[2] # ""
    /\ s.other => v # <<"string", "word">>
    /\ v[1] = "array" => \A s1 \in s.items : \A v1 \in v[2] : meaning[<<s1, v1>>]
    /\ v[1] = "object" =>
        /\ s.required \subseteq DOMAIN v[2]
        /\ s.closed => DOMAIN v[2] \subseteq DOMAIN s.props
        /\ \A f \in DOMAIN v[2] \cap DOMAIN s.props : meaning[<<s.props[f], v[2][f]>>]
    /\ s.union = {} \/ \E s1 \in s.union : meaning[<<s1, v>>]

Meaning[x \in Schema \X Instance] == AcceptsBy(Meaning, x[1], x[2])

Accepts(s, v) == Meaning[<<s, v>>]

-------------------------------------------------------------------------------
(* The tool. *)

\* Annotations are dropped at every level; order within a keyword means nothing.
NormalizedBy(normal, s) ==
    [types |-> s.types, format |-> s.format, values |-> s.values, min |-> s.min, other |-> s.other, note |-> FALSE,
     items |-> {normal[t] : t \in s.items},
     props |-> [f \in DOMAIN s.props |-> normal[s.props[f]]],
     required |-> s.required, closed |-> s.closed,
     union |-> {normal[t] : t \in s.union}]

Normalized[s \in Schema] == NormalizedBy(Normalized, s)

IsNull(s) == s.types = {"null"}

\* The keywords of an unwrapped alternative replace those around it.
Overlay(s, t) ==
    [types |-> IF t.types = {} THEN s.types ELSE t.types,
     format |-> IF t.format = "none" THEN s.format ELSE t.format,
     values |-> IF t.values = {} THEN s.values ELSE t.values,
     min |-> IF t.min = 0 THEN s.min ELSE t.min,
     other |-> s.other \/ t.other, note |-> FALSE,
     items |-> IF t.items = {} THEN s.items ELSE t.items,
     props |-> IF t.props = NoProps THEN s.props ELSE t.props,
     required |-> IF t.required = {} THEN s.required ELSE t.required,
     closed |-> t.closed \/ s.closed,
     union |-> t.union]

\* non_null_schema: one alternative besides null is unwrapped, any other union stays.
NonNull(schema) ==
    LET s == Normalized[schema]
        bare == IF Several(s.types) /\ Single(s.types \ {"null"})
                THEN [s EXCEPT !.types = s.types \ {"null"}] ELSE s
        rest == {t \in s.union : ~IsNull(t)}
    IN IF Single(rest) THEN Overlay(bare, CHOOSE t \in rest : TRUE) ELSE bare

\* Plain strings and numbers name no meaning that could connect two components.
Semantic[s \in Schema] ==
    \/ s.format # "none" \/ s.values # {}
    \/ IF s.types = {"array"} THEN \E t \in s.items : Semantic[t]
       ELSE IF s.types = {"object"} THEN \E f \in s.required \cap DOMAIN s.props : Semantic[s.props[f]]
       ELSE \E t \in s.union : Semantic[t]

Unknown(s) == s.other \/ s.min > 0

\* Mutant: an optional property of the target may be anything in the source.
ObjectMatchesRequired(matches, s, t) ==
    /\ t.required \subseteq s.required
    /\ t.closed => s.closed /\ DOMAIN s.props \subseteq DOMAIN t.props
    /\ \A f \in DOMAIN s.props \cap DOMAIN t.props : matches[<<s.props[f], t.props[f]>>]

\* _object_matches: a property the source does not describe must be impossible in it.
ObjectMatches(matches, s, t) ==
    /\ t.required \subseteq s.required
    /\ t.closed => s.closed /\ DOMAIN s.props \subseteq DOMAIN t.props
    /\ \A f \in DOMAIN t.props :
        IF f \in DOMAIN s.props THEN matches[<<s.props[f], t.props[f]>>]
                                ELSE f \notin t.required /\ s.closed

\* _compatible: unions only as they stand, everything else by type, format, values, content.
CompatibleBy(matches, s, t) ==
    IF s.union # {} \/ t.union # {} \/ Several(s.types) \/ Several(t.types)
    THEN s = t
    ELSE /\ s.types = t.types /\ s.types # {} /\ s.format = t.format
         /\ ~Unknown(s) /\ ~Unknown(t)
         /\ t.values # {} => s.values # {} /\ s.values \subseteq t.values
         /\ s.types = {"array"} =>
                \E s1 \in s.items : \E t1 \in t.items : matches[<<s1, t1>>]
         /\ s.types = {"object"} => ObjectMatches(matches, s, t)

Matches[x \in Schema \X Schema] == CompatibleBy(Matches, x[1], x[2])

Compatible(s, t) == Matches[<<s, t>>]

Supported[s \in Schema] ==
    /\ ~Unknown(s)
    /\ \A t \in s.items \cup s.union : Supported[t]
    /\ \A f \in DOMAIN s.props : Supported[s.props[f]]

\* primary_output_matches, with the function's value property.
Connects(function, target) ==
    LET s == NonNull(function) IN
    /\ s.types = {"object"} /\ Value \in s.required /\ Value \in DOMAIN s.props
    /\ Supported[s.props[Value]] /\ Supported[target]
    /\ Semantic[Normalized[target]]
    /\ Compatible(s.props[Value], Normalized[target])

Unbounded(s) == [s EXCEPT !.min = 0]

\* argument_schema_matches: also plain values, and a bound on the length at the top.
ArgumentFits(source, target) ==
    LET s == Normalized[source]  t == Normalized[target] IN
    /\ s.min >= t.min
    /\ Supported[Unbounded(s)] /\ Supported[Unbounded(t)]
    /\ Compatible(Unbounded(s), Unbounded(t))

-------------------------------------------------------------------------------
(* Components meet: schemas are declared, and an edge carries an answer. *)

\* Schemas are finite trees, and the sets of schemas and of values hold what their members are made of.
MatchingAssumption ==
    /\ Plain \in Schema /\ Output \subseteq Schema /\ Parameter \subseteq Schema
    /\ MaxDepth \in Nat
    /\ \A s \in Schema :
        /\ s.min \in Nat /\ ~Several(s.items)
        /\ Depth[s] \in 0 .. MaxDepth
        /\ \A t \in Parts(s) : t \in Schema /\ Depth[t] < Depth[s]
        /\ {Normalized[s], Unbounded(Normalized[s])} \subseteq Schema
    /\ \A v \in Instance :
        /\ v[1] = "array" => v[2] \subseteq Instance
        /\ v[1] = "object" => \A f \in DOMAIN v[2] : v[2][f] \in Instance

Init == output = Plain /\ parameter = Plain /\ answer = {}

\* The catalog offers a function and an action.
Offer ==
    /\ output = Plain /\ answer = {}
    /\ output' \in Output /\ parameter' \in Parameter
    /\ UNCHANGED answer

Edge == Connects(output, parameter) \/ ArgumentFits(output, parameter)

\* The function is called for an edge the tool has drawn, and answers by its schema.
Call ==
    /\ \E v \in IF Edge THEN {i \in Instance : Accepts(output, i)} ELSE {} : answer' = {v}
    /\ UNCHANGED <<output, parameter>>

Next == Offer \/ Call

Spec == Init /\ [][Next]_vars

TypeOK ==
    /\ {output, parameter} \subseteq Schema
    /\ answer \subseteq Instance /\ ~Several(answer)

-------------------------------------------------------------------------------
\* An edge the tool draws is sound: what the function may answer, the action accepts.  An inferred
\* edge carries the function's value (a null answer carries nothing), an explicit one the whole.
EdgesAreSound ==
    \A v \in answer :
        /\ Connects(output, parameter) /\ v[1] = "object" => Accepts(parameter, v[2][Value])
        /\ ArgumentFits(output, parameter) => Accepts(parameter, v)

===============================================================================
