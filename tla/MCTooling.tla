------------------------------- MODULE MCTooling -------------------------------
(***************************************************************************)
(* Inputs of the parts of the kit that judge one document or one set of    *)
(* documents at a time: schemas, a catalog, declarations of packages,      *)
(* posts and settings of a ranking, an environment contract.               *)
(***************************************************************************)
EXTENDS Integers

-------------------------------------------------------------------------------
Blank == [types |-> {}, format |-> "none", values |-> {}, min |-> 0, other |-> FALSE, note |-> FALSE,
        items |-> {}, props |-> [f \in {} |-> {}], required |-> {}, closed |-> FALSE, union |-> {}]
Str == [Blank EXCEPT !.types = {"string"}]
Undated == [Str EXCEPT !.format = "date-time"]
Date == [Undated EXCEPT !.note = TRUE]
Word == [Str EXCEPT !.values = {<<"string", "word">>}]
Number == [Blank EXCEPT !.types = {"integer"}]
Null == [Blank EXCEPT !.types = {"null"}]
Inner == {Date, Number}
Leaves == Inner \cup
    {Word, Str, [Str EXCEPT !.min = 1], [Str EXCEPT !.other = TRUE],
     [Str EXCEPT !.values = {<<"string", "word">>, <<"string", "day">>}], [Str EXCEPT !.types = {"string", "null"}], Null}
MCField == {"value", "note"}
Family(leaves, inner) ==
    leaves \cup {[Blank EXCEPT !.types = {"array"}, !.items = i] : i \in {{}} \cup {{s} : s \in leaves}}
    \cup {[Blank EXCEPT !.types = {"object"}, !.props = p, !.required = r, !.closed = c] :
            p \in UNION {[F -> inner] : F \in SUBSET MCField}, r \in SUBSET MCField, c \in BOOLEAN}
    \cup {[Blank EXCEPT !.union = {s, t}] : s, t \in leaves}
Returning(s) == [Blank EXCEPT !.types = {"object"}, !.props = [f \in {"value"} |-> s], !.required = {"value"}]
Results(family) == UNION {{s, Returning(s), [Blank EXCEPT !.union = {Returning(s), Null}]} : s \in family}
Schemas == {Blank} \cup Results(Family(Leaves \cup {Undated}, Inner \cup {Undated}))
MCSchema == Schemas \* TLC keeps the value of Schemas, but not of what a constant stands for
MCParameter == Family(Leaves, Inner)
MCOutput == Results(MCParameter)
MCDepth[s \in MCSchema] ==
    LET parts == s.items \cup s.union \cup {s.props[f] : f \in DOMAIN s.props}
    IN CHOOSE n \in 0 .. 3 : (\A t \in parts : MCDepth[t] < n) /\ (n = 0 \/ \E t \in parts : MCDepth[t] = n - 1)
Text == {<<"string", w>> : w \in {"day", "word", ""}}
One == Text \cup {<<"integer", 1>>, <<"null", "">>}
Dict == {<<"object", o>> : o \in UNION {[F -> {<<"string", "day">>, <<"integer", 1>>}] : F \in SUBSET MCField}}
Many == {<<"array", a>> : a \in SUBSET {<<"string", "day">>, <<"string", "word">>}}
Instances == One \cup Dict \cup Many \cup {<<"object", [f \in {"value"} |-> v]>> : v \in One \cup Dict \cup Many}
MCInstance == Instances

-------------------------------------------------------------------------------
Numbered(t, k, c, p) == [text |-> t, key |-> k, canonical |-> c, pre |-> p]
MCTitle == {"notes", "dates"}
MCDistribution == {[canonical |-> "kit-a", text |-> "kit-a"], [canonical |-> "kit-a", text |-> "Kit_A"],
                 [canonical |-> "kit-b", text |-> "kit-b"]}
MCFirst == {Numbered("1.0", 10, TRUE, FALSE)}
MCKnown == MCFirst \cup {Numbered("1.0.0", 10, TRUE, FALSE), Numbered("1.1", 11, TRUE, FALSE),
                       Numbered("2.0rc1", 19, TRUE, TRUE), Numbered("v2", 20, FALSE, FALSE)}

-------------------------------------------------------------------------------
Silent == [name |-> "notes", prefix |-> "notes", database |-> {}, settings |-> {}, jobs |-> {}, timers |-> {},
           provides |-> {}, requires |-> {}, publishes |-> <<>>, consumes |-> <<>>]
Event(e, m, s) == [event |-> e, model |-> m, schema |-> s]
MCIdentifier(e) == IF e = "due.again" THEN "due_again" ELSE e
OfNotes == {[Silent EXCEPT !.publishes = p, !.jobs = {"tick"}, !.timers = {"tick"}, !.provides = {"notes"},
                         !.settings = {"zone"}, !.database = d] :
            p \in {<<Event("due", "Due", "1")>>, <<Event("due.again", "Due", "1"), Event("due", "Due", "1")>>,
                   <<Event("due.again", "Due", "1"), Event("due", "Due", "2")>>, <<>>},
            d \in {{"notes"}, {}}}
OfDates == {[Silent EXCEPT !.name = "dates", !.prefix = x, !.consumes = c, !.publishes = p, !.requires = r,
                         !.settings = {"zone"}, !.database = {"notes"}] :
            x \in {"notes", "dates"},
            c \in {<<Event("due", "Due", "1")>>, <<Event("due", "Due", "2")>>},
            p \in {<<>>, <<Event("due_again", "Again", "1")>>, <<Event("ring", "Due", "1")>>},
            r \in {{}, {"notes"}}}
OfRates == {[Silent EXCEPT !.name = "rates", !.prefix = "rates", !.requires = r, !.provides = q] :
            r \in {{}, {"reply"}}, q \in {{}, {"notes"}}}
MCDeclarations == OfNotes \cup OfDates \cup OfRates
Bare == [settings |-> <<>>, jobs |-> <<>>, events |-> <<>>, models |-> {}, provides |-> {}]
MCOwn ==
    {[Bare EXCEPT !.settings = <<<<"", "language">>>>], [Bare EXCEPT !.settings = <<<<"dates", "zone">>>>],
     [Bare EXCEPT !.jobs = <<<<"notes", "tick">>>>], [Bare EXCEPT !.models = {"Due"}],
     [Bare EXCEPT !.provides = {"reply"}], [Bare EXCEPT !.events = <<Event("due", "Due", "1")>>],
     [Bare EXCEPT !.events = <<Event("due.again", "Task", "1"), Event("due_again", "Task", "1")>>]}

-------------------------------------------------------------------------------
Posted(id, age, views, words) == [id |-> id, age |-> age, views |-> views, words |-> words,
                             reactions |-> {}, forwards |-> {}]
MCPost == {Posted(1, 0, {}, {{"kit"}}), Posted(2, 0, {0}, {{"kit"}}), Posted(2, 1, {}, {{"kit"}}), Posted(1, 1, {2}, {{}}),
         Posted(3, 1, {}, {{"kit"}}), Posted(3, 2, {1}, {{}}), Posted(3, -1, {1}, {}), Posted(2, 2, {2}, {{}}), Posted(3, 0, {}, {{"kit"}}),
         [Posted(1, 2, {1}, {{}}) EXCEPT !.reactions = {1}], [Posted(2, 1, {}, {}) EXCEPT !.reactions = {2}, !.forwards = {0}]}
Weighing(v, r, f, k) == [c \in {"views", "reactions", "forwards", "freshness", "keywords"} |->
    CASE c = "views" -> v [] c = "reactions" -> r [] c = "freshness" -> f [] c = "keywords" -> k [] OTHER -> 0]
MCWeights == {Weighing(50, 0, 30, 20), Weighing(0, 40, 0, 60), Weighing(100, 0, 0, 0), Weighing(0, 0, 0, 0)}
MCKeyword == {{}, {"kit"}, {"kit", "news"}}

-------------------------------------------------------------------------------
Var(s, d) == [source |-> s, environments |-> {"local", "production"}, consumers |-> {"backend"}, required |-> TRUE,
                   description |-> "ours", sensitive |-> s \in {"user_secret", "generated_secret", "platform_key"}, detail |-> d]
Ours == Var("user_secret", "none")
MCDeclaration == {Ours, [Ours EXCEPT !.required = FALSE], [Ours EXCEPT !.consumers = {"tg_bot"}], [Ours EXCEPT !.environments = {"local"}],
            [Ours EXCEPT !.description = ""], [Ours EXCEPT !.description = "required by packages"],
            Var("platform_key", "a"), Var("platform_key", "b"), Var("literal", "a"), Var("derived", "a")}
Requires(n, r, s) == [name |-> n, required |-> r, source |-> s]
Platform(k, d) == {[kind |-> k, detail |-> d]}
MCRequiring == {<<>>, <<{Requires("KEY", TRUE, {})}>>, <<{Requires("KEY", FALSE, {})}, {Requires("KEY", TRUE, Platform("platform_key", "a"))}>>,
          <<{Requires("KEY", TRUE, Platform("platform_key", "a"))}, {Requires("KEY", TRUE, Platform("platform_key", "b"))}>>,
          <<{Requires("KEY", FALSE, {}), Requires("URL", TRUE, Platform("platform_base_url", "a"))}>>}
MCUse == {<<"KEY", "settings">>, <<"URL", "shell">>, <<"HOST", "compose">>}
===============================================================================
