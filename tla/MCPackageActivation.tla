-------------------------- MODULE MCPackageActivation --------------------------
(***************************************************************************)
(* The wheels of two packages: "notes", whose manifest has settings, jobs, *)
(* timers and a schema, and "dates", which gives the mandatory fields only.*)
(* Each field may be removed or given a value of another form.             *)
(***************************************************************************)
EXTENDS Kit, Sequences

Reader == INSTANCE PackageManifest

Notes ==
    [protocol_version |-> 1, name |-> "notes", version |-> "1.0", requires_core |-> ">=2,<3",
     http |-> [prefix |-> "/notes"], database |-> [schema |-> "notes", migrations |-> "kit:revisions"],
     settings_schema |-> [sound |-> TRUE, properties |-> [x \in {"zone"} |-> {}]],
     setting_seeds |-> <<[key |-> "zone", scope |-> "product"]>>,
     jobs_schema |-> [sound |-> TRUE, properties |-> [x \in {"tick"} |-> "at"]],
     timers |-> <<[job |-> "tick", every_seconds |-> 60]>>]

MCAlternatives == [f \in Reader!Fields \cup {"colour"} |->
    LET Named(n, ok) == [name |-> n, sound |-> ok, typed |-> TRUE, path |-> {}, required |-> {}] IN
    CASE f = "protocol_version" -> {2}
      [] f \in {"name", "version"} -> {"", "other"}
      [] f = "requires_core" -> {">=3", "core"}
      [] f = "http" -> {[prefix |-> "/dates"], [prefix |-> "/"], [prefix |-> "/notes", colour |-> "red"], <<>>}
      [] f = "database" -> {[schema |-> "dates", migrations |-> "kit:revisions"],
                            [schema_name |-> "notes", migrations |-> "kit:revisions"],
                            [schema |-> "public", migrations |-> "kit:revisions"],
                            [schema |-> "notes", migrations |-> "kit:../x"], [schema |-> "notes"],
                            [schema |-> "notes", migrations |-> "kit:revisions", colour |-> "red"]}
      [] f = "deployment" -> {[modes |-> m] : m \in {<<"in_process">>, <<>>, <<"container">>, <<"in_process", "in_process">>}}
                             \cup {<<>>, [modes |-> <<"in_process">>, colour |-> "red"]}
      [] f = "settings_schema" -> {[sound |-> s, properties |-> [x \in P |-> {}]] : s \in BOOLEAN, P \in {{}, {"zone", "lang"}}}
      [] f = "setting_seeds" -> {<<[key |-> "zone", scope |-> "product"], [key |-> "zone", scope |-> "product"]>>,
                                 <<[key |-> "lang", scope |-> "product"]>>, <<[key |-> "zone", scope |-> "user"]>>,
                                 <<[key |-> "zone"]>>, <<>>}
      [] f = "jobs_schema" -> {[sound |-> TRUE, properties |-> [x \in {"tick"} |-> a]] : a \in {"open", "closed"}}
                              \cup {[sound |-> FALSE, properties |-> [x \in {"tick"} |-> "at"]]}
      [] f = "timers" -> {<<>>, <<[job |-> "tock", every_seconds |-> 60]>>, <<[job |-> "tick", every_seconds |-> 9]>>,
                          <<[job |-> "tick", every_seconds |-> 60], [job |-> "tick", every_seconds |-> 90]>>}
      [] f = "events" -> {[publishes |-> p, consumes |-> <<>>, messages |-> [x \in {"due"} |-> m]] :
                            p \in {<<"due">>, <<"due", "due">>, <<>>},
                            m \in {[sound |-> s, recipient |-> {"user"}, required |-> r] : s \in BOOLEAN, r \in {{}, {"user"}}}}
      [] f \in {"provides", "requires", "environment", "resources"} ->
            {<<Named("x", TRUE)>>, <<Named("x", TRUE), Named("x", TRUE)>>, <<Named("x", FALSE)>>}
      [] f = "actions" -> {<<Named("x", TRUE)>>, <<Named("x", TRUE), Named("x", TRUE)>>,
                           <<[Named("x", TRUE) EXCEPT !.typed = FALSE]>>, <<[Named("x", TRUE) EXCEPT !.path = {"id"}]>>}
      [] f = "default_binding" -> {"kit:revisions", "kit"}
      [] OTHER -> {{}}]

Sound(n, m) ==
    [entry |-> n, module |-> n, distribution |-> n, version |-> [text |-> "1.0", key |-> 10],
     dirs |-> {n, "elsewhere"}, manifests |-> {n}, resources |-> TRUE, runtime |-> TRUE,
     seeds |-> "async_exact", manifest |-> m]

MCBase == <<Sound("notes", Notes),
            Sound("dates", [f \in {"protocol_version", "requires_core", "version", "name", "http"} |->
                            CASE f = "name" -> "dates" [] f = "http" -> [prefix |-> "/dates"] [] OTHER -> Notes[f]])>>

===============================================================================
