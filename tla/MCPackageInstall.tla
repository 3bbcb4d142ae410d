---------------------------- MODULE MCPackageInstall ----------------------------
(***************************************************************************)
(* ranking (1) extends tg-channels (3) and needs its posts; reminders (2)  *)
(* parses with the library textparse (9).  ranking and reminders want one  *)
(* variable from two sources; tg-channels 2 dropped an action that the     *)
(* binding of tg-channels 1 uses, and its own binding has a timezone key   *)
(* other than the one of reminders.  The author may bind either.           *)
(***************************************************************************)
EXTENDS PackageInstall

CONSTANTS ChannelsOld, ChannelsNew, RemindersDefault

MCPackage == {1, 2, 3}
MCBinding == {ChannelsOld, ChannelsNew, RemindersDefault}

B(package, names, zone, language, uses, libraries) ==
    [package |-> package, commands |-> names, zone |-> zone, language |-> language,
     uses |-> uses, libraries |-> libraries]

MCContent == [b \in MCBinding |->
    CASE b = ChannelsOld -> B(3, {"channel"}, NoKey, "language", {"add", "list"}, {})
      [] b = ChannelsNew -> B(3, {"feed"}, "clock", "language", {"add"}, {})
      [] b = RemindersDefault -> B(2, {"remind"}, "timezone", NoKey, {"create"}, {9})]

P(core, prefix, schema, owns, needs, environment, actions, default) ==
    [core |-> core, prefix |-> prefix, schema |-> schema, owns |-> owns, needs |-> needs,
     environment |-> environment, actions |-> actions, default |-> default]
Wants(source) == {[name |-> "KEY", source |-> source]}

MCMeta == [p \in MCPackage |->
    CASE p = 1 -> [v \in {1} |-> P({1, 2}, "/ranking", "ranking", {}, {"posts"},
                                   Wants("platform"), {}, NoBinding)]
      [] p = 2 -> [v \in {1} |-> P({1, 2}, "/reminders", "reminders", {"due"}, {"job_fired"},
                                   Wants("other"), {"create"}, RemindersDefault)]
      [] p = 3 -> [v \in {1, 2} |->
                    P({1, 2}, "/tg-channels", "tg_channels", {"posts"}, {"job_fired"}, {},
                      IF v = 1 THEN {"add", "list"} ELSE {"add"},
                      IF v = 1 THEN ChannelsOld ELSE ChannelsNew)]]

MCReleased == [p \in MCPackage |-> IF p = 3 THEN {1, 2} ELSE {1}]
MCParent == [p \in MCPackage |-> IF p = 1 THEN 3 ELSE 0]
MCParentVersions == [p \in MCPackage |-> IF p = 1 THEN {1, 2} ELSE {}]
MCSettings == [k \in Key |-> "absent"]
================================================================================
