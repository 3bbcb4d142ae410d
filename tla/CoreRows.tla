------------------------------- MODULE CoreRows -------------------------------
(***************************************************************************)
(* The settings and users controllers over their tables.  A request runs   *)
(* in one database session: it selects its row, flushes an insert or an    *)
(* update, lets the owning package keep a copy of a seeded setting, and    *)
(* commits before the answer.  A grant is announced after its commit.      *)
(* Sessions meet in the unique keys, in row locks and in what they read    *)
(* before another one committed.                                           *)
(***************************************************************************)
EXTENDS Integers, FiniteSets

CONSTANTS
    Request,       \* HTTP requests, each made once
    Key,           \* declared setting keys
    CoreKey,       \* keys the core owns: product scope only
    Seeded,        \* keys a package keeps a copy of
    KeepsLatest,   \* those of them it overwrites; of the others it keeps the first value
    Subject,       \* ids of users
    Identity,      \* channel identities
    Value,         \* values of settings that satisfy their schema
    Unfit,         \* values a package refuses although the schema admits them
    Invalid,       \* a value outside the schema
    Absent, None,
    MaxFaults      \* bound: sessions that end on the way

SettingRow == (Key \X {"product"} \X {0}) \cup (Key \X {"user"} \X Subject)
Cell == SettingRow \cup Identity
Held == Value \cup {"active", "inactive"}

ASSUME RowsAssumption ==
    /\ CoreKey \subseteq Key /\ KeepsLatest \subseteq Seeded /\ Seeded \subseteq Key
    /\ Subject \subseteq Nat \ {0}
    /\ Unfit \subseteq Value /\ Invalid \notin Value
    /\ Absent \notin Value \cup {"active", "inactive"} /\ None \notin Request
    /\ Identity \cap SettingRow = {} /\ MaxFaults \in Nat

VARIABLES
    row,       \* the committed value of each row: a setting's value, a user's status
    holder,    \* the session whose uncommitted insert or update of the row others wait for
    copy,      \* what the owning package keeps of a seeded setting
    seeder,    \* the session with an uncommitted write of that copy
    pc, call,
    found,     \* the value the session's SELECT returned
    told,      \* grants whose user_granted is published
    outcome,   \* how the request ended
    faults

rows == <<row, holder>>
copies == <<copy, seeder>>
vars == <<row, holder, copy, seeder, pc, call, found, told, outcome, faults>>

NoCall == [kind |-> "none"]
Call == [kind : {"put", "change", "get"}, cell : Cell, value : Held]

TypeOK ==
    /\ row \in [Cell -> Held \cup {Absent}] /\ holder \in [Cell -> Request \cup {None}]
    /\ copy \in [Seeded -> Value \cup {Absent}] /\ seeder \in [Seeded -> Request \cup {None}]
    /\ pc \in [Request -> {"idle", "select", "flush", "reread", "seed", "commit", "publish", "answer", "over"}]
    /\ call \in [Request -> Call \cup {NoCall}]
    /\ found \in [Request -> Held \cup {Absent}]
    /\ told \subseteq Request
    /\ outcome \in [Request -> {"none", "refused", "collided", "unfit", "died", "missing", "ok"}]
    /\ faults \in 0..MaxFaults

Init ==
    /\ row = [c \in Cell |-> Absent] /\ holder = [c \in Cell |-> None]
    /\ copy = [k \in Seeded |-> Absent] /\ seeder = [k \in Seeded |-> None]
    /\ pc = [r \in Request |-> "idle"] /\ call = [r \in Request |-> NoCall]
    /\ found = [r \in Request |-> Absent]
    /\ told = {} /\ outcome = [r \in Request |-> "none"]
    /\ faults = 0

-------------------------------------------------------------------------------
Goto(r, label) == pc' = [pc EXCEPT ![r] = label]
Mine(r) == call[r].cell
Wanted(r) == call[r].value

\* The rows are written by the flush of r and not committed yet.
Wrote(r) == holder[Mine(r)] = r

\* The session is closed: what is not committed is rolled back.
Release(r) ==
    /\ holder' = [c \in Cell |-> IF holder[c] = r THEN None ELSE holder[c]]
    /\ seeder' = [k \in Seeded |-> IF seeder[k] = r THEN None ELSE seeder[k]]

End(r, how) ==
    /\ Goto(r, "over")
    /\ outcome' = [outcome EXCEPT ![r] = how]

\* The capability of the path, the scope of a core key, the declared schema, and a
\* subject for the scope of a user only.
Admitted(capable, key, scope, subject, value) ==
    /\ capable
    /\ key \in CoreKey => scope = "product"
    /\ value # Invalid
    /\ <<key, scope, subject>> \in SettingRow

Enter(r, c) ==
    /\ pc[r] = "idle"
    /\ call' = [call EXCEPT ![r] = c]
    /\ Goto(r, "select")
    /\ UNCHANGED <<rows, copies, found, told, outcome, faults>>

Refuse(r) ==
    /\ pc[r] = "idle"
    /\ End(r, "refused")
    /\ UNCHANGED <<rows, copies, call, found, told, faults>>

\* POST /settings/set.
Set(r, capable, key, scope, subject, value) ==
    IF Admitted(capable, key, scope, subject, value)
    THEN Enter(r, [kind |-> "put", cell |-> <<key, scope, subject>>, value |-> value])
    ELSE Refuse(r)

\* POST /settings/get and GET /users/access.  The value of the call has no meaning.
Get(r, c) == Enter(r, [kind |-> "get", cell |-> c, value |-> "inactive"])

\* POST /users/grant and /users/revoke, behind the capability of their paths.
Privileged(r, capable, c) == IF capable THEN Enter(r, c) ELSE Refuse(r)

Grant(r, capable, i) == Privileged(r, capable, [kind |-> "put", cell |-> i, value |-> "active"])
Revoke(r, capable, i) == Privileged(r, capable, [kind |-> "change", cell |-> i, value |-> "inactive"])

\* The SELECT of the row as it is committed.
Select(r) ==
    /\ pc[r] = "select"
    /\ found' = [found EXCEPT ![r] = row[Mine(r)]]
    /\ Goto(r, IF call[r].kind # "put" /\ row[Mine(r)] = Absent THEN "answer"
               ELSE IF call[r].kind = "get" THEN "commit"
               ELSE "flush")
    /\ UNCHANGED <<rows, copies, call, told, outcome, faults>>

IsProductSetting(c) == c \in SettingRow /\ c[2] = "product"
HasSeed(r) == IsProductSetting(Mine(r)) /\ call[r].kind = "put" /\ Mine(r)[1] \in Seeded

AfterFlush(r) == Goto(r, IF HasSeed(r) THEN "seed" ELSE "commit")

\* Mutant: the unit of work writes without waiting for the row.
FlushAtOnce(r) ==
    /\ pc[r] = "flush"
    /\ holder' = IF found[r] = Wanted(r) THEN holder ELSE [holder EXCEPT ![Mine(r)] = r]
    /\ AfterFlush(r)
    /\ UNCHANGED <<row, copies, call, found, told, outcome, faults>>

\* The unit of work writes only what differs from what it read.  A write waits for the
\* row, or for the uncommitted insert of its key.
Flush(r) ==
    /\ pc[r] = "flush"
    /\ \/ /\ found[r] = Wanted(r) /\ UNCHANGED holder
       \/ /\ found[r] # Wanted(r)
          /\ holder[Mine(r)] = None
          /\ found[r] = Absent => row[Mine(r)] = Absent
          /\ holder' = [holder EXCEPT ![Mine(r)] = r]
    /\ AfterFlush(r)
    /\ UNCHANGED <<row, copies, call, found, told, outcome, faults>>

\* IntegrityError: another session inserted the key first.  A setting's request fails, a
\* grant reads the winner's row instead.
Collide(r) ==
    /\ pc[r] = "flush" /\ found[r] = Absent /\ holder[Mine(r)] = None /\ row[Mine(r)] # Absent
    /\ IF Mine(r) \in Identity
       THEN Goto(r, "reread") /\ UNCHANGED <<holder, seeder, outcome>>
       ELSE End(r, "collided") /\ Release(r)
    /\ UNCHANGED <<row, copy, call, found, told, faults>>

\* Mutant: the identity of the winner is taken to be active.
RereadNothing(r) ==
    /\ pc[r] = "reread"
    /\ found' = [found EXCEPT ![r] = Wanted(r)]
    /\ Goto(r, "flush")
    /\ UNCHANGED <<rows, copies, call, told, outcome, faults>>

Reread(r) ==
    /\ pc[r] = "reread"
    /\ found' = [found EXCEPT ![r] = row[Mine(r)]]
    /\ Goto(r, "flush")
    /\ UNCHANGED <<rows, copies, call, told, outcome, faults>>

\* The package's own upsert in the session of the request, after it judged the value.
Seed(r) ==
    /\ pc[r] = "seed"
    /\ LET k == Mine(r)[1] IN
       \/ /\ Wanted(r) \in Unfit
          /\ End(r, "unfit") /\ Release(r)
       \/ /\ Wanted(r) \notin Unfit /\ seeder[k] = None
          /\ seeder' = IF k \in KeepsLatest \/ copy[k] = Absent THEN [seeder EXCEPT ![k] = r] ELSE seeder
          /\ Goto(r, "commit") /\ UNCHANGED <<holder, outcome>>
    /\ UNCHANGED <<row, copy, call, found, told, faults>>

IsGrant(r) == call[r].kind = "put" /\ Mine(r) \in Identity

\* session.commit() in the route, before its event and its answer.
Commit(r) ==
    /\ pc[r] = "commit"
    /\ row' = IF Wrote(r) THEN [row EXCEPT ![Mine(r)] = Wanted(r)] ELSE row
    /\ copy' = [k \in Seeded |-> IF seeder[k] = r THEN Wanted(r) ELSE copy[k]]
    /\ Release(r)
    /\ Goto(r, IF IsGrant(r) THEN "publish" ELSE "answer")
    /\ UNCHANGED <<call, found, told, outcome, faults>>

\* Mutant: only a grant that changed the status is announced.
PublishChange(r) ==
    /\ pc[r] = "publish"
    /\ told' = IF found[r] = Wanted(r) THEN told ELSE told \cup {r}
    /\ Goto(r, "answer")
    /\ UNCHANGED <<rows, copies, call, found, outcome, faults>>

\* publish_event("user_granted").
Publish(r) ==
    /\ pc[r] = "publish"
    /\ told' = told \cup {r}
    /\ Goto(r, "answer")
    /\ UNCHANGED <<rows, copies, call, found, outcome, faults>>

\* Nothing was there to read or to revoke.
Missed(r) == call[r].kind # "put" /\ found[r] = Absent

Answer(r) ==
    /\ pc[r] = "answer"
    /\ End(r, IF Missed(r) THEN "missing" ELSE "ok")
    /\ UNCHANGED <<rows, copies, call, found, told, faults>>

\* The process ends, or a statement, the commit or the publish raises.
Die(r) ==
    /\ pc[r] \notin {"idle", "over"} /\ faults < MaxFaults
    /\ faults' = faults + 1
    /\ End(r, "died") /\ Release(r)
    /\ UNCHANGED <<row, copy, call, found, told>>

Ask(r) ==
    \/ \E capable \in BOOLEAN, key \in Key, scope \in {"product", "user"}, subject \in Subject \cup {0},
          value \in Value \cup {Invalid} : Set(r, capable, key, scope, subject, value)
    \/ \E capable \in BOOLEAN, i \in Identity : Grant(r, capable, i) \/ Revoke(r, capable, i)
    \/ \E c \in Cell : Get(r, c)

Work(r) ==
    \/ Select(r) \/ Flush(r) \/ Collide(r) \/ Reread(r) \/ Seed(r)
    \/ Commit(r) \/ Publish(r) \/ Answer(r)

Next == \E r \in Request : Ask(r) \/ Work(r) \/ Die(r)

Spec == Init /\ [][Next]_vars

-------------------------------------------------------------------------------
(* The promise. *)

\* What r asked for is there: it found the value, or its write is committed.
TookEffect(r) ==
    \/ pc[r] \in {"publish", "answer"}
    \/ pc[r] \in {"flush", "seed", "commit"} /\ (call[r].kind = "get" \/ found[r] = Wanted(r))

Phase(r) ==
    IF pc[r] = "idle" \/ outcome[r] = "refused" THEN "idle"
    ELSE IF pc[r] # "over" THEN (IF TookEffect(r) THEN "done" ELSE "open")
    ELSE IF outcome[r] \in {"ok", "missing"} THEN "answered"
    ELSE "failed"

Got(r) ==
    IF Phase(r) \notin {"done", "answered"} THEN Absent
    ELSE IF call[r].kind = "get" \/ Missed(r) THEN found[r]
    ELSE Wanted(r)

R == INSTANCE RequestRegister WITH
        Value <- Held, reg <- row, wish <- call,
        phase <- [r \in Request |-> Phase(r)], got <- [r \in Request |-> Got(r)]

\* Every request that is answered took effect exactly once, between its call and its
\* answer, and was told what the row held then; one that failed did so at most once.
ImplementsRegister == R!Spec

-------------------------------------------------------------------------------
(* Properties. *)

ProductRow(k) == <<k, "product", 0>>

\* A package that keeps the latest value loses touch with the setting in one way only: a
\* request that repeated the value it had read, and so locked no row, seeds it after
\* another one replaced it.
OnlyReplaysDiverge ==
    [][\A k \in KeepsLatest :
        copy[k] = row[ProductRow(k)] /\ copy'[k] # row'[ProductRow(k)] =>
            \E r \in Request : seeder[k] = r /\ pc'[r] = "answer" /\ found[r] = Wanted(r)]_vars

\* A grant that is answered was announced, whether it created the identity, lost the
\* insert to another grant, or changed nothing.
AnsweredGrantIsTold == \A r \in Request : outcome[r] = "ok" /\ IsGrant(r) => r \in told

===============================================================================
