------------------------------ MODULE BotActions ------------------------------
(***************************************************************************)
(* What the bot does with an update: admission by the backend, a command   *)
(* or a button of an earlier answer, the call of a package action through  *)
(* the retrying client, and the answer.  Buttons refer to selections that  *)
(* only the bot's memory holds.  Admission, call and effect are separate   *)
(* looks at a user whose access may change between them.                   *)
(***************************************************************************)
EXTENDS Integers, FiniteSets

CONSTANTS
    User, Chat,
    Update,         \* updates of Telegram, each processed once
    Concurrent,     \* updates the application processes at a time
    None,
    MaxContexts,    \* MAX_CONTEXTS
    Ttl,            \* CONTEXT_TTL
    MaxRetries,     \* max_retries of the client
    MaxTime,        \* bound: the last instant
    MaxTokens,      \* bound: selections offered
    MaxFaults       \* bound: requests that fail, restarts, changes of access

BotAssumption ==
    /\ Concurrent \in Nat \ {0} /\ MaxContexts \in Nat \ {0} /\ Ttl \in Nat \ {0}
    /\ MaxRetries \in Nat \ {0}
    /\ MaxTime \in Nat /\ MaxTokens \in Nat /\ MaxFaults \in Nat
    /\ None \notin User \X Chat

Place == User \X Chat
Token == 1..MaxTokens
NoToken == 0

VARIABLES
    now,
    active,      \* users whose access is active
    pending,     \* tokens of the selections in memory
    offered,     \* every selection ever offered: its owner and when it expires
    pc, kind, place,
    token,       \* the selection a press names, then the one it took
    try,         \* attempts of the call
    effects,     \* what the backend did: [update, try, token, place]
    forgotten,   \* selections a restart of the bot lost
    faults

memory == <<pending, offered, forgotten>>
job == <<kind, place>>
vars == <<now, active, pending, offered, pc, kind, place, token, try, effects, forgotten, faults>>

TypeOK ==
    /\ now \in 0..MaxTime /\ active \subseteq User
    /\ pending \subseteq DOMAIN offered /\ DOMAIN offered \subseteq Token
    /\ \A t \in DOMAIN offered : offered[t] \in [owner : Place, expires : 0..MaxTime + Ttl]
    /\ pc \in [Update -> {"new", "admit", "handle", "configure", "call", "effect", "offer", "reply", "over"}]
    /\ kind \in [Update -> {"none", "list", "create", "press"}]
    /\ place \in [Update -> Place \cup {None}]
    /\ token \in [Update -> Token \cup {NoToken}]
    /\ try \in [Update -> 1..MaxRetries]
    /\ effects \subseteq [update : Update, try : 1..MaxRetries, token : Token \cup {NoToken}, place : Place]
    /\ forgotten \subseteq DOMAIN offered
    /\ faults \in 0..MaxFaults

Init ==
    /\ now = 0 /\ active \in SUBSET User
    /\ pending = {} /\ offered = << >> /\ forgotten = {}
    /\ pc = [u \in Update |-> "new"] /\ kind = [u \in Update |-> "none"]
    /\ place = [u \in Update |-> None] /\ token = [u \in Update |-> NoToken]
    /\ try = [u \in Update |-> 1]
    /\ effects = {} /\ faults = 0

-------------------------------------------------------------------------------
Goto(u, label) == pc' = [pc EXCEPT ![u] = label]
Fault == faults < MaxFaults /\ faults' = faults + 1

\* The update is done with: only what it took and what it caused stays known.
Finish(u) ==
    /\ Goto(u, "over")
    /\ kind' = [kind EXCEPT ![u] = "none"] /\ place' = [place EXCEPT ![u] = None]
    /\ try' = [try EXCEPT ![u] = 1]

Pass ==
    /\ now < MaxTime
    /\ now' = now + 1
    /\ UNCHANGED <<active, memory, pc, job, token, try, effects, faults>>

\* A grant or a revoke commits.
ChangeAccess(user) ==
    /\ Fault
    /\ active' = IF user \in active THEN active \ {user} ELSE active \cup {user}
    /\ UNCHANGED <<now, memory, pc, job, token, try, effects>>

Running == {u \in Update : pc[u] \notin {"new", "over"}}

\* Telegram delivers a command, or a press of a button the bot once offered.  The press
\* can come from anybody who sees the message.
Arrive(u, k, p, t) ==
    /\ pc[u] = "new" /\ Cardinality(Running) < Concurrent
    /\ t \in IF k = "press" THEN DOMAIN offered ELSE {NoToken}
    /\ kind' = [kind EXCEPT ![u] = k]
    /\ place' = [place EXCEPT ![u] = p]
    /\ token' = [token EXCEPT ![u] = t]
    /\ Goto(u, "admit")
    /\ UNCHANGED <<now, active, memory, try, effects, faults>>

\* The handler of group -1.  A failed or odd answer admits nobody.
Admit(u) ==
    /\ pc[u] = "admit"
    /\ \/ /\ place[u][1] \in active
          /\ Goto(u, "handle") /\ UNCHANGED <<job, token, try, faults>>
       \/ /\ \/ place[u][1] \notin active /\ UNCHANGED faults
             \/ Fault
          /\ Finish(u) /\ token' = [token EXCEPT ![u] = NoToken]
    /\ UNCHANGED <<now, active, memory, effects>>

Owns(u, t) == place[u] = offered[t].owner
Valid(t) == now < offered[t].expires

\* Mutant: the selection is taken when the settings are read.
ChooseLate(u) ==
    /\ pc[u] = "handle" /\ kind[u] = "press"
    /\ IF token[u] \in pending /\ Owns(u, token[u]) /\ Valid(token[u])
       THEN Goto(u, "configure") /\ UNCHANGED <<job, token, try>>
       ELSE Finish(u) /\ token' = [token EXCEPT ![u] = NoToken]
    /\ UNCHANGED <<now, active, memory, effects, faults>>

\* callback_choice: a selection of this user in this chat, not expired and with the chosen
\* entry, is taken before anything is awaited.
Choose(u) ==
    /\ pc[u] = "handle" /\ kind[u] = "press"
    /\ IF token[u] \in pending /\ Owns(u, token[u]) /\ Valid(token[u])
       THEN /\ pending' = pending \ {token[u]}
            /\ Goto(u, "configure") /\ UNCHANGED <<job, token, try>>
       ELSE /\ Finish(u) /\ token' = [token EXCEPT ![u] = NoToken]
            /\ UNCHANGED pending
    /\ UNCHANGED <<now, active, offered, forgotten, effects, faults>>

Read(u) ==
    /\ pc[u] = "handle" /\ kind[u] # "press"
    /\ Goto(u, "configure")
    /\ UNCHANGED <<now, active, memory, job, token, try, effects, faults>>

\* The product's language and zone are read; then a text without an instant gets presets
\* to choose from, an unusable one an explanation, and everything else calls its action.
Configure(u) ==
    /\ pc[u] = "configure"
    /\ \/ Goto(u, "call") /\ UNCHANGED faults
       \/ kind[u] = "create" /\ Goto(u, "offer") /\ UNCHANGED faults
       \/ kind[u] # "list" /\ Goto(u, "reply") /\ UNCHANGED faults
       \/ Fault /\ Goto(u, "reply")
    /\ UNCHANGED <<now, active, memory, job, token, try, effects>>

-------------------------------------------------------------------------------
(* The call. *)

\* Mutant: mutations are repeated as often as reads.
TriesAlike(u) == MaxRetries

\* Only a GET may be sent again: the client of a mutation is set to one attempt.
Tries(u) == IF kind[u] = "list" THEN MaxRetries ELSE 1

\* A 5xx or a refused connection: the next attempt, or the last exception.
Retry(u) ==
    IF try[u] < Tries(u)
    THEN try' = [try EXCEPT ![u] = @ + 1] /\ Goto(u, "call")
    ELSE Goto(u, "reply") /\ UNCHANGED try

\* caller_identity looks at the caller in a session of its own.
CallerIdentity(u) ==
    /\ pc[u] = "call"
    /\ \/ place[u][1] \in active /\ Goto(u, "effect") /\ UNCHANGED <<try, faults>>
       \/ place[u][1] \notin active /\ Goto(u, "reply") /\ UNCHANGED <<try, faults>>
       \/ Fault /\ Retry(u)
    /\ UNCHANGED <<now, active, memory, job, token, effects>>

Effect(u) == [update |-> u, try |-> try[u], token |-> token[u], place |-> place[u]]

Mutates(u) == kind[u] # "list"

\* The package's own transaction, and its answer: it may refuse, and a 5xx or a lost
\* answer says nothing about what took effect.
Act(u) ==
    /\ pc[u] = "effect"
    /\ \/ /\ effects' = IF Mutates(u) THEN effects \cup {Effect(u)} ELSE effects
          /\ \/ Goto(u, IF Mutates(u) THEN "reply" ELSE "offer") /\ UNCHANGED <<try, faults>>
             \/ Fault /\ Retry(u)
             \/ Fault /\ Goto(u, "reply") /\ UNCHANGED try
       \/ /\ UNCHANGED effects
          /\ \/ Goto(u, "reply") /\ UNCHANGED <<try, faults>>
             \/ Fault /\ Retry(u)
    /\ UNCHANGED <<now, active, memory, job, token>>

-------------------------------------------------------------------------------
(* Selections. *)

Expired == {t \in pending : ~Valid(t)}

\* Mutant: the newest selections make room.
RoomFromNewest(kept) ==
    IF Cardinality(kept) < MaxContexts THEN kept
    ELSE {t \in kept : Cardinality({s \in kept : s < t}) < MaxContexts - 1}

\* The oldest selections make room for the new one.
Room(kept) == {t \in kept : Cardinality({s \in kept : s >= t}) < MaxContexts}

NextToken == Cardinality(DOMAIN offered) + 1

\* remember: the buttons of one item or of the presets.
Remember(u) ==
    /\ pc[u] = "offer" /\ NextToken \in Token
    /\ pending' = Room(pending \ Expired) \cup {NextToken}
    /\ offered' = [t \in DOMAIN offered \cup {NextToken} |->
                     IF t = NextToken THEN [owner |-> place[u], expires |-> now + Ttl] ELSE offered[t]]
    /\ \/ kind[u] = "list" /\ UNCHANGED <<pc, job, try>>
       \/ Finish(u)
    /\ UNCHANGED <<now, active, forgotten, token, effects, faults>>

\* No item is left, or the contexts are too large to keep.
OfferNothing(u) ==
    /\ pc[u] = "offer"
    /\ Goto(u, "reply")
    /\ UNCHANGED <<now, active, memory, job, token, try, effects, faults>>

\* The answer, whether it reaches Telegram or not.
Reply(u) ==
    /\ pc[u] = "reply"
    /\ Finish(u)
    /\ UNCHANGED <<now, active, memory, token, effects, faults>>

\* Telegram refuses an acknowledgement or an answer, and the handler raises.
Raise(u) ==
    /\ pc[u] \in {"configure", "offer"} /\ Fault
    /\ Finish(u)
    /\ UNCHANGED <<now, active, memory, token, effects>>

\* The backend may hold the request of a mutation.
InFlight(u) ==
    /\ Mutates(u)
    /\ pc[u] = "effect" \/ (pc[u] = "call" /\ place[u][1] \in active)

\* The bot stops: what it had in memory and in hand is gone.  The backend may go on with
\* what it already accepted.
Restart ==
    /\ Fault
    /\ pending' = {} /\ forgotten' = forgotten \cup pending
    /\ \E S \in SUBSET {u \in Update : InFlight(u)} : effects' = effects \cup {Effect(u) : u \in S}
    /\ pc' = [u \in Update |-> IF pc[u] = "new" THEN "new" ELSE "over"]
    /\ kind' = [u \in Update |-> "none"] /\ place' = [u \in Update |-> None]
    /\ try' = [u \in Update |-> 1]
    /\ UNCHANGED <<now, active, offered, token>>

Work(u) ==
    \/ Admit(u) \/ Choose(u) \/ Read(u) \/ Configure(u) \/ CallerIdentity(u) \/ Act(u)
    \/ Remember(u) \/ OfferNothing(u) \/ Reply(u)

Next ==
    \/ Pass \/ Restart
    \/ \E user \in User : ChangeAccess(user)
    \/ \E u \in Update :
        \/ \E k \in {"list", "create", "press"}, p \in Place, t \in Token \cup {NoToken} : Arrive(u, k, p, t)
        \/ Work(u) \/ Raise(u)

Spec == Init /\ [][Next]_vars

-------------------------------------------------------------------------------
(* Properties. *)

\* The buttons of one answer act at most once, however often and by how many updates at
\* a time they are pressed, and only for the user and in the chat they were offered to.
SelectionActsOnce ==
    \A e, f \in effects :
        /\ e.token = f.token /\ e.token # NoToken => e = f
        /\ e.token # NoToken => offered[e.token].owner = e.place

\* One update has at most one effect: an uncertain mutation is never sent again.
UpdateActsOnce == \A e, f \in effects : e.update = f.update => e = f

Newer(t) == {s \in DOMAIN offered : s > t}
Taken(t) == \E u \in Update : token[u] = t /\ pc[u] \notin {"admit", "handle"}

\* A selection that is valid and that its owner did not use is there, unless the bot
\* restarted or offered as many newer ones as it keeps: nobody else's press, and no offer
\* before the bound, takes it away.
ValidIsKept ==
    \A t \in DOMAIN offered :
        Valid(t) /\ ~Taken(t) /\ t \notin forgotten /\ Cardinality(Newer(t)) < MaxContexts => t \in pending
===============================================================================
