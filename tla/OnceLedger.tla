------------------------------ MODULE OnceLedger ------------------------------
(***************************************************************************)
(* What the core jobs contract promises about one command identity, with   *)
(* the sessions, locks and callers left out.  A command is accepted with   *)
(* one payload; its event is emitted only while no earlier emission of the *)
(* same identity is still awaiting its evidence; an emission ends either   *)
(* confirmed, which is terminal, or forgotten, after which the command may *)
(* be emitted again.                                                       *)
(***************************************************************************)
EXTENDS Naturals, Sequences

CONSTANTS
    Command,    \* identities: (fired_by_product, command_id) pairs
    Payload,    \* what a command carries: its name, arguments and run
    NoPayload   \* the mark of an identity nothing was accepted for

VARIABLES
    accepted,   \* the payload each identity was accepted with
    emissions,  \* the payloads emitted for each identity, oldest first
    open,       \* identities with an emission whose evidence is not settled
    final       \* identities whose dispatch is terminal

vars == <<accepted, emissions, open, final>>

TypeOK ==
    /\ accepted \in [Command -> Payload \cup {NoPayload}]
    /\ emissions \in [Command -> Seq(Payload)]
    /\ open \subseteq Command
    /\ final \subseteq Command

Init ==
    /\ accepted = [i \in Command |-> NoPayload]
    /\ emissions = [i \in Command |-> <<>>]
    /\ open = {}
    /\ final = {}

Accept(i, p) ==
    /\ accepted[i] = NoPayload
    /\ accepted' = [accepted EXCEPT ![i] = p]
    /\ UNCHANGED <<emissions, open, final>>

\* The event carries the accepted payload, never a later caller's.
Emit(i) ==
    /\ accepted[i] # NoPayload
    /\ i \notin open \cup final
    /\ emissions' = [emissions EXCEPT ![i] = Append(@, accepted[i])]
    /\ open' = open \cup {i}
    /\ UNCHANGED <<accepted, final>>

Confirm(i) ==
    /\ i \in open
    /\ open' = open \ {i}
    /\ final' = final \cup {i}
    /\ UNCHANGED <<accepted, emissions>>

Forget(i) ==
    /\ i \in open
    /\ open' = open \ {i}
    /\ UNCHANGED <<accepted, emissions, final>>

Next ==
    \E i \in Command :
        \/ \E p \in Payload : Accept(i, p)
        \/ Emit(i)
        \/ Confirm(i)
        \/ Forget(i)

Spec == Init /\ [][Next]_vars
===============================================================================
