--------------------------- MODULE RequestRegister ---------------------------
(***************************************************************************)
(* What a core write promises its caller: every request takes effect at    *)
(* most once, in one step between its call and its answer, on one cell,    *)
(* and the answer tells what the cell held at that step.  A request that   *)
(* fails may have taken effect or not.                                     *)
(***************************************************************************)
CONSTANTS Request, Cell, Value, Absent

\* put: store a value.  change: the same, unless there is nothing to change.  get: read.
Kind == {"put", "change", "get"}
Wish == [kind : Kind, cell : Cell, value : Value]
NoWish == [kind |-> "none"]

VARIABLES
    reg,     \* the value of each cell
    wish,    \* what each request asks for
    phase,   \* where each request stands
    got      \* what a request found or left, Absent when there was nothing

vars == <<reg, wish, phase, got>>

Init ==
    /\ reg = [c \in Cell |-> Absent]
    /\ wish = [r \in Request |-> NoWish]
    /\ phase = [r \in Request |-> "idle"]
    /\ got = [r \in Request |-> Absent]

Call(r, w) ==
    /\ phase[r] = "idle"
    /\ phase' = [phase EXCEPT ![r] = "open"]
    /\ wish' = [wish EXCEPT ![r] = w]
    /\ UNCHANGED <<reg, got>>

Stores(w) ==
    \/ w.kind = "put"
    \/ w.kind = "change" /\ reg[w.cell] # Absent

\* The one step at which a request takes effect.
Take(r) ==
    /\ phase[r] = "open"
    /\ phase' = [phase EXCEPT ![r] = "done"]
    /\ LET w == wish[r] IN
       \/ /\ Stores(w)
          /\ reg' = [reg EXCEPT ![w.cell] = w.value] /\ got' = [got EXCEPT ![r] = w.value]
       \/ /\ ~Stores(w)
          /\ reg' = reg /\ got' = [got EXCEPT ![r] = reg[w.cell]]
    /\ UNCHANGED wish

Answer(r) ==
    /\ phase[r] = "done"
    /\ phase' = [phase EXCEPT ![r] = "answered"]
    /\ UNCHANGED <<reg, wish, got>>

Fail(r) ==
    /\ phase[r] \in {"open", "done"}
    /\ phase' = [phase EXCEPT ![r] = "failed"] /\ got' = [got EXCEPT ![r] = Absent]
    /\ UNCHANGED <<reg, wish>>

Next == \E r \in Request :
    \/ \E w \in Wish : Call(r, w)
    \/ Take(r) \/ Answer(r) \/ Fail(r)

Spec == Init /\ [][Next]_vars
===============================================================================
