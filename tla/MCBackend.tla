------------------------------- MODULE MCBackend -------------------------------
(* A backend for TLC: a behaviour moves its lifespan or the requests, for they *)
(* share no state.                                                             *)
EXTENDS Backend, TLC

VARIABLE part

MCSymmetry == Permutations(Request)
MCPackages == <<"reminders", "ranking", "tg_channels">>

BackendInit ==
    /\ part \in {"lifespan", "rows"}
    /\ Lifespan!Init /\ Init

BackendNext ==
    /\ UNCHANGED part
    /\ \/ part = "lifespan" /\ Lifespan!Next /\ UNCHANGED vars
       \/ part = "rows" /\ Next /\ UNCHANGED lifespan
===============================================================================
