--------------------------------- MODULE MCKit ---------------------------------
(***************************************************************************)
(* The kit.  Its parts share no state: "part" says which of them moves     *)
(* while the others stay where they start, so that their state spaces add  *)
(* up and are not multiplied.                                              *)
(***************************************************************************)
EXTENDS MCPackageInstall, MCPackageActivation, MCTooling, TLC

VARIABLE part

Parts == {"install", "activation", "listing", "environment", "ranking", "matching", "merging"}

\* Where the activation is not the part that moves, there is no package anywhere.
KitInit ==
    /\ part \in Parts
    /\ Init /\ Listing!Init /\ Environment!Init /\ Ranked!Init /\ Matching!Init /\ Merging!Init
    /\ \/ part = "activation" /\ Activation!Init
       \/ part # "activation" /\ site = <<>> /\ allowed = <<>> /\ generated = <<>> /\ changes = 0

\* All but one part stay as they are.
Still(moving) ==
    /\ UNCHANGED part
    /\ IF moving = "install" THEN TRUE ELSE UNCHANGED vars
    /\ IF moving = "activation" THEN TRUE ELSE UNCHANGED activation
    /\ IF moving = "listing" THEN TRUE ELSE UNCHANGED listing
    /\ IF moving = "environment" THEN TRUE ELSE UNCHANGED environment
    /\ IF moving = "ranking" THEN TRUE ELSE UNCHANGED ranked
    /\ IF moving = "matching" THEN TRUE ELSE UNCHANGED matching
    /\ IF moving = "merging" THEN TRUE ELSE UNCHANGED merging

KitNext ==
    /\ \/ part = "install" /\ Next
       \/ part = "activation" /\ Activation!Next
       \/ part = "listing" /\ Listing!Next
       \/ part = "environment" /\ Environment!Next
       \/ part = "ranking" /\ Ranked!Next
       \/ part = "matching" /\ Matching!Next
       \/ part = "merging" /\ Merging!Next
    /\ Still(part)

===============================================================================
