----------------------------- MODULE MCBindingRelay -----------------------------
(* Instances of BindingRelay for TLC. *)
EXTENDS BindingRelay, TLC

===============================================================================
