--------------------------------- MODULE MCBot ---------------------------------
(* The handlers of the bot for TLC. *)
EXTENDS Bot, TLC

MCSymmetry == Permutations(Update) \cup Permutations(User)
===============================================================================
