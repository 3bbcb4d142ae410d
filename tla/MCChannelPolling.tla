---------------------------- MODULE MCChannelPolling ----------------------------
(* Instances of ChannelPolling for TLC. *)
EXTENDS ChannelPolling, TLC
===============================================================================
