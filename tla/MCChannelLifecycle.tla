-------------------------- MODULE MCChannelLifecycle --------------------------
(* Instances of ChannelLifecycle for TLC. *)
EXTENDS ChannelLifecycle
===============================================================================
