------------------------------ MODULE MCMsgQueue ------------------------------
(* Instances of MsgQueue for TLC. *)
EXTENDS MsgQueue
===============================================================================
