----------------------------- MODULE MCClientStream -----------------------------
(* Instances of ClientStream for TLC. *)
EXTENDS ClientStream
=================================================================================
