-------------------------------- MODULE MCComponents --------------------------------
(* The instance of Components for TLC. *)
EXTENDS Components
=====================================================================================
