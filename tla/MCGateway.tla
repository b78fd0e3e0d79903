-------------------------------- MODULE MCGateway --------------------------------
(* The gateway with the values of MCGateway.cfg. *)
EXTENDS Gateway
===============================================================================
