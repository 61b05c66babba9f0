--------------------------- MODULE MCClientPorts ----------------------------
(* Instances of ClientPorts for TLC. *)
EXTENDS ClientPorts
=============================================================================
