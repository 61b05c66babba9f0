-------------------------- MODULE MCServerRegistry --------------------------
(* ServerRegistry for TLC.                                                  *)
EXTENDS ServerRegistry
=============================================================================
