--------------------------- MODULE MCNamingServer ---------------------------
(* Instances of NamingServer for TLC. *)
EXTENDS NamingServerExchange, TLC

\* Clients are interchangeable in every safety run.
ClientSymmetry == Permutations(Clients)
=============================================================================
