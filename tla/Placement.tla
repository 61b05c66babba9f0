------------------------------ MODULE Placement ------------------------------
(***************************************************************************)
(* Where the copies of a storage server live.  Servers form groups of      *)
(* three by index; each server keeps its own files in "main" and has a     *)
(* replica folder on each of the two others of its group.  The same        *)
(* arithmetic is written twice in Naming_server.c: in redundant_copy,      *)
(* which fills the replicas, and in Readfunctionality, which reads them.   *)
(***************************************************************************)
EXTENDS Integers

CONSTANT NServers   \* SERVER_PORT, the number of storage server slots

\* The source has SERVER_PORT = 6; index + 1 and index + 2 stay inside the
\* arrays only because that is a multiple of three.
ASSUME NServersAssumption == NServers \in Nat \ {0} /\ NServers % 3 = 0

Servers == 0 .. (NServers - 1)

\* index1 and p1 of redundant_copy: the first replica's host and folder.
Host1(i) == IF i % 3 = 0 THEN i + 1 ELSE IF i % 3 = 1 THEN i - 1 ELSE i - 2

\* Mutant: the last server of a group takes the folder the others take.
SameFolder1(i) == "copy1"

Folder1(i) == IF i % 3 = 2 THEN "copy2" ELSE "copy1"

\* index2 and p2 of redundant_copy: the second replica's host and folder.
Host2(i) == IF i % 3 = 0 THEN i + 2 ELSE IF i % 3 = 1 THEN i + 1 ELSE i - 1
Folder2(i) == IF i % 3 = 0 THEN "copy1" ELSE "copy2"

\* The server and folder Readfunctionality sends a client to for a file of
\* server i, given which servers are believed to be up.
ReadPlace(i, up) ==
    IF i \in up \/ up \cap {Host1(i), Host2(i)} = {} THEN <<i, "main">>
    ELSE IF Host1(i) \in up THEN <<Host1(i), Folder1(i)>>
    ELSE <<Host2(i), Folder2(i)>>
=============================================================================
