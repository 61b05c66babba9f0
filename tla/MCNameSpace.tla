---------------------------- MODULE MCNameSpace -----------------------------
EXTENDS NameSpace, TLC

ClientSymmetry == Permutations(Clients)

\* A directory and two files in it; '/' is letter 0.
d == <<3>>
dx == <<3, 0, 1>>
dy == <<3, 0, 2>>
DirPaths == {d, dx, dy}

\* One file over the other, and a directory with the '/' typed behind its name.
SomeCopies == {<<dx, dy>>, <<Append(d, 0), dx>>}

\* Every command for every path, but d is the only directory that is made or deleted as
\* such.
SomeCommands ==
    ({"createfile", "deletefile", "read", "write"} \X DirPaths)
      \cup ({"createdir", "deletedir"} \X {d}) \cup ({"copyfile"} \X {dx, Append(d, 0)})
FileCommands == {"createfile", "deletefile", "read"} \X DirPaths

ASSUME Separate == NoContinuation

\* Every path has a bucket of its own.
ByLetter(p) == IF p = Root THEN 0 ELSE Last(p)
\* d and dx share a bucket.
LastLetter(p) == ByLetter(p) % 2
=============================================================================
