----------------------------- MODULE MCDataPath -----------------------------
(* DataPath for TLC: a and b on one storage server, d on another.           *)
EXTENDS DataPath

At2(p) == IF p = "d" THEN 1 ELSE 0
CopyBoth == {<<"a", "b">>, <<"a", "d">>}
=============================================================================
