--------------------------- MODULE MCProScanSpool ---------------------------
(* Instances of ProScanSpool for TLC.                                      *)
EXTENDS ProScanSpool, TLC

CONSTANTS f1, f2, f3, r1, r2, n1

\* The third file is a renamed copy of the first, and replaces the second at its path.
Contents == [f \in Files |-> IF f = f2 THEN r2 ELSE r1]
Paths == [f \in Files |-> IF f = f1 THEN f1 ELSE f2]

\* Every path has a name of its own.
OwnNames == Paths

\* Two watch directories may hold files of one name.
OneName == [f \in Files |-> n1]

\* The server takes the two recordings for one call, or tells them apart.
SameCall == Recordings \X Recordings
OnlyItself == {<<r, r>> : r \in Recordings}

Symmetry == Permutations(Workers)
=============================================================================
