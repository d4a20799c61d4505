-------------------------- MODULE MCUploadSession --------------------------
(* Instances of UploadSession for TLC.                                     *)
EXTENDS UploadRefinement, TLC

\* Every recording equals itself only / every two are equal; or, of SameKey:
\* every recording has a key of its own / all share one.
OnlyItself == {<<r, r>> : r \in Recordings}
AllMatch   == Recordings \X Recordings

\* The legacy recordings have a key each, the others have none.
LegacyKeyed == {<<r, r>> : r \in Legacy}

Symmetry == Permutations(Handlers)
=============================================================================
