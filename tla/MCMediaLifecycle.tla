-------------------------- MODULE MCMediaLifecycle --------------------------
(* Instances of MediaLifecycle for TLC.                                    *)
EXTENDS MediaLifecycle, TLC

Symmetry == Permutations(Calls) \cup Permutations(Builders)
=============================================================================
