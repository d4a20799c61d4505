--------------------------- MODULE MCCallPipeline ---------------------------
(* Instances of CallPipeline for TLC.                                      *)
EXTENDS CallPipeline, TLC

Symmetry ==
  Permutations(Calls) \cup Permutations(Providers)
    \cup Permutations(Workers) \cup Permutations(Notifiers)
=============================================================================
