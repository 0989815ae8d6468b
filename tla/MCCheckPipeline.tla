-------------------------- MODULE MCCheckPipeline --------------------------
(* Small instances of CheckPipeline for TLC. *)
EXTENDS CheckPipeline, TLC

Symmetry == Permutations(Schedulers) \cup Permutations(Workers)
=============================================================================
