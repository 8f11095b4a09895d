------------------------- MODULE MCSandboxLifecycle -------------------------
(* Instances of SandboxLifecycle for TLC.                                  *)
EXTENDS SandboxLifecycle, TLC

Symmetry == Permutations(Proc) \cup Permutations(Run)
=============================================================================
