------------------------ MODULE MCTailscaleIdentity ------------------------
(* Instances of TailscaleIdentity for TLC.                                 *)
EXTENDS TailscaleIdentity, TLC

Symmetry == Permutations(Node) \cup Permutations(Sid)
=============================================================================
