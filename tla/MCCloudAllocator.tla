-------------------------- MODULE MCCloudAllocator --------------------------
(* Instances of CloudAllocator for TLC. *)
EXTENDS CloudAllocator, TLC

NodeSymmetry == Permutations(Nodes)
=============================================================================
