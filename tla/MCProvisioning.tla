---------------------------- MODULE MCProvisioning ----------------------------
(* Instances of Provisioning for TLC. *)
EXTENDS Provisioning, TLC

(* Sound for safety only. *)
Symmetry == Permutations(Workers) \union Permutations(Imsis) \union Permutations(Groups)
=============================================================================
