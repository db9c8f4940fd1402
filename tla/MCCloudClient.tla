---------------------------- MODULE MCCloudClient ----------------------------
(* Instances of CloudClient for TLC. *)
EXTENDS CloudClient, TLC

Symmetry == Permutations(Calls) \cup Permutations(Keys) \cup Permutations(Tokens)
=============================================================================
