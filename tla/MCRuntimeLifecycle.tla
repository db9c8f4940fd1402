------------------------- MODULE MCRuntimeLifecycle -------------------------
(* The instance of RuntimeLifecycle for TLC: the symmetry that is sound for  *)
(* its sets of model values (safety run only).                               *)
EXTENDS RuntimeLifecycle, TLC

Symmetry ==
    Permutations(Configs) \cup Permutations(Gens)
        \cup Permutations(ContainerIds) \cup Permutations(Tokens)
=============================================================================
