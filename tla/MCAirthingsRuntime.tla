------------------------- MODULE MCAirthingsRuntime -------------------------
(* Instances of AirthingsRuntime for TLC: sets of model values and the       *)
(* symmetry that is sound for them (safety runs only).                       *)
EXTENDS HealthRefinement, TLC

Symmetry ==
    Permutations(Configs) \cup Permutations(Serials) \cup Permutations(Samples)
        \cup Permutations(Gens) \cup Permutations(Configurers)
=============================================================================
