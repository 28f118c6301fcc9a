-------------------------------- MODULE MCStore --------------------------------
(* Store for TLC: its symmetry. *)
EXTENDS Store, TLC

Symmetry ==
    Permutations(Products) \cup Permutations(Cashiers) \cup Permutations(Voiders)
        \cup Permutations(Editors) \cup Permutations(Clerks)
=============================================================================
