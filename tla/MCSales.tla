------------------------------- MODULE MCSales -------------------------------
(* Sales for TLC: its symmetry. *)
EXTENDS Sales, TLC

Symmetry ==
    Permutations(Products) \cup Permutations(Cashiers) \cup Permutations(Voiders)
=============================================================================
