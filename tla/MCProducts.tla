------------------------------ MODULE MCProducts ------------------------------
(* Products for TLC: its symmetry. *)
EXTENDS Products, TLC

Symmetry == Permutations(Products) \cup Permutations(Editors)
=============================================================================
