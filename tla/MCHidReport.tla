---------------------------- MODULE MCHidReport ----------------------------
(* Two sensor threads, as after one `restart'. *)
EXTENDS HidReport, TLC

CONSTANTS s1, s2

Symmetry == Permutations({s1, s2})
=============================================================================
