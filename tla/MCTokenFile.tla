------------------------------ MODULE MCTokenFile ------------------------------
(* Two starts, two runs of cwops auth, tokens of two lengths. *)
EXTENDS TokenFile, TLC

CONSTANTS s1, s2, a1, a2

Alike == Permutations({s1, s2}) \cup Permutations({a1, a2})
=============================================================================
