---------------------------- MODULE MCApplyGate ----------------------------
(***************************************************************************)
(* Instances of ApplyGate for TLC: plans of one or two operations that     *)
(* carry the same plan_hash, and the symmetry of the calls.                *)
(***************************************************************************)
EXTENDS ApplyGate_proofs, TLC

CONSTANTS p1, p2, c1, c2

OneOp   == [p \in Proposals |-> 1]
TwoOps  == [p \in Proposals |-> 2]
OneHash == [p \in Proposals |-> 1]

CallSymmetry == Permutations(Calls)
=============================================================================
