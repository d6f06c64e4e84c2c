-------------------------- MODULE MCGroupRegistry --------------------------
(***************************************************************************)
(* A small instance of GroupRegistry for TLC.                              *)
(***************************************************************************)
EXTENDS GroupRegistry, TLC

CONSTANTS g1, alice, bob, zero, c1, c2, root1, k1, k2

\* Commitments other than bytes32(0), and ciphertexts, are interchangeable.
Symmetry == Permutations({c1, c2}) \union Permutations({k1, k2})
=============================================================================
