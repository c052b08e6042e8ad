---------------------------- MODULE MCNonceCache ----------------------------
(***************************************************************************)
(* NonceCache on small constants.                                          *)
(***************************************************************************)
EXTENDS NonceCache, TLC

CONSTANTS r1, r2, r3, r4, r5

MCRandoms == {r1, r2, r3, r4, r5}
RandomSymmetry == Permutations(MCRandoms)
=============================================================================
