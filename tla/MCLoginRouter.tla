--------------------------- MODULE MCLoginRouter ---------------------------
(***************************************************************************)
(* LoginRouter on small constants.                                         *)
(***************************************************************************)
EXTENDS LoginRouter

CONSTANTS w1, w2

MCWorkers == {w1, w2}
=============================================================================
