---------------------------- MODULE MCReactions ----------------------------
(***************************************************************************)
(* Reactions on small constants: one user who reacts on both sides, one in *)
(* Talk only, and a pseudo-actor that has no ghost.                        *)
(***************************************************************************)
EXTENDS Reactions, TLC

CONSTANTS alice, bob, cli, w1, w2

Everybody == {alice, bob, cli}
People == {alice, bob}
Alice == {alice}
TwoWorkers == {w1, w2}
Symmetry == Permutations(TwoWorkers)
===========================================================================
