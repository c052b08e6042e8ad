-------------------------- MODULE MCMessageChanges --------------------------
(***************************************************************************)
(* MessageChanges on small constants.                                      *)
(***************************************************************************)
EXTENDS MessageChanges, TLC

CONSTANTS w1, w2

TwoWorkers == {w1, w2}
WorkerSymmetry == Permutations(TwoWorkers)

\* A second of its own for each change.
SlowTyping == [n \in 1..MaxChanges |-> n]
=============================================================================
