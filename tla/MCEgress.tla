----------------------------- MODULE MCEgress -----------------------------
(***************************************************************************)
(* Egress on small constants: two rooms of one user, a file written in     *)
(* each, and one more message of some kind.                                *)
(***************************************************************************)
EXTENDS Egress

CONSTANTS lobby, office, picture, drawing, words, synced

TwoRooms == {lobby, office}
ThreeEvents == {picture, drawing, words}
WhereWritten == [e \in ThreeEvents |-> IF e = drawing THEN office ELSE lobby]
WhatWritten == [e \in ThreeEvents |-> IF e = words THEN {"reply", "relayed", "relayed file"} ELSE {"file"}]
OneSynced == {synced}
===========================================================================
