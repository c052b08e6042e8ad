------------------------------ MODULE MCLogin ------------------------------
(***************************************************************************)
(* Login and Credentials on small constants.                               *)
(***************************************************************************)
EXTENDS Login

CONSTANTS oldKey, newKey, noKey, p1, startup

MCKeys == {oldKey, newKey}
OneProcess == {p1}
=============================================================================
