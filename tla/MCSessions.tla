----------------------------- MODULE MCSessions -----------------------------
(***************************************************************************)
(* Sessions on small constants: one group conversation.                    *)
(***************************************************************************)
EXTENDS Sessions

CONSTANT team

OneGroup == {team}
None == {}
=============================================================================
