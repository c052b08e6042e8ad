---------------------------- MODULE MCBackfill ----------------------------
(***************************************************************************)
(* Backfill on small constants.                                            *)
(***************************************************************************)
EXTENDS Backfill

\* Histories that make a backward batch end on a page with nothing to bridge,
\* use up its pages on such messages, and meet hidden ones.
SomeHistories ==
    { <<"noise", "chat">>, <<"chat", "noise", "hidden", "noise", "chat">> }

OneHistory == { <<"chat">> }
===========================================================================
