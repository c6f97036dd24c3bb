--------------------------- MODULE MCSourceFeeds ---------------------------
(***************************************************************************)
(* SourceFeeds for TLC, with the model values of its runs.                 *)
(***************************************************************************)
EXTENDS SourceFeeds, TLC

CONSTANTS f1, a, b, c1, c2
=============================================================================
