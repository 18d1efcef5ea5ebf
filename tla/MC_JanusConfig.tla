---------------------------- MODULE MC_JanusConfig ----------------------------
(* Two categories, two item names and two values: enough for an overwrite, *)
(* for the same name in two categories and in the uncategorized list, and  *)
(* for a category removed and added again.                                 *)
EXTENDS JanusConfig

CONSTANTS ca, cb, nx, ny, v1, v2, null

MC_Cats == {ca, cb}
MC_Names == {nx, ny}
MC_Vals == {v1, v2}
=============================================================================
