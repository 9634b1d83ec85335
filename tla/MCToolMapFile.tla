--------------------------- MODULE MCToolMapFile ---------------------------
(* ToolMapFile with two blocks and three ids.                              *)
EXTENDS ToolMapFile
CONSTANTS pwd, ls

Ids == Permutations(CallId)

MCBlock == <<pwd, ls>>
=============================================================================
