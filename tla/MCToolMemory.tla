---------------------------- MODULE MCToolMemory ----------------------------
(* ToolMemory with sizes such that the byte budget holds two ids of the    *)
(* small blocks, of one or of both, or one id of the large block, and is   *)
(* exceeded by the large block with any other id.                          *)
EXTENDS ToolMemory
CONSTANTS b1, b2, b3

Alike == Permutations(Id) \cup Permutations({b1, b2})

MCBlockBytes == [b \in Block |-> IF b = b3 THEN 4 ELSE 1]
=============================================================================
