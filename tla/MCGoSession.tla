---------------------------- MODULE MCGoSession -----------------------------
(***************************************************************************)
(* Small instances of GoSession: an uncompressed layer, one of ratio 4 and *)
(* one of ratio 3 standing for 128.  MaxLen lets every ring wrap: the raw  *)
(* ones after CapRaw tokens, the compressed ones of a context below 4      *)
(* after 12.                                                               *)
(***************************************************************************)
EXTENDS GoSession, TLC

CONSTANTS a, b, x

MCRatio == (0 :> 0) @@ (1 :> 4) @@ (2 :> 3)
MCPrompts == {<<b, a, b, a>>, <<b, b, a>>}
MCUnaligned == {<<a, b, a, b, b>>}
=============================================================================
