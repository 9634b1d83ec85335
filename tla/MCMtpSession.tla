---------------------------- MODULE MCMtpSession ----------------------------
(***************************************************************************)
(* A small instance of MtpSession: an uncompressed layer, one of ratio 4   *)
(* with its index and one of ratio 3 standing for 128; batches of four     *)
(* tokens, a ring of the window and one batch, a context beyond the ring.  *)
(***************************************************************************)
EXTENDS MtpSession, TLC

CONSTANTS a, b, e

MCRatio == <<0, 4, 3>>
MCChoice == [k \in 1..Ctx |-> IF k = 9 THEN e ELSE a]
MCPrompts == {<<b, a, a, a>>, <<b, a, a, a, a, a, b, a>>, <<b, b>>}
MCUnaligned == {<<b, a, b, b, a>>}
=============================================================================
