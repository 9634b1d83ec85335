------------------------------- MODULE MCCli -------------------------------
(* Cli with one question, one answer word and two context sizes; the     *)
(* larger one allows the max effort prefix, of two tokens.                 *)
EXTENDS Cli
CONSTANTS p1, p2, bos, eos, u, x, th, pl, e1, e2, sy

MCPrefix  == <<e1, e2>>
MCSystems == {<<>>, <<sy>>}

Small == [ctx |-> 8, cap |-> 3, raw |-> 3, quant |-> 2]
Large == [ctx |-> 11, cap |-> 4, raw |-> 4, quant |-> 2]
MCConfigs == {Small, Large}

Processes == Permutations(Proc)
=============================================================================
