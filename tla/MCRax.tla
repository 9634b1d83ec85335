------------------------------- MODULE MCRax -------------------------------
(***************************************************************************)
(* Keys over three characters.  b, ba, bca and bcab share compressed       *)
(* edges; a, b and c fork at the head past a bitmap of two slots.          *)
(***************************************************************************)
EXTENDS Rax

a == 1
b == 2
c == 3
MCKeys == {<<>>, <<a>>, <<b, c, a>>, <<b, c, a, b>>, <<b, a>>, <<c>>}
MCProbes == MCKeys \cup {<<b>>, <<b, c>>, <<b, b>>, <<c, a>>, <<a, c>>}
MCValues == {Null, 1}
=============================================================================
