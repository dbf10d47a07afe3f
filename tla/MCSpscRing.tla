----------------------------- MODULE MCSpscRing -----------------------------
(* Instances of SpscRing for TLC: a ring of a few cells over two bytes, with *)
(* pushes shorter, as long as and longer than the ring holds.                *)
EXTENDS SpscRing

MCSize == 4
MCByte == {0, 1}
MCChunks == {<<>>, <<0>>, <<1, 0>>, <<1, 0, 1>>, <<0, 1, 1, 0>>}
MCPops == 0 .. 4

=============================================================================
