------------------------------ MODULE MCChannel -----------------------------
(* Instances of Channel for TLC.  Pictures are two bytes, and the ring is    *)
(* the smallest one in which a picture fits between two headers, so that the *)
(* push loop runs into a full ring.                                          *)
EXTENDS Channel

MCPictureSize == 2
MCSize == 4 + FrameLength + 1
MCByte == {0, 18, 52, 86, 120}
MCGarbage == {0}

Frame == Header \o <<0, 18>>
Noise == <<0, 0, 0, 0, 0, 0, 0, 0, 0>>
MCBlocks == {Frame, Header \o Frame, Frame \o Header, Noise}
MCMaxReads == 2
MCWord == 256

(* pushData is called on what is left of a block. *)
MCChunks == {SubSeq(b, i, Len(b)) : b \in MCBlocks, i \in 1 .. 10}
MCPops == {1, 4, MCPictureSize}

=============================================================================
