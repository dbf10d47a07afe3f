------------------------------ MODULE MCHistory -----------------------------
(* An instance of ChannelHistory for TLC: pictures as long as a header, so   *)
(* that one can look like a header, in a ring that holds one of them between *)
(* two headers, and blocks that break headers off or put four in a row.      *)
EXTENDS ChannelHistory

MCPictureSize == 4
MCSize == 4 + FrameLength + 1
MCByte == {0, 18, 52, 86, 120}
MCGarbage == {0}

MCBlocks == {Header \o Header, <<0>> \o Header, Header \o <<18, 52>>, <<86, 120>> \o Header}
MCMaxReads == 3
MCWord == 256

MCChunks == {SubSeq(b, i, Len(b)) : b \in MCBlocks, i \in 1 .. 8}
MCPops == {1, 4, MCPictureSize}

=============================================================================
