---------------------------- MODULE MCDmaTransfer ---------------------------
(* An instance of DmaTransfer for TLC: transfers of up to three chunks of    *)
(* two bytes, at the start of the device's memory and further on.            *)
EXTENDS DmaTransfer

MCMaxSize == 2
MCSizes == {0, 1, 2, 3, 5, 6}
MCBases == {0, 1, 4}
MCMaxAddress == 12

=============================================================================
