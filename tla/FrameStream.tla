---------------------------- MODULE FrameStream -----------------------------
(***************************************************************************)
(* What one channel of cxdma_receiver promises: a byte stream in which a   *)
(* picture of PictureSize bytes follows each four-byte header is cut into  *)
(* pictures.  A header counts only if another one stands right behind the  *)
(* picture; bytes before a header are passed over one at a time, a header  *)
(* that does not count is passed over whole, and a ring that fills beyond  *)
(* four fifths while no header is found is emptied.                        *)
(*                                                                         *)
(* Every operation is one step on a queue of bytes: no threads, no ring.   *)
(***************************************************************************)
EXTENDS Integers, Sequences

CONSTANTS
  Byte,          (* the byte values in use, the header's four among them *)
  PictureSize,   (* m_Pic_Capicity: height * width * 2                   *)
  Capacity,      (* the most bytes the channel holds                     *)
  Level,         (* four fifths of the ring                              *)
  Offers         (* what the device may deliver at a time                *)

Header == <<18, 52, 86, 120>>      (* 0x12 0x34 0x56 0x78 *)

(* What is assumed of them; the module is instanced only, by a channel, for  *)
(* which it is a theorem (HistoryParameters in Channel_proofs).              *)
StreamAssumption ==
  /\ {18, 52, 86, 120} \subseteq Byte
  /\ PictureSize \in Nat \ {0}
  /\ Capacity \in Nat
  /\ Level \in 0 .. Capacity
  /\ Offers \subseteq Seq(Byte)

VARIABLES
  pending,       (* bytes delivered by the device and not yet consumed *)
  picture,       (* the picture last shown                             *)
  shown,         (* how many were shown                                *)
  stopping       (* the user asked the program to stop                 *)

streamVars == <<pending, picture, shown, stopping>>

FrameLength == 4 + PictureSize

(* A header stands at index i of the bytes. *)
HeaderIn(bytes, i) ==
  /\ i + 3 <= Len(bytes)
  /\ \A k \in 1 .. 4 : bytes[i + k - 1] = Header[k]

StreamInit ==
  /\ pending = <<>>
  /\ picture = <<>>
  /\ shown = 0
  /\ stopping = FALSE

DropFront(n) == pending' = SubSeq(pending, n + 1, Len(pending))

(* The read thread stores part of what it read. *)
Arrive(bytes) ==
  /\ \E n \in 1 .. Len(bytes) :
       /\ Len(pending) + n <= Capacity
       /\ pending' = pending \o SubSeq(bytes, 1, n)
  /\ UNCHANGED <<picture, shown, stopping>>

(* A picture between two headers is shown; the second header stays. *)
Show ==
  /\ HeaderIn(pending, 1)
  /\ HeaderIn(pending, 1 + FrameLength)
  /\ picture' = SubSeq(pending, 5, FrameLength)
  /\ shown' = shown + 1
  /\ DropFront(FrameLength)
  /\ UNCHANGED stopping

(* A header with no header behind the picture is passed over. *)
BadHeader ==
  /\ HeaderIn(pending, 1)
  /\ Len(pending) >= 4 + FrameLength
  /\ ~ HeaderIn(pending, 1 + FrameLength)
  /\ DropFront(4)
  /\ UNCHANGED <<picture, shown, stopping>>

(* A byte no header starts with is passed over. *)
SkipByte ==
  /\ Len(pending) >= 4
  /\ ~ HeaderIn(pending, 1)
  /\ DropFront(1)
  /\ UNCHANGED <<picture, shown, stopping>>

(* More than four fifths of the ring wait while no header is found: what was *)
(* there when the ring was looked at goes.                                   *)
Flush ==
  /\ Len(pending) > Level
  /\ \E n \in 1 .. Len(pending) : DropFront(n)
  /\ UNCHANGED <<picture, shown, stopping>>

Stop ==
  /\ stopping' = TRUE
  /\ UNCHANGED <<pending, picture, shown>>

(* Once it is told to stop, a channel finishes the turn it is in with        *)
(* whatever bytes there are: nothing is promised of a picture shown then.    *)
LastTurn ==
  /\ stopping
  /\ \E n \in 0 .. Len(pending) : DropFront(n)
  /\ \/ UNCHANGED <<picture, shown>>
     \/ /\ shown' = shown + 1
        /\ \/ UNCHANGED picture
           \/ /\ Len(pending) >= FrameLength
              /\ picture' = SubSeq(pending, 5, FrameLength)
  /\ UNCHANGED stopping

Consume == Show \/ BadHeader \/ SkipByte \/ Flush \/ LastTurn

StreamNext == (\E bytes \in Offers : Arrive(bytes)) \/ Consume \/ Stop

StreamSpec == StreamInit /\ [][StreamNext]_streamVars

=============================================================================
