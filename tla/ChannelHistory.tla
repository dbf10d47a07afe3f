--------------------------- MODULE ChannelHistory ---------------------------
(***************************************************************************)
(* Channel with a memory the program does not have: every byte xdma_read   *)
(* ever returned, and what became of those the analysis thread has gone    *)
(* past.  Remember only records what a step of the channel does, so every  *)
(* behaviour of Channel is one of HistorySpec with the history added.      *)
(***************************************************************************)
EXTENDS Channel

VARIABLES
  delivered,   (* the bytes the device delivered, oldest first              *)
  consumed,    (* those of them that are no longer pending                  *)
  frames,      (* the places in delivered of the headers whose picture was  *)
               (* shown                                                     *)
  flushed      (* the places of the bytes isClear dropped                   *)

historyVars == <<delivered, consumed, frames, flushed>>

HistoryInit ==
  /\ Init
  /\ delivered = <<>>
  /\ consumed = <<>>
  /\ frames = {}
  /\ flushed = {}

(* xdma_read returns a block. *)
NoteRead ==
  delivered' = IF reader = "loop" /\ reader' = "push" THEN delivered \o rest'
                                                      ELSE delivered

(* Bytes are taken off the front. *)
NoteTaken ==
  consumed' = consumed \o SubSeq(Pending, 1, Len(Pending) - Len(Pending'))

(* A picture is taken: its header is the first byte that goes. *)
NoteShown ==
  frames' = IF analysis = "picture" /\ analysis' = "show"
              THEN frames \cup {Len(consumed) + 1} ELSE frames

(* isClear stores the position. *)
NoteFlushed ==
  flushed' = IF analysis = "clear" /\ analysis' # "clear"
               THEN flushed \cup (Len(consumed) + 1 .. Len(consumed')) ELSE flushed

Remember == NoteRead /\ NoteTaken /\ NoteShown /\ NoteFlushed

HistoryNext == Next /\ Remember

HistorySpec == HistoryInit /\ [][HistoryNext]_<<vars, historyVars>>

FairHistorySpec == HistorySpec /\ Fairness

-----------------------------------------------------------------------------
(* Properties *)

(* What is left of the block in hand behind what the running pushData has   *)
(* made part of the ring *)
Unpushed ==
  LET stored == IF producer = "push" /\ "index" \notin todo THEN count ELSE 0
  IN SubSeq(rest, stored + 1, Len(rest))

(* Between the device and the analysis no byte is lost, doubled or put out   *)
(* of order: until quit, what xdma_read returned is what the analysis thread *)
(* has gone past, what it has pending and what is still to be pushed, for    *)
(* every interleaving of the two threads and with a ring that runs full in   *)
(* the middle of a block.                                                    *)
EveryByteIsKept == ~ quit => delivered = consumed \o Pending \o Unpushed

(* A header with another one right behind its picture *)
Genuine(i) ==
  Stream!HeaderIn(delivered, i) /\ Stream!HeaderIn(delivered, i + FrameLength)

(* Until quit the channel passes over no picture the device delivered: a     *)
(* genuine header it has gone past had its picture shown, or was dropped by  *)
(* isClear, or lies within a picture that was shown.  However the blocks cut *)
(* the stream, wherever false headers stand, and although the thread looks   *)
(* at bytes of which more are still coming.                                  *)
NoPictureSkipped ==
  ~ quit =>
    \A i \in 1 .. Len(consumed) :
      Genuine(i) => \/ i \in frames
                    \/ i \in flushed
                    \/ \E j \in frames : i \in j + 1 .. j + FrameLength - 1

(* Until quit the pictures shown stand between two headers in what the       *)
(* device delivered, they do not overlap, and the picture last taken is,     *)
(* byte for byte, the one behind the last of these headers.                  *)
PicturesAreGenuine ==
  ~ quit =>
    /\ \A i \in frames : Genuine(i)
    /\ \A i, j \in frames : i < j => i + FrameLength <= j
    /\ \A i \in frames : (\A j \in frames : j <= i) =>
         PictureSeen = SubSeq(delivered, i + 4, i + FrameLength - 1)

(* A picture the device has delivered is not left waiting, whatever was in   *)
(* the ring before it: while one is pending, or taken and not yet shown, the *)
(* analysis thread goes on past bytes again and again, and so comes to it    *)
(* (NoPictureSkipped says what becomes of it then), until the program is     *)
(* told to stop or the thread is stuck at a mutex that was lost.             *)
Waiting ==
  \/ analysis = "show"
  \/ \E i \in Len(consumed) + 1 .. Len(delivered) : Genuine(i)

PicturesGetThrough ==
  \/ []<>(~Waiting \/ quit \/ Stuck)
  \/ []<><<consumed' # consumed>>_<<vars, historyVars>>

=============================================================================
