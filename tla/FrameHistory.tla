---------------------------- MODULE FrameHistory ----------------------------
(***************************************************************************)
(* FrameStream with a memory: every byte ever delivered is kept, with what *)
(* became of it, so that one can ask whether a picture was passed over.    *)
(***************************************************************************)
EXTENDS FrameStream

VARIABLES
  consumed,    (* the bytes no longer pending, oldest first                 *)
  frames,      (* the places, counted from the first byte, of the headers   *)
               (* whose picture was shown                                   *)
  flushed      (* the places of the bytes dropped because the ring was full *)

historyVars == <<streamVars, consumed, frames, flushed>>

stream == consumed \o pending

HistoryInit ==
  /\ StreamInit
  /\ consumed = <<>>
  /\ frames = {}
  /\ flushed = {}

Deliver(bytes) ==
  /\ Arrive(bytes)
  /\ UNCHANGED <<consumed, frames, flushed>>

(* What a step takes off the front of pending goes to consumed. *)
Account ==
  consumed' = consumed \o SubSeq(pending, 1, Len(pending) - Len(pending'))

ShowAndNote ==
  /\ Show
  /\ Account
  /\ frames' = frames \cup {Len(consumed) + 1}
  /\ UNCHANGED flushed

FlushAndNote ==
  /\ Flush
  /\ Account
  /\ flushed' = flushed \cup (Len(consumed) + 1 .. Len(consumed'))
  /\ UNCHANGED frames

PassAndNote ==
  /\ BadHeader \/ SkipByte
  /\ Account
  /\ UNCHANGED <<frames, flushed>>

HistoryNext ==
  \/ \E bytes \in Offers : Deliver(bytes)
  \/ ShowAndNote
  \/ FlushAndNote
  \/ PassAndNote

HistorySpec == HistoryInit /\ [][HistoryNext]_historyVars

-----------------------------------------------------------------------------
(* Properties *)

(* A header with another one right behind its picture *)
Genuine(i) == HeaderIn(stream, i) /\ HeaderIn(stream, i + FrameLength)

(* Resynchronisation loses nothing: a genuine header the channel has gone    *)
(* past had its picture shown, or was dropped because the ring was filling,  *)
(* or lies within a picture that was shown.  However a stream is cut and     *)
(* wherever false headers stand, no picture is passed over by going forward  *)
(* one byte, or four.                                                        *)
NoFrameSkipped ==
  \A i \in 1 .. Len(consumed) :
    Genuine(i) => \/ i \in frames
                  \/ i \in flushed
                  \/ \E j \in frames : i \in j + 1 .. j + FrameLength - 1

(* Pictures shown are genuine and do not overlap: each byte is shown once,   *)
(* and the picture last shown stands behind the last of their headers.       *)
FramesAreGenuine ==
  /\ \A i \in frames : Genuine(i) /\ i + FrameLength - 1 <= Len(consumed)
  /\ \A i, j \in frames : i < j => i + FrameLength <= j
  /\ \A i \in frames : (\A j \in frames : j <= i) =>
       picture = SubSeq(stream, i + 4, i + FrameLength - 1)

=============================================================================
