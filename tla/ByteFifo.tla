------------------------------ MODULE ByteFifo ------------------------------
(***************************************************************************)
(* What a CircleBuffer promises to its two callers: a bounded first-in,    *)
(* first-out queue of bytes.  No positions, no cells, no wrap-around, and  *)
(* every call takes effect in one step.                                    *)
(***************************************************************************)
EXTENDS Integers, Sequences

CONSTANTS
  Byte,       (* the bytes                              *)
  Capacity,   (* the most bytes it holds: m_Size - 1    *)
  Offers      (* what a producer may offer              *)

VARIABLES
  queue,      (* the bytes not yet dropped, oldest first *)
  copied      (* what the consumer last copied out       *)

fifoVars == <<queue, copied>>

FifoInit ==
  /\ queue = <<>>
  /\ copied = <<>>

(* pushData takes as long a prefix of the offer as it sees room for; room  *)
(* made while it runs may go unused.                                       *)
Push(bytes) ==
  /\ \E n \in 1 .. Len(bytes) :
       /\ Len(queue) + n <= Capacity
       /\ queue' = queue \o SubSeq(bytes, 1, n)
  /\ UNCHANGED copied

(* popData and isClear drop the oldest bytes. *)
Drop ==
  /\ \E n \in 1 .. Len(queue) : queue' = SubSeq(queue, n + 1, Len(queue))
  /\ UNCHANGED copied

(* readData copies the oldest bytes and leaves them in the queue. *)
Copy ==
  /\ \E n \in 1 .. Len(queue) : copied' = SubSeq(queue, 1, n)
  /\ UNCHANGED queue

FifoNext == (\E bytes \in Offers : Push(bytes)) \/ Drop \/ Copy

FifoSpec == FifoInit /\ [][FifoNext]_fifoVars

=============================================================================
