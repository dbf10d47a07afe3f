---------------------------- MODULE CircleBuffer ----------------------------
(***************************************************************************)
(* The index arithmetic and the copies of class CircleBuffer               *)
(* (src/src/CircleBuffer.cpp), as operators on its members: v stands for   *)
(* m_ValidPosition, s for m_StorablePosition, and a buffer is a function   *)
(* from cell numbers to bytes.  One cell is always left free, so the ring  *)
(* holds at most Size - 1 bytes and v = s means empty.                     *)
(*                                                                         *)
(* Module SpscRing turns these operators into the steps of two threads.    *)
(***************************************************************************)
EXTENDS Integers, Sequences

CONSTANTS
  Size,     (* m_Size, the number of cells  *)
  Byte      (* the byte values in use       *)

(* CircleBuffer(0) would divide by zero; the constructor takes any other size. *)
ASSUME SizeAssumption == Size \in Nat \ {0}

Cells == 0 .. Size - 1

-----------------------------------------------------------------------------
(* Occupancy *)

getLenOfValidSpace(v, s) ==
  IF s > v THEN (Size - 1) - (s - v)
  ELSE IF s < v THEN v - s - 1
  ELSE Size - 1

getLenOfValidData(v, s) == Size - 1 - getLenOfValidSpace(v, s)

(* "p += n; p %= m_Size", compiled to one store. *)
Advance(p, n) == (p + n) % Size

-----------------------------------------------------------------------------
(* pushData: how many bytes it takes, and its one or two memcpy calls *)

(* Mutant of PushLength: the room left is not looked at. *)
PushLengthUnchecked(size, space) == size

PushLength(size, space) == IF size < space THEN size ELSE space

(* The copy does not stay below the last cell and is made in two parts. *)
Wraps(s, n) == n > Size - 1 - s

(* The bytes that go to the end of the buffer; the others go to its start. *)
FirstLength(s, n) == IF Wraps(s, n) THEN Size - s ELSE n

(* memcpy(m_Buffer + at, buffer + from, n) *)
Memcpy(buffer, at, bytes, from, n) ==
  [i \in Cells |-> IF i \in at .. at + n - 1 THEN bytes[from + (i - at) + 1]
                                             ELSE buffer[i]]

-----------------------------------------------------------------------------
(* popData and readData *)

PopLength(size, len) == IF len >= size THEN size ELSE len

(* Mutant of ReadBytes: the second copy starts one cell late. *)
ReadBytesOffByOne(buffer, v, n) ==
  [i \in 1 .. n |-> IF i <= Size - v THEN buffer[v + i - 1]
                                     ELSE buffer[(i - (Size - v)) % Size]]

(* The n bytes readData copies out: a stretch up to the last cell, then the *)
(* rest from cell 0.                                                        *)
ReadBytes(buffer, v, n) ==
  [i \in 1 .. n |-> IF i <= Size - v THEN buffer[v + i - 1]
                                     ELSE buffer[i - 1 - (Size - v)]]

(* What the ring holds, oldest byte first. *)
Contents(buffer, v, s) ==
  [i \in 1 .. getLenOfValidData(v, s) |-> buffer[Advance(v, i - 1)]]

(* The cell at distance d from v is the cell Advance(v, d): the distance of *)
(* a cell says whether a byte there is counted as valid.                    *)
Distance(v, c) == IF c >= v THEN c - v ELSE Size - v + c

=============================================================================
