----------------------------- MODULE DmaTransfer ----------------------------
(***************************************************************************)
(* Class cxdma_reader and cxdma_utils::read_to_buffer: one descriptor, and *)
(* a transfer made of one or more read calls, each preceded by a seek      *)
(* unless the offset is 0.  write_from_buffer is read_to_buffer with the   *)
(* call to write in the place of the one to read.                          *)
(*                                                                         *)
(* A byte stands for the address it was read at: what the buffer holds     *)
(* says where each of its bytes came from.                                 *)
(***************************************************************************)
EXTENDS Integers, Sequences

CONSTANTS
  MaxSize,     (* RW_MAX_SIZE, the most one read call is asked for        *)
  Sizes,       (* what xdma_read may be asked for                         *)
  Bases,       (* the addresses it may be asked for                       *)
  MaxAddress   (* bound: how far the file position may go                 *)

ASSUME TransferAssumption ==
  /\ MaxSize \in Nat \ {0}
  /\ Sizes \subseteq Nat
  /\ Bases \subseteq Nat
  /\ MaxAddress \in Nat

VARIABLES
  fd,          (* whether _fpga_fd is a descriptor or INVALID_FD          *)
  position,    (* the file position of the open descriptor                *)
  step,        (* "idle", "seek", "read", "failed" or "returned"          *)
  size, base,  (* the arguments of the call                               *)
  start,       (* the file position when the call was made                *)
  count,       (* the bytes transferred, which the call returns           *)
  offset,      (* where the next chunk begins                             *)
  buffer       (* the bytes the call has stored                           *)

callVars == <<size, base, start, count, offset, buffer>>
transferVars == <<fd, position, step, callVars>>

TransferInit ==
  /\ fd = "invalid"
  /\ position = 0
  /\ step = "idle"
  /\ size = 0 /\ base = 0 /\ start = 0
  /\ count = 0 /\ offset = 0
  /\ buffer = <<>>

(* xdma_open gives a descriptor at position 0, keeps the one there is, or    *)
(* fails.                                                                    *)
xdma_open ==
  /\ step = "idle"
  /\ \/ fd = "invalid" /\ fd' = "open" /\ position' = 0
     \/ UNCHANGED <<fd, position>>
  /\ UNCHANGED <<step, callVars>>

xdma_close ==
  /\ step = "idle"
  /\ fd' = "invalid"
  /\ UNCHANGED <<position, step, callVars>>

(* Where the loop goes next: it ends when the buffer is full, and only an    *)
(* offset other than 0 is sought.                                            *)
Continue(done, total, at) ==
  IF done >= total THEN "returned" ELSE IF at # 0 THEN "seek" ELSE "read"

(* xdma_read without a descriptor returns -1 and changes nothing. *)
xdma_read(n, addr) ==
  /\ step = "idle"
  /\ fd = "open"
  /\ size' = n
  /\ base' = addr
  /\ start' = position
  /\ count' = 0
  /\ offset' = addr
  /\ buffer' = <<>>
  /\ step' = Continue(0, n, addr)
  /\ UNCHANGED <<fd, position>>

(* lseek, which may fail: -EIO *)
Seek ==
  /\ step = "seek"
  /\ \/ position' = offset /\ step' = "read"
     \/ step' = "failed" /\ UNCHANGED position
  /\ UNCHANGED <<fd, callVars>>

(* Mutant of Chunk: the last chunk is asked for as if it were a whole one. *)
ChunkWhole == MaxSize

(* What the next read call is asked for *)
Chunk == IF size - count > MaxSize THEN MaxSize ELSE size - count

(* What read stores when it returns n.  Whether it moves the file position   *)
(* is up to the driver: the loop must not depend on it.                      *)
Store(n) ==
  /\ position + n <= MaxAddress
  /\ buffer' = buffer \o [i \in 1 .. n |-> position + i - 1]
  /\ position' \in {position, position + n}
  /\ count' = count + n

(* Mutant of ShortRead: the loop goes on after a short read. *)
ShortReadContinues ==
  /\ step = "read"
  /\ \E n \in 0 .. Chunk - 1 : Store(n)
  /\ offset' = offset + Chunk
  /\ step' = Continue(count', size, offset')
  /\ UNCHANGED <<fd, size, base, start>>

(* read returns less than it was asked for: the loop breaks. *)
ShortRead ==
  /\ step = "read"
  /\ \E n \in 0 .. Chunk - 1 : Store(n)
  /\ step' = "returned"
  /\ UNCHANGED <<fd, size, base, start, offset>>

(* Mutant of FullRead: the offset is not moved on. *)
FullReadStays ==
  /\ step = "read"
  /\ Store(Chunk)
  /\ step' = Continue(count', size, offset)
  /\ UNCHANGED <<fd, size, base, start, offset>>

(* read returns what it was asked for. *)
FullRead ==
  /\ step = "read"
  /\ Store(Chunk)
  /\ offset' = offset + Chunk
  /\ step' = Continue(count', size, offset')
  /\ UNCHANGED <<fd, size, base, start>>

(* read fails (EAGAIN on this non-blocking descriptor, too): -EIO, and count *)
(* is forgotten.                                                             *)
ReadError ==
  /\ step = "read"
  /\ step' = "failed"
  /\ UNCHANGED <<fd, position, callVars>>

(* The caller has its result. *)
Return ==
  /\ step \in {"failed", "returned"}
  /\ step' = "idle"
  /\ UNCHANGED <<fd, position, callVars>>

TransferNext ==
  \/ xdma_open
  \/ xdma_close
  \/ \E n \in Sizes, addr \in Bases : xdma_read(n, addr)
  \/ Seek
  \/ ShortRead
  \/ FullRead
  \/ ReadError
  \/ Return

TransferSpec == TransferInit /\ [][TransferNext]_transferVars

-----------------------------------------------------------------------------
(* Properties *)

TransferTypeOK ==
  /\ fd \in {"open", "invalid"}
  /\ position \in Nat
  /\ step \in {"idle", "seek", "read", "failed", "returned"}
  /\ size \in {0} \cup Sizes
  /\ base \in {0} \cup Bases
  /\ start \in Nat
  /\ count \in 0 .. size
  /\ offset \in Nat
  /\ buffer \in Seq(Nat)

(* Count consecutive bytes, the first from address a *)
HoldsFrom(a) == buffer = [i \in 1 .. count |-> a + i - 1]

(* A transfer returns consecutive bytes from the address it was asked for,   *)
(* however many chunks it takes and however short the last one is; address 0 *)
(* is asked for with the descriptor just opened.                             *)
NoGapInBuffer ==
  step = "returned" /\ (base # 0 \/ start = 0) => HoldsFrom(base)

(* The receiver asks for less than RW_MAX_SIZE and treats a failed read as   *)
(* "nothing was read": then no byte taken from the device is thrown away     *)
(* with the count.                                                           *)
FailureTakesNothing ==
  step = "failed" /\ size <= MaxSize => count = 0

=============================================================================
