------------------------- MODULE DmaTransfer_proofs -------------------------
(***************************************************************************)
(* Proofs about one transfer, for any chunk size, any sizes and addresses  *)
(* and a device that moves its file position by a read or does not.        *)
(***************************************************************************)
EXTENDS DmaTransfer, SequenceTheorems, TLAPS

(* What a transfer in progress keeps: the next chunk begins where the bytes *)
(* read so far end, the descriptor stands there when it is read, and one    *)
(* that is asked for in one piece has read nothing yet.                     *)
ProgressInv ==
  /\ step \in {"seek", "read"} => count < size /\ offset = base + count
  /\ step = "seek" => offset # 0
  /\ step = "read" => position = IF offset # 0 THEN offset ELSE start
  /\ step \in {"seek", "read", "failed"} /\ size <= MaxSize => count = 0
  /\ step \in {"seek", "read", "returned"} /\ (base # 0 \/ start = 0) => HoldsFrom(base)

TransferInv == TransferTypeOK /\ ProgressInv

-----------------------------------------------------------------------------
(* Bytes a .. a + m - 1, and n more. *)
LEMMA Consecutive ==
  ASSUME NEW a \in Nat, NEW m \in Nat, NEW n \in Nat
  PROVE  [i \in 1 .. m |-> a + i - 1] \o [i \in 1 .. n |-> (a + m) + i - 1]
           = [i \in 1 .. m + n |-> a + i - 1]
<1> DEFINE s == [i \in 1 .. m |-> a + i - 1]
           t == [i \in 1 .. n |-> (a + m) + i - 1]
           u == [i \in 1 .. m + n |-> a + i - 1]
<1>1. s \in Seq(Nat) /\ Len(s) = m /\ t \in Seq(Nat) /\ Len(t) = n
  OBVIOUS
<1>2. u \in Seq(Nat) /\ Len(u) = m + n
  OBVIOUS
<1>3. s \o t \in Seq(Nat) /\ Len(s \o t) = m + n
  BY <1>1
<1>4. ASSUME NEW i \in 1 .. m + n PROVE (s \o t)[i] = u[i]
  <2>1. CASE i \in 1 .. m
    BY <1>1, <2>1
  <2>2. CASE i \in m + 1 .. m + n
    <3>1. (s \o t)[i] = t[i - m]
      BY <1>1, <2>2
    <3>2. i - m \in 1 .. n
      BY <2>2
    <3> QED BY <2>2, <3>1, <3>2
  <2> QED BY <2>1, <2>2
<1> HIDE DEF s, t, u
<1>5. s \o t = u
  BY <1>2, <1>3, <1>4, SeqEqual
<1> QED BY <1>5 DEF s, t, u

(* What is asked for in one call *)
LEMMA ChunkBounds ==
  ASSUME TransferInv, step = "read"
  PROVE  /\ Chunk \in Nat /\ 0 < Chunk /\ count + Chunk <= size
         /\ size <= MaxSize => count + Chunk = size
         /\ size \in Nat /\ base \in Nat /\ count \in Nat
  BY TransferAssumption DEF TransferInv, TransferTypeOK, ProgressInv, Chunk

(* A read of n bytes: the count and the bytes stored agree. *)
LEMMA StoreStep ==
  ASSUME TransferInv, step = "read", NEW n \in 0 .. Chunk, Store(n)
  PROVE  /\ position' \in Nat /\ buffer' \in Seq(Nat)
         /\ count' = count + n /\ count' \in 0 .. size
         /\ (base # 0 \/ start = 0) => buffer' = [i \in 1 .. count' |-> base + i - 1]
<1>1. n \in Nat /\ count \in Nat /\ base \in Nat /\ size \in Nat /\ position \in Nat
      /\ buffer \in Seq(Nat) /\ Chunk \in Nat /\ count + Chunk <= size
  BY ChunkBounds DEF TransferInv, TransferTypeOK
<1>2. count' = count + n /\ count' \in 0 .. size
  BY <1>1 DEF Store
<1>3. buffer' = buffer \o [i \in 1 .. n |-> position + i - 1]
  BY DEF Store
<1>4. buffer' \in Seq(Nat)
  <2>1. [i \in 1 .. n |-> position + i - 1] \in Seq(Nat)
    BY <1>1
  <2> QED BY <1>1, <1>3, <2>1
<1>5. position' \in Nat
  BY <1>1 DEF Store
<1>6. ASSUME base # 0 \/ start = 0
      PROVE  buffer' = [i \in 1 .. count' |-> base + i - 1]
  <2>1. position = base + count
    BY <1>1, <1>6 DEF TransferInv, ProgressInv
  <2>2. buffer = [i \in 1 .. count |-> base + i - 1]
    BY <1>6 DEF TransferInv, ProgressInv, HoldsFrom
  <2> QED BY <1>1, <1>2, <1>3, <2>1, <2>2, Consecutive
<1> QED BY <1>2, <1>4, <1>5, <1>6

LEMMA TransferInvInductive ==
  ASSUME TransferInv, [TransferNext]_transferVars
  PROVE  TransferInv'
<1>1. CASE xdma_open \/ xdma_close
  BY <1>1 DEF xdma_open, xdma_close, callVars, TransferInv, TransferTypeOK, ProgressInv
<1>2. ASSUME NEW n \in Sizes, NEW addr \in Bases, xdma_read(n, addr)
      PROVE  TransferInv'
  <2>1. /\ n \in Nat /\ addr \in Nat /\ position \in Nat
        /\ size' = n /\ base' = addr /\ start' = position /\ count' = 0
        /\ offset' = addr /\ buffer' = <<>> /\ step' = Continue(0, n, addr)
        /\ fd' = fd /\ position' = position
    BY <1>2, TransferAssumption DEF xdma_read, TransferInv, TransferTypeOK
  <2>2. step' \in {"returned", "seek", "read"}
    BY <2>1 DEF Continue
  <2>3. HoldsFrom(base)'
    BY <2>1 DEF HoldsFrom
  <2>4. TransferTypeOK'
    BY <2>1, <2>2 DEF TransferInv, TransferTypeOK
  <2>5. ProgressInv'
    BY <2>1, <2>3 DEF ProgressInv, Continue
  <2> QED BY <2>4, <2>5 DEF TransferInv
<1>3. CASE Seek
  <2>1. count' = count /\ HoldsFrom(base)' = HoldsFrom(base)
    BY <1>3 DEF Seek, callVars, HoldsFrom
  <2> QED BY <1>3, <2>1 DEF Seek, callVars, TransferInv, TransferTypeOK, ProgressInv
<1>4. CASE ShortRead
  <2>1. step = "read" /\ step' = "returned" /\ UNCHANGED <<fd, size, base, start, offset>>
    BY <1>4 DEF ShortRead
  <2>2. PICK n \in 0 .. Chunk - 1 : Store(n)
    BY <1>4 DEF ShortRead
  <2>3. n \in 0 .. Chunk
    BY <2>1, ChunkBounds
  <2> QED BY <2>1, <2>2, <2>3, StoreStep
          DEF TransferInv, TransferTypeOK, ProgressInv, HoldsFrom
<1>5. CASE FullRead
  <2>1. /\ step = "read" /\ Store(Chunk) /\ offset' = offset + Chunk
        /\ step' = Continue(count', size, offset')
        /\ UNCHANGED <<fd, size, base, start>>
    BY <1>5 DEF FullRead
  <2>2. Chunk \in 0 .. Chunk
    BY <2>1, ChunkBounds
  <2>3. /\ position' \in Nat /\ buffer' \in Seq(Nat)
        /\ count' = count + Chunk /\ count' \in 0 .. size
        /\ (base # 0 \/ start = 0) => buffer' = [i \in 1 .. count' |-> base + i - 1]
    BY <2>1, <2>2, StoreStep
  <2>4. /\ Chunk \in Nat /\ 0 < Chunk /\ size \in Nat /\ base \in Nat /\ count \in Nat
        /\ size <= MaxSize => count + Chunk = size
        /\ offset = base + count
    BY <2>1, ChunkBounds DEF TransferInv, ProgressInv
  <2>5. step' = IF count' >= size THEN "returned" ELSE "seek"
    BY <2>1, <2>4 DEF Continue
  <2>6. TransferTypeOK'
    BY <2>1, <2>3, <2>4, <2>5 DEF TransferInv, TransferTypeOK
  <2>7. ProgressInv'
    BY <2>1, <2>3, <2>4, <2>5, TransferAssumption DEF ProgressInv, HoldsFrom
  <2> QED BY <2>6, <2>7 DEF TransferInv
<1>6. CASE ReadError \/ Return
  BY <1>6 DEF ReadError, Return, callVars, TransferInv, TransferTypeOK, ProgressInv
<1>7. CASE UNCHANGED transferVars
  BY <1>7 DEF transferVars, callVars, TransferInv, TransferTypeOK, ProgressInv, HoldsFrom
<1> QED BY <1>1, <1>2, <1>3, <1>4, <1>5, <1>6, <1>7 DEF TransferNext

LEMMA TransferInvAlways == TransferSpec => []TransferInv
<1>1. TransferInit => TransferInv
  BY DEF TransferInit, TransferInv, TransferTypeOK, ProgressInv
<1> QED BY <1>1, TransferInvInductive, PTL DEF TransferSpec

-----------------------------------------------------------------------------
(* The type invariant: above all, never more bytes than were asked for. *)
THEOREM TransferType == TransferSpec => []TransferTypeOK
<1>1. TransferInv => TransferTypeOK
  BY DEF TransferInv
<1> QED BY <1>1, TransferInvAlways, PTL

(* A transfer returns consecutive bytes from its address on, through any    *)
(* number of chunks and however short the last one is.                      *)
THEOREM NoGap == TransferSpec => []NoGapInBuffer
<1>1. TransferInv => NoGapInBuffer
  BY DEF TransferInv, ProgressInv, NoGapInBuffer
<1> QED BY <1>1, TransferInvAlways, PTL

(* A failed transfer of one chunk has taken nothing. *)
THEOREM NothingTaken == TransferSpec => []FailureTakesNothing
<1>1. TransferInv => FailureTakesNothing
  BY DEF TransferInv, ProgressInv, FailureTakesNothing
<1> QED BY <1>1, TransferInvAlways, PTL

=============================================================================
