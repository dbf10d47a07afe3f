-------------------------- MODULE SpscRing_proofs ---------------------------
(***************************************************************************)
(* Theorems about SpscRing, for rings of every size and whatever is pushed *)
(* and asked for.                                                          *)
(***************************************************************************)
EXTENDS SpscRing, SequenceTheorems, TLAPS

-----------------------------------------------------------------------------
(* The index arithmetic and the copies of CircleBuffer *)

(* One subtraction stands for the "%": an index never passes the end of the *)
(* buffer by more than its length.                                          *)
LEMMA ModuloOnce ==
  ASSUME NEW a \in Nat, a < 2 * Size
  PROVE  a % Size = IF a < Size THEN a ELSE a - Size
BY SizeAssumption, Z3

LEMMA AdvanceOnce ==
  ASSUME NEW p \in Cells, NEW n \in 0 .. Size
  PROVE  /\ Advance(p, n) = IF p + n < Size THEN p + n ELSE p + n - Size
         /\ n < Size => Advance(p, n) \in Cells
BY SizeAssumption, ModuloOnce DEF Advance, Cells

LEMMA DataIsDistance ==
  ASSUME NEW v \in Cells, NEW s \in Cells
  PROVE  /\ getLenOfValidData(v, s) = Distance(v, s)
         /\ getLenOfValidSpace(v, s) = Size - 1 - Distance(v, s)
         /\ Distance(v, s) \in 0 .. Size - 1
BY SizeAssumption DEF Cells, getLenOfValidData, getLenOfValidSpace, Distance

(* What storing n more bytes does to the number of valid ones. *)
LEMMA StoringAdds ==
  ASSUME NEW v \in Cells, NEW s \in Cells, NEW n \in Nat, Distance(v, s) + n < Size
  PROVE  /\ Advance(s, n) \in Cells
         /\ Distance(v, Advance(s, n)) = Distance(v, s) + n
<1>1. n \in 0 .. Size /\ n < Size
  BY SizeAssumption DEF Cells, Distance
<1>2. Advance(s, n) = IF s + n < Size THEN s + n ELSE s + n - Size
  BY <1>1, AdvanceOnce
<1>3. QED
  BY <1>1, <1>2, SizeAssumption DEF Cells, Distance

(* What moving the first valid byte to t does to it. *)
LEMMA DroppingRemoves ==
  ASSUME NEW v \in Cells, NEW s \in Cells, NEW t \in Cells,
         Distance(v, t) <= Distance(v, s)
  PROVE  Distance(t, s) = Distance(v, s) - Distance(v, t)
BY SizeAssumption DEF Cells, Distance

(* The copies of pushData stay within the buffer and within their source. *)
LEMMA CopyTyped ==
  ASSUME NEW buffer \in [Cells -> Byte], NEW bytes \in Seq(Byte),
         NEW at \in Nat, NEW from \in Nat, NEW n \in Nat,
         from + n <= Len(bytes)
  PROVE  Memcpy(buffer, at, bytes, from, n) \in [Cells -> Byte]
<1> SUFFICES ASSUME NEW i \in Cells, i \in at .. at + n - 1
             PROVE  bytes[from + (i - at) + 1] \in Byte
  BY DEF Memcpy
<1>1. from + (i - at) + 1 \in 1 .. Len(bytes)
  BY SizeAssumption DEF Cells
<1>2. QED
  BY <1>1

(* readData returns bytes of the buffer. *)
LEMMA ReadTyped ==
  ASSUME NEW buffer \in [Cells -> Byte], NEW v \in Cells, NEW n \in 0 .. Size - 1
  PROVE  ReadBytes(buffer, v, n) \in Seq(Byte)
<1>1. ReadBytes(buffer, v, n) \in [1 .. n -> Byte]
  <2> SUFFICES ASSUME NEW i \in 1 .. n
               PROVE  (IF i <= Size - v THEN buffer[v + i - 1]
                                        ELSE buffer[i - 1 - (Size - v)]) \in Byte
    BY DEF ReadBytes
  <2>1. CASE i <= Size - v
    <3>1. v + i - 1 \in Cells
      BY <2>1, SizeAssumption DEF Cells
    <3>2. QED
      BY <2>1, <3>1
  <2>2. CASE ~ (i <= Size - v)
    <3>1. i - 1 - (Size - v) \in Cells
      BY <2>2, SizeAssumption DEF Cells
    <3>2. QED
      BY <2>2, <3>1
  <2>3. QED
    BY <2>1, <2>2
<1>2. QED
  BY <1>1, SizeAssumption, SeqDef

-----------------------------------------------------------------------------
(* The bytes a ring holds, as a sequence *)

LEMMA ContentsTyped ==
  ASSUME NEW buffer \in [Cells -> Byte], NEW v \in Cells, NEW s \in Cells
  PROVE  /\ Contents(buffer, v, s) \in Seq(Byte)
         /\ Len(Contents(buffer, v, s)) = Distance(v, s)
         /\ \A i \in 1 .. Distance(v, s) :
              Contents(buffer, v, s)[i] = buffer[Advance(v, i - 1)]
<1> DEFINE d == Distance(v, s)
           c == Contents(buffer, v, s)
<1>1. d \in Nat /\ d < Size /\ getLenOfValidData(v, s) = d
  BY DataIsDistance, SizeAssumption
<1>2. c = [i \in 1 .. d |-> buffer[Advance(v, i - 1)]]
  BY <1>1 DEF Contents
<1> HIDE DEF d, c
<1>3. ASSUME NEW i \in 1 .. d PROVE buffer[Advance(v, i - 1)] \in Byte
  <2>1. i - 1 \in 0 .. Size /\ i - 1 < Size
    BY <1>1, SizeAssumption
  <2>2. Advance(v, i - 1) \in Cells
    BY <2>1, AdvanceOnce
  <2>3. QED
    BY <2>2
<1>4. c \in [1 .. d -> Byte]
  BY <1>2, <1>3
<1>5. c \in Seq(Byte) /\ Len(c) = d
  BY <1>1, <1>4, SeqDef
<1>6. QED
  BY <1>2, <1>5 DEF c, d

(* The cells from v on, past s, are the cells from s on. *)
LEMMA AdvanceSum ==
  ASSUME NEW v \in Cells, NEW s \in Cells, NEW i \in Nat, Distance(v, s) + i < Size
  PROVE  Advance(v, Distance(v, s) + i) = Advance(s, i)
<1> DEFINE d == Distance(v, s)
<1>1. d \in Nat /\ d + i \in 0 .. Size /\ i \in 0 .. Size
  BY DataIsDistance, SizeAssumption
<1>2. Advance(v, d + i) = IF v + (d + i) < Size THEN v + (d + i) ELSE v + (d + i) - Size
  BY <1>1, AdvanceOnce
<1>3. Advance(s, i) = IF s + i < Size THEN s + i ELSE s + i - Size
  BY <1>1, AdvanceOnce
<1>4. QED
  BY <1>2, <1>3, SizeAssumption DEF Cells, Distance

(* A sequence that starts with old and goes on with n bytes *)
LEMMA Appended ==
  ASSUME NEW old \in Seq(Byte), NEW new \in Seq(Byte),
         NEW bytes \in Seq(Byte), NEW n \in 0 .. Len(bytes),
         Len(new) = Len(old) + n,
         \A i \in 1 .. Len(old) : new[i] = old[i],
         \A k \in 0 .. n - 1 : new[Len(old) + k + 1] = bytes[k + 1]
  PROVE  new = old \o SubSeq(bytes, 1, n)
<1> DEFINE added == SubSeq(bytes, 1, n)
<1>1. Len(old) \in Nat /\ Len(bytes) \in Nat /\ n \in Nat
  BY LenProperties
<1>2. \A i \in 1 .. n : bytes[i] \in Byte
  BY <1>1, ElementOfSeq
<1>3. /\ added \in Seq(Byte)
      /\ Len(added) = IF 1 <= n THEN n - 1 + 1 ELSE 0
      /\ \A i \in 1 .. n - 1 + 1 : added[i] = bytes[1 + i - 1]
  BY <1>1, <1>2, SubSeqProperties
<1> HIDE DEF added
<1>4. Len(added) = n /\ \A i \in 1 .. n : added[i] = bytes[i]
  BY <1>1, <1>3
<1>5. /\ old \o added \in Seq(Byte)
      /\ Len(old \o added) = Len(old) + n
      /\ \A i \in 1 .. Len(old) + n :
           (old \o added)[i] = IF i <= Len(old) THEN old[i] ELSE added[i - Len(old)]
  BY <1>3, <1>4, ConcatProperties
<1>6. ASSUME NEW i \in 1 .. Len(new) PROVE new[i] = (old \o added)[i]
  <2>1. CASE i <= Len(old)
    BY <1>1, <1>5, <2>1
  <2>2. CASE ~ (i <= Len(old))
    <3>1. PICK k \in 0 .. n - 1 : i = Len(old) + k + 1
      <4>1. i - Len(old) - 1 \in 0 .. n - 1 /\ i = Len(old) + (i - Len(old) - 1) + 1
        BY <1>1, <2>2
      <4>2. QED
        BY <4>1
    <3>2. new[i] = bytes[k + 1]
      BY <3>1
    <3>3. k + 1 \in 1 .. n /\ i - Len(old) = k + 1 /\ i \in 1 .. Len(old) + n
      BY <1>1, <3>1
    <3>4. QED
      BY <1>4, <1>5, <2>2, <3>2, <3>3
  <2>3. QED
    BY <2>1, <2>2
<1>7. new = old \o added
  BY <1>5, <1>6, SeqEqual
<1>8. QED
  BY <1>7 DEF added

(* A stretch of old, given by its elements *)
LEMMA Stretch ==
  ASSUME NEW old \in Seq(Byte), NEW new \in Seq(Byte), NEW m \in Nat,
         m + Len(new) <= Len(old),
         \A i \in 1 .. Len(new) : new[i] = old[m + i]
  PROVE  new = SubSeq(old, m + 1, m + Len(new))
<1> DEFINE part == SubSeq(old, m + 1, m + Len(new))
<1>1. Len(old) \in Nat /\ Len(new) \in Nat
  BY LenProperties
<1>2. \A i \in m + 1 .. m + Len(new) : old[i] \in Byte
  BY <1>1, ElementOfSeq
<1>3. /\ part \in Seq(Byte)
      /\ Len(part) = IF m + 1 <= m + Len(new) THEN m + Len(new) - (m + 1) + 1 ELSE 0
      /\ \A i \in 1 .. m + Len(new) - (m + 1) + 1 : part[i] = old[m + 1 + i - 1]
  BY <1>1, <1>2, SubSeqProperties
<1> HIDE DEF part
<1>4. Len(part) = Len(new) /\ \A i \in 1 .. Len(new) : part[i] = old[m + i]
  <2>1. m + Len(new) - (m + 1) + 1 = Len(new) /\ (m + 1 <= m + Len(new) \/ Len(new) = 0)
    BY <1>1
  <2>2. \A i \in 1 .. Len(new) : m + 1 + i - 1 = m + i
    BY <1>1
  <2>3. Len(part) = Len(new) /\ \A i \in 1 .. Len(new) : part[i] = old[m + 1 + i - 1]
    BY <1>1, <1>3, <2>1
  <2>4. QED
    BY <2>2, <2>3
<1>5. new = part
  BY <1>3, <1>4, SeqEqual
<1>6. QED
  BY <1>5 DEF part

(* Storing the position behind n bytes appends them. *)
LEMMA ContentsGrow ==
  ASSUME NEW buffer \in [Cells -> Byte], NEW v \in Cells, NEW s \in Cells,
         NEW bytes \in Seq(Byte), NEW n \in 0 .. Len(bytes),
         Distance(v, s) + n < Size,
         \A k \in 0 .. n - 1 : buffer[Advance(s, k)] = bytes[k + 1]
  PROVE  Contents(buffer, v, Advance(s, n))
           = Contents(buffer, v, s) \o SubSeq(bytes, 1, n)
<1> DEFINE t == Advance(s, n)
           old == Contents(buffer, v, s)
           new == Contents(buffer, v, t)
<1>1. Distance(v, s) \in Nat /\ n \in Nat
  BY DataIsDistance, LenProperties
<1>2. t \in Cells /\ Distance(v, t) = Distance(v, s) + n
  BY <1>1, StoringAdds
<1> HIDE DEF t
<1>3. /\ old \in Seq(Byte) /\ Len(old) = Distance(v, s)
      /\ \A i \in 1 .. Distance(v, s) : old[i] = buffer[Advance(v, i - 1)]
  BY ContentsTyped
<1>4. /\ new \in Seq(Byte) /\ Len(new) = Distance(v, t)
      /\ \A i \in 1 .. Distance(v, t) : new[i] = buffer[Advance(v, i - 1)]
  BY <1>2, ContentsTyped
<1> HIDE DEF old, new
<1>5. Len(new) = Len(old) + n
  BY <1>2, <1>3, <1>4
<1>6. \A i \in 1 .. Len(old) : new[i] = old[i]
  BY <1>1, <1>2, <1>3, <1>4
<1>7. ASSUME NEW k \in 0 .. n - 1 PROVE new[Len(old) + k + 1] = bytes[k + 1]
  <2>1. /\ k \in Nat /\ Distance(v, s) + k < Size
        /\ Distance(v, s) + k + 1 \in 1 .. Distance(v, t)
        /\ (Distance(v, s) + k + 1) - 1 = Distance(v, s) + k
    BY <1>1, <1>2, SizeAssumption
  <2>2. Advance(v, Distance(v, s) + k) = Advance(s, k)
    BY <2>1, AdvanceSum
  <2>3. QED
    BY <1>3, <1>4, <2>1, <2>2
<1>8. new = old \o SubSeq(bytes, 1, n)
  BY <1>3, <1>4, <1>5, <1>6, <1>7, Appended
<1>9. QED
  BY <1>8 DEF old, new, t

(* Storing the position t takes the bytes in front of t away. *)
LEMMA ContentsShrink ==
  ASSUME NEW buffer \in [Cells -> Byte], NEW v \in Cells, NEW s \in Cells,
         NEW t \in Cells, Distance(v, t) <= Distance(v, s)
  PROVE  Contents(buffer, t, s)
           = SubSeq(Contents(buffer, v, s), Distance(v, t) + 1, Distance(v, s))
<1> DEFINE old == Contents(buffer, v, s)
           new == Contents(buffer, t, s)
<1>1. /\ Distance(v, s) \in Nat /\ Distance(v, s) < Size /\ Distance(v, t) \in Nat
      /\ Distance(t, s) = Distance(v, s) - Distance(v, t)
  BY DataIsDistance, DroppingRemoves, SizeAssumption
<1>2. /\ old \in Seq(Byte) /\ Len(old) = Distance(v, s)
      /\ \A i \in 1 .. Distance(v, s) : old[i] = buffer[Advance(v, i - 1)]
  BY ContentsTyped
<1>3. /\ new \in Seq(Byte) /\ Len(new) = Distance(t, s)
      /\ \A i \in 1 .. Distance(t, s) : new[i] = buffer[Advance(t, i - 1)]
  BY ContentsTyped
<1> HIDE DEF old, new
<1>4. ASSUME NEW i \in 1 .. Len(new) PROVE new[i] = old[Distance(v, t) + i]
  <2>1. /\ i - 1 \in Nat /\ Distance(v, t) + (i - 1) < Size
        /\ i \in 1 .. Distance(t, s)
        /\ Distance(v, t) + i \in 1 .. Distance(v, s)
        /\ (Distance(v, t) + i) - 1 = Distance(v, t) + (i - 1)
    BY <1>1, <1>3, SizeAssumption
  <2>2. Advance(v, Distance(v, t) + (i - 1)) = Advance(t, i - 1)
    BY <2>1, AdvanceSum
  <2>3. QED
    BY <1>2, <1>3, <2>1, <2>2
<1>5. /\ Distance(v, t) + Len(new) = Distance(v, s)
      /\ Distance(v, t) + Len(new) <= Len(old)
  BY <1>1, <1>2, <1>3
<1>6. new = SubSeq(old, Distance(v, t) + 1, Distance(v, t) + Len(new))
  BY <1>1, <1>2, <1>3, <1>4, <1>5, Stretch
<1>7. QED
  BY <1>5, <1>6 DEF old, new

(* readData returns the oldest bytes. *)
LEMMA ReadIsPrefix ==
  ASSUME NEW buffer \in [Cells -> Byte], NEW v \in Cells, NEW s \in Cells,
         NEW n \in 0 .. Distance(v, s)
  PROVE  ReadBytes(buffer, v, n) = SubSeq(Contents(buffer, v, s), 1, n)
<1> DEFINE c == Contents(buffer, v, s)
           r == ReadBytes(buffer, v, n)
<1>1. /\ Distance(v, s) \in Nat /\ Distance(v, s) < Size
      /\ n \in Nat /\ n <= Distance(v, s) /\ n \in 0 .. Size - 1
  BY DataIsDistance, SizeAssumption
<1>2. /\ c \in Seq(Byte) /\ Len(c) = Distance(v, s)
      /\ \A i \in 1 .. Distance(v, s) : c[i] = buffer[Advance(v, i - 1)]
  BY ContentsTyped
<1>3. r \in Seq(Byte) /\ Len(r) = n
  <2>1. r \in Seq(Byte) /\ DOMAIN r = 1 .. n
    BY <1>1, ReadTyped DEF ReadBytes
  <2>2. QED
    BY <1>1, <2>1
<1> HIDE DEF c
<1>4. ASSUME NEW i \in 1 .. n PROVE r[i] = c[i]
  <2>1. /\ i - 1 \in 0 .. Size /\ i \in 1 .. Distance(v, s)
        /\ i \in Nat
    BY <1>1, SizeAssumption
  <2>2. Advance(v, i - 1) = IF v + (i - 1) < Size THEN v + (i - 1) ELSE v + (i - 1) - Size
    BY <2>1, AdvanceOnce
  <2>3. Advance(v, i - 1) = IF i <= Size - v THEN v + i - 1 ELSE i - 1 - (Size - v)
    BY <2>1, <2>2, SizeAssumption DEF Cells
  <2>4. r[i] = IF i <= Size - v THEN buffer[v + i - 1] ELSE buffer[i - 1 - (Size - v)]
    BY DEF ReadBytes
  <2>5. QED
    BY <1>2, <2>1, <2>3, <2>4
<1> HIDE DEF r
<1>5. r = SubSeq(c, 0 + 1, 0 + Len(r))
  <2>1. 0 + Len(r) <= Len(c) /\ \A i \in 1 .. Len(r) : r[i] = c[0 + i]
    BY <1>1, <1>2, <1>3, <1>4
  <2>2. QED
    BY <1>2, <1>3, <2>1, Stretch
<1>6. QED
  BY <1>1, <1>3, <1>5 DEF c, r

(* Writing cells that are not counted changes nothing of what is held. *)
LEMMA ContentsStable ==
  ASSUME NEW old \in [Cells -> Byte], NEW new \in [Cells -> Byte],
         NEW v \in Cells, NEW s \in Cells,
         \A c \in Cells : Distance(v, c) < Distance(v, s) => new[c] = old[c]
  PROVE  Contents(new, v, s) = Contents(old, v, s)
<1>1. /\ Distance(v, s) \in Nat /\ Distance(v, s) < Size
      /\ getLenOfValidData(v, s) = Distance(v, s)
  BY DataIsDistance, SizeAssumption
<1>2. ASSUME NEW i \in 1 .. Distance(v, s)
      PROVE  new[Advance(v, i - 1)] = old[Advance(v, i - 1)]
  <2>1. i - 1 \in 0 .. Size /\ i - 1 < Size /\ i - 1 < Distance(v, s)
    BY <1>1, SizeAssumption
  <2>2. Advance(v, i - 1) = IF v + (i - 1) < Size THEN v + (i - 1) ELSE v + (i - 1) - Size
    BY <2>1, AdvanceOnce
  <2>3. Advance(v, i - 1) \in Cells
    BY <2>1, AdvanceOnce
  <2>4. Distance(v, Advance(v, i - 1)) = i - 1
    <3>1. ASSUME NEW a \in Cells, NEW j \in 0 .. Size - 1,
                 a = IF v + j < Size THEN v + j ELSE v + j - Size
          PROVE  Distance(v, a) = j
      BY <3>1, SizeAssumption DEF Cells, Distance
    <3>2. i - 1 \in 0 .. Size - 1
      BY <2>1, SizeAssumption
    <3>3. QED
      BY <2>2, <2>3, <3>1, <3>2
  <2>5. QED
    BY <2>1, <2>3, <2>4
<1>3. QED
  BY <1>1, <1>2 DEF Contents

-----------------------------------------------------------------------------
(* The invariant of the ring *)

(* A running pushData stores no more than there was room for when it loaded *)
(* m_ValidPosition: since then the room can only have grown.                *)
PushFits ==
  /\ producer = "idle" => todo = {}
  /\ count <= Len(chunk)
  /\ "index" \in todo =>
       /\ base = m_StorablePosition
       /\ Distance(m_ValidPosition, m_StorablePosition) + count < Size

(* A running popData or isClear drops no more than was counted when it      *)
(* loaded m_StorablePosition: since then the data can only have grown.      *)
PopFits ==
  consumer = "store" =>
    Distance(m_ValidPosition, target) <= Distance(m_ValidPosition, m_StorablePosition)

(* With stores in program order the position is the last of them. *)
IndexIsLast == InOrder /\ "index" \notin todo => todo = {}

RingIInv == RingTypeOK /\ PushFits /\ PopFits /\ IndexIsLast

-----------------------------------------------------------------------------
(* The invariant holds of a fresh ring. *)
LEMMA InitInvariant == RingInit => RingIInv
<1> SUFFICES ASSUME RingInit PROVE RingIInv
  OBVIOUS
<1>1. RingTypeOK
  <2>1. m_Buffer \in [Cells -> Byte]
    BY RingAssumption DEF RingInit
  <2>2. 0 \in Cells /\ 0 \in 0 .. Size - 1
    BY SizeAssumption DEF Cells
  <2>3. << >> \in Seq(Byte)
    OBVIOUS
  <2>4. QED
    BY <2>1, <2>2, <2>3 DEF RingInit, RingTypeOK, Stores
<1>2. PushFits /\ PopFits /\ IndexIsLast
  BY DEF RingInit, PushFits, PopFits, IndexIsLast
<1>3. QED
  BY <1>1, <1>2 DEF RingIInv

(* What the actions have to start from *)
LEMMA Facts ==
  ASSUME RingIInv
  PROVE  /\ Distance(m_ValidPosition, m_StorablePosition) \in 0 .. Size - 1
         /\ getLenOfValidData(m_ValidPosition, m_StorablePosition)
              = Distance(m_ValidPosition, m_StorablePosition)
         /\ getLenOfValidSpace(m_ValidPosition, m_StorablePosition)
              = Size - 1 - Distance(m_ValidPosition, m_StorablePosition)
BY DataIsDistance DEF RingIInv, RingTypeOK

(* The two parts of a copy make up the whole. *)
LEMMA PartsOfCopy ==
  ASSUME NEW s \in Cells, NEW n \in 0 .. Size - 1
  PROVE  /\ FirstLength(s, n) \in 0 .. n
         /\ s + FirstLength(s, n) <= Size
         /\ ~ Wraps(s, n) => FirstLength(s, n) = n
         /\ Wraps(s, n) => FirstLength(s, n) = Size - s
BY SizeAssumption DEF Cells, FirstLength, Wraps

(* A call of pushData starts with the room it has just loaded. *)
LEMMA BeginPushInvariant ==
  ASSUME RingIInv, NEW bytes \in Seq(Byte), BeginPush(bytes)
  PROVE  RingIInv'
<1> DEFINE room == getLenOfValidSpace(m_ValidPosition, m_StorablePosition)
           n == PushLength(Len(bytes), room)
<1>1. /\ n \in 0 .. Size - 1
      /\ n <= Len(bytes)
      /\ n + Distance(m_ValidPosition, m_StorablePosition) < Size
  <2>1. Len(bytes) \in Nat
    OBVIOUS
  <2>2. room = Size - 1 - Distance(m_ValidPosition, m_StorablePosition)
        /\ Distance(m_ValidPosition, m_StorablePosition) \in 0 .. Size - 1
    BY Facts
  <2>3. QED
    BY <2>1, <2>2, SizeAssumption DEF PushLength
<1>2. count' = n /\ chunk' = bytes /\ base' = m_StorablePosition
  BY DEF BeginPush
<1>3. todo' \in SUBSET Stores /\ "index" \in todo' /\ producer' = "push"
  BY DEF BeginPush, Stores
<1>4. RingTypeOK'
  BY <1>1, <1>2, <1>3 DEF BeginPush, RingIInv, RingTypeOK, consumerVars, Cells
<1>5. PushFits'
  <2>1. m_ValidPosition' = m_ValidPosition /\ m_StorablePosition' = m_StorablePosition
    BY DEF BeginPush, consumerVars
  <2>2. count' + Distance(m_ValidPosition', m_StorablePosition') < Size
    BY <1>1, <1>2, <2>1
  <2>3. count' <= Len(chunk')
    BY <1>1, <1>2
  <2>4. Distance(m_ValidPosition', m_StorablePosition') + count' < Size
    BY <1>1, <1>2, <2>1, <2>2, Facts
  <2>5. QED
    BY <1>2, <1>3, <2>1, <2>3, <2>4 DEF PushFits
<1>6. PopFits' /\ IndexIsLast'
  BY <1>3 DEF BeginPush, RingIInv, PopFits, IndexIsLast, consumerVars
<1>7. QED
  BY <1>4, <1>5, <1>6 DEF RingIInv

(* A copy changes cells only. *)
LEMMA CopyInvariant ==
  ASSUME RingIInv, CopyFirst \/ CopySecond
  PROVE  RingIInv'
<1> DEFINE first == FirstLength(base, count)
<1>1. /\ base \in Cells /\ count \in 0 .. Size - 1 /\ chunk \in Seq(Byte)
      /\ m_Buffer \in [Cells -> Byte] /\ count <= Len(chunk)
  BY DEF RingIInv, RingTypeOK, PushFits
<1>2. first \in 0 .. count
  BY <1>1, PartsOfCopy
<1>3. m_Buffer' \in [Cells -> Byte]
  <2>1. CASE CopyFirst
    <3>1. base \in Nat /\ first \in Nat /\ 0 + first <= Len(chunk)
      BY <1>1, <1>2, SizeAssumption DEF Cells
    <3>2. Memcpy(m_Buffer, base, chunk, 0, first) \in [Cells -> Byte]
      BY <1>1, <3>1, CopyTyped
    <3>3. QED
      BY <2>1, <3>2 DEF CopyFirst
  <2>2. CASE CopySecond
    <3>1. first \in Nat /\ count - first \in Nat /\ first + (count - first) <= Len(chunk)
      BY <1>1, <1>2, SizeAssumption
    <3>2. Memcpy(m_Buffer, 0, chunk, first, count - first) \in [Cells -> Byte]
      BY <1>1, <3>1, CopyTyped
    <3>3. QED
      BY <2>2, <3>2 DEF CopySecond
  <2>3. QED
    BY <2>1, <2>2
<1>4. /\ UNCHANGED <<m_StorablePosition, producer, chunk, count, base, consumerVars>>
      /\ todo' \subseteq todo
      /\ "index" \in todo' <=> "index" \in todo
  BY DEF CopyFirst, CopySecond
<1>5. IndexIsLast'
  BY <1>4 DEF RingIInv, IndexIsLast
<1>6. QED
  BY <1>3, <1>4, <1>5 DEF RingIInv, RingTypeOK, PushFits, PopFits, consumerVars

(* Storing m_StorablePosition adds what was copied to what is counted. *)
LEMMA StoreIndexInvariant ==
  ASSUME RingIInv, StoreIndex
  PROVE  /\ RingIInv'
         /\ Distance(m_ValidPosition, m_StorablePosition)'
              = Distance(m_ValidPosition, m_StorablePosition) + count
<1>1. /\ base = m_StorablePosition
      /\ Distance(m_ValidPosition, m_StorablePosition) + count < Size
      /\ count \in Nat /\ m_ValidPosition \in Cells /\ m_StorablePosition \in Cells
  BY DEF StoreIndex, MayStore, RingIInv, RingTypeOK, PushFits
<1>2. /\ m_StorablePosition' = Advance(m_StorablePosition, count)
      /\ m_ValidPosition' = m_ValidPosition
  BY <1>1 DEF StoreIndex, consumerVars
<1>3. /\ m_StorablePosition' \in Cells
      /\ Distance(m_ValidPosition', m_StorablePosition')
           = Distance(m_ValidPosition, m_StorablePosition) + count
  BY <1>1, <1>2, StoringAdds
<1>4. /\ "index" \notin todo' /\ todo' \subseteq todo
      /\ UNCHANGED <<m_Buffer, producer, chunk, count, base, consumer, target, linear>>
  BY DEF StoreIndex, consumerVars
<1>5. RingTypeOK'
  BY <1>2, <1>3, <1>4 DEF RingIInv, RingTypeOK
<1>6. PushFits'
  BY <1>4 DEF RingIInv, PushFits
<1>7. PopFits'
  <2>1. Distance(m_ValidPosition, m_StorablePosition) \in Nat
    BY Facts, SizeAssumption
  <2>2. SUFFICES ASSUME consumer = "store"
                 PROVE  Distance(m_ValidPosition, target)
                          <= Distance(m_ValidPosition, m_StorablePosition) + count
    BY <1>2, <1>3, <1>4 DEF PopFits
  <2>3. Distance(m_ValidPosition, target) <= Distance(m_ValidPosition, m_StorablePosition)
    BY <2>2 DEF RingIInv, PopFits
  <2>4. Distance(m_ValidPosition, target) \in Nat
    BY DataIsDistance, SizeAssumption DEF RingIInv, RingTypeOK
  <2>5. QED
    BY <1>1, <2>1, <2>3, <2>4
<1>8. IndexIsLast'
  <2>1. SUFFICES ASSUME InOrder PROVE todo' = {}
    BY <1>4 DEF IndexIsLast
  <2>2. "first" \notin todo /\ "second" \notin todo
    BY <2>1 DEF StoreIndex, MayStore, Before
  <2>3. todo \subseteq {"first", "second", "index"}
    BY DEF RingIInv, RingTypeOK, Stores
  <2>4. QED
    BY <2>2, <2>3 DEF StoreIndex
<1>9. QED
  BY <1>3, <1>5, <1>6, <1>7, <1>8 DEF RingIInv

(* The call that has made all its stores returns. *)
LEMMA EndPushInvariant ==
  ASSUME RingIInv, EndPush
  PROVE  RingIInv'
<1>1. /\ producer' = "idle" /\ chunk' = << >> /\ count' = 0 /\ base' = 0
      /\ todo' = {}
      /\ UNCHANGED <<m_Buffer, m_ValidPosition, m_StorablePosition, consumer, target, linear>>
  BY DEF EndPush, consumerVars
<1>2. 0 \in Cells /\ 0 \in 0 .. Size - 1 /\ << >> \in Seq(Byte) /\ Len(<< >>) = 0
  BY SizeAssumption DEF Cells
<1>3. RingTypeOK'
  BY <1>1, <1>2 DEF RingIInv, RingTypeOK
<1>4. PushFits' /\ PopFits' /\ IndexIsLast'
  BY <1>1, <1>2 DEF RingIInv, PushFits, PopFits, IndexIsLast
<1>5. QED
  BY <1>3, <1>4 DEF RingIInv

(* popData and isClear settle on a position that is not past the data. *)
LEMMA BeginDropInvariant ==
  ASSUME RingIInv, (\E n \in Pops : BeginPop(n)) \/ BeginClear
  PROVE  RingIInv'
<1> DEFINE len == Distance(m_ValidPosition, m_StorablePosition)
<1>1. m_ValidPosition \in Cells /\ m_StorablePosition \in Cells /\ len \in 0 .. Size - 1
  BY Facts DEF RingIInv, RingTypeOK
<1>2. /\ consumer' = "store"
      /\ UNCHANGED <<m_Buffer, m_ValidPosition, linear, producerVars>>
  BY DEF BeginPop, BeginClear
<1>3. target' \in Cells /\ Distance(m_ValidPosition, target') <= len
  <2>1. CASE BeginClear
    BY <1>1, <2>1, SizeAssumption DEF BeginClear
  <2>2. ASSUME NEW n \in Pops, BeginPop(n)
        PROVE  target' \in Cells /\ Distance(m_ValidPosition, target') <= len
    <3> DEFINE k == PopLength(n, len)
    <3>1. n \in Nat
      BY RingAssumption
    <3>2. k \in Nat /\ k <= len /\ k < Size
      BY <1>1, <3>1, SizeAssumption DEF PopLength
    <3>3. target' = Advance(m_ValidPosition, k)
      BY <2>2, Facts DEF BeginPop
    <3>4. Distance(m_ValidPosition, m_ValidPosition) = 0
      BY <1>1, SizeAssumption DEF Distance, Cells
    <3>5. Distance(m_ValidPosition, m_ValidPosition) + k < Size
      BY <3>2, <3>4
    <3>6. /\ target' \in Cells
          /\ Distance(m_ValidPosition, target') = Distance(m_ValidPosition, m_ValidPosition) + k
      BY <1>1, <3>2, <3>3, <3>5, StoringAdds
    <3>7. QED
      BY <3>2, <3>4, <3>6
  <2>3. QED
    BY <2>1, <2>2
<1>4. QED
  BY <1>2, <1>3 DEF RingIInv, RingTypeOK, PushFits, PopFits, IndexIsLast, producerVars

(* Storing m_ValidPosition removes what was dropped from what is counted. *)
LEMMA StoreValidInvariant ==
  ASSUME RingIInv, StoreValid
  PROVE  /\ RingIInv'
         /\ Distance(m_ValidPosition, m_StorablePosition)'
              = Distance(m_ValidPosition, m_StorablePosition)
                  - Distance(m_ValidPosition, target)
<1>1. /\ m_ValidPosition \in Cells /\ m_StorablePosition \in Cells /\ target \in Cells
      /\ Distance(m_ValidPosition, target) <= Distance(m_ValidPosition, m_StorablePosition)
  BY DEF StoreValid, RingIInv, RingTypeOK, PopFits
<1>2. /\ m_ValidPosition' = target /\ consumer' = "idle" /\ target' = 0
      /\ UNCHANGED <<m_Buffer, linear, producerVars>>
  BY DEF StoreValid
<1>3. Distance(target, m_StorablePosition)
        = Distance(m_ValidPosition, m_StorablePosition) - Distance(m_ValidPosition, target)
  BY <1>1, DroppingRemoves
<1>4. Distance(m_ValidPosition', m_StorablePosition')
        = Distance(m_ValidPosition, m_StorablePosition) - Distance(m_ValidPosition, target)
  BY <1>2, <1>3 DEF producerVars
<1>5. RingTypeOK'
  <2>1. 0 \in Cells
    BY SizeAssumption DEF Cells
  <2>2. QED
    BY <1>1, <1>2, <2>1 DEF RingIInv, RingTypeOK, producerVars
<1>6. PushFits'
  <2>1. /\ Distance(m_ValidPosition, m_StorablePosition) \in 0 .. Size - 1
        /\ Distance(m_ValidPosition, target) \in 0 .. Size - 1
    BY <1>1, DataIsDistance
  <2>2. SUFFICES ASSUME "index" \in todo
                 PROVE  /\ base = m_StorablePosition
                        /\ Distance(m_ValidPosition', m_StorablePosition') + count < Size
    BY <1>2 DEF RingIInv, PushFits, producerVars
  <2>3. /\ base = m_StorablePosition /\ count \in Nat
        /\ Distance(m_ValidPosition, m_StorablePosition) + count < Size
    BY <2>2 DEF RingIInv, RingTypeOK, PushFits
  <2>4. QED
    BY <1>4, <2>1, <2>3, SizeAssumption
<1>7. PopFits' /\ IndexIsLast'
  BY <1>2 DEF RingIInv, PopFits, IndexIsLast, producerVars
<1>8. QED
  BY <1>4, <1>5, <1>6, <1>7 DEF RingIInv

(* readData changes its destination only. *)
LEMMA ReadInvariant ==
  ASSUME RingIInv, NEW n \in Pops, Read(n)
  PROVE  RingIInv'
<1>1. UNCHANGED <<m_Buffer, m_ValidPosition, consumer, target, producerVars>>
  BY DEF Read
<1>2. linear' \in Seq(Byte)
  <2>1. CASE n <= getLenOfValidData(m_ValidPosition, m_StorablePosition)
    <3>1. n \in 0 .. Size - 1
      BY <2>1, Facts, RingAssumption, SizeAssumption
    <3>2. ReadBytes(m_Buffer, m_ValidPosition, n) \in Seq(Byte)
      BY <3>1, ReadTyped DEF RingIInv, RingTypeOK
    <3>3. QED
      BY <3>2 DEF Read, RingIInv, RingTypeOK
  <2>2. CASE ~ (n <= getLenOfValidData(m_ValidPosition, m_StorablePosition))
    BY <2>2 DEF Read, RingIInv, RingTypeOK
  <2>3. QED
    BY <2>1, <2>2
<1>3. QED
  BY <1>1, <1>2 DEF RingIInv, RingTypeOK, PushFits, PopFits, IndexIsLast, producerVars

LEMMA NextInvariant == RingIInv /\ [RingNext]_ringVars => RingIInv'
<1> SUFFICES ASSUME RingIInv, [RingNext]_ringVars PROVE RingIInv'
  OBVIOUS
<1>1. ASSUME NEW bytes \in Chunks, BeginPush(bytes) PROVE RingIInv'
  BY <1>1, BeginPushInvariant, RingAssumption
<1>2. CASE CopyFirst \/ CopySecond
  BY <1>2, CopyInvariant
<1>3. CASE StoreIndex
  BY <1>3, StoreIndexInvariant
<1>4. CASE EndPush
  BY <1>4, EndPushInvariant
<1>5. CASE (\E n \in Pops : BeginPop(n)) \/ BeginClear
  BY <1>5, BeginDropInvariant
<1>6. CASE StoreValid
  BY <1>6, StoreValidInvariant
<1>7. ASSUME NEW n \in Pops, Read(n) PROVE RingIInv'
  BY <1>7, ReadInvariant
<1>8. CASE UNCHANGED ringVars
  BY <1>8 DEF RingIInv, RingTypeOK, PushFits, PopFits, IndexIsLast,
              ringVars, producerVars, consumerVars
<1>9. QED
  BY <1>1, <1>2, <1>3, <1>4, <1>5, <1>6, <1>7, <1>8 DEF RingNext, Produce, Consume

(* The positions stay within the buffer, every copy stays within the buffer  *)
(* and within its source, a running pushData still has the room it found and *)
(* a running popData still has the data it found, whatever the other thread  *)
(* does meanwhile and in whatever order the stores of a push become visible. *)
THEOREM RingInvariant == RingSpec => []RingIInv
<1>1. QED
  BY InitInvariant, NextInvariant, PTL DEF RingSpec

(* Type correctness: no position leaves the buffer and no cell or destination *)
(* holds anything but bytes.                                                   *)
THEOREM RingTypeCorrect == RingSpec => []RingTypeOK
<1>1. RingIInv => RingTypeOK
  BY DEF RingIInv
<1>2. QED
  BY <1>1, RingInvariant, PTL

-----------------------------------------------------------------------------
(* The cells a push has yet to write lie beyond those that are counted. *)
LEMMA InFlightIsFree ==
  ASSUME RingIInv, "index" \in todo, NEW c \in InFlight
  PROVE  /\ c \in Cells
         /\ Distance(m_ValidPosition, c) >= Distance(m_ValidPosition, m_StorablePosition)
<1> DEFINE first == FirstLength(base, count)
<1>1. /\ base = m_StorablePosition /\ base \in Cells /\ m_ValidPosition \in Cells
      /\ count \in 0 .. Size - 1
      /\ Distance(m_ValidPosition, m_StorablePosition) + count < Size
  BY DEF RingIInv, RingTypeOK, PushFits
<1>2. /\ first \in 0 .. count /\ base + first <= Size
      /\ ~ Wraps(base, count) => first = count
      /\ Wraps(base, count) => first = Size - base
  BY <1>1, PartsOfCopy
<1>3. c \in base .. base + first - 1 \/ c \in 0 .. count - first - 1
  BY DEF InFlight
<1>4. CASE c \in base .. base + first - 1
  BY <1>1, <1>2, <1>4, SizeAssumption DEF Cells, Distance
<1>5. CASE c \in 0 .. count - first - 1
  <2>1. first = Size - base
    BY <1>1, <1>2, <1>5, SizeAssumption
  <2>2. QED
    BY <1>1, <1>2, <1>5, <2>1, SizeAssumption DEF Cells, Distance
<1>6. QED
  BY <1>3, <1>4, <1>5

(* Where stores are seen in program order, the consumer never counts a byte  *)
(* the producer is still copying: the lock-free protocol has no data race on *)
(* the cells, for rings of every size.                                       *)
THEOREM CountedWritten == RingSpec => [](InOrder => CountedIsWritten)
<1>1. RingIInv => (InOrder => CountedIsWritten)
  <2> SUFFICES ASSUME RingIInv, InOrder, NEW c \in InFlight, c \in Counted
               PROVE  FALSE
    BY DEF CountedIsWritten
  <2>1. CASE "index" \in todo
    <3>1. /\ Distance(m_ValidPosition, c) >= Distance(m_ValidPosition, m_StorablePosition)
          /\ Distance(m_ValidPosition, c) \in 0 .. Size - 1
      BY <2>1, InFlightIsFree, DataIsDistance DEF RingIInv, RingTypeOK
    <3>2. Distance(m_ValidPosition, c) < Distance(m_ValidPosition, m_StorablePosition)
      BY Facts DEF Counted
    <3>3. QED
      BY <3>1, <3>2, Facts, SizeAssumption
  <2>2. CASE "index" \notin todo
    BY <2>2 DEF RingIInv, IndexIsLast, InFlight
  <2>3. QED
    BY <2>1, <2>2
<1>2. QED
  BY <1>1, RingInvariant, PTL

(* Neither position ever passes the other, with or without that order: a     *)
(* store of pushData adds the bytes it was called for and a store of popData *)
(* or isClear takes a prefix of what is counted.                             *)
THEOREM OverrunNever == RingSpec => NoOverrun
<1> DEFINE len == getLenOfValidData(m_ValidPosition, m_StorablePosition)
           A == len' = len + (IF m_StorablePosition' # m_StorablePosition THEN count ELSE 0)
                           - (IF m_ValidPosition' # m_ValidPosition
                                THEN Distance(m_ValidPosition, target) ELSE 0)
<1>1. RingIInv /\ RingIInv' /\ [RingNext]_ringVars => [A]_ringVars
  <2> SUFFICES ASSUME RingIInv, RingIInv', RingNext PROVE A
    OBVIOUS
  <2>1. /\ len = Distance(m_ValidPosition, m_StorablePosition)
        /\ len \in 0 .. Size - 1
        /\ m_ValidPosition \in Cells /\ m_StorablePosition \in Cells
    BY Facts DEF RingIInv, RingTypeOK
  <2>2. len' = Distance(m_ValidPosition', m_StorablePosition')
    BY DataIsDistance DEF RingIInv, RingTypeOK
  <2>3. CASE UNCHANGED <<m_ValidPosition, m_StorablePosition>>
    BY <2>1, <2>2, <2>3
  <2>4. CASE StoreIndex
    <3>1. len' = len + count /\ m_ValidPosition' = m_ValidPosition /\ count \in Nat
      BY <2>1, <2>2, <2>4, StoreIndexInvariant
         DEF StoreIndex, consumerVars, RingIInv, RingTypeOK
    <3>2. m_StorablePosition' = m_StorablePosition => count = 0
      BY <2>1, <2>2, <3>1
    <3>3. QED
      BY <2>1, <3>1, <3>2
  <2>5. CASE StoreValid
    <3>1. /\ len' = len - Distance(m_ValidPosition, target)
          /\ m_StorablePosition' = m_StorablePosition
      BY <2>1, <2>2, <2>5, StoreValidInvariant DEF StoreValid, producerVars
    <3>2. Distance(m_ValidPosition, target) \in Nat
      BY DataIsDistance, SizeAssumption DEF RingIInv, RingTypeOK
    <3>3. m_ValidPosition' = m_ValidPosition => Distance(m_ValidPosition, target) = 0
      BY <2>1, <2>2, <3>1, <3>2
    <3>4. QED
      BY <2>1, <3>1, <3>2, <3>3
  <2>6. QED
    BY <2>3, <2>4, <2>5
       DEF RingNext, Produce, Consume, BeginPush, CopyFirst, CopySecond, EndPush,
           BeginPop, BeginClear, Read, producerVars, consumerVars
<1>2. QED
  BY <1>1, RingInvariant, PTL DEF RingSpec, NoOverrun

-----------------------------------------------------------------------------
(* The ring as a queue: SpscRing implements ByteFifo, for rings of every size, *)
(* where the stores of a push are seen in program order.                       *)

(* Until a running pushData stores m_StorablePosition, the copies it has   *)
(* made stand where it made them.                                          *)
FirstPartStands ==
  \A i \in 0 .. FirstLength(base, count) - 1 : m_Buffer[base + i] = chunk[i + 1]

SecondPartStands ==
  \A i \in 0 .. count - FirstLength(base, count) - 1 :
    m_Buffer[i] = chunk[FirstLength(base, count) + i + 1]

Copied ==
  /\ producer = "push" => chunk \in Chunks
  /\ "index" \in todo =>
       /\ "first"  \notin todo => FirstPartStands
       /\ "second" \notin todo => SecondPartStands

FifoIInv == RingIInv /\ Copied

-----------------------------------------------------------------------------
(* What a push has to start from *)
LEMMA PushFacts ==
  ASSUME RingIInv
  PROVE  /\ base \in Cells /\ count \in 0 .. Size - 1 /\ chunk \in Seq(Byte)
         /\ count <= Len(chunk)
         /\ m_Buffer \in [Cells -> Byte]
         /\ FirstLength(base, count) \in 0 .. count
         /\ base + FirstLength(base, count) <= Size
         /\ FirstLength(base, count) = count \/ FirstLength(base, count) = Size - base
         /\ "index" \in todo => producer = "push" /\ base = m_StorablePosition
BY PartsOfCopy, SizeAssumption DEF RingIInv, RingTypeOK, PushFits

(* Neither copy writes the cells of the other. *)
LEMMA CopiesStand ==
  ASSUME FifoIInv, CopyFirst \/ CopySecond
  PROVE  Copied'
<1> DEFINE first == FirstLength(base, count)
<1>1. /\ base \in Cells /\ count \in 0 .. Size - 1 /\ first \in 0 .. count
      /\ base + first <= Size /\ (first = count \/ first = Size - base)
      /\ base \in Nat /\ base < Size /\ Size \in Nat
  BY PushFacts, SizeAssumption DEF FifoIInv, Cells
<1>2. /\ UNCHANGED <<m_StorablePosition, producer, chunk, count, base, consumerVars>>
      /\ "index" \in todo' => "index" \in todo
      /\ FirstLength(base, count)' = first
  BY DEF CopyFirst, CopySecond
<1> HIDE DEF first
<1>3. ASSUME NEW i \in 0 .. first - 1
      PROVE  base + i \in Cells /\ ~ (base + i \in 0 .. 0 + (count - first) - 1)
  BY <1>1, <1>3 DEF Cells
<1>4. ASSUME NEW i \in 0 .. count - first - 1
      PROVE  i \in Cells /\ ~ (i \in base .. base + first - 1)
  BY <1>1, <1>4 DEF Cells
<1>5. CASE CopyFirst
  <2>1. /\ m_Buffer' = Memcpy(m_Buffer, base, chunk, 0, first)
        /\ "second" \in todo' <=> "second" \in todo
    BY <1>5 DEF CopyFirst, first
  <2>2. ASSUME NEW i \in 0 .. first - 1 PROVE m_Buffer'[base + i] = chunk[i + 1]
    <3>1. base + i \in base .. base + first - 1 /\ 0 + ((base + i) - base) + 1 = i + 1
      BY <1>1
    <3>2. m_Buffer'[base + i] = chunk[0 + ((base + i) - base) + 1]
      BY <1>3, <2>1, <3>1 DEF Memcpy
    <3>3. QED
      BY <3>1, <3>2
  <2>3. ASSUME NEW i \in 0 .. count - first - 1 PROVE m_Buffer'[i] = m_Buffer[i]
    BY <1>4, <2>1 DEF Memcpy
  <2>4. QED
    BY <1>2, <2>1, <2>2, <2>3
       DEF FifoIInv, Copied, FirstPartStands, SecondPartStands, first
<1>6. CASE CopySecond
  <2>1. /\ m_Buffer' = Memcpy(m_Buffer, 0, chunk, first, count - first)
        /\ "first" \in todo' <=> "first" \in todo
    BY <1>6 DEF CopySecond, first
  <2>2. ASSUME NEW i \in 0 .. count - first - 1
        PROVE  m_Buffer'[i] = chunk[first + i + 1]
    <3>1. i \in 0 .. 0 + (count - first) - 1 /\ first + (i - 0) + 1 = first + i + 1
      BY <1>1
    <3>2. m_Buffer'[i] = chunk[first + (i - 0) + 1]
      BY <1>4, <2>1, <3>1 DEF Memcpy
    <3>3. QED
      BY <3>1, <3>2
  <2>3. ASSUME NEW i \in 0 .. first - 1 PROVE m_Buffer'[base + i] = m_Buffer[base + i]
    BY <1>3, <2>1 DEF Memcpy
  <2>4. QED
    BY <1>2, <2>1, <2>2, <2>3
       DEF FifoIInv, Copied, FirstPartStands, SecondPartStands, first
<1>7. QED
  BY <1>5, <1>6

LEMMA NextCopied == FifoIInv /\ [RingNext]_ringVars => Copied'
<1> SUFFICES ASSUME FifoIInv, [RingNext]_ringVars PROVE Copied'
  OBVIOUS
<1>1. ASSUME NEW bytes \in Chunks, BeginPush(bytes) PROVE Copied'
  <2>1. chunk' = bytes /\ "first" \in todo'
    BY <1>1 DEF BeginPush, Stores
  <2>2. "second" \notin todo' => SecondPartStands'
    <3> SUFFICES ASSUME "second" \notin todo' PROVE SecondPartStands'
      OBVIOUS
    <3>1. /\ ~ Wraps(base', count') /\ base' = m_StorablePosition
          /\ m_StorablePosition \in Cells
      BY <1>1 DEF BeginPush, Stores, FifoIInv, RingIInv, RingTypeOK
    <3>2. RingIInv'
      BY <1>1, BeginPushInvariant, RingAssumption DEF FifoIInv
    <3>3. count' \in 0 .. Size - 1
      BY <3>2 DEF RingIInv, RingTypeOK
    <3>4. FirstLength(base', count') = count'
      BY <3>1 DEF FirstLength
    <3>5. 0 .. count' - FirstLength(base', count') - 1 = {}
      <4>1. ASSUME NEW c \in Nat PROVE 0 .. c - c - 1 = {}
        OBVIOUS
      <4>2. count' \in Nat
        BY <3>3, SizeAssumption
      <4>3. QED
        BY <3>4, <4>1, <4>2
    <3>6. QED
      BY <3>5 DEF SecondPartStands
  <2>3. QED
    BY <2>1, <2>2 DEF Copied
<1>2. CASE CopyFirst \/ CopySecond
  BY <1>2, CopiesStand
<1>3. CASE StoreIndex \/ EndPush
  BY <1>3 DEF StoreIndex, EndPush, FifoIInv, Copied
<1>4. CASE UNCHANGED <<m_Buffer, producerVars>>
  BY <1>4 DEF FifoIInv, Copied, FirstPartStands, SecondPartStands, producerVars
<1>5. CASE UNCHANGED ringVars
  BY <1>4, <1>5 DEF ringVars
<1>6. CASE Consume
  BY <1>4, <1>6 DEF Consume, BeginPop, BeginClear, StoreValid, Read
<1>7. QED
  BY <1>1, <1>2, <1>3, <1>5, <1>6 DEF RingNext, Produce

LEMMA FifoInvariant == RingSpec => []FifoIInv
<1>1. RingInit => FifoIInv
  BY InitInvariant DEF FifoIInv, Copied, RingInit
<1>2. FifoIInv /\ [RingNext]_ringVars => FifoIInv'
  BY NextInvariant, NextCopied DEF FifoIInv
<1>3. QED
  BY <1>1, <1>2, PTL DEF RingSpec

-----------------------------------------------------------------------------
(* What the ring holds, before and after a step *)
LEMMA QueueTyped ==
  ASSUME RingIInv
  PROVE  /\ Contents(m_Buffer, m_ValidPosition, m_StorablePosition) \in Seq(Byte)
         /\ Len(Contents(m_Buffer, m_ValidPosition, m_StorablePosition))
              = Distance(m_ValidPosition, m_StorablePosition)
         /\ Distance(m_ValidPosition, m_StorablePosition) \in 0 .. Size - 1
BY ContentsTyped, DataIsDistance DEF RingIInv, RingTypeOK

LEMMA EmptyAtFirst == RingInit => Fifo!FifoInit
<1> SUFFICES ASSUME RingInit PROVE Fifo!FifoInit
  OBVIOUS
<1>1. Distance(m_ValidPosition, m_StorablePosition) = 0
  BY SizeAssumption DEF RingInit, Distance
<1>2. /\ Contents(m_Buffer, m_ValidPosition, m_StorablePosition) \in Seq(Byte)
      /\ Len(Contents(m_Buffer, m_ValidPosition, m_StorablePosition)) = 0
  BY <1>1, InitInvariant, QueueTyped
<1>3. Contents(m_Buffer, m_ValidPosition, m_StorablePosition) = << >>
  BY <1>2, EmptySeq
<1>4. QED
  BY <1>3 DEF RingInit, Fifo!FifoInit

(* A copy goes to cells that are not counted. *)
LEMMA CopyIsSilent ==
  ASSUME FifoIInv, InOrder, CopyFirst \/ CopySecond
  PROVE  UNCHANGED Fifo!fifoVars
<1>1. "index" \in todo
  <2>1. "first" \in todo \/ "second" \in todo
    BY DEF CopyFirst, CopySecond, MayStore
  <2>2. QED
    BY <2>1 DEF FifoIInv, RingIInv, IndexIsLast
<1>2. /\ UNCHANGED <<m_ValidPosition, m_StorablePosition, linear>>
      /\ m_Buffer \in [Cells -> Byte] /\ m_Buffer' \in [Cells -> Byte]
      /\ m_ValidPosition \in Cells /\ m_StorablePosition \in Cells
  <2>1. RingIInv'
    BY CopyInvariant DEF FifoIInv
  <2>2. QED
    BY <2>1 DEF CopyFirst, CopySecond, consumerVars, FifoIInv, RingIInv, RingTypeOK
<1>3. ASSUME NEW c \in Cells,
             Distance(m_ValidPosition, c) < Distance(m_ValidPosition, m_StorablePosition)
      PROVE  m_Buffer'[c] = m_Buffer[c]
  <2>1. c \notin InFlight
    <3>1. /\ Distance(m_ValidPosition, c) \in 0 .. Size - 1
          /\ Distance(m_ValidPosition, m_StorablePosition) \in 0 .. Size - 1
      BY <1>2, DataIsDistance
    <3>2. SUFFICES ASSUME c \in InFlight PROVE FALSE
      OBVIOUS
    <3>3. Distance(m_ValidPosition, c) >= Distance(m_ValidPosition, m_StorablePosition)
      BY <1>1, <3>2, InFlightIsFree DEF FifoIInv
    <3>4. QED
      BY <1>3, <3>1, <3>3, SizeAssumption
  <2>2. CASE CopyFirst
    <3>1. c \notin base .. base + FirstLength(base, count) - 1
      BY <2>1, <2>2 DEF CopyFirst, MayStore, InFlight
    <3>2. QED
      BY <2>2, <3>1 DEF CopyFirst, Memcpy
  <2>3. CASE CopySecond
    <3>1. c \notin 0 .. count - FirstLength(base, count) - 1
      BY <2>1, <2>3 DEF CopySecond, MayStore, InFlight
    <3>2. 0 + (count - FirstLength(base, count)) - 1 = count - FirstLength(base, count) - 1
      BY PushFacts, SizeAssumption DEF FifoIInv
    <3>3. QED
      BY <2>3, <3>1, <3>2 DEF CopySecond, Memcpy
  <2>4. QED
    BY <2>2, <2>3
<1>4. Contents(m_Buffer', m_ValidPosition, m_StorablePosition)
        = Contents(m_Buffer, m_ValidPosition, m_StorablePosition)
  BY <1>2, <1>3, ContentsStable
<1>5. QED
  BY <1>2, <1>4 DEF Fifo!fifoVars

(* The store of m_StorablePosition appends what was taken of the chunk. *)
LEMMA PushAppends ==
  ASSUME FifoIInv, InOrder, StoreIndex
  PROVE  /\ Contents(m_Buffer', m_ValidPosition', m_StorablePosition')
              = Contents(m_Buffer, m_ValidPosition, m_StorablePosition)
                  \o SubSeq(chunk, 1, count)
         /\ chunk \in Chunks /\ chunk \in Seq(Byte) /\ count \in 0 .. Len(chunk)
         /\ Len(Contents(m_Buffer, m_ValidPosition, m_StorablePosition)) + count <= Size - 1
<1> DEFINE first == FirstLength(base, count)
           q == Contents(m_Buffer, m_ValidPosition, m_StorablePosition)
<1>1. /\ base = m_StorablePosition /\ base \in Cells /\ m_ValidPosition \in Cells
      /\ Distance(m_ValidPosition, m_StorablePosition) \in 0 .. Size - 1
      /\ Distance(m_ValidPosition, m_StorablePosition) + count < Size
      /\ m_Buffer \in [Cells -> Byte]
      /\ chunk \in Seq(Byte) /\ chunk \in Chunks
      /\ count \in Nat /\ count < Size /\ count <= Len(chunk) /\ Len(chunk) \in Nat
  BY Facts, LenProperties, SizeAssumption
     DEF FifoIInv, RingIInv, RingTypeOK, PushFits, Copied, StoreIndex, MayStore
<1>2. /\ first \in 0 .. count /\ base + first <= Size
      /\ (first = count \/ first = Size - base)
      /\ base \in Nat /\ base < Size /\ Size \in Nat
  BY PushFacts, SizeAssumption DEF FifoIInv, Cells
<1>3. FirstPartStands /\ SecondPartStands
  BY DEF StoreIndex, MayStore, Before, FifoIInv, Copied
<1>4. ASSUME NEW k \in 0 .. count - 1
      PROVE  m_Buffer[Advance(m_StorablePosition, k)] = chunk[k + 1]
  <2>1. k \in 0 .. Size
    BY <1>1, <1>2
  <2>2. Advance(base, k) = IF base + k < Size THEN base + k ELSE base + k - Size
    BY <1>1, <2>1, AdvanceOnce
  <2> HIDE DEF first
  <2>3. CASE k < first
    <3>1. k \in 0 .. first - 1 /\ base + k < Size
      BY <1>1, <1>2, <2>3
    <3>2. m_Buffer[base + k] = chunk[k + 1]
      BY <1>3, <3>1 DEF FirstPartStands, first
    <3>3. QED
      BY <1>1, <2>2, <3>1, <3>2
  <2>4. CASE ~ (k < first)
    <3>1. /\ base + k - Size \in 0 .. count - first - 1
          /\ ~ (base + k < Size)
          /\ first + (base + k - Size) + 1 = k + 1
      BY <1>1, <1>2, <2>4
    <3>2. m_Buffer[base + k - Size] = chunk[first + (base + k - Size) + 1]
      BY <1>3, <3>1 DEF SecondPartStands, first
    <3>3. QED
      BY <1>1, <2>2, <3>1, <3>2
  <2>5. QED
    BY <2>3, <2>4
<1>5. Contents(m_Buffer, m_ValidPosition, Advance(m_StorablePosition, count))
        = q \o SubSeq(chunk, 1, count)
  <2>1. count \in 0 .. Len(chunk) /\ m_StorablePosition \in Cells
    BY <1>1
  <2>2. QED
    BY <1>1, <1>4, <2>1, ContentsGrow
<1>6. /\ UNCHANGED <<m_Buffer, m_ValidPosition, linear>>
      /\ m_StorablePosition' = Advance(m_StorablePosition, count)
  BY <1>1 DEF StoreIndex, consumerVars
<1>7. Len(q) = Distance(m_ValidPosition, m_StorablePosition)
  BY QueueTyped DEF FifoIInv
<1>8. Contents(m_Buffer', m_ValidPosition', m_StorablePosition')
        = q \o SubSeq(chunk, 1, count)
  BY <1>5, <1>6
<1>9. count \in 0 .. Len(chunk) /\ Len(q) + count <= Size - 1
  BY <1>1, <1>2, <1>7
<1>10. QED
  BY <1>1, <1>8, <1>9

(* It is where a push takes effect. *)
LEMMA PushTakesEffect ==
  ASSUME FifoIInv, InOrder, StoreIndex
  PROVE  [Fifo!FifoNext]_(Fifo!fifoVars)
<1> DEFINE q == Contents(m_Buffer, m_ValidPosition, m_StorablePosition)
<1>1. /\ Contents(m_Buffer', m_ValidPosition', m_StorablePosition')
           = q \o SubSeq(chunk, 1, count)
      /\ chunk \in Chunks /\ chunk \in Seq(Byte) /\ count \in 0 .. Len(chunk)
      /\ Len(q) + count <= Size - 1
  BY PushAppends
<1>2. UNCHANGED linear /\ q \in Seq(Byte)
  BY QueueTyped DEF FifoIInv, StoreIndex, consumerVars
<1>3. CASE count = 0
  <2>1. SubSeq(chunk, 1, count) = << >>
    BY <1>3, SubSeqEmpty
  <2>2. Contents(m_Buffer', m_ValidPosition', m_StorablePosition') = q
    BY <1>1, <1>2, <2>1, ConcatEmptySeq
  <2>3. QED
    BY <1>2, <2>2 DEF Fifo!fifoVars
<1>4. CASE count # 0
  <2>1. count \in 1 .. Len(chunk)
    BY <1>1, <1>4
  <2>2. Fifo!Push(chunk)
    BY <1>1, <1>2, <2>1 DEF Fifo!Push
  <2>3. QED
    BY <1>1, <2>2 DEF Fifo!FifoNext
<1>5. QED
  BY <1>3, <1>4

(* The store of m_ValidPosition is where popData and isClear take effect. *)
LEMMA DropTakesEffect ==
  ASSUME FifoIInv, StoreValid
  PROVE  [Fifo!FifoNext]_(Fifo!fifoVars)
<1> DEFINE k == Distance(m_ValidPosition, target)
           q == Contents(m_Buffer, m_ValidPosition, m_StorablePosition)
<1>1. /\ m_ValidPosition \in Cells /\ m_StorablePosition \in Cells /\ target \in Cells
      /\ k <= Distance(m_ValidPosition, m_StorablePosition)
      /\ m_Buffer \in [Cells -> Byte]
  BY DEF StoreValid, FifoIInv, RingIInv, RingTypeOK, PopFits
<1>2. k \in Nat
  BY <1>1, DataIsDistance, SizeAssumption
<1>3. /\ q \in Seq(Byte) /\ Len(q) = Distance(m_ValidPosition, m_StorablePosition)
      /\ Len(q) \in Nat
  BY QueueTyped, SizeAssumption DEF FifoIInv
<1>4. Contents(m_Buffer, target, m_StorablePosition) = SubSeq(q, k + 1, Len(q))
  BY <1>1, <1>3, ContentsShrink
<1>5. /\ UNCHANGED <<m_Buffer, m_StorablePosition, linear>>
      /\ m_ValidPosition' = target
  BY DEF StoreValid, producerVars
<1>6. Contents(m_Buffer', m_ValidPosition', m_StorablePosition') = SubSeq(q, k + 1, Len(q))
  BY <1>4, <1>5
<1>7. CASE k = 0
  <2>1. SubSeq(q, k + 1, Len(q)) = q
    BY <1>3, <1>7, SubSeqFull
  <2>2. QED
    BY <1>5, <1>6, <2>1 DEF Fifo!fifoVars
<1>8. CASE k # 0
  <2>1. k \in 1 .. Len(q)
    BY <1>1, <1>2, <1>3, <1>8
  <2>2. Fifo!Drop
    BY <1>5, <1>6, <2>1 DEF Fifo!Drop
  <2>3. QED
    BY <2>2 DEF Fifo!FifoNext
<1>9. QED
  BY <1>7, <1>8

(* readData copies the oldest bytes out, or nothing. *)
LEMMA ReadTakesEffect ==
  ASSUME FifoIInv, NEW n \in Pops, Read(n)
  PROVE  [Fifo!FifoNext]_(Fifo!fifoVars)
<1> DEFINE q == Contents(m_Buffer, m_ValidPosition, m_StorablePosition)
           len == getLenOfValidData(m_ValidPosition, m_StorablePosition)
<1>1. UNCHANGED <<m_Buffer, m_ValidPosition, m_StorablePosition>>
  BY DEF Read, producerVars
<1>2. Contents(m_Buffer', m_ValidPosition', m_StorablePosition') = q
  BY <1>1
<1>3. /\ q \in Seq(Byte) /\ Len(q) = Distance(m_ValidPosition, m_StorablePosition)
      /\ len = Distance(m_ValidPosition, m_StorablePosition)
      /\ Len(q) \in Nat /\ n \in Nat
  BY QueueTyped, Facts, RingAssumption, SizeAssumption DEF FifoIInv
<1>4. CASE n > 0 /\ n <= len
  <2>1. n \in 1 .. Len(q) /\ n \in 0 .. Distance(m_ValidPosition, m_StorablePosition)
    BY <1>3, <1>4
  <2>2. linear' = ReadBytes(m_Buffer, m_ValidPosition, n)
    BY <1>4 DEF Read
  <2>3. linear' = SubSeq(q, 1, n)
    BY <2>1, <2>2, ReadIsPrefix DEF FifoIInv, RingIInv, RingTypeOK
  <2>4. Fifo!Copy
    BY <1>2, <2>1, <2>3 DEF Fifo!Copy
  <2>5. QED
    BY <2>4 DEF Fifo!FifoNext
<1>5. CASE ~ (n > 0 /\ n <= len)
  <2>1. linear' = linear
    BY <1>5 DEF Read
  <2>2. QED
    BY <1>2, <2>1 DEF Fifo!fifoVars
<1>6. QED
  BY <1>4, <1>5

LEMMA StepRefines ==
  ASSUME FifoIInv, InOrder, [RingNext]_ringVars
  PROVE  [Fifo!FifoNext]_(Fifo!fifoVars)
<1>1. CASE UNCHANGED <<m_Buffer, m_ValidPosition, m_StorablePosition, linear>>
  BY <1>1 DEF Fifo!fifoVars
<1>2. CASE UNCHANGED ringVars
  BY <1>1, <1>2 DEF ringVars, producerVars, consumerVars
<1>3. ASSUME NEW bytes \in Chunks, BeginPush(bytes) PROVE [Fifo!FifoNext]_(Fifo!fifoVars)
  BY <1>1, <1>3 DEF BeginPush, consumerVars
<1>4. CASE CopyFirst \/ CopySecond
  BY <1>4, CopyIsSilent
<1>5. CASE StoreIndex
  BY <1>5, PushTakesEffect
<1>6. CASE EndPush
  BY <1>1, <1>6 DEF EndPush, consumerVars
<1>7. CASE (\E n \in Pops : BeginPop(n)) \/ BeginClear
  BY <1>1, <1>7 DEF BeginPop, BeginClear, producerVars
<1>8. CASE StoreValid
  BY <1>8, DropTakesEffect
<1>9. ASSUME NEW n \in Pops, Read(n) PROVE [Fifo!FifoNext]_(Fifo!fifoVars)
  BY <1>9, ReadTakesEffect
<1>10. QED
  BY <1>2, <1>3, <1>4, <1>5, <1>6, <1>7, <1>8, <1>9 DEF RingNext, Produce, Consume

(* Where stores are seen in program order, a CircleBuffer shared by one      *)
(* producer and one consumer without a lock is a queue of at most m_Size - 1 *)
(* bytes: readData returns what pushData was given, in order, none lost that *)
(* pushData reported as taken and none twice, whatever the interleaving.     *)
THEOREM RingImplementsFifo == InOrder /\ RingSpec => RingIsFifo
<1> SUFFICES ASSUME InOrder PROVE RingSpec => RingIsFifo
  OBVIOUS
<1>1. RingInit => Fifo!FifoInit
  BY EmptyAtFirst
<1>2. FifoIInv /\ [RingNext]_ringVars => [Fifo!FifoNext]_(Fifo!fifoVars)
  BY StepRefines
<1>3. QED
  BY <1>1, <1>2, FifoInvariant, PTL DEF RingSpec, RingIsFifo, Fifo!FifoSpec

=============================================================================
