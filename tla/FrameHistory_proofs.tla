------------------------- MODULE FrameHistory_proofs -------------------------
(***************************************************************************)
(* Resynchronisation passes over no genuine picture, for every size of     *)
(* picture and ring and however the stream is cut.                         *)
(*                                                                         *)
(* What has been passed over need not look wrong at the moment it is: more *)
(* bytes are still to come.  The invariant therefore says that enough      *)
(* bytes were there to rule it out for good, here or behind the picture.   *)
(***************************************************************************)
EXTENDS FrameHistory, SequenceTheorems, TLAPS

(* The four bytes at i are there and are no header. *)
NotHeader(bytes, i) == i + 3 <= Len(bytes) /\ ~HeaderIn(bytes, i)

RuledOut(i) == NotHeader(stream, i) \/ NotHeader(stream, i + FrameLength)

Accounted(i) ==
  \/ i \in frames
  \/ i \in flushed
  \/ \E j \in frames : i \in j + 1 .. j + FrameLength - 1
  \/ RuledOut(i)

HistoryTypeOK ==
  /\ StreamAssumption
  /\ pending \in Seq(Byte) /\ consumed \in Seq(Byte)
  /\ frames \in SUBSET (Nat \ {0})

HistoryIInv ==
  /\ HistoryTypeOK
  /\ \A i \in 1 .. Len(consumed) : Accounted(i)
  /\ FramesAreGenuine

-----------------------------------------------------------------------------
(* Sequences and headers *)

LEMMA Lengths == StreamAssumption => FrameLength \in Nat /\ FrameLength >= 5
  BY DEF StreamAssumption, FrameLength

LEMMA StreamBytes ==
  ASSUME HistoryTypeOK
  PROVE  /\ stream \in Seq(Byte)
         /\ Len(stream) = Len(consumed) + Len(pending)
         /\ \A i \in 1 .. Len(consumed) : stream[i] = consumed[i]
         /\ \A i \in 1 .. Len(pending) : stream[Len(consumed) + i] = pending[i]
  BY DEF HistoryTypeOK, stream

(* What stands where, once more bytes are there, does not change. *)
LEMMA HeadersStay ==
  ASSUME NEW s \in Seq(Byte), NEW t \in Seq(Byte), Len(s) <= Len(t),
         \A i \in 1 .. Len(s) : t[i] = s[i], NEW i \in Nat \ {0}
  PROVE  (HeaderIn(s, i) => HeaderIn(t, i)) /\ (NotHeader(s, i) => NotHeader(t, i))
<1>1. ASSUME i + 3 <= Len(s) PROVE \A k \in 1 .. 4 : t[i + k - 1] = s[i + k - 1]
  BY <1>1
<1> QED BY <1>1 DEF HeaderIn, NotHeader

(* What is pending is part of the stream. *)
LEMMA PendingHeaders ==
  ASSUME HistoryTypeOK, NEW i \in Nat \ {0}
  PROVE  /\ HeaderIn(pending, i) <=> HeaderIn(stream, Len(consumed) + i)
         /\ NotHeader(pending, i) <=> NotHeader(stream, Len(consumed) + i)
<1>1. /\ Len(stream) = Len(consumed) + Len(pending)
      /\ \A n \in 1 .. Len(pending) : stream[Len(consumed) + n] = pending[n]
      /\ Len(consumed) \in Nat /\ Len(pending) \in Nat
  BY StreamBytes DEF HistoryTypeOK
<1>2. i + 3 <= Len(pending) <=> Len(consumed) + i + 3 <= Len(stream)
  BY <1>1
<1>3. ASSUME i + 3 <= Len(pending)
      PROVE  \A k \in 1 .. 4 : stream[Len(consumed) + i + k - 1] = pending[i + k - 1]
  <2> SUFFICES ASSUME NEW k \in 1 .. 4
               PROVE  stream[Len(consumed) + i + k - 1] = pending[i + k - 1]
    OBVIOUS
  <2>1. i + k - 1 \in 1 .. Len(pending)
          /\ Len(consumed) + i + k - 1 = Len(consumed) + (i + k - 1)
    BY <1>1, <1>3
  <2> QED BY <1>1, <2>1
<1> QED BY <1>2, <1>3 DEF HeaderIn, NotHeader

LEMMA Joined ==
  ASSUME NEW a \in Seq(Byte), NEW b \in Seq(Byte)
  PROVE  /\ a \o b \in Seq(Byte)
         /\ Len(a \o b) = Len(a) + Len(b)
         /\ \A i \in 1 .. Len(a) : (a \o b)[i] = a[i]
         /\ \A i \in 1 .. Len(b) : (a \o b)[Len(a) + i] = b[i]
  OBVIOUS

LEMMA SamePlaces ==
  ASSUME NEW a \in Seq(Byte), NEW b \in Seq(Byte), Len(a) = Len(b),
         \A i \in 1 .. Len(a) : a[i] = b[i]
  PROVE  a = b
  OBVIOUS

LEMMA CutAndJoin ==
  ASSUME NEW c \in Seq(Byte), NEW p \in Seq(Byte), NEW n \in 0 .. Len(p)
  PROVE  (c \o SubSeq(p, 1, n)) \o SubSeq(p, n + 1, Len(p)) = c \o p
<1> DEFINE front == SubSeq(p, 1, n)
           back == SubSeq(p, n + 1, Len(p))
           left == c \o front
           whole == c \o p
           joined == left \o back
<1>0. Len(c) \in Nat /\ Len(p) \in Nat /\ n \in Nat /\ n <= Len(p)
  OBVIOUS
<1>1. /\ front \in Seq(Byte) /\ Len(front) = n /\ \A i \in 1 .. n : front[i] = p[i]
      /\ back \in Seq(Byte) /\ Len(back) = Len(p) - n
      /\ \A i \in 1 .. Len(p) - n : back[i] = p[n + i]
  OBVIOUS
<1> HIDE DEF front, back
<1>2. /\ left \in Seq(Byte) /\ Len(left) = Len(c) + n
      /\ \A i \in 1 .. Len(c) : left[i] = c[i]
      /\ \A i \in 1 .. n : left[Len(c) + i] = front[i]
  BY <1>1, Joined
<1> HIDE DEF left
<1>3. /\ joined \in Seq(Byte) /\ Len(joined) = Len(c) + n + (Len(p) - n)
      /\ \A i \in 1 .. Len(c) + n : joined[i] = left[i]
      /\ \A i \in 1 .. Len(p) - n : joined[Len(c) + n + i] = back[i]
  <2>1. back \in Seq(Byte) /\ left \in Seq(Byte)
    BY <1>1, <1>2
  <2>2. /\ joined \in Seq(Byte)
        /\ Len(joined) = Len(left) + Len(back)
        /\ \A i \in 1 .. Len(left) : joined[i] = left[i]
        /\ \A i \in 1 .. Len(back) : joined[Len(left) + i] = back[i]
    BY <2>1, Joined
  <2> HIDE DEF joined
  <2> QED BY <1>1, <1>2, <2>2
<1>4. /\ whole \in Seq(Byte) /\ Len(whole) = Len(c) + Len(p)
      /\ \A i \in 1 .. Len(c) : whole[i] = c[i]
      /\ \A i \in 1 .. Len(p) : whole[Len(c) + i] = p[i]
  BY Joined
<1> HIDE DEF whole, joined
<1>5. ASSUME NEW i \in 1 .. Len(c) + Len(p) PROVE joined[i] = whole[i]
  <2>1. CASE i <= Len(c)
    BY <1>0, <1>2, <1>3, <1>4, <2>1
  <2>2. CASE i > Len(c) /\ i <= Len(c) + n
    <3>1. PICK k \in 1 .. n : i = Len(c) + k
      <4>1. i - Len(c) \in 1 .. n /\ i = Len(c) + (i - Len(c))
        BY <1>0, <2>2
      <4> QED BY <4>1
    <3>2. joined[i] = left[i] /\ left[i] = front[k] /\ front[k] = p[k]
      BY <1>0, <1>1, <1>2, <1>3, <2>2, <3>1
    <3>3. whole[i] = p[k]
      BY <1>0, <1>4, <3>1
    <3> QED BY <3>2, <3>3
  <2>3. CASE i > Len(c) + n
    <3>1. PICK k \in 1 .. Len(p) - n : i = Len(c) + n + k
      <4>1. i - (Len(c) + n) \in 1 .. Len(p) - n /\ i = Len(c) + n + (i - (Len(c) + n))
        BY <1>0, <2>3
      <4> QED BY <4>1
    <3>2. joined[i] = p[n + k]
      BY <1>0, <1>1, <1>3, <3>1
    <3>3. n + k \in 1 .. Len(p) /\ i = Len(c) + (n + k)
      BY <1>0, <3>1
    <3>4. whole[i] = p[n + k]
      BY <1>4, <3>3
    <3> QED BY <3>2, <3>4
  <2> QED BY <1>0, <2>1, <2>2, <2>3
<1>6. Len(joined) = Len(whole) /\ Len(joined) = Len(c) + Len(p)
  BY <1>0, <1>3, <1>4
<1>7. joined = whole
  BY <1>3, <1>4, <1>5, <1>6, SamePlaces
<1> QED BY <1>7 DEF whole, joined, left, front, back

(* A step that takes n bytes off the front keeps the stream as it is. *)
LEMMA FrontIsConsumed ==
  ASSUME HistoryTypeOK, NEW n \in 0 .. Len(pending), DropFront(n), Account
  PROVE  /\ stream' = stream
         /\ Len(consumed') = Len(consumed) + n
         /\ pending' \in Seq(Byte) /\ consumed' \in Seq(Byte)
<1>1. pending' = SubSeq(pending, n + 1, Len(pending))
      /\ pending' \in Seq(Byte) /\ Len(pending') = Len(pending) - n
  BY DEF DropFront, HistoryTypeOK
<1>2. consumed' = consumed \o SubSeq(pending, 1, n)
  BY SMTT(20), <1>1 DEF Account, HistoryTypeOK
<1>3. consumed' \in Seq(Byte) /\ Len(consumed') = Len(consumed) + n
  BY <1>2 DEF HistoryTypeOK
<1>4. stream' = (consumed \o SubSeq(pending, 1, n)) \o SubSeq(pending, n + 1, Len(pending))
  BY <1>1, <1>2 DEF stream
<1>5. stream' = consumed \o pending
  BY <1>4, CutAndJoin DEF HistoryTypeOK
<1> QED BY <1>1, <1>3, <1>5 DEF stream

-----------------------------------------------------------------------------
(* What a step carries over *)

LEMMA Carried ==
  ASSUME HistoryTypeOK, stream \in Seq(Byte), stream' \in Seq(Byte), Len(stream) <= Len(stream'),
         \A k \in 1 .. Len(stream) : stream'[k] = stream[k],
         frames \subseteq frames', flushed \subseteq flushed',
         NEW i \in Nat \ {0}
  PROVE  (Genuine(i) => Genuine(i)') /\ (Accounted(i) => Accounted(i)')
<1>1. i + FrameLength \in Nat \ {0}
  BY Lengths DEF HistoryTypeOK
<1>2. ASSUME NEW j \in Nat \ {0}
      PROVE  /\ HeaderIn(stream, j) => HeaderIn(stream', j)
             /\ NotHeader(stream, j) => NotHeader(stream', j)
  BY HeadersStay
<1>3. /\ Genuine(i)' <=> HeaderIn(stream', i) /\ HeaderIn(stream', i + FrameLength)
      /\ RuledOut(i)' <=> NotHeader(stream', i) \/ NotHeader(stream', i + FrameLength)
  BY DEF Genuine, RuledOut, FrameLength
<1>4. (Genuine(i) => Genuine(i)') /\ (RuledOut(i) => RuledOut(i)')
  BY <1>1, <1>2, <1>3 DEF Genuine, RuledOut
<1>5. Accounted(i) => Accounted(i)'
  BY <1>4 DEF Accounted, FrameLength
<1> QED BY <1>4, <1>5

LEMMA CutStays ==
  ASSUME NEW s \in Seq(Byte), NEW t \in Seq(Byte), Len(s) <= Len(t),
         \A k \in 1 .. Len(s) : t[k] = s[k],
         NEW a \in Nat \ {0}, NEW b \in Nat, b <= Len(s)
  PROVE  SubSeq(t, a, b) = SubSeq(s, a, b)
<1> DEFINE u == SubSeq(s, a, b)
           v == SubSeq(t, a, b)
<1>1. ASSUME NEW r \in Seq(Byte), b <= Len(r)
      PROVE  /\ SubSeq(r, a, b) \in Seq(Byte)
             /\ Len(SubSeq(r, a, b)) = IF a <= b THEN b - a + 1 ELSE 0
             /\ \A k \in 1 .. b - a + 1 : SubSeq(r, a, b)[k] = r[a + k - 1]
  BY <1>1, SubSeqProperties
<1>2. Len(s) \in Nat /\ Len(t) \in Nat /\ b <= Len(t)
  OBVIOUS
<1>3. /\ u \in Seq(Byte) /\ Len(u) = IF a <= b THEN b - a + 1 ELSE 0
      /\ \A k \in 1 .. b - a + 1 : u[k] = s[a + k - 1]
  BY <1>1
<1>4. /\ v \in Seq(Byte) /\ Len(v) = IF a <= b THEN b - a + 1 ELSE 0
      /\ \A k \in 1 .. b - a + 1 : v[k] = t[a + k - 1]
  BY <1>1, <1>2
<1> HIDE DEF u, v
<1>5. ASSUME NEW k \in 1 .. Len(v) PROVE v[k] = u[k]
  <2>1. k \in 1 .. b - a + 1 /\ a + k - 1 \in 1 .. Len(s)
    BY <1>2, <1>4
  <2> QED BY <1>3, <1>4, <2>1
<1>6. v = u
  BY <1>3, <1>4, <1>5, SamePlaces
<1> QED BY <1>6 DEF u, v

(* No step but a picture shown adds to frames. *)
LEMMA SameFrames ==
  ASSUME HistoryIInv, HistoryTypeOK',
         Len(stream) <= Len(stream'),
         \A k \in 1 .. Len(stream) : stream'[k] = stream[k],
         Len(consumed) <= Len(consumed'),
         frames' = frames, flushed \subseteq flushed', picture' = picture,
         \A i \in Len(consumed) + 1 .. Len(consumed') : Accounted(i)'
  PROVE  HistoryIInv'
<1>1. stream \in Seq(Byte) /\ stream' \in Seq(Byte)
  <2>1. HistoryTypeOK
    BY DEF HistoryIInv
  <2> QED BY <2>1, StreamBytes, Joined DEF HistoryTypeOK, stream
<1>2. Len(consumed) \in Nat /\ Len(consumed') \in Nat
  BY DEF HistoryIInv, HistoryTypeOK
<1>3. ASSUME NEW i \in Nat \ {0}
      PROVE  (Genuine(i) => Genuine(i)') /\ (Accounted(i) => Accounted(i)')
  BY <1>1, <1>3, Carried DEF HistoryIInv
<1>4. (\A i \in 1 .. Len(consumed) : Accounted(i))'
  <2> SUFFICES ASSUME NEW i \in 1 .. Len(consumed') PROVE Accounted(i)'
    OBVIOUS
  <2>1. CASE i <= Len(consumed)
    BY <1>2, <1>3, <2>1 DEF HistoryIInv
  <2>2. CASE i > Len(consumed)
    BY <1>2, <2>2
  <2> QED BY <1>2, <2>1, <2>2
<1>5. FramesAreGenuine'
  <2>1. ASSUME NEW i \in frames
        PROVE  /\ i \in Nat \ {0} /\ i + FrameLength - 1 <= Len(consumed)
               /\ Genuine(i)'
               /\ SubSeq(stream', i + 4, i + FrameLength - 1)
                    = SubSeq(stream, i + 4, i + FrameLength - 1)
    <3>1. i \in Nat \ {0} /\ i + FrameLength - 1 <= Len(consumed) /\ Genuine(i)
      BY DEF HistoryIInv, HistoryTypeOK, FramesAreGenuine
    <3>2. /\ i + 4 \in Nat \ {0} /\ i + FrameLength - 1 \in Nat
          /\ i + FrameLength - 1 <= Len(stream)
      BY <1>2, <3>1, Lengths, StreamBytes DEF HistoryIInv, HistoryTypeOK
    <3> QED BY <1>1, <1>3, <3>1, <3>2, CutStays
  <2>2. \A i \in frames' : Genuine(i)' /\ i + FrameLength - 1 <= Len(consumed')
    BY <1>2, <2>1, Lengths DEF HistoryTypeOK
  <2>3. \A i, j \in frames' : i < j => i + FrameLength <= j
    BY DEF HistoryIInv, FramesAreGenuine
  <2>4. \A i \in frames' : (\A j \in frames' : j <= i) =>
          picture' = SubSeq(stream', i + 4, i + FrameLength - 1)
    BY <2>1 DEF HistoryIInv, FramesAreGenuine
  <2> QED BY <2>2, <2>3, <2>4 DEF FramesAreGenuine, FrameLength
<1> QED BY <1>4, <1>5 DEF HistoryIInv

-----------------------------------------------------------------------------
(* The steps *)

LEMMA InitHistory == StreamAssumption /\ HistoryInit => HistoryIInv
  BY DEF HistoryInit, StreamInit, HistoryIInv, HistoryTypeOK, FramesAreGenuine

LEMMA DeliverStep ==
  ASSUME HistoryIInv, NEW bytes \in Offers, Deliver(bytes)
  PROVE  HistoryIInv'
<1>1. HistoryTypeOK /\ bytes \in Seq(Byte)
  BY DEF HistoryIInv, HistoryTypeOK, StreamAssumption
<1>2. PICK n \in 1 .. Len(bytes) : pending' = pending \o SubSeq(bytes, 1, n)
  BY DEF Deliver, Arrive
<1>3. SubSeq(bytes, 1, n) \in Seq(Byte)
  BY <1>1
<1>4. /\ pending' \in Seq(Byte) /\ Len(pending) <= Len(pending')
      /\ \A k \in 1 .. Len(pending) : pending'[k] = pending[k]
  <2>1. /\ pending' \in Seq(Byte)
        /\ Len(pending') = Len(pending) + Len(SubSeq(bytes, 1, n))
        /\ \A k \in 1 .. Len(pending) : pending'[k] = pending[k]
    BY <1>1, <1>2, <1>3, Joined DEF HistoryTypeOK
  <2>2. Len(pending) \in Nat /\ Len(SubSeq(bytes, 1, n)) \in Nat
    BY <1>1, <1>3 DEF HistoryTypeOK
  <2> QED BY <2>1, <2>2
<1>5. UNCHANGED <<consumed, frames, flushed, picture>>
  BY DEF Deliver, Arrive
<1>6. HistoryTypeOK'
  BY <1>1, <1>4, <1>5 DEF HistoryTypeOK
<1>7. /\ Len(stream) <= Len(stream')
      /\ \A k \in 1 .. Len(stream) : stream'[k] = stream[k]
  <2>1. /\ Len(stream) = Len(consumed) + Len(pending)
        /\ Len(stream') = Len(consumed) + Len(pending')
        /\ \A k \in 1 .. Len(consumed) : stream[k] = consumed[k] /\ stream'[k] = consumed[k]
        /\ \A k \in 1 .. Len(pending) : stream[Len(consumed) + k] = pending[k]
        /\ \A k \in 1 .. Len(pending') : stream'[Len(consumed) + k] = pending'[k]
    BY <1>1, <1>4, <1>5, Joined DEF HistoryTypeOK, stream
  <2>2. Len(consumed) \in Nat /\ Len(pending) \in Nat /\ Len(pending') \in Nat
    BY <1>1, <1>4 DEF HistoryTypeOK
  <2>3. ASSUME NEW k \in 1 .. Len(stream) PROVE stream'[k] = stream[k]
    <3>1. CASE k <= Len(consumed)
      BY <2>1, <2>2, <3>1
    <3>2. CASE k > Len(consumed)
      <4>1. /\ k - Len(consumed) \in 1 .. Len(pending)
            /\ k = Len(consumed) + (k - Len(consumed))
        BY <2>1, <2>2, <3>2
      <4>2. k - Len(consumed) \in 1 .. Len(pending')
        BY <1>4, <2>2, <4>1
      <4> QED BY ZenonT(30), <1>4, <2>1, <4>1, <4>2
    <3> QED BY <2>1, <2>2, <3>1, <3>2
  <2> QED BY <1>4, <2>1, <2>2, <2>3
<1>8. Len(consumed) <= Len(consumed')
      /\ \A i \in Len(consumed) + 1 .. Len(consumed') : Accounted(i)'
  BY <1>1, <1>5 DEF HistoryTypeOK
<1> QED BY <1>5, <1>6, <1>7, <1>8, SameFrames

(* A step that takes n bytes off the front, shows nothing and accounts for them *)
LEMMA TakeStep ==
  ASSUME HistoryIInv, NEW n \in 0 .. Len(pending), DropFront(n), Account,
         frames' = frames, flushed \subseteq flushed', picture' = picture,
         \A i \in Len(consumed) + 1 .. Len(consumed) + n : Accounted(i)'
  PROVE  HistoryIInv'
<1>1. HistoryTypeOK
  BY DEF HistoryIInv
<1>2. /\ stream' = stream /\ Len(consumed') = Len(consumed) + n
      /\ pending' \in Seq(Byte) /\ consumed' \in Seq(Byte)
  BY <1>1, FrontIsConsumed
<1>3. HistoryTypeOK'
  BY <1>1, <1>2 DEF HistoryTypeOK
<1>4. Len(stream) \in Nat /\ Len(consumed) \in Nat /\ n \in Nat
  BY <1>1, StreamBytes DEF HistoryTypeOK
<1> QED BY <1>2, <1>3, <1>4, SameFrames

LEMMA FlushStep == ASSUME HistoryIInv, FlushAndNote PROVE HistoryIInv'
<1>1. PICK n \in 1 .. Len(pending) : DropFront(n)
  BY DEF FlushAndNote, Flush
<1>2. n \in 0 .. Len(pending) /\ Account /\ frames' = frames /\ picture' = picture
  BY DEF FlushAndNote, Flush, HistoryIInv, HistoryTypeOK
<1>3. Len(consumed') = Len(consumed) + n
  BY <1>1, <1>2, FrontIsConsumed DEF HistoryIInv
<1>4. flushed' = flushed \cup (Len(consumed) + 1 .. Len(consumed) + n)
  BY <1>3 DEF FlushAndNote
<1>5. \A i \in Len(consumed) + 1 .. Len(consumed) + n : Accounted(i)'
  BY <1>4 DEF Accounted
<1> QED BY <1>1, <1>2, <1>4, <1>5, TakeStep

LEMMA SkipStep == ASSUME HistoryIInv, SkipByte, PassAndNote PROVE HistoryIInv'
<1>1. DropFront(1) /\ Account /\ UNCHANGED <<frames, flushed, picture>>
      /\ Len(pending) >= 4 /\ ~ HeaderIn(pending, 1)
  BY DEF SkipByte, PassAndNote
<1>2. HistoryTypeOK /\ Len(pending) \in Nat /\ 1 \in 0 .. Len(pending)
  BY <1>1 DEF HistoryIInv, HistoryTypeOK
<1>3. NotHeader(stream, Len(consumed) + 1)
  BY <1>1, <1>2, PendingHeaders DEF NotHeader
<1>4. stream' = stream
  BY <1>1, <1>2, FrontIsConsumed
<1>5. Len(consumed) \in Nat
  BY <1>2 DEF HistoryTypeOK
<1>6. ASSUME NEW i \in Len(consumed) + 1 .. Len(consumed) + 1 PROVE Accounted(i)'
  <2>1. i = Len(consumed) + 1
    BY <1>5
  <2>2. NotHeader(stream', i)
    BY <1>3, <1>4, <2>1
  <2> QED BY <2>2 DEF Accounted, RuledOut
<1> QED BY <1>1, <1>2, <1>6, TakeStep

(* Of the four bytes of a header that does not count, the first is ruled out by *)
(* what stands behind the picture, the others because no header starts with     *)
(* the second, third or fourth byte of one.                                     *)
LEMMA BadHeaderStep == ASSUME HistoryIInv, BadHeader, PassAndNote PROVE HistoryIInv'
<1> DEFINE c == Len(consumed)
<1>1. /\ DropFront(4) /\ Account /\ UNCHANGED <<frames, flushed, picture>>
      /\ HeaderIn(pending, 1) /\ Len(pending) >= 4 + FrameLength
      /\ ~ HeaderIn(pending, 1 + FrameLength)
  BY DEF BadHeader, PassAndNote
<1>2. /\ HistoryTypeOK /\ Len(pending) \in Nat /\ 4 \in 0 .. Len(pending) /\ c \in Nat
      /\ FrameLength \in Nat /\ FrameLength >= 5
  BY <1>1, Lengths DEF HistoryIInv, HistoryTypeOK
<1>3. stream' = stream
  BY <1>1, <1>2, FrontIsConsumed
<1>4. NotHeader(stream, c + 1 + FrameLength)
  <2>1. 1 + FrameLength \in Nat \ {0} /\ NotHeader(pending, 1 + FrameLength)
    BY <1>1, <1>2 DEF NotHeader
  <2>2. NotHeader(stream, c + (1 + FrameLength))
    BY <1>2, <2>1, PendingHeaders
  <2>3. c + (1 + FrameLength) = c + 1 + FrameLength
    BY <1>2
  <2> QED BY <2>2, <2>3
<1>5. ASSUME NEW k \in 2 .. 4 PROVE NotHeader(stream, c + k)
  <2>1. k \in Nat \ {0} /\ k \in 1 .. 4 /\ k + 3 <= Len(pending)
    BY <1>1, <1>2
  <2>2. pending[k] = Header[k]
    <3>1. pending[1 + k - 1] = Header[k] /\ 1 + k - 1 = k
      BY <1>1, <2>1 DEF HeaderIn
    <3> QED BY <3>1
  <2>3. Header[k] # 18 /\ Header[1] = 18
    BY <2>1 DEF Header
  <2>4. ~ HeaderIn(pending, k)
    <3>1. HeaderIn(pending, k) => pending[k + 1 - 1] = Header[1]
      BY DEF HeaderIn
    <3>2. k + 1 - 1 = k
      BY <2>1
    <3> QED BY <2>2, <2>3, <3>1, <3>2
  <2> QED BY <1>2, <2>1, <2>4, PendingHeaders DEF NotHeader
<1>6. ASSUME NEW i \in c + 1 .. c + 4 PROVE Accounted(i)'
  <2>1. RuledOut(i)
    <3>1. CASE i = c + 1
      BY <1>4, <3>1 DEF RuledOut
    <3>2. CASE i # c + 1
      <4>1. i - c \in 2 .. 4 /\ i = c + (i - c)
        BY <1>2, <3>2
      <4> HIDE DEF c
      <4> QED BY <1>5, <4>1 DEF RuledOut
    <3> QED BY <3>1, <3>2
  <2>2. RuledOut(i)'
    BY <1>3, <2>1 DEF RuledOut, FrameLength
  <2> QED BY <2>2 DEF Accounted
<1> QED BY <1>1, <1>2, <1>6, TakeStep

(* The bytes of a picture at the front *)
LEMMA PendingCut ==
  ASSUME HistoryTypeOK, FrameLength \in 0 .. Len(pending)
  PROVE  SubSeq(pending, 5, FrameLength)
           = SubSeq(stream, Len(consumed) + 5, Len(consumed) + FrameLength)
<1> DEFINE c == Len(consumed)
           u == SubSeq(pending, 5, FrameLength)
           v == SubSeq(stream, c + 5, c + FrameLength)
<1>1. /\ pending \in Seq(Byte) /\ Len(pending) \in Nat /\ c \in Nat
      /\ FrameLength \in Nat /\ FrameLength >= 5 /\ FrameLength <= Len(pending)
  BY Lengths DEF HistoryTypeOK
<1>2. /\ stream \in Seq(Byte) /\ Len(stream) = c + Len(pending)
      /\ \A i \in 1 .. Len(pending) : stream[c + i] = pending[i]
  BY StreamBytes
<1>3. ASSUME NEW r \in Seq(Byte), NEW a \in Nat \ {0}, NEW b \in Nat, a <= b, b <= Len(r)
      PROVE  /\ SubSeq(r, a, b) \in Seq(Byte) /\ Len(SubSeq(r, a, b)) = b - a + 1
             /\ \A k \in 1 .. b - a + 1 : SubSeq(r, a, b)[k] = r[a + k - 1]
  BY SMTT(20), <1>3, SubSeqProperties
<1>4. /\ u \in Seq(Byte) /\ Len(u) = FrameLength - 4
      /\ \A k \in 1 .. FrameLength - 4 : u[k] = pending[5 + k - 1]
  BY <1>1, <1>3
<1>5. /\ c + 5 \in Nat \ {0} /\ c + FrameLength \in Nat /\ c + 5 <= c + FrameLength
      /\ c + FrameLength <= Len(stream)
      /\ c + FrameLength - (c + 5) + 1 = FrameLength - 4
  BY <1>1, <1>2
<1>6. /\ v \in Seq(Byte) /\ Len(v) = FrameLength - 4
      /\ \A k \in 1 .. FrameLength - 4 : v[k] = stream[c + 5 + k - 1]
  BY <1>2, <1>3, <1>5
<1> HIDE DEF u, v
<1>7. ASSUME NEW k \in 1 .. FrameLength - 4 PROVE u[k] = v[k]
  <2>1. 5 + k - 1 \in 1 .. Len(pending) /\ c + 5 + k - 1 = c + (5 + k - 1)
    BY <1>1
  <2> QED BY <1>2, <1>4, <1>6, <2>1
<1>8. u = v
  BY <1>4, <1>6, <1>7, SamePlaces
<1> QED BY <1>8 DEF u, v

(* The bytes of a picture are accounted for by its header. *)
LEMMA ShowStep == ASSUME HistoryIInv, ShowAndNote PROVE HistoryIInv'
<1> DEFINE c == Len(consumed)
<1>1. /\ DropFront(FrameLength) /\ Account
      /\ frames' = frames \cup {c + 1} /\ flushed' = flushed
      /\ HeaderIn(pending, 1) /\ HeaderIn(pending, 1 + FrameLength)
  BY DEF ShowAndNote, Show
<1>2. /\ HistoryTypeOK /\ c \in Nat /\ FrameLength \in Nat /\ FrameLength >= 5
      /\ FrameLength \in 0 .. Len(pending)
  <2>1. HistoryTypeOK /\ Len(pending) \in Nat /\ FrameLength \in Nat
    BY Lengths DEF HistoryIInv, HistoryTypeOK
  <2>2. 1 + FrameLength + 3 <= Len(pending)
    BY <1>1 DEF HeaderIn
  <2> QED BY <2>1, <2>2, Lengths DEF HistoryTypeOK
<1>3. /\ stream' = stream /\ Len(consumed') = c + FrameLength
      /\ pending' \in Seq(Byte) /\ consumed' \in Seq(Byte)
  BY <1>1, <1>2, FrontIsConsumed
<1>4. HistoryTypeOK'
  <2>1. c + 1 \in Nat \ {0} /\ frames \in SUBSET (Nat \ {0})
    BY <1>2 DEF HistoryTypeOK
  <2> HIDE DEF c
  <2>2. frames' \in SUBSET (Nat \ {0})
    BY <1>1, <2>1
  <2> QED BY <1>2, <1>3, <2>2 DEF HistoryTypeOK
<1>5. Genuine(c + 1)
  <2>1. HeaderIn(stream, c + 1)
    BY <1>1, <1>2, PendingHeaders
  <2>2. HeaderIn(stream, c + (1 + FrameLength))
    <3>1. 1 + FrameLength \in Nat \ {0}
      BY <1>2
    <3> QED BY <1>1, <1>2, <3>1, PendingHeaders
  <2>3. c + (1 + FrameLength) = c + 1 + FrameLength
    BY <1>2
  <2> QED BY <2>1, <2>2, <2>3 DEF Genuine
<1>6. ASSUME NEW i \in Nat \ {0}
      PROVE  (Genuine(i) => Genuine(i)') /\ (Accounted(i) => Accounted(i)')
  <2>1. /\ stream \in Seq(Byte) /\ stream' \in Seq(Byte) /\ Len(stream) <= Len(stream')
        /\ \A k \in 1 .. Len(stream) : stream'[k] = stream[k]
        /\ frames \subseteq frames' /\ flushed \subseteq flushed'
    <3>1. stream \in Seq(Byte) /\ Len(stream) \in Nat
      BY <1>2, StreamBytes
    <3> QED BY <1>1, <1>3, <3>1
  <2> QED BY <1>2, <2>1, Carried
<1>7. (\A i \in 1 .. Len(consumed) : Accounted(i))'
  <2> SUFFICES ASSUME NEW i \in 1 .. Len(consumed') PROVE Accounted(i)'
    OBVIOUS
  <2>1. CASE i <= c
    BY <1>2, <1>6, <2>1 DEF HistoryIInv
  <2>2. CASE i = c + 1
    BY <1>1, <2>2 DEF Accounted
  <2>3. CASE i > c + 1
    <3>1. i \in (c + 1) + 1 .. (c + 1) + FrameLength - 1 /\ c + 1 \in frames'
      BY <1>1, <1>2, <1>3, <2>3
    <3> HIDE DEF c
    <3> QED BY <3>1 DEF Accounted, FrameLength
  <2> QED BY <1>2, <1>3, <2>1, <2>2, <2>3
<1>8. FramesAreGenuine'
  <2>1. ASSUME NEW i \in frames' PROVE Genuine(i)' /\ i + FrameLength - 1 <= Len(consumed')
    <3>1. CASE i \in frames
      <4>1. i \in Nat \ {0} /\ Genuine(i) /\ i + FrameLength - 1 <= c
        BY <1>2, <3>1 DEF HistoryIInv, HistoryTypeOK, FramesAreGenuine
      <4> QED BY <1>2, <1>3, <1>6, <4>1
    <3>2. CASE i = c + 1
      BY <1>2, <1>3, <1>5, <1>6, <3>2
    <3> QED BY <1>1, <3>1, <3>2
  <2>2. ASSUME NEW i \in frames', NEW j \in frames', i < j PROVE i + FrameLength <= j
    <3>1. ASSUME NEW k \in frames PROVE k \in Nat /\ k + FrameLength <= c + 1
      BY <1>2 DEF HistoryIInv, HistoryTypeOK, FramesAreGenuine
    <3>2. CASE i \in frames /\ j \in frames
      BY <2>2, <3>2 DEF HistoryIInv, FramesAreGenuine
    <3>3. CASE i \in frames /\ j = c + 1
      BY <3>1, <3>3
    <3>4. CASE i = c + 1
      <4>1. j \in frames \/ j = c + 1
        BY <1>1
      <4> QED BY <1>2, <2>2, <3>1, <3>4, <4>1
    <3> QED BY <1>1, <3>2, <3>3, <3>4
  <2>3. ASSUME NEW i \in frames', \A j \in frames' : j <= i
        PROVE  picture' = SubSeq(stream', i + 4, i + FrameLength - 1)
    <3>1. i = c + 1
      <4>1. ASSUME i \in frames PROVE FALSE
        <5>1. i \in Nat /\ i + FrameLength - 1 <= c /\ c + 1 <= i
          BY <1>1, <2>3, <4>1 DEF HistoryIInv, HistoryTypeOK, FramesAreGenuine
        <5> QED BY <1>2, <5>1
      <4> QED BY <1>1, <4>1
    <3>2. picture' = SubSeq(pending, 5, FrameLength)
      BY DEF ShowAndNote, Show
    <3>3. SubSeq(pending, 5, FrameLength) = SubSeq(stream, c + 5, c + FrameLength)
      BY <1>2, PendingCut
    <3>4. c + 1 + 4 = c + 5 /\ c + 1 + FrameLength - 1 = c + FrameLength
      BY <1>2
    <3> QED BY <1>3, <3>1, <3>2, <3>3, <3>4
  <2> QED BY <2>1, <2>2, <2>3 DEF FramesAreGenuine, FrameLength
<1> QED BY <1>4, <1>7, <1>8 DEF HistoryIInv

LEMMA NextHistory == HistoryIInv /\ [HistoryNext]_historyVars => HistoryIInv'
<1> SUFFICES ASSUME HistoryIInv, [HistoryNext]_historyVars PROVE HistoryIInv'
  OBVIOUS
<1>1. ASSUME NEW bytes \in Offers, Deliver(bytes) PROVE HistoryIInv'
  BY <1>1, DeliverStep
<1>2. CASE ShowAndNote
  BY <1>2, ShowStep
<1>3. CASE FlushAndNote
  BY <1>3, FlushStep
<1>4. CASE PassAndNote
  <2>1. BadHeader \/ SkipByte
    BY <1>4 DEF PassAndNote
  <2> QED BY <1>4, <2>1, BadHeaderStep, SkipStep
<1>5. CASE UNCHANGED historyVars
  BY <1>5 DEF historyVars, streamVars, HistoryIInv, HistoryTypeOK, FramesAreGenuine,
              Genuine, Accounted, RuledOut, stream, FrameLength
<1> QED BY <1>1, <1>2, <1>3, <1>4, <1>5 DEF HistoryNext

-----------------------------------------------------------------------------
(* What was found out about the bytes that are there stays true when more   *)
(* are delivered: d is the stream with what is still on its way.            *)
LEMMA MoreBytes ==
  ASSUME HistoryIInv, NEW d \in Seq(Byte), Len(stream) <= Len(d),
         \A k \in 1 .. Len(stream) : d[k] = stream[k]
  PROVE  /\ \A i \in 1 .. Len(consumed) :
              HeaderIn(d, i) /\ HeaderIn(d, i + FrameLength) =>
                \/ i \in frames
                \/ i \in flushed
                \/ \E j \in frames : i \in j + 1 .. j + FrameLength - 1
         /\ \A i \in frames : HeaderIn(d, i) /\ HeaderIn(d, i + FrameLength)
         /\ \A i, j \in frames : i < j => i + FrameLength <= j
         /\ \A i \in frames : (\A j \in frames : j <= i) =>
              picture = SubSeq(d, i + 4, i + FrameLength - 1)
<1>1. HistoryTypeOK /\ stream \in Seq(Byte)
  BY StreamBytes DEF HistoryIInv
<1>2. ASSUME NEW i \in Nat \ {0}
      PROVE  /\ HeaderIn(stream, i) => HeaderIn(d, i)
             /\ NotHeader(stream, i) => ~ HeaderIn(d, i)
  <2>1. NotHeader(stream, i) => NotHeader(d, i)
    BY <1>1, HeadersStay
  <2> QED BY <1>1, <2>1, HeadersStay DEF NotHeader
<1>3. ASSUME NEW i \in 1 .. Len(consumed), HeaderIn(d, i), HeaderIn(d, i + FrameLength)
      PROVE  \/ i \in frames
             \/ i \in flushed
             \/ \E j \in frames : i \in j + 1 .. j + FrameLength - 1
  <2>1. i \in Nat \ {0} /\ i + FrameLength \in Nat \ {0}
    BY <1>1, Lengths DEF HistoryTypeOK
  <2>2. ~ RuledOut(i)
    BY <1>2, <1>3, <2>1 DEF RuledOut
  <2> QED BY <2>2 DEF HistoryIInv, Accounted
<1>4. ASSUME NEW i \in frames
      PROVE  /\ HeaderIn(d, i) /\ HeaderIn(d, i + FrameLength)
             /\ SubSeq(d, i + 4, i + FrameLength - 1)
                  = SubSeq(stream, i + 4, i + FrameLength - 1)
  <2>1. /\ i \in Nat \ {0} /\ i + FrameLength \in Nat \ {0} /\ i + 4 \in Nat \ {0}
        /\ Genuine(i) /\ i + FrameLength - 1 \in Nat /\ i + FrameLength - 1 <= Len(stream)
    BY <1>1, Lengths, StreamBytes DEF HistoryIInv, HistoryTypeOK, FramesAreGenuine
  <2>2. SubSeq(d, i + 4, i + FrameLength - 1) = SubSeq(stream, i + 4, i + FrameLength - 1)
    BY <1>1, <2>1, CutStays
  <2> QED BY <1>2, <2>1, <2>2 DEF Genuine
<1> QED BY <1>3, <1>4 DEF HistoryIInv, FramesAreGenuine

-----------------------------------------------------------------------------
(* The theorems *)

(* Every byte gone past is a picture's header, was dropped, lies in a picture *)
(* or was seen to begin none; and the pictures shown are genuine.             *)
THEOREM HistoryInvariant == StreamAssumption /\ HistorySpec => []HistoryIInv
  BY InitHistory, NextHistory, PTL DEF HistorySpec

(* Resynchronising byte by byte passes over no genuine picture: one that is   *)
(* not shown was flushed or lies within one that is.                          *)
THEOREM NoneSkipped == StreamAssumption /\ HistorySpec => []NoFrameSkipped
<1>1. ASSUME NEW i, Genuine(i) PROVE ~ RuledOut(i)
  BY <1>1 DEF Genuine, RuledOut, NotHeader
<1>2. HistoryIInv => NoFrameSkipped
  BY <1>1 DEF HistoryIInv, Accounted, NoFrameSkipped
<1> QED BY <1>2, HistoryInvariant, PTL

(* The pictures shown stand between two headers and do not overlap. *)
THEOREM ShownAreGenuine == StreamAssumption /\ HistorySpec => []FramesAreGenuine
<1>1. HistoryIInv => FramesAreGenuine
  BY DEF HistoryIInv
<1> QED BY <1>1, HistoryInvariant, PTL

=============================================================================
