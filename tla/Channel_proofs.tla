--------------------------- MODULE Channel_proofs ---------------------------
(***************************************************************************)
(* Theorems about Channel, for every size of ring and picture and whatever *)
(* the device delivers: its threads use the ring as SpscRing allows, the   *)
(* length the analysis thread keeps is sound, and, where the stores of a   *)
(* push are seen in program order, Channel implements FrameStream.         *)
(***************************************************************************)
EXTENDS ChannelHistory, SpscRing_proofs

(* What the read thread pushes is what is left of its block. *)
PushesRest ==
  /\ rest # << >> => rest \in Chunks
  /\ producer = "push" => reader = "pushing" /\ chunk = rest

held == Distance(m_ValidPosition, m_StorablePosition)
dropped == Distance(m_ValidPosition, target)

(* A popData that has begun drops no more than its caller will count down. *)
DropsAtMost ==
  /\ analysis = "skip" => dropped <= 1
  /\ analysis \in {"header", "bad"} => dropped <= 4
  /\ analysis = "picture" => dropped <= PictureSize

(* Until quit, the local length is held, and is long enough for what the     *)
(* thread has still to count down.                                           *)
LengthSuffices ==
  ~ quit =>
    /\ analysis \in {"scan", "skip", "verify", "header", "bad", "copy", "take",
                     "picture", "show", "level"} => lenOfValid <= held
    /\ analysis = "skip" => lenOfValid >= 1
    /\ analysis \in {"header", "bad"} => lenOfValid >= 4 + FrameLength
    /\ analysis \in {"copy", "take", "picture"} => lenOfValid >= PictureSize

ChannelIInv ==
  /\ RingIInv
  /\ ChannelTypeOK
  /\ PushesRest
  /\ DropsAtMost
  /\ LengthSuffices

-----------------------------------------------------------------------------
(* A step is one of the signal, of the read thread or of the analysis thread, *)
(* or is nothing to the channel but for mtx0.                                 *)
LEMMA WhoseStep ==
  [Next]_vars => Interrupt \/ ReadThread \/ AnalysisThread \/ UNCHANGED ownVars
BY DEF Next, Others, OthersLock, OthersUnlock, OthersThrow, Terminated, vars

(* The channel's own steps leave mtx0 as they find it. *)
LEMMA MutexType ==
  ASSUME ChannelIInv, [Next]_vars
  PROVE  mtx0' \in {"free", "taken", "lost"}
<1>1. mtx0 \in {"free", "taken", "lost"}
  BY DEF ChannelIInv, ChannelTypeOK
<1>2. ReadThread => UNCHANGED mtx0
  BY DEF ReadThread, ReaderOpen, ReaderQuit, ReaderRead, ReaderReadFails, ReaderPush,
         ReaderStore, ReaderPushed, ReaderNextBlock, ReaderClose
<1>3. AnalysisThread => UNCHANGED mtx0
  BY DEF AnalysisThread, AnalysisPoll, AnalysisEmpty, AnalysisHeader, AnalysisSkip,
         AnalysisAwait, AnalysisAwaitMore, AnalysisVerify, AnalysisPopped, AnalysisCopy,
         AnalysisTake, AnalysisShow, AnalysisLevel, AnalysisCleared
<1>4. Others => mtx0' \in {"free", "taken", "lost"}
  BY DEF Others, OthersLock, OthersUnlock, OthersThrow
<1> QED
  BY <1>1, <1>2, <1>3, <1>4 DEF Next, Interrupt, Terminated, vars

(* Every step of a channel is a step of its ring, or leaves the ring alone. *)
LEMMA StepUsesRing ==
  ASSUME ChannelIInv, [Next]_vars
  PROVE  [RingNext]_ringVars
<1>1. CASE UNCHANGED ringVars
  BY <1>1
<1>2. CASE ReadThread
  <2>1. ReaderPush => \E bytes \in Chunks : BeginPush(bytes)
    BY DEF ReaderPush, ChannelIInv, PushesRest
  <2>2. ReaderStore => CopyFirst \/ CopySecond \/ StoreIndex
    BY DEF ReaderStore
  <2>3. ReaderPushed => EndPush
    BY DEF ReaderPushed
  <2>4. ReaderOpen \/ ReaderQuit \/ ReaderRead \/ ReaderReadFails
          \/ ReaderNextBlock \/ ReaderClose => UNCHANGED ringVars
    BY DEF ReaderOpen, ReaderQuit, ReaderRead, ReaderReadFails, ReaderNextBlock, ReaderClose
  <2>5. QED
    BY <1>2, <2>1, <2>2, <2>3, <2>4 DEF ReadThread, RingNext, Produce
<1>3. CASE AnalysisThread
  <2>1. AnalysisSkip => \E n \in Pops : BeginPop(n)
    BY RingUseAssumption DEF AnalysisSkip
  <2>2. AnalysisVerify => \E n \in Pops : BeginPop(n)
    BY RingUseAssumption DEF AnalysisVerify
  <2>3. AnalysisTake => \E n \in Pops : BeginPop(n)
    BY RingUseAssumption DEF AnalysisTake
  <2>4. AnalysisCopy => \E n \in Pops : Read(n)
    BY RingUseAssumption DEF AnalysisCopy
  <2>5. AnalysisLevel => BeginClear \/ UNCHANGED ringVars
    BY DEF AnalysisLevel
  <2>6. AnalysisPopped("skip", 1, "level") \/ AnalysisPopped("bad", 4, "scan")
          \/ AnalysisPopped("header", 4, "copy")
          \/ AnalysisPopped("picture", PictureSize, "show")
          \/ AnalysisCleared => StoreValid
    BY DEF AnalysisPopped, AnalysisCleared
  <2>7. AnalysisPoll \/ AnalysisEmpty \/ AnalysisHeader \/ AnalysisAwait
          \/ AnalysisAwaitMore \/ AnalysisShow => UNCHANGED ringVars
    BY DEF AnalysisPoll, AnalysisEmpty, AnalysisHeader, AnalysisAwait,
           AnalysisAwaitMore, AnalysisShow
  <2>8. QED
    BY <1>3, <2>1, <2>2, <2>3, <2>4, <2>5, <2>6, <2>7
       DEF AnalysisThread, RingNext, Consume
<1>4. Interrupt \/ UNCHANGED ownVars => UNCHANGED ringVars
  BY DEF Interrupt, ownVars
<1>5. QED
  BY <1>1, <1>2, <1>3, <1>4, WhoseStep

LEMMA RingPart ==
  ASSUME ChannelIInv, [Next]_vars
  PROVE  RingIInv'
BY StepUsesRing, NextInvariant DEF ChannelIInv

(* What the arithmetic of the steps needs *)
LEMMA ChannelFacts ==
  ASSUME ChannelIInv
  PROVE  /\ held \in Nat /\ held < Size /\ valid = held
         /\ PictureSize \in Nat \ {0} /\ FrameLength = 4 + PictureSize
         /\ Word \in Nat /\ Size < Word /\ Size \in Nat
         /\ lenOfValid \in 0 .. Word - 1
         /\ m_ValidPosition \in Cells /\ m_StorablePosition \in Cells
<1>1. RingIInv /\ lenOfValid \in 0 .. Word - 1
  BY DEF ChannelIInv, ChannelTypeOK
<1>2. /\ held \in 0 .. Size - 1 /\ valid = held
      /\ m_ValidPosition \in Cells /\ m_StorablePosition \in Cells
  BY <1>1, Facts DEF held, valid, RingIInv, RingTypeOK
<1>3. QED
  BY <1>1, <1>2, SizeAssumption, ChannelAssumption DEF FrameLength

LEMMA InitChannel == Init => ChannelIInv
<1> SUFFICES ASSUME Init PROVE ChannelIInv
  OBVIOUS
<1>1. RingIInv
  BY InitInvariant DEF Init
<1>2. ChannelTypeOK
  <2>1. 0 \in 0 .. MaxReads /\ 0 \in 0 .. Word - 1 /\ << >> \in Seq(Byte)
    BY SizeAssumption, ChannelAssumption
  <2>2. QED
    BY <1>1, <2>1 DEF Init, ChannelTypeOK, RingIInv
<1>3. PushesRest /\ DropsAtMost /\ LengthSuffices
  BY DEF Init, RingInit, PushesRest, DropsAtMost, LengthSuffices
<1>4. QED
  BY <1>1, <1>2, <1>3 DEF ChannelIInv

-----------------------------------------------------------------------------
(* The read thread *)

(* It never takes anything out of the ring, nor touches the local length. *)
LEMMA ReaderAdds ==
  ASSUME ChannelIInv, ReadThread
  PROVE  /\ held' \in Nat /\ held <= held'
         /\ UNCHANGED <<quit, consumerVars, analysisVars>>
<1>1. UNCHANGED <<quit, consumerVars, analysisVars>>
  BY DEF ReadThread, ReaderOpen, ReaderQuit, ReaderRead, ReaderReadFails, ReaderPush,
         ReaderStore, ReaderPushed, ReaderNextBlock, ReaderClose, ringVars,
         BeginPush, CopyFirst, CopySecond, StoreIndex, EndPush
<1>2. CASE UNCHANGED m_StorablePosition
  <2>1. held' = held
    BY <1>1, <1>2 DEF held, consumerVars
  <2>2. QED
    BY <1>1, <2>1, ChannelFacts
<1>3. CASE StoreIndex
  <2>1. held' = held + count /\ count \in Nat
    BY <1>3, StoreIndexInvariant, SizeAssumption DEF ChannelIInv, held, RingIInv, RingTypeOK
  <2>2. QED
    BY <1>1, <2>1, ChannelFacts
<1>4. QED
  BY <1>2, <1>3
     DEF ReadThread, ReaderOpen, ReaderQuit, ReaderRead, ReaderReadFails, ReaderPush,
         ReaderStore, ReaderPushed, ReaderNextBlock, ReaderClose, ringVars, producerVars,
         BeginPush, CopyFirst, CopySecond, EndPush

(* It pushes a block to its end, from where the last call left off. *)
LEMMA ReaderPushesRest ==
  ASSUME ChannelIInv, ReadThread
  PROVE  /\ PushesRest'
         /\ rest' \in Seq(Byte) /\ reads' \in 0 .. MaxReads
         /\ device' \in {"open", "closed"}
         /\ reader' \in {"open", "loop", "push", "pushing", "close", "done"}
<1>1. /\ rest \in Seq(Byte) /\ reads \in 0 .. MaxReads /\ MaxReads \in Nat
      /\ device \in {"open", "closed"}
      /\ reader \in {"open", "loop", "push", "pushing", "close", "done"}
  BY ChannelAssumption DEF ChannelIInv, ChannelTypeOK
<1>2. Chunks \subseteq Seq(Byte) /\ Blocks \subseteq Chunks
  BY RingAssumption, RingUseAssumption
<1>3. CASE ReaderOpen \/ ReaderQuit \/ ReaderReadFails \/ ReaderClose
  BY <1>1, <1>3 DEF ReaderOpen, ReaderQuit, ReaderReadFails, ReaderClose,
                    ChannelIInv, PushesRest, ringVars, producerVars
<1>4. CASE ReaderRead
  <2>1. reads' \in 0 .. MaxReads
    BY <1>1, <1>4 DEF ReaderRead
  <2>2. QED
    BY <1>1, <1>2, <1>4, <2>1 DEF ReaderRead, ChannelIInv, PushesRest, ringVars, producerVars
<1>5. CASE ReaderPush
  BY <1>1, <1>5 DEF ReaderPush, BeginPush, ChannelIInv, PushesRest
<1>6. CASE ReaderStore
  BY <1>1, <1>6 DEF ReaderStore, CopyFirst, CopySecond, StoreIndex, readerVars,
                    ChannelIInv, PushesRest
<1>7. CASE ReaderPushed
  <2>1. chunk = rest /\ count \in 0 .. Size - 1 /\ count <= Len(chunk)
    BY <1>7 DEF ReaderPushed, EndPush, ChannelIInv, PushesRest, RingIInv, RingTypeOK, PushFits
  <2>2. count \in 0 .. Len(rest)
    BY <1>1, <2>1, LenProperties, SizeAssumption
  <2>3. CASE rest = << >>
    <3>1. Len(rest) = 0 /\ count = 0
      BY <2>2, <2>3, EmptySeq
    <3>2. SubSeq(rest, count + 1, Len(rest)) = << >>
      BY <3>1, SubSeqEmpty
    <3>3. QED
      BY <1>1, <1>7, <3>2, EmptySeq DEF ReaderPushed, EndPush, PushesRest
  <2>4. CASE rest # << >>
    <3>1. SubSeq(rest, count + 1, Len(rest)) \in Chunks
      BY <2>2, <2>4, RingUseAssumption DEF ChannelIInv, PushesRest
    <3>2. QED
      BY <1>1, <1>2, <1>7, <3>1 DEF ReaderPushed, EndPush, PushesRest
  <2>5. QED
    BY <2>3, <2>4
<1>8. CASE ReaderNextBlock
  BY <1>1, <1>8, EmptySeq DEF ReaderNextBlock, ChannelIInv, PushesRest, ringVars, producerVars
<1>9. QED
  BY <1>3, <1>4, <1>5, <1>6, <1>7, <1>8 DEF ReadThread

LEMMA ReadThreadInvariant ==
  ASSUME ChannelIInv, ReadThread
  PROVE  ChannelIInv'
<1>1. RingIInv'
  BY RingPart DEF Next
<1>2. /\ held' \in Nat /\ held <= held' /\ held \in Nat /\ lenOfValid \in Nat
      /\ UNCHANGED <<quit, consumerVars, analysisVars>>
  BY ReaderAdds, ChannelFacts
<1>3. ChannelTypeOK'
  <2>1. mtx0' \in {"free", "taken", "lost"}
    BY MutexType DEF Next
  <2> QED
    BY <1>1, <1>2, <2>1, ReaderPushesRest
       DEF ChannelIInv, ChannelTypeOK, RingIInv, analysisVars
<1>4. DropsAtMost'
  BY <1>2 DEF ChannelIInv, DropsAtMost, dropped, consumerVars, analysisVars
<1>5. LengthSuffices'
  <2>1. lenOfValid <= held => lenOfValid <= held'
    BY <1>2
  <2>2. UNCHANGED <<quit, analysis, lenOfValid>>
    BY <1>2 DEF analysisVars
  <2>3. QED
    BY <2>1, <2>2 DEF ChannelIInv, LengthSuffices
<1>6. QED
  BY <1>1, <1>3, <1>4, <1>5, ReaderPushesRest DEF ChannelIInv

-----------------------------------------------------------------------------
(* The analysis thread *)

LEMMA AnalysisKeepsReader ==
  ASSUME ChannelIInv, AnalysisThread
  PROVE  PushesRest' /\ UNCHANGED <<quit, readerVars>>
<1>1. UNCHANGED <<quit, readerVars>> /\ UNCHANGED <<producer, chunk>>
  BY DEF AnalysisThread, AnalysisPoll, AnalysisEmpty, AnalysisHeader, AnalysisSkip,
         AnalysisAwait, AnalysisAwaitMore, AnalysisVerify, AnalysisPopped, AnalysisCopy,
         AnalysisTake, AnalysisShow, AnalysisLevel, AnalysisCleared, ringVars,
         producerVars, BeginPop, BeginClear, StoreValid, Read
<1>2. QED
  BY <1>1 DEF ChannelIInv, PushesRest, readerVars

(* popData settles on at most as many bytes as it is asked for. *)
LEMMA PopDropsAtMost ==
  ASSUME ChannelIInv, NEW n \in Nat, BeginPop(n)
  PROVE  dropped' <= n /\ (n <= held => dropped' = n) /\ held' = held
<1>1. /\ held \in Nat /\ held < Size /\ valid = held /\ Size \in Nat
      /\ m_ValidPosition \in Cells /\ m_StorablePosition \in Cells
  BY ChannelFacts
<1>2. UNCHANGED <<m_ValidPosition, m_StorablePosition>>
  BY DEF BeginPop, producerVars
<1> DEFINE k == PopLength(n, held)
<1>3. k \in Nat /\ k <= n /\ k < Size /\ (n <= held => k = n)
  BY <1>1 DEF PopLength
<1>4. target' = Advance(m_ValidPosition, k)
  BY <1>1 DEF BeginPop, valid
<1>5. Distance(m_ValidPosition, m_ValidPosition) = 0
  BY <1>1 DEF Distance, Cells
<1> HIDE DEF k
<1>6. Distance(m_ValidPosition, m_ValidPosition) + k < Size
  BY <1>3, <1>5
<1>7. Distance(m_ValidPosition, target')
        = Distance(m_ValidPosition, m_ValidPosition) + k
  BY <1>1, <1>3, <1>4, <1>6, StoringAdds
<1>8. dropped' = k
  BY <1>2, <1>3, <1>5, <1>7 DEF dropped
<1>9. QED
  BY <1>2, <1>3, <1>8 DEF held

(* The ring loses no more than the local length does. *)
LEMMA PoppedCountsDown ==
  ASSUME ChannelIInv, NEW n \in Nat, NEW from, NEW to, AnalysisPopped(from, n, to),
         dropped <= n
  PROVE  /\ lenOfValid' \in 0 .. Word - 1
         /\ lenOfValid >= n /\ lenOfValid <= held =>
              lenOfValid' = lenOfValid - n /\ lenOfValid' <= held'
<1>1. /\ held \in Nat /\ Word \in Nat /\ 0 < Word /\ lenOfValid \in 0 .. Word - 1
      /\ dropped \in Nat
  <2>1. m_ValidPosition \in Cells /\ target \in Cells
    BY DEF ChannelIInv, RingIInv, RingTypeOK
  <2>2. QED
    BY <2>1, ChannelFacts, DataIsDistance, SizeAssumption DEF dropped
<1>2. lenOfValid' = (lenOfValid - n) % Word
  BY DEF AnalysisPopped
<1>3. held' = held - dropped
  BY StoreValidInvariant DEF AnalysisPopped, ChannelIInv, held, dropped
<1>4. (lenOfValid - n) % Word \in 0 .. Word - 1
  BY <1>1
<1>5. ASSUME lenOfValid >= n PROVE (lenOfValid - n) % Word = lenOfValid - n
  <2>1. lenOfValid - n \in 0 .. Word - 1
    BY <1>1, <1>5
  <2>2. ASSUME NEW a \in 0 .. Word - 1 PROVE a % Word = a
    BY <1>1, <2>2, Z3
  <2>3. QED
    BY <2>1, <2>2
<1>6. QED
  BY <1>1, <1>2, <1>3, <1>4, <1>5

LEMMA AnalysisThreadInvariant ==
  ASSUME ChannelIInv, AnalysisThread
  PROVE  ChannelIInv'
<1>1. RingIInv'
  BY RingPart DEF Next
<1>2. PushesRest' /\ UNCHANGED <<quit, readerVars>>
  BY AnalysisKeepsReader
<1>3. /\ held \in Nat /\ held < Size /\ valid = held
      /\ PictureSize \in Nat \ {0} /\ FrameLength = 4 + PictureSize
      /\ Word \in Nat /\ Size < Word /\ Size \in Nat
      /\ lenOfValid \in 0 .. Word - 1
  BY ChannelFacts
<1> DEFINE Rest == /\ analysis' \in {"poll", "scan", "await", "verify", "header", "bad",
                          "copy", "take", "picture", "show", "skip", "level", "clear",
                          "done", "lost"}
                   /\ lenOfValid' \in 0 .. Word - 1
                   /\ picture' \in Seq(Byte)
                   /\ frameCnt' \in Nat
                   /\ DropsAtMost'
                   /\ LengthSuffices'
<1>4. SUFFICES Rest
  <2>1. mtx0' \in {"free", "taken", "lost"}
    BY MutexType DEF Next
  <2> QED
    BY <1>1, <1>2, <2>1 DEF ChannelIInv, ChannelTypeOK, RingIInv, readerVars
<1>5. picture \in Seq(Byte) /\ frameCnt \in Nat /\ linear \in Seq(Byte)
  BY DEF ChannelIInv, ChannelTypeOK, RingTypeOK
<1>6. DropsAtMost /\ LengthSuffices
  BY DEF ChannelIInv
<1>7. CASE AnalysisPoll
  <2>1. held' = held
    BY <1>7 DEF AnalysisPoll, ringVars, producerVars, consumerVars, held
  <2>2. lenOfValid' \in 0 .. Word - 1 /\ (analysis' = "scan" => lenOfValid' = held')
    BY <1>3, <1>7, <2>1 DEF AnalysisPoll
  <2>3. analysis' \in {"scan", "done"} /\ UNCHANGED <<picture, frameCnt>>
    BY <1>7 DEF AnalysisPoll
  <2>4. lenOfValid' = held' => lenOfValid' <= held'
    BY <1>3, <2>1
  <2>5. QED
    BY <1>5, <2>2, <2>3, <2>4 DEF DropsAtMost, LengthSuffices
<1>8. CASE AnalysisEmpty \/ AnalysisHeader \/ AnalysisAwaitMore
  <2>1. /\ analysis = "scan" \/ analysis' = "await"
        /\ analysis' \in {"poll", "await"}
        /\ UNCHANGED <<lenOfValid, picture, frameCnt>>
    BY <1>8 DEF AnalysisEmpty, AnalysisHeader, AnalysisAwaitMore
  <2>2. QED
    BY <1>3, <1>5, <2>1 DEF DropsAtMost, LengthSuffices
<1>9. CASE AnalysisAwait
  <2>1. /\ held' = held /\ lenOfValid' = held /\ analysis' = "verify"
        /\ UNCHANGED <<picture, frameCnt>>
    BY <1>3, <1>9 DEF AnalysisAwait, ringVars, producerVars, consumerVars, held
  <2>2. lenOfValid' \in 0 .. Word - 1 /\ lenOfValid' <= held'
    BY <1>3, <2>1
  <2>3. QED
    BY <1>5, <2>1, <2>2 DEF DropsAtMost, LengthSuffices
<1>10. CASE AnalysisSkip
  <2>1. dropped' <= 1 /\ held' = held
    BY <1>10, PopDropsAtMost DEF AnalysisSkip
  <2>2. /\ analysis = "scan" /\ analysis' = "skip" /\ lenOfValid >= 1
        /\ UNCHANGED <<lenOfValid, picture, frameCnt>>
    BY <1>3, <1>10 DEF AnalysisSkip
  <2>3. QED
    BY <1>2, <1>3, <1>5, <1>6, <2>1, <2>2 DEF DropsAtMost, LengthSuffices
<1>11. CASE AnalysisVerify
  <2>1. dropped' <= 4 /\ held' = held
    BY <1>11, PopDropsAtMost DEF AnalysisVerify
  <2>2. /\ analysis = "verify" /\ analysis' \in {"header", "bad"}
        /\ lenOfValid >= 4 + FrameLength \/ quit
        /\ UNCHANGED <<lenOfValid, picture, frameCnt>>
    BY <1>11 DEF AnalysisVerify, Enough
  <2>3. QED
    BY <1>2, <1>3, <1>5, <1>6, <2>1, <2>2 DEF DropsAtMost, LengthSuffices
<1>12. CASE AnalysisPopped("skip", 1, "level")
  <2>1. dropped <= 1 /\ analysis = "skip"
    BY <1>6, <1>12 DEF AnalysisPopped, DropsAtMost
  <2>2. /\ lenOfValid' \in 0 .. Word - 1
        /\ lenOfValid >= 1 /\ lenOfValid <= held => lenOfValid' <= held'
    BY <1>12, <2>1, PoppedCountsDown
  <2>3. analysis' = "level" /\ UNCHANGED <<picture, frameCnt>>
    BY <1>12 DEF AnalysisPopped
  <2>4. QED
    BY <1>2, <1>5, <1>6, <2>1, <2>2, <2>3 DEF DropsAtMost, LengthSuffices
<1>13. CASE AnalysisPopped("bad", 4, "scan")
  <2>1. dropped <= 4 /\ analysis = "bad"
    BY <1>6, <1>13 DEF AnalysisPopped, DropsAtMost
  <2>2. /\ lenOfValid' \in 0 .. Word - 1
        /\ lenOfValid >= 4 /\ lenOfValid <= held => lenOfValid' <= held'
    BY <1>13, <2>1, PoppedCountsDown
  <2>3. analysis' = "scan" /\ UNCHANGED <<picture, frameCnt>>
    BY <1>13 DEF AnalysisPopped
  <2>4. lenOfValid >= 4 + FrameLength => lenOfValid >= 4
    BY <1>3
  <2>5. QED
    BY <1>2, <1>5, <1>6, <2>1, <2>2, <2>3, <2>4 DEF DropsAtMost, LengthSuffices
<1>14. CASE AnalysisPopped("header", 4, "copy")
  <2>1. dropped <= 4 /\ analysis = "header"
    BY <1>6, <1>14 DEF AnalysisPopped, DropsAtMost
  <2>2. /\ lenOfValid' \in 0 .. Word - 1
        /\ lenOfValid >= 4 /\ lenOfValid <= held =>
             lenOfValid' = lenOfValid - 4 /\ lenOfValid' <= held'
    BY <1>14, <2>1, PoppedCountsDown
  <2>3. analysis' = "copy" /\ UNCHANGED <<picture, frameCnt>>
    BY <1>14 DEF AnalysisPopped
  <2>4. lenOfValid >= 4 + FrameLength =>
          lenOfValid >= 4 /\ lenOfValid - 4 >= PictureSize
    BY <1>3
  <2>5. QED
    BY <1>2, <1>5, <1>6, <2>1, <2>2, <2>3, <2>4 DEF DropsAtMost, LengthSuffices
<1>15. CASE AnalysisCopy
  <2>1. /\ analysis = "copy" /\ analysis' = "take" /\ held' = held
        /\ UNCHANGED <<lenOfValid, picture, frameCnt>>
    BY <1>15 DEF AnalysisCopy, Read, producerVars, held
  <2>2. QED
    BY <1>2, <1>3, <1>5, <1>6, <2>1 DEF DropsAtMost, LengthSuffices
<1>16. CASE AnalysisTake
  <2>1. dropped' <= PictureSize /\ held' = held
    BY <1>3, <1>16, PopDropsAtMost DEF AnalysisTake
  <2>2. /\ analysis = "take" /\ analysis' = "picture"
        /\ UNCHANGED <<lenOfValid, picture, frameCnt>>
    BY <1>16 DEF AnalysisTake
  <2>3. QED
    BY <1>2, <1>3, <1>5, <1>6, <2>1, <2>2 DEF DropsAtMost, LengthSuffices
<1>17. CASE AnalysisPopped("picture", PictureSize, "show")
  <2>1. dropped <= PictureSize /\ analysis = "picture"
    BY <1>6, <1>17 DEF AnalysisPopped, DropsAtMost
  <2>2. /\ lenOfValid' \in 0 .. Word - 1
        /\ lenOfValid >= PictureSize /\ lenOfValid <= held => lenOfValid' <= held'
    BY <1>3, <1>17, <2>1, PoppedCountsDown
  <2>3. analysis' = "show" /\ UNCHANGED <<picture, frameCnt>>
    BY <1>17 DEF AnalysisPopped
  <2>4. QED
    BY <1>2, <1>5, <1>6, <2>1, <2>2, <2>3 DEF DropsAtMost, LengthSuffices
<1>18. CASE AnalysisShow
  <2>1. /\ analysis = "show" /\ analysis' = "scan" /\ held' = held
        /\ UNCHANGED lenOfValid
        /\ picture' = linear /\ frameCnt' = frameCnt + 1
    BY <1>18 DEF AnalysisShow, ringVars, producerVars, consumerVars, held
  <2>2. QED
    BY <1>2, <1>3, <1>5, <1>6, <2>1 DEF DropsAtMost, LengthSuffices
<1>19. CASE AnalysisLevel
  <2>1. /\ analysis = "level" /\ analysis' \in {"scan", "clear"} /\ held' = held
        /\ UNCHANGED <<lenOfValid, picture, frameCnt>>
    BY <1>19 DEF AnalysisLevel, BeginClear, ringVars, producerVars, consumerVars, held
  <2>2. QED
    BY <1>2, <1>3, <1>5, <1>6, <2>1 DEF DropsAtMost, LengthSuffices
<1>20. CASE AnalysisCleared
  <2>1. /\ analysis' \in {"poll", "lost"}
        /\ UNCHANGED <<lenOfValid, picture, frameCnt>>
    BY <1>20 DEF AnalysisCleared
  <2>2. QED
    BY <1>3, <1>5, <2>1 DEF DropsAtMost, LengthSuffices
<1>21. QED
  BY <1>7, <1>8, <1>9, <1>10, <1>11, <1>12, <1>13, <1>14, <1>15, <1>16, <1>17, <1>18,
     <1>19, <1>20 DEF AnalysisThread

-----------------------------------------------------------------------------
LEMMA NextChannel == ChannelIInv /\ [Next]_vars => ChannelIInv'
<1> SUFFICES ASSUME ChannelIInv, [Next]_vars PROVE ChannelIInv'
  OBVIOUS
<1>1. CASE ReadThread
  BY <1>1, ReadThreadInvariant
<1>2. CASE AnalysisThread
  BY <1>2, AnalysisThreadInvariant
<1>3. CASE Interrupt
  <2>1. quit' = TRUE /\ UNCHANGED <<ringVars, readerVars, analysisVars>>
    BY <1>3 DEF Interrupt
  <2>2. RingIInv'
    BY RingPart
  <2>3. ChannelTypeOK'
    BY <2>1, <2>2, MutexType
       DEF ChannelIInv, ChannelTypeOK, RingIInv, readerVars, analysisVars
  <2>4. PushesRest' /\ DropsAtMost'
    BY <2>1 DEF ChannelIInv, PushesRest, DropsAtMost, dropped, ringVars, producerVars,
                consumerVars, readerVars, analysisVars
  <2>5. LengthSuffices'
    BY <2>1 DEF LengthSuffices
  <2>6. QED
    BY <2>2, <2>3, <2>4, <2>5 DEF ChannelIInv
<1>4. CASE UNCHANGED ownVars
  <2>1. RingIInv'
    BY RingPart
  <2>2. ChannelTypeOK'
    BY <1>4, <2>1, MutexType
       DEF ownVars, ChannelIInv, ChannelTypeOK, RingIInv, readerVars, analysisVars
  <2>3. PushesRest' /\ DropsAtMost' /\ LengthSuffices'
    BY <1>4 DEF ownVars, ChannelIInv, PushesRest, DropsAtMost, LengthSuffices, dropped, held,
                ringVars, producerVars, consumerVars, readerVars, analysisVars
  <2>4. QED
    BY <2>1, <2>2, <2>3 DEF ChannelIInv
<1>5. QED
  BY <1>1, <1>2, <1>3, <1>4, WhoseStep

(* The inductive invariant of a channel: the ring's, what is pushed is what is *)
(* left of a block, and the local length covers all that is yet to be popped.  *)
THEOREM ChannelInvariant == Spec => []ChannelIInv
<1>1. QED
  BY InitChannel, NextChannel, PTL DEF Spec

(* Type correctness: no length underflows, no position leaves the ring. *)
THEOREM ChannelTypeCorrect == Spec => []ChannelTypeOK
<1>1. ChannelIInv => ChannelTypeOK
  BY DEF ChannelIInv
<1>2. QED
  BY <1>1, ChannelInvariant, PTL

(* The two threads of a channel use their ring as one producer and one       *)
(* consumer: no other step ever touches it, no call of one side overlaps     *)
(* another of the same side.  So every theorem about SpscRing holds here.    *)
THEOREM ChannelUsesRing == Spec => RingSpec
<1>1. Init => RingInit
  BY DEF Init
<1>2. ChannelIInv /\ [Next]_vars => [RingNext]_ringVars
  BY StepUsesRing
<1>3. QED
  BY <1>1, <1>2, ChannelInvariant, PTL DEF Spec, RingSpec

(* Until quit, the length the analysis thread loaded once and counts down     *)
(* itself never promises bytes the ring lacks, however the read thread, which *)
(* goes on filling the ring, is interleaved.                                  *)
THEOREM LengthSound == Spec => []LengthIsSound
<1>1. ChannelIInv => LengthIsSound
  BY ChannelFacts DEF ChannelIInv, LengthSuffices, LengthIsSound
<1>2. QED
  BY <1>1, ChannelInvariant, PTL

-----------------------------------------------------------------------------
(* The way to the end, once quit is set *)

LEMMA LeftValues ==
  /\ ReaderLeft["done"] = 0 /\ ReaderLeft["loop"] = 1 /\ ReaderLeft["open"] = 2
  /\ ReaderLeft["push"] = 2 /\ ReaderLeft["close"] = 3 /\ ReaderLeft["pushing"] = 3
  /\ AnalysisLeft["done"] = 0 /\ AnalysisLeft["lost"] = 0 /\ AnalysisLeft["poll"] = 1
  /\ AnalysisLeft["scan"] = 2 /\ AnalysisLeft["clear"] = 2 /\ AnalysisLeft["show"] = 3
  /\ AnalysisLeft["bad"] = 3 /\ AnalysisLeft["level"] = 3
  /\ AnalysisLeft["picture"] = 4 /\ AnalysisLeft["skip"] = 4
  /\ AnalysisLeft["take"] = 5 /\ AnalysisLeft["copy"] = 6
  /\ AnalysisLeft["header"] = 7 /\ AnalysisLeft["verify"] = 8
  /\ AnalysisLeft["await"] = 9
BY DEF ReaderLeft, AnalysisLeft

pushLeft == StoreLeft("first") + StoreLeft("second") + StoreLeft("index")

(* A store of the running pushData is one less to come. *)
LEMMA StoreCounts ==
  ASSUME CopyFirst \/ CopySecond \/ StoreIndex
  PROVE  pushLeft' < pushLeft
<1>1. /\ \/ "first" \in todo /\ todo' = todo \ {"first"}
         \/ "second" \in todo /\ todo' = todo \ {"second"}
         \/ "index" \in todo /\ todo' = todo \ {"index"}
  BY DEF CopyFirst, CopySecond, StoreIndex, MayStore
<1> QED BY <1>1 DEF pushLeft, StoreLeft

LEMMA LeftTypes ==
  /\ \A r \in {"open", "loop", "push", "pushing", "close", "done"} : ReaderLeft[r] \in Nat
  /\ \A a \in {"poll", "scan", "await", "verify", "header", "bad", "copy", "take",
               "picture", "show", "skip", "level", "clear", "done", "lost"} :
       AnalysisLeft[a] \in Nat
BY LeftValues

LEMMA ReaderEnds ==
  ASSUME ChannelIInv, ReadThread, quit
  PROVE  /\ UNCHANGED analysis
         /\ \/ ReaderLeft[reader'] < ReaderLeft[reader] /\ UNCHANGED todo
            \/ ReaderLeft[reader'] = ReaderLeft[reader] /\ pushLeft' < pushLeft
<1>1. CASE ReaderStore
  BY <1>1, StoreCounts DEF ReaderStore, readerVars, analysisVars
<1>2. CASE ReaderPushed
  <2>1. reader = "pushing"
    BY <1>2 DEF ReaderPushed, EndPush, ChannelIInv, PushesRest
  <2> QED BY <1>2, <2>1, LeftValues DEF ReaderPushed, EndPush, analysisVars
<1>3. CASE ~ ReaderStore /\ ~ ReaderPushed
  <2>1. /\ UNCHANGED <<analysis, todo>>
        /\ \/ reader \in {"open", "push"} /\ reader' = "loop"
           \/ reader = "loop" /\ reader' = "done"
           \/ reader = "close" /\ reader' = "open"
    BY <1>3 DEF ReadThread, ReaderOpen, ReaderQuit, ReaderRead, ReaderReadFails,
       ReaderPush, ReaderNextBlock, ReaderClose, ringVars, producerVars, analysisVars
  <2> QED BY <2>1, LeftValues
<1> QED BY <1>1, <1>2, <1>3

LEMMA AnalysisEnds ==
  ASSUME AnalysisThread, quit
  PROVE  /\ AnalysisLeft[analysis'] < AnalysisLeft[analysis]
         /\ UNCHANGED <<reader, todo>>
<1> DEFINE Nearer ==
      \/ analysis = "poll" /\ analysis' = "done"
      \/ analysis \in {"scan", "clear"} /\ analysis' \in {"poll", "lost"}
      \/ analysis \in {"level", "bad", "show"} /\ analysis' \in {"scan", "clear"}
      \/ analysis = "skip" /\ analysis' = "level"
      \/ analysis = "await" /\ analysis' = "verify"
      \/ analysis = "verify" /\ analysis' \in {"header", "bad"}
      \/ analysis = "header" /\ analysis' = "copy"
      \/ analysis = "copy" /\ analysis' = "take"
      \/ analysis = "take" /\ analysis' = "picture"
      \/ analysis = "picture" /\ analysis' = "show"
<1>1. Nearer
  <2>1. AnalysisPoll \/ AnalysisEmpty => Nearer
    BY DEF AnalysisPoll, AnalysisEmpty
  <2>2. ~ AnalysisHeader /\ ~ AnalysisSkip /\ ~ AnalysisAwaitMore
    BY DEF AnalysisHeader, AnalysisSkip, AnalysisAwaitMore
  <2>3. AnalysisAwait \/ AnalysisVerify => Nearer
    BY DEF AnalysisAwait, AnalysisVerify
  <2>4. \/ AnalysisPopped("skip", 1, "level")
        \/ AnalysisPopped("bad", 4, "scan")
        \/ AnalysisPopped("header", 4, "copy")
        \/ AnalysisPopped("picture", PictureSize, "show")
        => Nearer
    BY DEF AnalysisPopped
  <2>5. AnalysisCopy \/ AnalysisTake \/ AnalysisShow => Nearer
    BY DEF AnalysisCopy, AnalysisTake, AnalysisShow
  <2>6. AnalysisLevel \/ AnalysisCleared => Nearer
    BY DEF AnalysisLevel, AnalysisCleared
  <2> HIDE DEF Nearer
  <2> QED
    BY <2>1, <2>2, <2>3, <2>4, <2>5, <2>6 DEF AnalysisThread
<1>2. UNCHANGED <<reader, todo>>
  BY DEF AnalysisThread, AnalysisPoll, AnalysisEmpty, AnalysisHeader,
     AnalysisSkip, AnalysisAwait, AnalysisAwaitMore, AnalysisVerify, AnalysisPopped,
     AnalysisCopy, AnalysisTake, AnalysisShow, AnalysisLevel, AnalysisCleared,
     BeginPop, BeginClear, StoreValid, Read, ringVars, readerVars, producerVars
<1>3. AnalysisLeft[analysis'] < AnalysisLeft[analysis]
  BY <1>1, LeftValues
<1> QED BY <1>2, <1>3

(* From SIGINT on every step is one of at most fifteen that are left, however *)
(* large the ring and the pictures and whatever is left of a block.           *)
THEOREM EndIsNear == Spec => QuitIsPrompt
<1>1. ASSUME ChannelIInv, ChannelIInv', [Next]_vars, quit, ownVars' # ownVars
      PROVE  StepsLeft' < StepsLeft
  <2>1. /\ ReaderLeft[reader] \in Nat /\ AnalysisLeft[analysis] \in Nat
        /\ ReaderLeft[reader'] \in Nat /\ AnalysisLeft[analysis'] \in Nat
    BY ZenonT(30), <1>1, LeftTypes DEF ChannelIInv, ChannelTypeOK
  <2>2. pushLeft \in Nat /\ pushLeft' \in Nat
    BY DEF pushLeft, StoreLeft
  <2>3. /\ StepsLeft = ReaderLeft[reader] + AnalysisLeft[analysis] + pushLeft
        /\ StepsLeft' = ReaderLeft[reader'] + AnalysisLeft[analysis'] + pushLeft'
    <3> ReaderLeft' = ReaderLeft /\ AnalysisLeft' = AnalysisLeft
      BY DEF ReaderLeft, AnalysisLeft
    <3> QED BY <2>1 DEF StepsLeft, pushLeft, StoreLeft
  <2>4. UNCHANGED todo => pushLeft' = pushLeft
    BY DEF pushLeft, StoreLeft
  <2>5. ReadThread \/ AnalysisThread
    BY <1>1, WhoseStep DEF Interrupt
  <2>6. CASE ReadThread
    BY <1>1, <2>1, <2>2, <2>3, <2>4, <2>6, ReaderEnds
  <2>7. CASE AnalysisThread
    BY <1>1, <2>1, <2>2, <2>3, <2>4, <2>7, AnalysisEnds
  <2> QED BY <2>5, <2>6, <2>7
<1>2. ChannelIInv /\ ChannelIInv' /\ [Next]_vars => [quit => StepsLeft' < StepsLeft]_ownVars
  BY <1>1
<1> QED BY <1>2, ChannelInvariant, PTL DEF Spec, QuitIsPrompt

-----------------------------------------------------------------------------
(* Channel implements FrameStream *)

(* Headers in sequences *)

LEMMA HeaderBytes ==
  /\ Header \in Seq(Byte) /\ Len(Header) = 4
  /\ Stream!Header = Header /\ Stream!FrameLength = FrameLength
  /\ FrameLength = 4 + PictureSize /\ PictureSize \in Nat \ {0}
<1>1. {18, 52, 86, 120} \subseteq Byte
  BY ChannelAssumption
<1>2. Header \in Seq(Byte) /\ Len(Header) = 4
  BY <1>1 DEF Header
<1> QED BY <1>2, ChannelAssumption DEF Header, Stream!Header, FrameLength, Stream!FrameLength

(* More bytes behind them do not change the ones that are there. *)
LEMMA HeaderKept ==
  ASSUME NEW s \in Seq(Byte), NEW x \in Seq(Byte), NEW i \in Nat \ {0}, i + 3 <= Len(s)
  PROVE  Stream!HeaderIn(s \o x, i) <=> Stream!HeaderIn(s, i)
<1>1. Len(s) \in Nat /\ Len(x) \in Nat
  BY LenProperties
<1>2. /\ Len(s \o x) = Len(s) + Len(x)
      /\ \A k \in 1 .. Len(s) : (s \o x)[k] = s[k]
  <2>1. /\ Len(s \o x) = Len(s) + Len(x)
        /\ \A k \in 1 .. Len(s) + Len(x) :
             (s \o x)[k] = IF k <= Len(s) THEN s[k] ELSE x[k - Len(s)]
    BY ConcatProperties
  <2> QED BY <1>1, <2>1
<1>3. \A k \in 1 .. 4 : i + k - 1 \in 1 .. Len(s)
  BY <1>1
<1>4. \A k \in 1 .. 4 : (s \o x)[i + k - 1] = s[i + k - 1]
  BY <1>2, <1>3
<1>5. i + 3 <= Len(s \o x)
  BY <1>1, <1>2
<1> QED BY <1>4, <1>5 DEF Stream!HeaderIn

(* Bytes in front of them move them. *)
LEMMA HeaderMoved ==
  ASSUME NEW p \in Seq(Byte), NEW s \in Seq(Byte), NEW i \in Nat \ {0}
  PROVE  Stream!HeaderIn(p \o s, Len(p) + i) <=> Stream!HeaderIn(s, i)
<1>1. Len(s) \in Nat /\ Len(p) \in Nat
  BY LenProperties
<1>2. /\ Len(p \o s) = Len(p) + Len(s)
      /\ \A k \in 1 .. Len(p) + Len(s) :
           (p \o s)[k] = IF k <= Len(p) THEN p[k] ELSE s[k - Len(p)]
  BY ConcatProperties
<1>3. Len(p) + i + 3 <= Len(p \o s) <=> i + 3 <= Len(s)
  BY <1>1, <1>2
<1>4. ASSUME i + 3 <= Len(s), NEW k \in 1 .. 4
      PROVE  (p \o s)[Len(p) + i + k - 1] = s[i + k - 1]
  <2>1. /\ Len(p) + i + k - 1 \in 1 .. Len(p) + Len(s)
        /\ ~ (Len(p) + i + k - 1 <= Len(p))
        /\ Len(p) + i + k - 1 - Len(p) = i + k - 1
    BY <1>1, <1>4
  <2> QED BY <1>2, <2>1
<1> QED BY <1>3, <1>4 DEF Stream!HeaderIn

(* What is left of a sequence whose first n bytes are dropped *)
LEMMA Remainder ==
  ASSUME NEW s \in Seq(Byte), NEW n \in 0 .. Len(s)
  PROVE  /\ SubSeq(s, 1, n) \in Seq(Byte) /\ Len(SubSeq(s, 1, n)) = n
         /\ SubSeq(s, n + 1, Len(s)) \in Seq(Byte)
         /\ Len(SubSeq(s, n + 1, Len(s))) = Len(s) - n
         /\ SubSeq(s, 1, n) \o SubSeq(s, n + 1, Len(s)) = s
<1>1. Len(s) \in Nat /\ n \in Nat /\ n <= Len(s)
  BY LenProperties
<1>2. \A i \in 1 .. Len(s) : s[i] \in Byte
  BY ElementOfSeq
<1>3. SubSeq(s, 1, n) \in Seq(Byte) /\ Len(SubSeq(s, 1, n)) = n
  <2>1. \A i \in 1 .. n : s[i] \in Byte
    BY <1>1, <1>2
  <2> QED BY <1>1, <2>1, SubSeqProperties
<1>4. /\ SubSeq(s, n + 1, Len(s)) \in Seq(Byte)
      /\ Len(SubSeq(s, n + 1, Len(s))) = Len(s) - n
  <2>1. \A i \in n + 1 .. Len(s) : s[i] \in Byte
    BY <1>1, <1>2
  <2>2. n + 1 \in Int /\ Len(s) \in Int
    BY <1>1
  <2>3. /\ SubSeq(s, n + 1, Len(s)) \in Seq(Byte)
        /\ Len(SubSeq(s, n + 1, Len(s)))
             = IF n + 1 <= Len(s) THEN Len(s) - (n + 1) + 1 ELSE 0
    BY <2>1, <2>2, SubSeqProperties
  <2> QED BY <1>1, <2>3
<1>5. SubSeq(s, 1, n) \o SubSeq(s, n + 1, Len(s)) = s
  <2>1. /\ 1 \in 1 .. Len(s) + 1 /\ n \in 1 - 1 .. Len(s) /\ Len(s) \in n .. Len(s)
    BY <1>1
  <2>2. SubSeq(s, 1, n) \o SubSeq(s, n + 1, Len(s)) = SubSeq(s, 1, Len(s))
    BY <2>1, ConcatAdjacentSubSeq
  <2> QED BY <2>2, SubSeqFull
<1> QED BY <1>3, <1>4, <1>5

LEMMA HeaderLeft ==
  ASSUME NEW s \in Seq(Byte), NEW n \in 0 .. Len(s), NEW i \in Nat \ {0}
  PROVE  Stream!HeaderIn(SubSeq(s, n + 1, Len(s)), i) <=> Stream!HeaderIn(s, n + i)
<1>1. /\ SubSeq(s, 1, n) \in Seq(Byte) /\ Len(SubSeq(s, 1, n)) = n
      /\ SubSeq(s, n + 1, Len(s)) \in Seq(Byte)
      /\ SubSeq(s, 1, n) \o SubSeq(s, n + 1, Len(s)) = s
  BY Remainder
<1>2. Stream!HeaderIn(SubSeq(s, 1, n) \o SubSeq(s, n + 1, Len(s)), Len(SubSeq(s, 1, n)) + i)
        <=> Stream!HeaderIn(SubSeq(s, n + 1, Len(s)), i)
  BY <1>1, HeaderMoved
<1> QED BY <1>1, <1>2

(* A header put in front of what was behind it *)
LEMMA HeaderInFront ==
  ASSUME NEW s \in Seq(Byte)
  PROVE  /\ Len(Header \o s) = 4 + Len(s)
         /\ \A k \in 1 .. 4 + Len(s) :
              (Header \o s)[k] = IF k <= 4 THEN Header[k] ELSE s[k - 4]
<1>1. /\ Len(Header \o s) = Len(Header) + Len(s)
      /\ \A k \in 1 .. Len(Header) + Len(s) :
           (Header \o s)[k] = IF k <= Len(Header) THEN Header[k] ELSE s[k - Len(Header)]
  <2>1. Header \in Seq(Byte)
    BY HeaderBytes
  <2> QED BY <2>1, ConcatProperties
<1>2. Len(Header) = 4
  BY HeaderBytes
<1> QED BY <1>1, <1>2

LEMMA HeaderFirst ==
  ASSUME NEW s \in Seq(Byte)
  PROVE  /\ Stream!HeaderIn(Header \o s, 1)
         /\ Stream!HeaderIn(s, 1) => Header \o SubSeq(s, 5, Len(s)) = s
<1>1. Len(s) \in Nat
  BY LenProperties
<1>2. Stream!HeaderIn(Header \o s, 1)
  <2>1. /\ Len(Header \o s) = 4 + Len(s)
        /\ \A k \in 1 .. 4 + Len(s) :
             (Header \o s)[k] = IF k <= 4 THEN Header[k] ELSE s[k - 4]
    BY HeaderInFront
  <2>2. \A k \in 1 .. 4 : 1 + k - 1 = k /\ (Header \o s)[k] = Header[k]
    BY <1>1, <2>1
  <2>3. 1 + 3 <= Len(Header \o s)
    BY <1>1, <2>1
  <2> QED BY <2>2, <2>3, HeaderBytes DEF Stream!HeaderIn
<1>3. ASSUME Stream!HeaderIn(s, 1) PROVE Header \o SubSeq(s, 5, Len(s)) = s
  <2>1. Len(s) >= 4 /\ \A k \in 1 .. 4 : s[k] = Header[k]
    <3>1. 1 + 3 <= Len(s) /\ \A k \in 1 .. 4 : s[1 + k - 1] = Header[k]
      BY <1>3, HeaderBytes DEF Stream!HeaderIn
    <3>2. \A k \in 1 .. 4 : 1 + k - 1 = k
      OBVIOUS
    <3> QED BY <1>1, <3>1, <3>2
  <2>2. /\ SubSeq(s, 1, 4) \in Seq(Byte) /\ Len(SubSeq(s, 1, 4)) = 4
        /\ SubSeq(s, 1, 4) \o SubSeq(s, 5, Len(s)) = s
    <3>1. 4 \in 0 .. Len(s)
      BY <1>1, <2>1
    <3>2. /\ SubSeq(s, 1, 4) \in Seq(Byte) /\ Len(SubSeq(s, 1, 4)) = 4
          /\ SubSeq(s, 1, 4) \o SubSeq(s, 4 + 1, Len(s)) = s
      BY <3>1, Remainder
    <3>3. 4 + 1 = 5
      OBVIOUS
    <3> QED BY <3>2, <3>3
  <2>3. \A k \in 1 .. 4 : SubSeq(s, 1, 4)[k] = s[k]
    <3>1. \A i \in 1 .. 4 : s[i] \in Byte
      BY <1>1, <2>1, ElementOfSeq
    <3>2. \A i \in 1 .. 4 - 1 + 1 : SubSeq(s, 1, 4)[i] = s[1 + i - 1]
      BY <3>1, SubSeqProperties
    <3>3. \A k \in 1 .. 4 : k \in 1 .. 4 - 1 + 1 /\ 1 + k - 1 = k
      OBVIOUS
    <3> QED BY <3>2, <3>3
  <2>4. SubSeq(s, 1, 4) = Header
    <3>1. \A k \in 1 .. 4 : SubSeq(s, 1, 4)[k] = Header[k]
      BY <2>1, <2>3
    <3> QED BY <2>2, <3>1, HeaderBytes, SeqEqual
  <2> QED BY <2>2, <2>4
<1> QED BY <1>2, <1>3

LEMMA BehindHeader ==
  ASSUME NEW s \in Seq(Byte), NEW n \in 0 .. Len(s)
  PROVE  /\ Len(Header \o s) = 4 + Len(s)
         /\ SubSeq(Header \o s, 4 + n + 1, Len(Header \o s)) = SubSeq(s, n + 1, Len(s))
         /\ SubSeq(Header \o s, 5, 4 + n) = SubSeq(s, 1, n)
<1>1. /\ Len(s) \in Nat /\ n \in Nat /\ Len(Header \o s) = 4 + Len(s)
      /\ Header \in Seq(Byte) /\ Len(Header) = 4
  BY LenProperties, HeaderInFront, HeaderBytes
<1>2. SubSeq(Header \o s, 4 + n + 1, 4 + Len(s)) = SubSeq(s, n + 1, Len(s))
  <2>1. CASE n = Len(s)
    <3>1. 4 + n + 1 \in Int /\ 4 + Len(s) \in Int /\ 4 + Len(s) < 4 + n + 1
          /\ n + 1 \in Int /\ Len(s) \in Int /\ Len(s) < n + 1
      BY <1>1, <2>1
    <3> QED BY <3>1, SubSeqEmpty
  <2>2. CASE n < Len(s)
    <3> DEFINE i == 4 + n + 1
               j == 4 + Len(s)
    <3>1. /\ i \in Len(Header) + 1 .. Len(Header) + Len(s)
          /\ j \in Len(Header) + 1 .. Len(Header) + Len(s)
          /\ i - Len(Header) = n + 1 /\ j - Len(Header) = Len(s)
      BY <1>1, <2>2
    <3> HIDE DEF i, j
    <3>2. SubSeq(Header \o s, i, j) = SubSeq(s, i - Len(Header), j - Len(Header))
      BY <1>1, <3>1, SubSeqOfConcat2
    <3> QED BY <3>1, <3>2 DEF i, j
  <2> QED BY <1>1, <2>1, <2>2
<1>3. SubSeq(Header \o s, 5, 4 + n) = SubSeq(s, 1, n)
  <2>1. CASE n = 0
    <3>1. 4 + n \in Int /\ 4 + n < 5 /\ n < 1
      BY <2>1
    <3> QED BY <1>1, <3>1, SubSeqEmpty
  <2>2. CASE n > 0
    <3>1. /\ 5 \in Len(Header) + 1 .. Len(Header) + Len(s)
          /\ 4 + n \in Len(Header) + 1 .. Len(Header) + Len(s)
          /\ 5 - Len(Header) = 1 /\ 4 + n - Len(Header) = n
      BY <1>1, <2>2
    <3>2. SubSeq(Header \o s, 5, 4 + n)
            = SubSeq(s, 5 - Len(Header), 4 + n - Len(Header))
      BY <1>1, <3>1, SubSeqOfConcat2
    <3> QED BY <3>1, <3>2
  <2> QED BY <1>1, <2>1, <2>2
<1> QED BY <1>1, <1>2, <1>3

-----------------------------------------------------------------------------
(* The ring as the analysis thread sees it *)

LEMMA QueueFacts ==
  ASSUME ChannelIInv
  PROVE  /\ queue \in Seq(Byte) /\ Len(queue) = held /\ held \in Nat /\ held < Size
         /\ valid = held
  BY QueueTyped, ChannelFacts DEF queue, held, ChannelIInv

LEMMA SameQueue ==
  ASSUME UNCHANGED <<m_Buffer, m_ValidPosition, m_StorablePosition>>
  PROVE  queue' = queue
  BY DEF queue

(* The four bytes it looks at, j cells from its position *)
LEMMA HeaderIsThere ==
  ASSUME ChannelIInv, NEW j \in Nat, j + 4 <= Len(queue)
  PROVE  HeaderAt(m_ValidPosition + j) <=> Stream!HeaderIn(queue, j + 1)
<1>1. /\ m_ValidPosition \in Nat /\ m_ValidPosition \in Cells /\ m_StorablePosition \in Cells
      /\ held \in Nat /\ Len(queue) = held /\ m_Buffer \in [Cells -> Byte]
  BY QueueFacts, ChannelFacts, SizeAssumption DEF Cells, ChannelIInv, RingIInv, RingTypeOK
<1>2. \A i \in 1 .. held : queue[i] = m_Buffer[Advance(m_ValidPosition, i - 1)]
  BY <1>1, ContentsTyped DEF queue, held
<1>3. ASSUME NEW k \in 0 .. 3
      PROVE  m_Buffer[Advance(m_ValidPosition + j, k)] = queue[j + 1 + (k + 1) - 1]
  <2>1. /\ j + 1 + (k + 1) - 1 \in 1 .. held
        /\ m_ValidPosition + j + k = m_ValidPosition + (j + 1 + (k + 1) - 1 - 1)
    BY <1>1
  <2>2. Advance(m_ValidPosition + j, k)
          = Advance(m_ValidPosition, j + 1 + (k + 1) - 1 - 1)
    BY <2>1 DEF Advance
  <2> QED BY <1>2, <2>1, <2>2
<1>4. (\A k \in 0 .. 3 : queue[j + 1 + (k + 1) - 1] = Header[k + 1])
        <=> (\A k \in 1 .. 4 : queue[j + 1 + k - 1] = Header[k])
  <2>1. ASSUME NEW k \in 1 .. 4 PROVE k - 1 \in 0 .. 3 /\ k - 1 + 1 = k
    OBVIOUS
  <2>2. ASSUME NEW k \in 0 .. 3 PROVE k + 1 \in 1 .. 4
    OBVIOUS
  <2> QED BY <2>1, <2>2
<1>5. j + 1 + 3 <= Len(queue)
  BY <1>1
<1> QED BY <1>3, <1>4, <1>5, HeaderBytes DEF HeaderAt, Stream!HeaderIn

(* What a popData or isClear that stores its position does to it *)
LEMMA PopTakes ==
  ASSUME ChannelIInv, StoreValid
  PROVE  /\ dropped \in 0 .. Len(queue)
         /\ queue' = SubSeq(queue, dropped + 1, Len(queue))
<1>1. /\ m_ValidPosition \in Cells /\ m_StorablePosition \in Cells /\ target \in Cells
      /\ dropped <= held /\ m_Buffer \in [Cells -> Byte]
  BY DEF StoreValid, ChannelIInv, RingIInv, RingTypeOK, PopFits, dropped, held
<1>2. dropped \in Nat /\ held \in Nat /\ Len(queue) = held
  BY <1>1, DataIsDistance, QueueFacts, SizeAssumption DEF dropped
<1>3. UNCHANGED <<m_Buffer, m_StorablePosition>> /\ m_ValidPosition' = target
  BY DEF StoreValid, producerVars
<1>4. Contents(m_Buffer, target, m_StorablePosition)
        = SubSeq(queue, dropped + 1, held)
  BY <1>1, ContentsShrink DEF queue, dropped, held
<1> QED BY <1>1, <1>2, <1>3, <1>4 DEF queue

(* The read thread only ever appends to it. *)
LEMMA ReaderAppends ==
  ASSUME ChannelIInv, FifoIInv, InOrder, ReadThread
  PROVE  \/ queue' = queue
         \/ \E bytes \in Chunks : \E n \in 1 .. Len(bytes) :
              Len(queue) + n <= Size - 1 /\ queue' = queue \o SubSeq(bytes, 1, n)
<1>1. [Fifo!FifoNext]_(Fifo!fifoVars)
  <2>1. [RingNext]_ringVars
    BY StepUsesRing DEF Next
  <2> QED BY <2>1, StepRefines
<1>2. /\ queue \in Seq(Byte) /\ Len(queue) = held /\ held \in Nat /\ held <= held'
      /\ Len(queue') = held'
  <2>1. ChannelIInv'
    BY ReadThreadInvariant
  <2>2. Len(queue') = held'
    <3>1. /\ m_Buffer' \in [Cells -> Byte]
          /\ m_ValidPosition' \in Cells /\ m_StorablePosition' \in Cells
      BY <2>1 DEF ChannelIInv, RingIInv, RingTypeOK
    <3> QED BY <3>1, ContentsTyped DEF queue, held
  <2> QED BY <2>2, QueueFacts, ReaderAdds
<1>3. ASSUME Fifo!Drop PROVE FALSE
  <2>1. PICK n \in 1 .. Len(queue) : queue' = SubSeq(queue, n + 1, Len(queue))
    BY <1>3 DEF Fifo!Drop, queue
  <2>2. n \in 0 .. Len(queue)
    BY <1>2, <2>1
  <2>3. Len(queue') = Len(queue) - n
    BY <1>2, <2>1, <2>2, Remainder
  <2> QED BY <1>2, <2>1, <2>3
<1>4. Fifo!Copy => queue' = queue
  BY DEF Fifo!Copy, queue
<1>5. ASSUME NEW bytes \in Chunks, Fifo!Push(bytes)
      PROVE  \E n \in 1 .. Len(bytes) :
               Len(queue) + n <= Size - 1 /\ queue' = queue \o SubSeq(bytes, 1, n)
  BY <1>5 DEF Fifo!Push, queue
<1>6. UNCHANGED Fifo!fifoVars => queue' = queue
  BY DEF Fifo!fifoVars, queue
<1> QED BY <1>1, <1>3, <1>4, <1>5, <1>6 DEF Fifo!FifoNext

(* Bytes it counts are not being written while it looks at them. *)
LEMMA NotRacing ==
  ASSUME ChannelIInv, InOrder, NEW j \in Nat, j + 4 <= Len(queue)
  PROVE  {Advance(m_ValidPosition + j, k) : k \in 0 .. 3} \cap InFlight = {}
<1> SUFFICES ASSUME NEW k \in 0 .. 3, Advance(m_ValidPosition + j, k) \in InFlight
             PROVE  FALSE
  OBVIOUS
<1> DEFINE c == Advance(m_ValidPosition + j, k)
<1>1. /\ m_ValidPosition \in Nat /\ m_ValidPosition \in Cells /\ Size \in Nat
      /\ held \in Nat /\ held < Size /\ Len(queue) = held /\ RingIInv
  BY QueueFacts, ChannelFacts, SizeAssumption DEF Cells, ChannelIInv
<1>2. c = Advance(m_ValidPosition, j + k) /\ j + k \in Nat /\ j + k < held
  <2>1. m_ValidPosition + j + k = m_ValidPosition + (j + k)
    BY <1>1
  <2> QED BY <1>1, <2>1 DEF Advance
<1>3. Distance(m_ValidPosition, m_ValidPosition) = 0
  BY <1>1 DEF Distance, Cells
<1>4. Distance(m_ValidPosition, c) = j + k
  <2>1. Distance(m_ValidPosition, m_ValidPosition) + (j + k) < Size
    BY <1>1, <1>2, <1>3
  <2>2. Distance(m_ValidPosition, Advance(m_ValidPosition, j + k))
          = Distance(m_ValidPosition, m_ValidPosition) + (j + k)
    BY <1>1, <1>2, <2>1, StoringAdds
  <2> QED BY <1>2, <1>3, <2>2
<1> HIDE DEF c
<1>5. c \in InFlight
  BY DEF c
<1>6. todo # {}
  BY <1>5, <1>1 DEF InFlight, RingIInv, RingTypeOK, Stores
<1>7. "index" \in todo
  BY <1>1, <1>6 DEF RingIInv, IndexIsLast
<1>8. Distance(m_ValidPosition, c) >= held
  BY <1>1, <1>5, <1>7, InFlightIsFree DEF held
<1> QED BY <1>1, <1>2, <1>4, <1>8

-----------------------------------------------------------------------------
(* What the analysis thread knows of the queue, wherever it is: the header it  *)
(* looked at still stands there, and what it found behind the picture, and a   *)
(* popData that has begun drops just what it was asked for.  Once quit is set  *)
(* the bytes may be missing.                                                   *)
ViewInv ==
  /\ analysis \in {"await", "verify"} => Stream!HeaderIn(queue, 1)
  /\ analysis \in {"header", "bad"} => Stream!HeaderIn(queue, 1) /\ dropped = 4
  /\ analysis = "header" /\ ~ quit => Stream!HeaderIn(queue, 1 + FrameLength)
  /\ analysis = "bad" /\ ~ quit =>
       Len(queue) >= 4 + FrameLength /\ ~ Stream!HeaderIn(queue, 1 + FrameLength)
  /\ analysis \in {"copy", "take", "picture"} /\ ~ quit =>
       Stream!HeaderIn(queue, 1 + PictureSize)
  /\ analysis \in {"take", "picture"} =>
       \/ Len(queue) >= PictureSize /\ linear = SubSeq(queue, 1, PictureSize)
       \/ quit /\ linear = picture
  /\ analysis = "picture" /\ ~ quit => dropped = PictureSize
  /\ analysis = "skip" => Len(queue) >= 4 /\ ~ Stream!HeaderIn(queue, 1) /\ dropped = 1
  /\ analysis = "clear" => 10 * Len(queue) > 8 * Size /\ dropped >= 1
  /\ analysis \notin {"take", "picture", "show"} => linear = picture

LEMMA InitView == Init => ViewInv
  BY DEF Init, RingInit, ViewInv

LEMMA ReadThreadView ==
  ASSUME ChannelIInv, FifoIInv, InOrder, ViewInv, ReadThread
  PROVE  ViewInv'
<1>1. UNCHANGED <<quit, consumerVars, analysisVars>>
  BY ReaderAdds
<1>2. UNCHANGED <<quit, analysis, picture, linear, dropped>>
  BY <1>1 DEF consumerVars, analysisVars, dropped
<1>3. queue \in Seq(Byte) /\ Len(queue) \in Nat
  BY QueueFacts
<1>4. CASE queue' = queue
  BY <1>2, <1>4 DEF ViewInv, FrameLength
<1>5. CASE queue' # queue
  <2>0. PICK bytes \in Chunks :
          \E n \in 1 .. Len(bytes) : queue' = queue \o SubSeq(bytes, 1, n)
    BY <1>5, ReaderAppends
  <2>1. PICK n \in 1 .. Len(bytes) : queue' = queue \o SubSeq(bytes, 1, n)
    BY <2>0
  <2>2. bytes \in Seq(Byte) /\ n \in 0 .. Len(bytes)
    BY RingAssumption
  <2>3. SubSeq(bytes, 1, n) \in Seq(Byte) /\ Len(SubSeq(bytes, 1, n)) = n
    BY <2>2, Remainder
  <2>4. /\ Len(queue') = Len(queue) + n
        /\ \A i \in 1 .. Len(queue) : queue'[i] = queue[i]
    <3>1. /\ Len(queue') = Len(queue) + n
          /\ \A i \in 1 .. Len(queue) + n : queue'[i] =
               IF i <= Len(queue) THEN queue[i] ELSE SubSeq(bytes, 1, n)[i - Len(queue)]
      BY <1>3, <2>1, <2>3, ConcatProperties
    <3> QED BY <1>3, <3>1
  <2>5. ASSUME NEW i \in Nat \ {0}, i + 3 <= Len(queue)
        PROVE  Stream!HeaderIn(queue', i) <=> Stream!HeaderIn(queue, i)
    BY <1>3, <2>1, <2>3, <2>5, HeaderKept
  <2>6. ASSUME NEW i \in Nat \ {0}, Stream!HeaderIn(queue, i)
        PROVE  Stream!HeaderIn(queue', i)
    <3>1. i + 3 <= Len(queue)
      BY <2>6 DEF Stream!HeaderIn
    <3> QED BY <2>5, <2>6, <3>1
  <2>7. ASSUME Len(queue) >= PictureSize
        PROVE  SubSeq(queue', 1, PictureSize) = SubSeq(queue, 1, PictureSize)
    <3>1. 1 \in 1 .. Len(queue) /\ PictureSize \in 1 .. Len(queue)
      BY <1>3, <2>7, HeaderBytes
    <3> QED BY <1>3, <2>1, <2>3, <3>1, SubSeqOfConcat1
  <2>8. /\ 1 + FrameLength \in Nat \ {0} /\ 1 + PictureSize \in Nat \ {0}
        /\ 1 + FrameLength + 3 = 4 + FrameLength
        /\ Len(queue') \in Nat /\ Len(queue') >= Len(queue) /\ PictureSize \in Nat
        /\ Size \in Nat
    BY <1>3, <2>4, HeaderBytes, SizeAssumption
  <2>9. FrameLength' = FrameLength
    BY DEF FrameLength
  <2>10. CASE analysis = "bad" /\ ~ quit
    BY <1>2, <1>3, <2>5, <2>6, <2>8, <2>9, <2>10, HeaderBytes DEF ViewInv
  <2>11. CASE analysis = "skip"
    BY <1>2, <1>3, <2>5, <2>8, <2>11 DEF ViewInv
  <2>12. CASE analysis = "clear"
    BY <1>2, <1>3, <2>8, <2>12 DEF ViewInv
  <2>13. CASE analysis \in {"take", "picture"}
    <3>1. Len(queue) >= PictureSize => Len(queue') >= PictureSize
      BY <1>3, <2>8
    <3> QED BY <1>2, <2>6, <2>7, <2>8, <2>13, <3>1 DEF ViewInv
  <2>14. CASE analysis \notin {"skip", "clear", "take", "picture"}
              /\ ~ (analysis = "bad" /\ ~ quit)
    BY <1>2, <2>6, <2>8, <2>9, <2>14 DEF ViewInv
  <2> QED BY <2>10, <2>11, <2>12, <2>13, <2>14
<1> QED BY <1>4, <1>5

LEMMA AnalysisThreadView ==
  ASSUME ChannelIInv, InOrder, ViewInv, AnalysisThread
  PROVE  ViewInv'
<1>1. /\ queue \in Seq(Byte) /\ Len(queue) = held /\ held \in Nat /\ held < Size
      /\ valid = held /\ FrameLength = 4 + PictureSize /\ PictureSize \in Nat \ {0}
      /\ lenOfValid \in Nat /\ FrameLength' = FrameLength /\ Size \in Nat
  BY QueueFacts, ChannelFacts, HeaderBytes DEF FrameLength
<1>2. UNCHANGED quit
  BY AnalysisKeepsReader
<1>3. ~ quit /\ analysis \in {"scan", "verify"} => lenOfValid <= held
  BY DEF ChannelIInv, LengthSuffices
<1>4. Stream!HeaderIn(queue, 1) => held >= 4
  BY <1>1 DEF Stream!HeaderIn
<1>5. CASE AnalysisPoll \/ AnalysisEmpty
  <2>1. UNCHANGED <<linear, picture>> /\ analysis \in {"poll", "scan"}
        /\ analysis' \in {"poll", "scan", "done"}
    BY <1>5 DEF AnalysisPoll, AnalysisEmpty, ringVars, consumerVars
  <2> QED BY <2>1 DEF ViewInv
<1>6. CASE AnalysisHeader
  <2>1. /\ analysis = "scan" /\ ~ quit /\ lenOfValid >= 4 /\ HeaderAt(m_ValidPosition)
        /\ analysis' = "await" /\ UNCHANGED <<linear, picture>>
    BY <1>6 DEF AnalysisHeader, ringVars, consumerVars
  <2>2. queue' = queue
    BY <1>6, SameQueue DEF AnalysisHeader, ringVars, producerVars, consumerVars
  <2>3. m_ValidPosition = m_ValidPosition + 0 /\ 0 + 4 <= Len(queue) /\ 0 + 1 = 1
    BY <1>1, <1>3, <2>1, ChannelFacts, SizeAssumption DEF Cells
  <2>4. Stream!HeaderIn(queue, 1)
    BY <2>1, <2>3, HeaderIsThere
  <2> QED BY <2>1, <2>2, <2>4 DEF ViewInv
<1>7. CASE AnalysisAwait \/ AnalysisAwaitMore
  <2>1. /\ analysis \in {"await", "verify"} /\ analysis' \in {"await", "verify"}
        /\ UNCHANGED <<linear, picture>>
    BY <1>7 DEF AnalysisAwait, AnalysisAwaitMore, ringVars, consumerVars
  <2>2. queue' = queue
    BY <1>7, SameQueue
       DEF AnalysisAwait, AnalysisAwaitMore, ringVars, producerVars, consumerVars
  <2> QED BY <2>1, <2>2 DEF ViewInv
<1>8. CASE AnalysisSkip
  <2>1. /\ analysis = "scan" /\ ~ quit /\ lenOfValid >= 4 /\ ~ HeaderAt(m_ValidPosition)
        /\ BeginPop(1) /\ analysis' = "skip" /\ UNCHANGED <<linear, picture>>
    BY <1>8 DEF AnalysisSkip, BeginPop
  <2>2. queue' = queue
    BY <2>1, SameQueue DEF BeginPop, producerVars
  <2>3. m_ValidPosition = m_ValidPosition + 0 /\ 0 + 4 <= Len(queue) /\ 0 + 1 = 1
    BY <1>1, <1>3, <2>1, ChannelFacts, SizeAssumption DEF Cells
  <2>4. ~ Stream!HeaderIn(queue, 1)
    BY <2>1, <2>3, HeaderIsThere
  <2>5. dropped' = 1
    BY <1>1, <2>1, <2>3, PopDropsAtMost
  <2> QED BY <1>1, <2>1, <2>2, <2>3, <2>4, <2>5 DEF ViewInv
<1>9. CASE AnalysisVerify
  <2>1. /\ analysis = "verify" /\ BeginPop(4) /\ UNCHANGED <<linear, picture>>
        /\ analysis' \in {"header", "bad"} /\ (Enough(lenOfValid) \/ quit)
    BY <1>9 DEF AnalysisVerify, BeginPop
  <2>2. queue' = queue
    BY <2>1, SameQueue DEF BeginPop, producerVars
  <2>3. Stream!HeaderIn(queue, 1) /\ linear = picture
    BY <2>1 DEF ViewInv
  <2>4. dropped' = 4
    BY <1>4, <2>1, <2>3, PopDropsAtMost
  <2>5. ASSUME ~ quit
        PROVE  /\ Len(queue) >= 4 + FrameLength
               /\ analysis' = "header" <=> Stream!HeaderIn(queue, 1 + FrameLength)
    <3>1. FrameLength \in Nat /\ FrameLength + 4 <= Len(queue) /\ FrameLength + 1 = 1 + FrameLength
      BY <1>1, <1>3, <2>1, <2>5 DEF Enough
    <3>2. HeaderAt(m_ValidPosition + FrameLength) <=> Stream!HeaderIn(queue, 1 + FrameLength)
      BY <3>1, HeaderIsThere
    <3>3. {Advance(m_ValidPosition + FrameLength, k) : k \in 0 .. 3} \cap InFlight = {}
      BY <3>1, NotRacing
    <3>4. analysis' = "header" <=> HeaderAt(m_ValidPosition + FrameLength)
      BY <1>9, <3>3 DEF AnalysisVerify
    <3>5. Len(queue) >= 4 + FrameLength
      BY <1>1, <3>1
    <3> QED BY <3>2, <3>4, <3>5
  <2> QED BY <1>1, <1>2, <2>1, <2>2, <2>3, <2>4, <2>5 DEF ViewInv
<1>10. CASE AnalysisPopped("skip", 1, "level") \/ AnalysisPopped("bad", 4, "scan")
  <2>1. /\ analysis \in {"skip", "bad"} /\ analysis' \in {"level", "scan"}
        /\ UNCHANGED <<linear, picture>>
    BY <1>10 DEF AnalysisPopped, StoreValid
  <2> QED BY <2>1 DEF ViewInv
<1>11. CASE AnalysisPopped("header", 4, "copy")
  <2>1. /\ analysis = "header" /\ analysis' = "copy" /\ StoreValid
        /\ UNCHANGED <<linear, picture>>
    BY <1>11 DEF AnalysisPopped, StoreValid
  <2>2. dropped = 4 /\ linear = picture
        /\ (~ quit => Stream!HeaderIn(queue, 1 + FrameLength))
    BY <2>1 DEF ViewInv
  <2>3. 4 \in 0 .. Len(queue) /\ queue' = SubSeq(queue, 4 + 1, Len(queue))
    BY <2>1, <2>2, PopTakes
  <2>4. 1 + PictureSize \in Nat \ {0} /\ 4 + (1 + PictureSize) = 1 + FrameLength
    BY <1>1
  <2>5. Stream!HeaderIn(queue', 1 + PictureSize) <=> Stream!HeaderIn(queue, 1 + FrameLength)
    BY <1>1, <2>3, <2>4, HeaderLeft
  <2> QED BY <1>2, <2>1, <2>2, <2>5 DEF ViewInv
<1>12. CASE AnalysisCopy
  <2>1. /\ analysis = "copy" /\ analysis' = "take" /\ Read(PictureSize) /\ UNCHANGED picture
    BY <1>12 DEF AnalysisCopy
  <2>2. queue' = queue
    BY <2>1, SameQueue DEF Read, producerVars
  <2>3. linear = picture /\ (~ quit => Stream!HeaderIn(queue, 1 + PictureSize))
    BY <2>1 DEF ViewInv
  <2>4. CASE PictureSize <= held
    <3>1. linear' = ReadBytes(m_Buffer, m_ValidPosition, PictureSize)
      BY <1>1, <2>1, <2>4 DEF Read, valid
    <3>2. /\ m_Buffer \in [Cells -> Byte] /\ m_ValidPosition \in Cells
          /\ m_StorablePosition \in Cells /\ PictureSize \in 0 .. held
      BY <1>1, <2>4 DEF ChannelIInv, RingIInv, RingTypeOK
    <3>3. linear' = SubSeq(queue, 1, PictureSize)
      BY <3>1, <3>2, ReadIsPrefix DEF queue, held
    <3> QED BY <1>1, <1>2, <2>1, <2>2, <2>3, <2>4, <3>3 DEF ViewInv
  <2>5. CASE ~ (PictureSize <= held)
    <3>1. linear' = linear
      BY <1>1, <2>1, <2>5 DEF Read, valid
    <3>2. quit
      BY <1>1, <2>3, <2>5 DEF Stream!HeaderIn
    <3> QED BY <1>2, <2>1, <2>2, <2>3, <3>1, <3>2 DEF ViewInv
  <2> QED BY <2>4, <2>5
<1>13. CASE AnalysisTake
  <2>1. /\ analysis = "take" /\ analysis' = "picture" /\ BeginPop(PictureSize)
        /\ UNCHANGED <<linear, picture>>
    BY <1>13 DEF AnalysisTake, BeginPop
  <2>2. queue' = queue
    BY <2>1, SameQueue DEF BeginPop, producerVars
  <2>3. ASSUME ~ quit PROVE dropped' = PictureSize
    <3>1. Stream!HeaderIn(queue, 1 + PictureSize)
      BY <2>1, <2>3 DEF ViewInv
    <3>2. PictureSize <= held /\ PictureSize \in Nat
      BY <1>1, <3>1 DEF Stream!HeaderIn
    <3> QED BY <2>1, <3>2, PopDropsAtMost
  <2> QED BY <1>2, <2>1, <2>2, <2>3 DEF ViewInv
<1>14. CASE AnalysisPopped("picture", PictureSize, "show")
  <2>1. analysis' = "show"
    BY <1>14 DEF AnalysisPopped
  <2> QED BY <2>1 DEF ViewInv
<1>15. CASE AnalysisShow
  <2>1. analysis' = "scan" /\ picture' = linear /\ linear' = linear
    BY <1>15 DEF AnalysisShow, ringVars, consumerVars
  <2> QED BY <2>1 DEF ViewInv
<1>16. CASE AnalysisLevel
  <2>1. analysis = "level" /\ analysis' \in {"scan", "clear"} /\ UNCHANGED <<linear, picture>>
    BY <1>16 DEF AnalysisLevel, BeginClear, ringVars, consumerVars
  <2>2. ASSUME analysis' = "clear" PROVE 10 * Len(queue') > 8 * Size /\ dropped' >= 1
    <3>1. 10 * held > 8 * Size /\ BeginClear
      BY <1>1, <1>16, <2>2 DEF AnalysisLevel
    <3>2. queue' = queue
      BY <3>1, SameQueue DEF BeginClear, producerVars
    <3>3. dropped' = held
      BY <3>1 DEF BeginClear, dropped, held
    <3> QED BY <1>1, <3>1, <3>2, <3>3
  <2> QED BY <2>1, <2>2 DEF ViewInv
<1>17. CASE AnalysisCleared
  <2>1. analysis = "clear" /\ analysis' \in {"poll", "lost"} /\ UNCHANGED <<linear, picture>>
    BY <1>17 DEF AnalysisCleared, StoreValid
  <2> QED BY <2>1 DEF ViewInv
<1> QED
  BY <1>5, <1>6, <1>7, <1>8, <1>9, <1>10, <1>11, <1>12, <1>13, <1>14, <1>15, <1>16, <1>17
     DEF AnalysisThread

LEMMA NextView ==
  ASSUME ChannelIInv, FifoIInv, InOrder, ViewInv, [Next]_vars
  PROVE  ViewInv'
<1>1. CASE ReadThread
  BY <1>1, ReadThreadView
<1>2. CASE AnalysisThread
  BY <1>2, AnalysisThreadView
<1>3. CASE Interrupt \/ UNCHANGED ownVars
  <2>1. /\ UNCHANGED <<analysis, linear, picture, queue, dropped>>
        /\ quit => quit'
    BY <1>3, SameQueue DEF Interrupt, ownVars, ringVars, producerVars, consumerVars,
                          analysisVars, dropped
  <2> QED BY <2>1 DEF ViewInv, FrameLength
<1> QED BY <1>1, <1>2, <1>3, WhoseStep

-----------------------------------------------------------------------------
(* The channel as FrameStream sees it *)

LEMMA PendingFacts ==
  ASSUME ChannelIInv
  PROVE  /\ Pending \in Seq(Byte) /\ front \in Seq(Byte)
         /\ Len(Pending) = Len(front) + Len(queue)
         /\ Len(front) \in {0, 4} /\ Len(queue) \in Nat
         /\ analysis \notin {"copy", "take", "picture"} => Pending = queue
         /\ analysis \in {"copy", "take", "picture"} => Pending = Header \o queue
<1>1. queue \in Seq(Byte) /\ Len(queue) \in Nat
  BY QueueFacts
<1>2. << >> \in Seq(Byte) /\ Len(<< >>) = 0
  BY EmptySeq
<1>3. front \in Seq(Byte) /\ Len(front) \in {0, 4}
  BY <1>2, HeaderBytes DEF front
<1>4. Pending \in Seq(Byte) /\ Len(Pending) = Len(front) + Len(queue)
  BY <1>1, <1>3, ConcatProperties DEF Pending
<1>5. << >> \o queue = queue
  BY <1>1, ConcatEmptySeq
<1> QED BY <1>1, <1>3, <1>4, <1>5 DEF Pending, front

(* Steps of a channel that a stream does not see *)
LEMMA Unseen ==
  ASSUME UNCHANGED <<Pending, PictureSeen, ShownSeen, quit>>
  PROVE  UNCHANGED Stream!streamVars
  BY DEF Stream!streamVars, Pending, front, queue, PictureSeen, ShownSeen

LEMMA QuietStep ==
  ASSUME UNCHANGED <<queue, quit, picture, frameCnt>>,
         analysis # "show", analysis' # "show",
         analysis \in {"copy", "take", "picture"} <=> analysis' \in {"copy", "take", "picture"}
  PROVE  UNCHANGED Stream!streamVars
<1>1. UNCHANGED <<Pending, PictureSeen, ShownSeen, quit>>
  BY DEF Pending, front, PictureSeen, ShownSeen
<1> QED BY <1>1, Unseen

LEMMA InitStream == Init => Stream!StreamInit
<1> SUFFICES ASSUME Init PROVE Stream!StreamInit
  OBVIOUS
<1>1. queue = << >>
  BY EmptyAtFirst DEF Init, Fifo!FifoInit, queue
<1>2. << >> \o << >> = << >>
  <2>1. << >> \in Seq(Byte)
    BY EmptySeq
  <2> QED BY <2>1, ConcatEmptySeq
<1> QED BY <1>1, <1>2 DEF Init, Stream!StreamInit, Pending, front, queue, PictureSeen, ShownSeen

(* What the read thread stores arrives. *)
LEMMA ReaderIsArrival ==
  ASSUME ChannelIInv, FifoIInv, InOrder, ReadThread
  PROVE  UNCHANGED Stream!streamVars \/ \E bytes \in Chunks : Stream!Arrive(bytes)
<1>1. UNCHANGED <<quit, linear, analysis, picture, frameCnt>>
  BY ReaderAdds DEF consumerVars, analysisVars
<1>2. UNCHANGED <<front, PictureSeen, ShownSeen>>
  BY <1>1 DEF front, PictureSeen, ShownSeen
<1>3. CASE queue' = queue
  <2>1. UNCHANGED <<Pending, PictureSeen, ShownSeen, quit>>
    BY <1>1, <1>2, <1>3 DEF Pending
  <2> QED BY <2>1, Unseen
<1>4. CASE queue' # queue
  <2>1. PICK bytes \in Chunks : \E n \in 1 .. Len(bytes) :
          Len(queue) + n <= Size - 1 /\ queue' = queue \o SubSeq(bytes, 1, n)
    BY <1>4, ReaderAppends
  <2>2. PICK n \in 1 .. Len(bytes) :
          Len(queue) + n <= Size - 1 /\ queue' = queue \o SubSeq(bytes, 1, n)
    BY <2>1
  <2>3. bytes \in Seq(Byte) /\ n \in 0 .. Len(bytes) /\ n \in Nat
    BY RingAssumption
  <2>4. SubSeq(bytes, 1, n) \in Seq(Byte)
    BY <2>3, Remainder
  <2>5. Pending' = Pending \o SubSeq(bytes, 1, n)
    <3>1. Pending' = front \o (queue \o SubSeq(bytes, 1, n))
      BY <1>2, <2>2 DEF Pending
    <3>2. front \in Seq(Byte) /\ queue \in Seq(Byte)
      BY PendingFacts, QueueFacts
    <3>3. (front \o queue) \o SubSeq(bytes, 1, n) = front \o (queue \o SubSeq(bytes, 1, n))
      BY <2>4, <3>2, ConcatAssociative
    <3> QED BY <3>1, <3>3 DEF Pending
  <2>6. Len(Pending) + n <= Size + 3
    <3>1. /\ Len(Pending) = Len(front) + Len(queue) /\ Len(front) \in {0, 4}
          /\ Len(queue) \in Nat
      BY PendingFacts
    <3>2. Len(queue) + n <= Size - 1 /\ n \in Nat /\ Size \in Nat
      BY <2>2, <2>3, SizeAssumption
    <3>3. ASSUME NEW f \in {0, 4}, NEW l \in Nat, l + n <= Size - 1
          PROVE  f + l + n <= Size + 3
      BY <3>2, <3>3
    <3> QED BY <3>1, <3>2, <3>3
  <2>7. Stream!Arrive(bytes)
    BY <1>1, <1>2, <2>5, <2>6
       DEF Stream!Arrive, Pending, front, queue, PictureSeen, ShownSeen
  <2> QED BY <2>7
<1> QED BY <1>3, <1>4

(* SIGINT *)
LEMMA InterruptIsStop == ASSUME Interrupt PROVE Stream!Stop
<1>1. UNCHANGED <<queue, analysis, linear, picture, frameCnt>> /\ quit' = TRUE
  BY SameQueue DEF Interrupt, ringVars, producerVars, consumerVars, analysisVars
<1>2. UNCHANGED <<Pending, PictureSeen, ShownSeen>>
  BY <1>1 DEF Pending, front, PictureSeen, ShownSeen
<1> QED
  BY <1>1, <1>2 DEF Stream!Stop, Pending, front, queue, PictureSeen, ShownSeen

LEMMA PendingAfter ==
  ASSUME queue' \in Seq(Byte)
  PROVE  /\ analysis' \notin {"copy", "take", "picture"} => Pending' = queue'
         /\ analysis' \in {"copy", "take", "picture"} => Pending' = Header \o queue'
<1>1. << >> \o queue' = queue'
  BY ConcatEmptySeq
<1> QED BY <1>1 DEF Pending, front

(* What a popData takes off the front is dropped. *)
LEMMA DropIsDrop ==
  ASSUME NEW n, Pending' = SubSeq(Pending, n + 1, Len(Pending))
  PROVE  Stream!DropFront(n)
  BY DEF Stream!DropFront, Pending, front, queue

LEMMA PopDropsFront ==
  ASSUME ChannelIInv, StoreValid,
         analysis \notin {"copy", "take", "picture"},
         analysis' \notin {"copy", "take", "picture"}
  PROVE  Stream!DropFront(dropped) /\ Pending = queue
<1>1. dropped \in 0 .. Len(queue) /\ queue' = SubSeq(queue, dropped + 1, Len(queue))
  BY PopTakes
<1>2. queue' \in Seq(Byte)
  BY <1>1, QueueFacts, Remainder
<1>3. Pending = queue /\ Pending' = queue'
  BY <1>2, PendingFacts, PendingAfter
<1> QED BY <1>1, <1>3, DropIsDrop

(* A byte that starts no header is passed over. *)
LEMMA SkipIsSkipByte ==
  ASSUME ChannelIInv, ViewInv, AnalysisPopped("skip", 1, "level")
  PROVE  Stream!SkipByte
<1>1. /\ analysis = "skip" /\ analysis' = "level" /\ StoreValid
      /\ UNCHANGED <<quit, picture, frameCnt>>
  BY DEF AnalysisPopped
<1>2. Len(queue) >= 4 /\ ~ Stream!HeaderIn(queue, 1) /\ dropped = 1
  BY <1>1 DEF ViewInv
<1>3. Stream!DropFront(1) /\ Pending = queue
  BY <1>1, <1>2, PopDropsFront
<1> QED
  BY <1>1, <1>2, <1>3 DEF Stream!SkipByte, Pending, front, queue, PictureSeen, ShownSeen

(* A header that does not count is passed over, or the last turn is ended. *)
LEMMA BadIsBadHeader ==
  ASSUME ChannelIInv, ViewInv, AnalysisPopped("bad", 4, "scan")
  PROVE  Stream!BadHeader \/ Stream!LastTurn
<1>1. /\ analysis = "bad" /\ analysis' = "scan" /\ StoreValid
      /\ UNCHANGED <<quit, picture, frameCnt>>
  BY DEF AnalysisPopped
<1>2. Stream!HeaderIn(queue, 1) /\ dropped = 4
  BY <1>1 DEF ViewInv
<1>3. Stream!DropFront(4) /\ Pending = queue /\ 4 \in 0 .. Len(queue)
  BY <1>1, <1>2, PopDropsFront, PopTakes
<1>4. CASE ~ quit
  <2>1. Len(queue) >= 4 + FrameLength /\ ~ Stream!HeaderIn(queue, 1 + FrameLength)
    BY <1>1, <1>4 DEF ViewInv
  <2> QED
    BY <1>1, <1>2, <1>3, <2>1, HeaderBytes
       DEF Stream!BadHeader, Pending, front, queue, PictureSeen, ShownSeen
<1>5. CASE quit
  BY <1>1, <1>3, <1>5 DEF Stream!LastTurn, Pending, front, queue, PictureSeen, ShownSeen
<1> QED BY <1>4, <1>5

(* A ring that fills is emptied. *)
LEMMA ClearIsFlush ==
  ASSUME ChannelIInv, ViewInv, AnalysisCleared
  PROVE  Stream!Flush
<1>1. /\ analysis = "clear" /\ analysis' \in {"poll", "lost"} /\ StoreValid
      /\ UNCHANGED <<quit, picture, frameCnt>>
  BY DEF AnalysisCleared
<1>2. /\ 10 * Len(queue) > 8 * Size /\ dropped >= 1 /\ dropped \in 0 .. Len(queue)
      /\ Len(queue) \in Nat /\ Size \in Nat
  BY <1>1, PopTakes, QueueFacts, SizeAssumption DEF ViewInv
<1>3. Stream!DropFront(dropped) /\ Pending = queue
  BY <1>1, PopDropsFront
<1>4. dropped \in 1 .. Len(queue)
  BY <1>2
<1>5. Len(queue) > (8 * Size) \div 10
  <2>1. ASSUME NEW l \in Nat, 10 * l > 8 * Size PROVE l > (8 * Size) \div 10
    BY <1>2, <2>1
  <2> QED BY <1>2, <2>1
<1> QED
  BY <1>1, <1>3, <1>4, <1>5 DEF Stream!Flush, Pending, front, queue, PictureSeen, ShownSeen

(* The header that is popped is still pending while its picture is taken. *)
LEMMA HeaderIsQuiet ==
  ASSUME ChannelIInv, ViewInv, AnalysisPopped("header", 4, "copy")
  PROVE  UNCHANGED Stream!streamVars
<1>1. /\ analysis = "header" /\ analysis' = "copy" /\ StoreValid
      /\ UNCHANGED <<quit, picture, frameCnt>>
  BY DEF AnalysisPopped
<1>2. Stream!HeaderIn(queue, 1) /\ dropped = 4
  BY <1>1 DEF ViewInv
<1>3. 4 \in 0 .. Len(queue) /\ queue' = SubSeq(queue, 4 + 1, Len(queue))
  BY <1>1, <1>2, PopTakes
<1>4. queue' \in Seq(Byte) /\ queue \in Seq(Byte)
  BY <1>3, QueueFacts, Remainder
<1>5. Header \o queue' = queue
  <2>1. 4 + 1 = 5
    OBVIOUS
  <2> QED BY <1>2, <1>3, <1>4, <2>1, HeaderFirst
<1>6. Pending = queue /\ Pending' = Header \o queue'
  BY <1>1, <1>4, PendingFacts, PendingAfter
<1>7. UNCHANGED <<PictureSeen, ShownSeen>>
  BY <1>1 DEF PictureSeen, ShownSeen
<1> QED BY <1>1, <1>5, <1>6, <1>7, Unseen

(* The picture is shown, or whatever was there when quit was set. *)
LEMMA PictureIsShow ==
  ASSUME ChannelIInv, ViewInv, AnalysisPopped("picture", PictureSize, "show")
  PROVE  Stream!Show \/ Stream!LastTurn
<1>1. /\ analysis = "picture" /\ analysis' = "show" /\ StoreValid
      /\ UNCHANGED <<quit, picture, frameCnt, linear>>
  BY DEF AnalysisPopped, StoreValid
<1>2. /\ dropped \in 0 .. Len(queue) /\ queue' = SubSeq(queue, dropped + 1, Len(queue))
      /\ queue \in Seq(Byte) /\ Len(queue) \in Nat
  BY <1>1, PopTakes, QueueFacts
<1>3. Pending = Header \o queue /\ Pending' = queue'
  <2>1. queue' \in Seq(Byte)
    BY <1>2, Remainder
  <2> QED BY <1>1, <2>1, PendingFacts, PendingAfter
<1>4. Len(Pending) = 4 + Len(queue) /\ Stream!DropFront(4 + dropped)
  <2>1. /\ Len(Header \o queue) = 4 + Len(queue)
        /\ SubSeq(Header \o queue, 4 + dropped + 1, Len(Header \o queue))
             = SubSeq(queue, dropped + 1, Len(queue))
    BY <1>2, BehindHeader
  <2> QED BY <1>2, <1>3, <2>1, DropIsDrop
<1>5. FrameLength = 4 + PictureSize /\ PictureSize \in Nat \ {0}
      /\ Stream!FrameLength = FrameLength
  BY HeaderBytes
<1>6. PictureSeen = picture /\ PictureSeen' = linear
      /\ ShownSeen = frameCnt /\ ShownSeen' = frameCnt + 1
  BY <1>1 DEF PictureSeen, ShownSeen
<1>7. ASSUME Len(queue) >= PictureSize, linear = SubSeq(queue, 1, PictureSize)
      PROVE  linear = SubSeq(Pending, 5, FrameLength)
  <2>1. PictureSize \in 0 .. Len(queue)
    BY <1>2, <1>5, <1>7
  <2> QED BY <1>2, <1>3, <1>5, <1>7, <2>1, BehindHeader
<1>8. CASE ~ quit
  <2>1. dropped = PictureSize /\ Stream!HeaderIn(queue, 1 + PictureSize)
        /\ Len(queue) >= PictureSize /\ linear = SubSeq(queue, 1, PictureSize)
    BY <1>1, <1>8 DEF ViewInv
  <2>2. Stream!HeaderIn(Pending, 1)
    BY <1>2, <1>3, HeaderFirst
  <2>3. Stream!HeaderIn(Pending, 1 + FrameLength)
    <3>1. Header \in Seq(Byte) /\ Len(Header) = 4 /\ 1 + PictureSize \in Nat \ {0}
      BY <1>5, HeaderBytes
    <3>2. Stream!HeaderIn(Header \o queue, Len(Header) + (1 + PictureSize))
      BY <1>2, <2>1, <3>1, HeaderMoved
    <3>3. Len(Header) + (1 + PictureSize) = 1 + FrameLength
      BY <1>5, <3>1
    <3> QED BY <1>3, <3>2, <3>3
  <2>4. Stream!DropFront(FrameLength)
    BY <1>4, <1>5, <2>1
  <2>5. PictureSeen' = SubSeq(Pending, 5, FrameLength)
    BY <1>6, <1>7, <2>1
  <2> QED
    BY <1>1, <1>5, <1>6, <2>2, <2>3, <2>4, <2>5
       DEF Stream!Show, Pending, front, queue, PictureSeen, ShownSeen
<1>9. CASE quit
  <2>1. \E n \in 0 .. Len(Pending) : Stream!DropFront(n)
    <3>1. 4 + dropped \in 0 .. Len(Pending)
      BY <1>2, <1>4
    <3> QED BY <1>4, <3>1
  <2>2. \/ PictureSeen' = PictureSeen
        \/ Len(Pending) >= FrameLength /\ PictureSeen' = SubSeq(Pending, 5, FrameLength)
    <3>1. CASE Len(queue) >= PictureSize /\ linear = SubSeq(queue, 1, PictureSize)
      <4>1. Len(Pending) >= FrameLength
        BY <1>2, <1>4, <1>5, <3>1
      <4> QED BY <1>6, <1>7, <3>1, <4>1
    <3>2. CASE linear = picture
      BY <1>6, <3>2
    <3> QED BY <1>1, <3>1, <3>2 DEF ViewInv
  <2> QED
    BY <1>1, <1>5, <1>6, <1>9, <2>1, <2>2
       DEF Stream!LastTurn, Pending, front, queue, PictureSeen, ShownSeen
<1> QED BY <1>8, <1>9

(* The steps a stream does not see *)
Unnoticed ==
  \/ AnalysisPoll \/ AnalysisEmpty \/ AnalysisHeader \/ AnalysisSkip
  \/ AnalysisAwait \/ AnalysisAwaitMore \/ AnalysisVerify
  \/ AnalysisCopy \/ AnalysisTake \/ AnalysisLevel \/ AnalysisShow
  \/ AnalysisPopped("header", 4, "copy")

LEMMA UnnoticedIsQuiet ==
  ASSUME ChannelIInv, ViewInv, Unnoticed
  PROVE  UNCHANGED Stream!streamVars
<1>1. CASE \/ AnalysisPoll \/ AnalysisEmpty \/ AnalysisHeader \/ AnalysisSkip
           \/ AnalysisAwait \/ AnalysisAwaitMore \/ AnalysisVerify
           \/ AnalysisCopy \/ AnalysisTake \/ AnalysisLevel
  <2>1. UNCHANGED <<m_Buffer, m_ValidPosition, m_StorablePosition, picture, frameCnt, quit>>
    BY <1>1 DEF AnalysisPoll, AnalysisEmpty, AnalysisHeader, AnalysisSkip, AnalysisAwait,
                AnalysisAwaitMore, AnalysisVerify, AnalysisCopy, AnalysisTake, AnalysisLevel,
                ringVars, producerVars, consumerVars, BeginPop, BeginClear, Read
  <2>2. /\ analysis # "show" /\ analysis' # "show"
        /\ analysis \in {"copy", "take", "picture"} <=> analysis' \in {"copy", "take", "picture"}
    BY <1>1 DEF AnalysisPoll, AnalysisEmpty, AnalysisHeader, AnalysisSkip, AnalysisAwait,
                AnalysisAwaitMore, AnalysisVerify, AnalysisCopy, AnalysisTake, AnalysisLevel
  <2>3. UNCHANGED queue
    BY <2>1, SameQueue
  <2> QED BY <2>1, <2>2, <2>3, QuietStep
<1>2. CASE AnalysisShow
  <2>1. /\ analysis = "show" /\ analysis' = "scan" /\ picture' = linear
        /\ frameCnt' = frameCnt + 1 /\ quit' = quit
        /\ UNCHANGED <<m_Buffer, m_ValidPosition, m_StorablePosition>>
    BY <1>2 DEF AnalysisShow, ringVars, producerVars, consumerVars
  <2>2. UNCHANGED <<queue, front, PictureSeen, ShownSeen>>
    BY <2>1, SameQueue DEF front, PictureSeen, ShownSeen
  <2>3. UNCHANGED Pending
    BY <2>2 DEF Pending
  <2> QED BY <2>1, <2>2, <2>3, Unseen
<1> QED BY <1>1, <1>2, HeaderIsQuiet DEF Unnoticed

LEMMA AnalysisIsConsumption ==
  ASSUME ChannelIInv, ViewInv, AnalysisThread
  PROVE  [Stream!StreamNext]_(Stream!streamVars)
BY UnnoticedIsQuiet, SkipIsSkipByte, BadIsBadHeader, ClearIsFlush, PictureIsShow
   DEF AnalysisThread, Unnoticed, Stream!StreamNext, Stream!Consume

LEMMA StepIsStreamStep ==
  ASSUME ChannelIInv, FifoIInv, InOrder, ViewInv, [Next]_vars
  PROVE  [Stream!StreamNext]_(Stream!streamVars)
<1>1. CASE ReadThread
  BY <1>1, ReaderIsArrival DEF Stream!StreamNext
<1>2. CASE AnalysisThread
  BY <1>2, AnalysisIsConsumption
<1>3. CASE Interrupt
  BY <1>3, InterruptIsStop DEF Stream!StreamNext
<1>4. CASE UNCHANGED ownVars
  <2>1. UNCHANGED <<queue, front, PictureSeen, ShownSeen, quit>>
    BY <1>4, SameQueue DEF ownVars, ringVars, producerVars, consumerVars, analysisVars,
                           front, PictureSeen, ShownSeen
  <2>2. UNCHANGED Pending
    BY <2>1 DEF Pending
  <2> QED BY <2>1, <2>2, Unseen
<1> QED BY <1>1, <1>2, <1>3, <1>4, WhoseStep

LEMMA ViewInvariant == InOrder /\ Spec => []ViewInv
<1> SUFFICES ASSUME InOrder PROVE Spec => []ViewInv
  OBVIOUS
<1>1. Spec => []FifoIInv
  BY ChannelUsesRing, FifoInvariant, PTL
<1>2. ChannelIInv /\ FifoIInv /\ ViewInv /\ [Next]_vars => ViewInv'
  BY NextView
<1> QED
  BY <1>1, <1>2, InitView, ChannelInvariant, PTL DEF Spec

(* A full ring and the analysis thread *)

LEMMA RoomValues ==
  \A len \in Nat :
    /\ RoomFrom("skip", len) = 1 /\ RoomFrom("bad", len) = 1
    /\ RoomFrom("header", len) = 1 /\ RoomFrom("picture", len) = 1
    /\ RoomFrom("clear", len) = 1 /\ RoomFrom("take", len) = 2
    /\ RoomFrom("copy", len) = 3 /\ RoomFrom("await", len) = 3
    /\ RoomFrom("verify", len) = (IF Enough(len) THEN 2 ELSE 4)
    /\ RoomFrom("scan", len) = (IF len >= 4 THEN 4 ELSE 6)
    /\ RoomFrom("poll", len) = 5 /\ RoomFrom("level", len) = 7
    /\ RoomFrom("show", len) = 7
BY DEF RoomFrom

LEMMA RoomOfStep == RoomLeft' = RoomFrom(analysis', lenOfValid')
BY DEF RoomLeft, RoomFrom, Enough, FrameLength

(* A push that finds no room stores its position where it stands. *)
LEMMA ReaderAddsNothing ==
  ASSUME ChannelIInv, ReadThread, held = Size - 1
  PROVE  held' = held /\ RoomLeft' = RoomLeft
<1>1. UNCHANGED <<quit, consumerVars, analysisVars>>
  BY ReaderAdds
<1>2. held' = held
  <2>1. CASE StoreIndex
    <3>1. held' = held + count /\ held + count < Size /\ count \in Nat
      BY <2>1, StoreIndexInvariant DEF StoreIndex, MayStore, ChannelIInv, RingIInv,
         RingTypeOK, PushFits, held
    <3> QED BY <3>1, SizeAssumption
  <2>2. CASE UNCHANGED m_StorablePosition
    BY <1>1, <2>2 DEF held, consumerVars
  <2> QED
    BY <2>1, <2>2
       DEF ReadThread, ReaderOpen, ReaderQuit, ReaderRead, ReaderReadFails, ReaderPush,
           ReaderStore, ReaderPushed, ReaderNextBlock, ReaderClose, ringVars, producerVars,
           BeginPush, CopyFirst, CopySecond, EndPush
<1> QED BY <1>1, <1>2, RoomOfStep DEF analysisVars, RoomLeft

(* A popData or isClear that has begun takes something. *)
LEMMA StoreTakesSome ==
  ASSUME ChannelIInv, ViewInv, AnalysisThread, StoreValid, ~ quit
  PROVE  held' < held
<1>1. held' = held - dropped
  BY StoreValidInvariant DEF ChannelIInv, held, dropped
<1>2. analysis \in {"skip", "bad", "header", "picture", "clear"}
  BY DEF StoreValid, AnalysisThread, AnalysisPoll, AnalysisEmpty, AnalysisHeader,
     AnalysisSkip, AnalysisAwait, AnalysisAwaitMore, AnalysisVerify, AnalysisPopped,
     AnalysisCopy, AnalysisTake, AnalysisShow, AnalysisLevel, AnalysisCleared,
     BeginPop, BeginClear, Read, ringVars, consumerVars
<1>3. dropped \in Nat /\ dropped >= 1 /\ held \in Nat
  BY <1>2, ChannelFacts, PopTakes, QueueFacts DEF ViewInv
<1> QED BY <1>1, <1>3

LEMMA AnalysisMakesRoom ==
  ASSUME ChannelIInv, ViewInv, AnalysisThread, ~ quit, held = Size - 1,
         Size > 4 + FrameLength
  PROVE  held' < held \/ (held' = held /\ RoomLeft' < RoomLeft)
<1>1. CASE StoreValid
  BY <1>1, StoreTakesSome
<1>2. CASE ~ StoreValid
  <2>1. held' = held /\ valid = held /\ held \in Nat /\ lenOfValid \in Nat
    <3>1. UNCHANGED <<m_ValidPosition, m_StorablePosition>>
      BY <1>2 DEF AnalysisThread, AnalysisPoll, AnalysisEmpty, AnalysisHeader,
         AnalysisSkip, AnalysisAwait, AnalysisAwaitMore, AnalysisVerify, AnalysisPopped,
         AnalysisCopy, AnalysisTake, AnalysisShow, AnalysisLevel, AnalysisCleared,
         BeginPop, BeginClear, Read, ringVars, consumerVars, producerVars
    <3> QED BY <3>1, ChannelFacts DEF held
  <2>2. Size \in Nat /\ PictureSize \in Nat \ {0} /\ FrameLength = 4 + PictureSize
    BY ChannelFacts
  <2>3. lenOfValid' \in Nat
    BY <1>2, <2>1 DEF AnalysisThread, AnalysisPoll, AnalysisEmpty, AnalysisHeader,
       AnalysisSkip, AnalysisAwait, AnalysisAwaitMore, AnalysisVerify, AnalysisPopped,
       AnalysisCopy, AnalysisTake, AnalysisShow, AnalysisLevel, AnalysisCleared
  <2>4. \/ analysis = "poll" /\ analysis' = "scan" /\ lenOfValid' = held
        \/ analysis = "scan" /\ analysis' = "poll" /\ lenOfValid < 4
        \/ analysis = "scan" /\ analysis' \in {"await", "skip"} /\ lenOfValid >= 4
        \/ analysis = "await" /\ analysis' = "verify" /\ lenOfValid' = held
        \/ analysis = "verify" /\ analysis' = "await" /\ ~ Enough(lenOfValid)
        \/ analysis = "verify" /\ analysis' \in {"header", "bad"} /\ Enough(lenOfValid)
        \/ analysis = "copy" /\ analysis' = "take"
        \/ analysis = "take" /\ analysis' = "picture"
        \/ analysis = "show" /\ analysis' = "scan"
        \/ analysis = "level" /\ analysis' \in {"scan", "clear"}
    BY <1>2, <2>1 DEF AnalysisThread, AnalysisPoll, AnalysisEmpty, AnalysisHeader,
       AnalysisSkip, AnalysisAwait, AnalysisAwaitMore, AnalysisVerify, AnalysisPopped,
       AnalysisCopy, AnalysisTake, AnalysisShow, AnalysisLevel, AnalysisCleared
  <2>5. held >= 4 /\ Enough(held)
    BY <2>2 DEF Enough
  <2> HIDE DEF held
  <2>6. RoomFrom(analysis', lenOfValid') < RoomFrom(analysis, lenOfValid)
    BY <2>1, <2>3, <2>4, <2>5, RoomValues
  <2> QED BY <2>1, <2>6, RoomOfStep DEF RoomLeft
<1> QED BY <1>1, <1>2

(* In a ring of any size with room for a picture between two headers, and for *)
(* pictures of any size, a full ring is no place where the threads wait for   *)
(* each other: the analysis thread is at most seven steps from taking bytes   *)
(* out.                                                                       *)
THEOREM RoomMade == InOrder /\ Spec => RoomIsMade
<1> SUFFICES ASSUME InOrder PROVE Spec => RoomIsMade
  OBVIOUS
<1>1. ASSUME ChannelIInv, ChannelIInv', ViewInv, [Next]_vars,
             Size > 4 + FrameLength, valid = Size - 1, ~ quit'
      PROVE  /\ AnalysisThread => valid' < valid \/ (valid' = valid /\ RoomLeft' < RoomLeft)
             /\ ReadThread => valid' = valid /\ RoomLeft' = RoomLeft
  <2>1. valid = held
    BY <1>1, ChannelFacts
  <2>2. valid' = held'
    <3>1. m_ValidPosition' \in Cells /\ m_StorablePosition' \in Cells
      BY <1>1 DEF ChannelIInv, ChannelTypeOK, RingTypeOK
    <3> QED BY <3>1, DataIsDistance DEF valid, held
  <2>3. ~ quit
    BY <1>1, WhoseStep, ReaderAdds, AnalysisKeepsReader DEF Interrupt, ownVars
  <2>4. AnalysisThread => held' < held \/ (held' = held /\ RoomLeft' < RoomLeft)
    BY <1>1, <2>1, <2>3, AnalysisMakesRoom
  <2>5. ReadThread => held' = held /\ RoomLeft' = RoomLeft
    BY <1>1, <2>1, ReaderAddsNothing
  <2> QED BY <2>1, <2>2, <2>4, <2>5
<1>2. ChannelIInv /\ ChannelIInv' /\ ViewInv /\ [Next]_vars =>
        [Size > 4 + FrameLength /\ valid = Size - 1 /\ ~ quit' =>
           /\ AnalysisThread => valid' < valid \/ (valid' = valid /\ RoomLeft' < RoomLeft)
           /\ ReadThread => valid' = valid /\ RoomLeft' = RoomLeft]_vars
  BY <1>1
<1> QED BY <1>2, ViewInvariant, ChannelInvariant, PTL DEF Spec, RoomIsMade

(* Where stores are seen in program order, two threads without a lock, SIGINT *)
(* and a ring of any size cut the byte stream into pictures as FrameStream    *)
(* does: every step is one of its steps or is not seen.                       *)
THEOREM ChannelImplementsStream == InOrder /\ Spec => ChannelIsStream
<1> SUFFICES ASSUME InOrder PROVE Spec => ChannelIsStream
  OBVIOUS
<1>1. Spec => []FifoIInv
  BY ChannelUsesRing, FifoInvariant, PTL
<1>2. Spec => []ViewInv
  BY ViewInvariant
<1>3. ChannelIInv /\ FifoIInv /\ ViewInv /\ [Next]_vars
        => [Stream!StreamNext]_(Stream!streamVars)
  BY StepIsStreamStep
<1> QED
  BY <1>1, <1>2, <1>3, InitStream, ChannelInvariant, PTL
     DEF Spec, ChannelIsStream, Stream!StreamSpec

-----------------------------------------------------------------------------
(* What becomes of the bytes: until quit a channel with its history takes    *)
(* the steps of FrameHistory, so that what is proved there of a stream holds *)
(* of what the device delivered.                                             *)

History == INSTANCE FrameHistory_proofs WITH
             Capacity <- Size + 3,
             Level    <- (8 * Size) \div 10,
             Offers   <- Chunks,
             pending  <- Pending,
             picture  <- PictureSeen,
             shown    <- ShownSeen,
             stopping <- quit

(* No block is in hand but while it is pushed. *)
RestInHand == reader \notin {"push", "pushing"} => rest = << >>

Trace ==
  /\ delivered \in Seq(Byte) /\ consumed \in Seq(Byte)
  /\ RestInHand
  /\ History!HistoryIInv
  /\ EveryByteIsKept

TraceUntilQuit == ~ quit => Trace

(* What FrameStream and FrameHistory assume of their parameters *)
LEMMA HistoryParameters == History!StreamAssumption
<1>1. Size \in Nat /\ Size + 3 \in Nat /\ (8 * Size) \div 10 \in 0 .. Size + 3
  BY SizeAssumption
<1>2. Chunks \subseteq Seq(Byte)
  BY RingAssumption
<1> QED BY <1>1, <1>2, ChannelAssumption DEF History!StreamAssumption

LEMMA SameStream ==
  /\ History!FrameLength = FrameLength /\ History!Header = Header
  /\ \A s, i : History!HeaderIn(s, i) <=> Stream!HeaderIn(s, i)
  /\ History!stream = consumed \o Pending
BY DEF History!FrameLength, FrameLength, History!Header, Stream!Header, Header,
       History!HeaderIn, Stream!HeaderIn, History!stream

(* The two modules name the same steps. *)
LEMMA SameSteps ==
  /\ \A bytes : Stream!Arrive(bytes) => History!Arrive(bytes)
  /\ Stream!SkipByte => History!SkipByte
  /\ Stream!BadHeader => History!BadHeader
  /\ Stream!Flush => History!Flush
  /\ Stream!Show => History!Show
  /\ UNCHANGED Stream!streamVars => UNCHANGED History!streamVars
BY DEF Stream!Arrive, History!Arrive, Stream!SkipByte, History!SkipByte,
       Stream!BadHeader, History!BadHeader, Stream!Flush, History!Flush,
       Stream!Show, History!Show, Stream!streamVars, History!streamVars,
       Stream!DropFront, History!DropFront, Stream!HeaderIn, History!HeaderIn,
       Stream!Header, History!Header, Stream!FrameLength, History!FrameLength

(* Nothing is consumed while nothing goes. *)
LEMMA NothingTaken ==
  ASSUME ChannelIInv, consumed \in Seq(Byte), NoteTaken,
         Pending' \in Seq(Byte), Len(Pending) <= Len(Pending')
  PROVE  consumed' = consumed
<1>1. Len(Pending) \in Nat /\ Len(Pending') \in Nat
  BY PendingFacts
<1>2. SubSeq(Pending, 1, Len(Pending) - Len(Pending')) = << >>
  <2>1. Len(Pending) - Len(Pending') \in Int /\ Len(Pending) - Len(Pending') < 1
    BY <1>1
  <2> QED BY <2>1, SubSeqEmpty
<1>3. consumed \o << >> = consumed
  BY ConcatEmptySeq
<1> QED BY <1>2, <1>3 DEF NoteTaken

LEMMA Regrouped ==
  ASSUME NEW a \in Seq(Byte), NEW b \in Seq(Byte), NEW c \in Seq(Byte)
  PROVE  (a \o b) \o c = a \o (b \o c)
  BY ConcatAssociative

(* What goes off the front is consumed: the stream stays as it is. *)
LEMMA TakenIsKept ==
  ASSUME ChannelIInv, consumed \in Seq(Byte), NoteTaken,
         NEW n \in 0 .. Len(Pending), Stream!DropFront(n)
  PROVE  /\ Pending' \in Seq(Byte) /\ consumed' \in Seq(Byte)
         /\ consumed' \o Pending' = consumed \o Pending
<1>1. Pending \in Seq(Byte) /\ Len(Pending) \in Nat /\ n \in Nat /\ n <= Len(Pending)
  BY PendingFacts
<1>2. Pending' = SubSeq(Pending, n + 1, Len(Pending))
  BY DEF Stream!DropFront
<1>3. /\ SubSeq(Pending, 1, n) \in Seq(Byte)
      /\ Pending' \in Seq(Byte) /\ Len(Pending') = Len(Pending) - n
      /\ SubSeq(Pending, 1, n) \o Pending' = Pending
  BY <1>1, <1>2, Remainder
<1>4. consumed' = consumed \o SubSeq(Pending, 1, n)
  <2>1. Len(Pending) - Len(Pending') = n
    BY <1>1, <1>3
  <2> QED BY <2>1 DEF NoteTaken
<1>5. (consumed \o SubSeq(Pending, 1, n)) \o Pending'
        = consumed \o (SubSeq(Pending, 1, n) \o Pending')
  BY <1>3, Regrouped
<1>6. consumed' \in Seq(Byte)
  BY <1>3, <1>4, ConcatProperties
<1> QED BY <1>3, <1>4, <1>5, <1>6

-----------------------------------------------------------------------------
(* The read thread *)

LEMMA ReaderIsDelivery ==
  ASSUME ChannelIInv, FifoIInv, InOrder, Trace, ReadThread, Remember
  PROVE  /\ [History!HistoryNext]_(History!historyVars)
         /\ UNCHANGED <<consumed, frames, flushed>>
<1>1. UNCHANGED <<quit, analysis, picture, frameCnt, linear>>
  BY ReaderAdds DEF consumerVars, analysisVars
<1>2. UNCHANGED <<frames, flushed>>
  BY <1>1 DEF Remember, NoteShown, NoteFlushed
<1>3. Pending \in Seq(Byte) /\ Len(Pending) \in Nat /\ consumed \in Seq(Byte)
  BY PendingFacts DEF Trace
<1>4. CASE UNCHANGED Stream!streamVars
  <2>1. Pending' = Pending
    BY <1>4 DEF Stream!streamVars
  <2>2. consumed' = consumed
    BY <1>3, <2>1, NothingTaken DEF Remember
  <2> QED BY <1>2, <1>4, <2>2, SameSteps DEF History!historyVars
<1>5. ASSUME NEW bytes \in Chunks, Stream!Arrive(bytes)
      PROVE  /\ History!HistoryNext
             /\ UNCHANGED <<consumed, frames, flushed>>
  <2>1. PICK n \in 1 .. Len(bytes) : Pending' = Pending \o SubSeq(bytes, 1, n)
    BY <1>5 DEF Stream!Arrive
  <2>2. bytes \in Seq(Byte) /\ n \in 0 .. Len(bytes) /\ n \in Nat
    BY RingAssumption
  <2>3. SubSeq(bytes, 1, n) \in Seq(Byte) /\ Len(SubSeq(bytes, 1, n)) = n
    BY <2>2, Remainder
  <2>4. Pending' \in Seq(Byte) /\ Len(Pending') = Len(Pending) + n
    BY <1>3, <2>1, <2>3, ConcatProperties
  <2>5. Len(Pending) <= Len(Pending')
    BY <1>3, <2>2, <2>4
  <2>6. consumed' = consumed
    BY <1>3, <2>4, <2>5, NothingTaken DEF Remember
  <2> QED BY <1>2, <1>5, <2>6, SameSteps DEF History!HistoryNext, History!Deliver
<1> QED BY <1>4, <1>5, ReaderIsArrival

LEMMA ReaderTypes ==
  ASSUME ChannelIInv, Trace, ReadThread, Remember
  PROVE  delivered' \in Seq(Byte) /\ RestInHand'
<1>1. delivered' \in Seq(Byte)
  <2>1. rest' \in Seq(Byte) /\ delivered \in Seq(Byte)
    BY ReaderPushesRest DEF Trace
  <2> QED BY <2>1, ConcatProperties DEF Remember, NoteRead
<1>2. RestInHand'
  BY DEF Trace, RestInHand, ReadThread, ReaderOpen, ReaderQuit, ReaderRead,
         ReaderReadFails, ReaderPush, ReaderStore, ReaderPushed, ReaderNextBlock,
         ReaderClose, readerVars
<1> QED BY <1>1, <1>2

(* A step that neither stores in the ring nor reads keeps what is to be pushed. *)
LEMMA ReaderKeepsRest ==
  ASSUME ChannelIInv, InOrder, Trace, ~ quit, ReadThread, Remember,
         ~ ReaderRead, ~ StoreIndex
  PROVE  Unpushed' = Unpushed /\ delivered' = delivered
<1>1. /\ rest \in Seq(Byte) /\ count \in Nat /\ PushesRest /\ IndexIsLast
      /\ producer = "idle" => todo = {}
  BY SizeAssumption DEF ChannelIInv, ChannelTypeOK, RingIInv, RingTypeOK, PushFits
<1>2. CASE ReaderOpen \/ ReaderQuit \/ ReaderReadFails \/ ReaderClose
  <2>1. UNCHANGED <<rest, producer, todo, count>> /\ ~ (reader = "loop" /\ reader' = "push")
    BY <1>2 DEF ReaderOpen, ReaderQuit, ReaderReadFails, ReaderClose, ringVars, producerVars
  <2> QED BY <2>1 DEF Unpushed, Remember, NoteRead
<1>3. CASE ReaderPush
  <2>1. /\ producer = "idle" /\ producer' = "push" /\ "index" \in todo' /\ rest' = rest
        /\ reader = "push"
    BY <1>3 DEF ReaderPush, BeginPush, Stores
  <2> QED BY <2>1 DEF Unpushed, Remember, NoteRead
<1>4. CASE CopyFirst \/ CopySecond
  <2>1. "index" \in todo
    BY <1>1, <1>4 DEF IndexIsLast, CopyFirst, CopySecond, MayStore
  <2>2. "index" \in todo'
    BY <1>4, <2>1 DEF CopyFirst, CopySecond
  <2>3. UNCHANGED <<reader, rest>>
    <3>1. UNCHANGED producer /\ todo' # todo
      BY <1>4 DEF CopyFirst, CopySecond, MayStore
    <3> QED
      BY <3>1 DEF ReadThread, ReaderOpen, ReaderQuit, ReaderRead, ReaderReadFails, ReaderPush,
                  ReaderStore, ReaderPushed, ReaderNextBlock, ReaderClose, readerVars,
                  ringVars, producerVars, BeginPush, EndPush
  <2> QED BY <2>1, <2>2, <2>3 DEF Unpushed, Remember, NoteRead
<1>5. CASE ReaderPushed
  <2>1. /\ producer = "push" /\ todo = {} /\ producer' = "idle"
        /\ rest' = SubSeq(rest, count + 1, Len(rest)) /\ reader' = "push" /\ reader = "pushing"
    BY <1>1, <1>5 DEF ReaderPushed, EndPush, PushesRest
  <2>2. Unpushed = rest'
    BY <2>1 DEF Unpushed
  <2>3. Unpushed' = SubSeq(rest', 0 + 1, Len(rest'))
    BY <2>1 DEF Unpushed
  <2>4. rest' \in Seq(Byte)
    BY ReaderPushesRest
  <2>5. SubSeq(rest', 0 + 1, Len(rest')) = rest'
    BY <2>4, SubSeqFull
  <2> QED BY <2>1, <2>2, <2>3, <2>5 DEF Remember, NoteRead
<1>6. CASE ReaderNextBlock
  <2>1. /\ rest = << >> /\ rest' = rest /\ UNCHANGED <<producer, todo, count>>
        /\ ~ (reader = "loop" /\ reader' = "push")
    BY <1>6 DEF ReaderNextBlock, ringVars, producerVars
  <2> QED BY <2>1 DEF Unpushed, Remember, NoteRead
<1> QED
  BY <1>2, <1>3, <1>4, <1>5, <1>6 DEF ReadThread, ReaderStore

LEMMA ReaderKeepsBytes ==
  ASSUME ChannelIInv, FifoIInv, InOrder, Trace, ~ quit, ReadThread, Remember
  PROVE  EveryByteIsKept'
<1>1. /\ delivered = (consumed \o Pending) \o Unpushed
      /\ consumed \in Seq(Byte) /\ Pending \in Seq(Byte) /\ consumed' = consumed
      /\ front' = front /\ front \in Seq(Byte) /\ queue \in Seq(Byte)
  BY ReaderIsDelivery, ReaderAdds, PendingFacts, QueueFacts
     DEF Trace, EveryByteIsKept, front, analysisVars
<1>2. rest \in Seq(Byte) /\ PushesRest /\ RestInHand
  BY DEF ChannelIInv, ChannelTypeOK, Trace
<1>3. CASE ReaderRead
  <2>1. /\ reader = "loop" /\ reader' = "push" /\ UNCHANGED <<producer, todo, count>>
        /\ UNCHANGED <<m_Buffer, m_ValidPosition, m_StorablePosition>>
    BY <1>3 DEF ReaderRead, ringVars, producerVars, consumerVars
  <2>2. Pending' = Pending
    BY <1>1, <2>1, SameQueue DEF Pending
  <2>3. producer # "push" /\ rest = << >>
    BY <1>2, <2>1 DEF PushesRest, RestInHand
  <2>4. Unpushed = << >>
    <3>1. Unpushed = SubSeq(rest, 0 + 1, Len(rest))
      BY <2>3 DEF Unpushed
    <3>2. SubSeq(rest, 0 + 1, Len(rest)) = rest
      BY <1>2, SubSeqFull
    <3> QED BY <2>3, <3>1, <3>2
  <2>5. Unpushed' = rest'
    <3>1. Unpushed' = SubSeq(rest', 0 + 1, Len(rest'))
      BY <2>1, <2>3 DEF Unpushed
    <3>2. rest' \in Seq(Byte)
      BY ReaderPushesRest
    <3>3. SubSeq(rest', 0 + 1, Len(rest')) = rest'
      BY <3>2, SubSeqFull
    <3> QED BY <3>1, <3>3
  <2>6. delivered = consumed \o Pending
    <3>1. consumed \o Pending \in Seq(Byte)
      BY <1>1, ConcatProperties
    <3>2. (consumed \o Pending) \o << >> = consumed \o Pending
      BY <3>1, ConcatEmptySeq
    <3> QED BY <1>1, <2>4, <3>2
  <2>7. delivered' = delivered \o rest'
    BY <2>1 DEF Remember, NoteRead
  <2> QED BY <1>1, <2>2, <2>5, <2>6, <2>7 DEF EveryByteIsKept
<1>4. CASE StoreIndex
  <2>1. /\ queue' = queue \o SubSeq(chunk, 1, count)
        /\ chunk \in Seq(Byte) /\ count \in 0 .. Len(chunk)
    BY <1>4, PushAppends DEF queue
  <2>2. /\ producer = "push" /\ "index" \in todo /\ "index" \notin todo'
        /\ UNCHANGED <<producer, count>>
    BY <1>4 DEF StoreIndex, MayStore, ChannelIInv, RingIInv, RingTypeOK, PushFits
  <2>3. chunk = rest /\ reader = "pushing"
    BY <1>2, <2>2 DEF PushesRest
  <2>4. UNCHANGED rest /\ delivered' = delivered
    <3>1. UNCHANGED rest
      BY <2>2, <2>3
         DEF ReadThread, ReaderOpen, ReaderQuit, ReaderRead, ReaderReadFails, ReaderPush,
             ReaderStore, ReaderPushed, ReaderNextBlock, ReaderClose, readerVars, EndPush
    <3> QED BY <2>3, <3>1 DEF Remember, NoteRead
  <2>5. Unpushed = rest /\ Unpushed' = SubSeq(rest, count + 1, Len(rest))
    <3>1. Unpushed = SubSeq(rest, 0 + 1, Len(rest))
      BY <2>2 DEF Unpushed
    <3>2. SubSeq(rest, 0 + 1, Len(rest)) = rest
      BY <1>2, SubSeqFull
    <3>3. Unpushed' = SubSeq(rest, count + 1, Len(rest))
      BY <2>2, <2>4 DEF Unpushed
    <3> QED BY <3>1, <3>2, <3>3
  <2> DEFINE a == SubSeq(rest, 1, count)
             b == SubSeq(rest, count + 1, Len(rest))
  <2>6. a \in Seq(Byte) /\ b \in Seq(Byte) /\ a \o b = rest
    BY <1>2, <2>1, <2>3, Remainder
  <2>7. Pending' = front \o (queue \o a) /\ Unpushed' = b
    BY <1>1, <2>1, <2>3, <2>5 DEF Pending
  <2> HIDE DEF a, b
  <2>8. Pending' = Pending \o a
    BY ZenonT(30), <1>1, <2>6, <2>7, Regrouped DEF Pending
  <2>9. (consumed \o (Pending \o a)) \o b = (consumed \o Pending) \o rest
    <3>1. consumed \o Pending \in Seq(Byte)
      BY <1>1, ConcatProperties
    <3>2. (consumed \o Pending) \o a = consumed \o (Pending \o a)
      BY ZenonT(30), <1>1, <2>6, Regrouped
    <3>3. ((consumed \o Pending) \o a) \o b = (consumed \o Pending) \o (a \o b)
      BY <2>6, <3>1, Regrouped
    <3> QED BY <2>6, <3>2, <3>3
  <2> QED BY <1>1, <2>4, <2>5, <2>7, <2>8, <2>9 DEF EveryByteIsKept
<1>5. CASE ~ ReaderRead /\ ~ StoreIndex
  <2>1. Unpushed' = Unpushed /\ delivered' = delivered
    BY <1>5, ReaderKeepsRest
  <2>2. queue' = queue
    <3>1. CASE CopyFirst \/ CopySecond
      BY <3>1, CopyIsSilent DEF Fifo!fifoVars, queue
    <3>2. CASE ~ (CopyFirst \/ CopySecond)
      <4>1. UNCHANGED <<m_Buffer, m_ValidPosition, m_StorablePosition>>
        BY <1>5, <3>2
           DEF ReadThread, ReaderOpen, ReaderQuit, ReaderRead, ReaderReadFails, ReaderPush,
               ReaderStore, ReaderPushed, ReaderNextBlock, ReaderClose, ringVars,
               producerVars, consumerVars, BeginPush, EndPush
      <4> QED BY <4>1, SameQueue
    <3> QED BY <3>1, <3>2
  <2>3. Pending' = Pending
    BY <1>1, <2>2 DEF Pending
  <2> QED BY <1>1, <2>1, <2>3 DEF EveryByteIsKept
<1> QED BY <1>3, <1>4, <1>5

-----------------------------------------------------------------------------
(* The analysis thread *)

LEMMA QuietIsQuiet ==
  ASSUME ChannelIInv, Trace, UNCHANGED Stream!streamVars, Remember,
         ~ (analysis = "picture" /\ analysis' = "show"),
         ~ (analysis = "clear" /\ analysis' # "clear")
  PROVE  UNCHANGED History!historyVars /\ UNCHANGED <<consumed, Pending>>
<1>1. Pending' = Pending /\ Pending \in Seq(Byte)
  BY PendingFacts DEF Stream!streamVars
<1>2. consumed' = consumed
  <2>1. Len(Pending) <= Len(Pending') /\ Pending' \in Seq(Byte) /\ consumed \in Seq(Byte)
    BY <1>1 DEF Trace
  <2> QED BY <2>1, NothingTaken DEF Remember
<1>3. UNCHANGED <<frames, flushed>>
  BY DEF Remember, NoteShown, NoteFlushed
<1> QED BY <1>1, <1>2, <1>3, SameSteps DEF History!historyVars

(* Each of its steps takes a number of bytes off the front, with a step of the *)
(* history, or is not noticed.                                                 *)
LEMMA AnalysisIsHistory ==
  ASSUME ChannelIInv, ViewInv, Trace, ~ quit, AnalysisThread, Remember
  PROVE  /\ [History!HistoryNext]_(History!historyVars)
         /\ consumed' \in Seq(Byte)
         /\ consumed' \o Pending' = consumed \o Pending
<1>1. /\ consumed \in Seq(Byte) /\ Pending \in Seq(Byte) /\ Len(Pending) \in Nat
      /\ FrameLength \in Nat /\ NoteTaken /\ NoteShown /\ NoteFlushed
  BY PendingFacts, HeaderBytes DEF Trace, Remember
<1>2. History!Account <=> NoteTaken
  BY DEF History!Account, NoteTaken
<1>3. ASSUME NEW n \in 0 .. Len(Pending), Stream!DropFront(n)
      PROVE  consumed' \in Seq(Byte) /\ consumed' \o Pending' = consumed \o Pending
  BY <1>1, <1>3, TakenIsKept
<1>4. CASE Unnoticed
  <2>1. /\ ~ (analysis = "picture" /\ analysis' = "show")
        /\ ~ (analysis = "clear" /\ analysis' # "clear")
    BY <1>4 DEF Unnoticed, AnalysisPoll, AnalysisEmpty, AnalysisHeader, AnalysisSkip,
                AnalysisAwait, AnalysisAwaitMore, AnalysisVerify, AnalysisCopy,
                AnalysisTake, AnalysisLevel, AnalysisShow, AnalysisPopped
  <2>2. UNCHANGED Stream!streamVars
    BY <1>4, UnnoticedIsQuiet
  <2>3. UNCHANGED History!historyVars /\ UNCHANGED <<consumed, Pending>>
    BY <2>1, <2>2, QuietIsQuiet
  <2> QED BY <1>1, <2>3
<1>5. CASE AnalysisPopped("skip", 1, "level")
  <2>1. Stream!SkipByte /\ analysis = "skip"
    BY <1>5, SkipIsSkipByte DEF AnalysisPopped
  <2>2. History!PassAndNote
    BY <1>1, <1>2, <2>1, SameSteps DEF History!PassAndNote, NoteShown, NoteFlushed
  <2>3. Stream!DropFront(1) /\ 1 \in 0 .. Len(Pending)
    BY <1>1, <2>1 DEF Stream!SkipByte
  <2> QED BY <1>3, <2>2, <2>3 DEF History!HistoryNext
<1>6. CASE AnalysisPopped("bad", 4, "scan")
  <2>1. Stream!BadHeader /\ analysis = "bad"
    BY <1>6, BadIsBadHeader DEF AnalysisPopped, Stream!LastTurn
  <2>2. History!PassAndNote
    BY <1>1, <1>2, <2>1, SameSteps DEF History!PassAndNote, NoteShown, NoteFlushed
  <2>3. Stream!DropFront(4) /\ 4 \in 0 .. Len(Pending)
    BY <1>1, <2>1, HeaderBytes DEF Stream!BadHeader
  <2> QED BY <1>3, <2>2, <2>3 DEF History!HistoryNext
<1>7. CASE AnalysisCleared
  <2>1. Stream!Flush /\ analysis = "clear" /\ analysis' # "clear"
    BY <1>7, ClearIsFlush DEF AnalysisCleared
  <2>2. History!FlushAndNote
    BY <1>1, <1>2, <2>1, SameSteps DEF History!FlushAndNote, NoteShown, NoteFlushed
  <2>3. PICK n \in 1 .. Len(Pending) : Stream!DropFront(n)
    BY <2>1 DEF Stream!Flush
  <2>4. n \in 0 .. Len(Pending)
    BY <1>1
  <2> QED BY <1>3, <2>2, <2>3, <2>4 DEF History!HistoryNext
<1>8. CASE AnalysisPopped("picture", PictureSize, "show")
  <2>1. Stream!Show /\ analysis = "picture" /\ analysis' = "show"
    BY <1>8, PictureIsShow DEF AnalysisPopped, Stream!LastTurn
  <2>2. History!ShowAndNote
    BY <1>1, <1>2, <2>1, SameSteps DEF History!ShowAndNote, NoteShown, NoteFlushed
  <2>3. Stream!DropFront(FrameLength) /\ FrameLength \in 0 .. Len(Pending)
    <3>1. Stream!DropFront(FrameLength) /\ 1 + FrameLength + 3 <= Len(Pending)
      BY <2>1, HeaderBytes DEF Stream!Show, Stream!HeaderIn
    <3> QED BY <1>1, <3>1
  <2> QED BY <1>3, <2>2, <2>3 DEF History!HistoryNext
<1> QED
  BY <1>4, <1>5, <1>6, <1>7, <1>8 DEF AnalysisThread, Unnoticed

LEMMA AnalysisTypes ==
  ASSUME ChannelIInv, Trace, AnalysisThread, Remember
  PROVE  delivered' \in Seq(Byte) /\ RestInHand' /\ Unpushed' = Unpushed
         /\ delivered' = delivered
<1>1. UNCHANGED readerVars /\ UNCHANGED <<producer, todo, count>>
  BY AnalysisKeepsReader
     DEF AnalysisThread, AnalysisPoll, AnalysisEmpty, AnalysisHeader, AnalysisSkip,
         AnalysisAwait, AnalysisAwaitMore, AnalysisVerify, AnalysisPopped, AnalysisCopy,
         AnalysisTake, AnalysisShow, AnalysisLevel, AnalysisCleared, ringVars,
         producerVars, BeginPop, BeginClear, StoreValid, Read
<1> QED
  BY <1>1 DEF readerVars, Trace, RestInHand, Unpushed, Remember, NoteRead

-----------------------------------------------------------------------------
LEMMA InitTrace == HistoryInit => Trace
<1> SUFFICES ASSUME HistoryInit PROVE Trace
  OBVIOUS
<1>1. << >> \in Seq(Byte) /\ Len(<< >>) = 0
  BY EmptySeq
<1>2. Stream!StreamInit
  BY InitStream DEF HistoryInit
<1>3. History!HistoryInit
  BY <1>2 DEF HistoryInit, History!HistoryInit, Stream!StreamInit, History!StreamInit
<1>4. History!HistoryIInv
  BY <1>3, History!InitHistory, HistoryParameters
<1>5. Pending = << >> /\ rest = << >> /\ producer = "idle"
  BY <1>2 DEF HistoryInit, Init, RingInit, Stream!StreamInit
<1>6. Unpushed = << >>
  <2>1. Unpushed = SubSeq(rest, 0 + 1, Len(rest))
    BY <1>5 DEF Unpushed
  <2> QED BY <1>1, <1>5, <2>1, SubSeqFull
<1>7. << >> \o << >> = << >>
  BY <1>1, ConcatEmptySeq
<1> QED
  BY <1>1, <1>4, <1>5, <1>6, <1>7 DEF Trace, RestInHand, EveryByteIsKept, HistoryInit

LEMMA NextTrace ==
  InOrder /\ ChannelIInv /\ FifoIInv /\ ViewInv /\ TraceUntilQuit
    /\ [HistoryNext]_<<vars, historyVars>> => TraceUntilQuit'
<1> SUFFICES ASSUME InOrder, ChannelIInv, FifoIInv, ViewInv, TraceUntilQuit,
                    [HistoryNext]_<<vars, historyVars>>, ~ quit'
             PROVE  Trace'
  BY DEF TraceUntilQuit
<1>1. ~ quit /\ Trace
  <2>1. quit => quit'
    BY WhoseStep, ReaderAdds, AnalysisKeepsReader DEF HistoryNext, Interrupt, ownVars, vars
  <2> QED BY <2>1 DEF TraceUntilQuit
<1>2. ASSUME [History!HistoryNext]_(History!historyVars) PROVE History!HistoryIInv'
  BY <1>1, <1>2, History!NextHistory DEF Trace
<1>3. CASE ReadThread /\ Remember
  <2>1. [History!HistoryNext]_(History!historyVars) /\ consumed' = consumed
    BY <1>1, <1>3, ReaderIsDelivery
  <2>2. delivered' \in Seq(Byte) /\ RestInHand' /\ EveryByteIsKept'
    BY <1>1, <1>3, ReaderTypes, ReaderKeepsBytes
  <2> QED BY <1>1, <1>2, <2>1, <2>2 DEF Trace
<1>4. CASE AnalysisThread /\ Remember
  <2>1. /\ delivered' \in Seq(Byte) /\ RestInHand' /\ Unpushed' = Unpushed
        /\ delivered' = delivered
    BY <1>1, <1>4, AnalysisTypes
  <2>2. /\ [History!HistoryNext]_(History!historyVars)
        /\ consumed' \in Seq(Byte)
        /\ consumed' \o Pending' = consumed \o Pending
    BY <1>1, <1>4, AnalysisIsHistory
  <2>3. EveryByteIsKept'
    BY <1>1, <2>1, <2>2 DEF Trace, EveryByteIsKept
  <2> QED BY <1>2, <2>1, <2>2, <2>3 DEF Trace
<1>5. CASE UNCHANGED ownVars /\ Remember
  <2>1. UNCHANGED Stream!streamVars
    BY <1>5 DEF ownVars, ringVars, producerVars, consumerVars, analysisVars, Stream!streamVars,
                Pending, front, queue, PictureSeen, ShownSeen
  <2>2. UNCHANGED <<analysis, reader, rest, producer, todo, count>>
    BY <1>5 DEF ownVars, ringVars, producerVars, readerVars, analysisVars
  <2>3. UNCHANGED History!historyVars /\ UNCHANGED <<consumed, Pending>>
    BY <1>1, <2>1, <2>2, QuietIsQuiet, <1>5
  <2>4. UNCHANGED <<delivered, Unpushed>>
    BY <1>5, <2>2 DEF Remember, NoteRead, Unpushed
  <2> QED BY <1>1, <1>2, <2>2, <2>3, <2>4 DEF Trace, RestInHand, EveryByteIsKept
<1>6. CASE UNCHANGED <<vars, historyVars>>
  <2>1. UNCHANGED <<delivered, consumed, frames, flushed, Unpushed, reader, rest>>
    BY <1>6 DEF vars, ownVars, historyVars, ringVars, producerVars, readerVars, Unpushed
  <2>2. UNCHANGED <<Pending, PictureSeen, ShownSeen, quit>>
    BY <1>6 DEF vars, ownVars, ringVars, producerVars, consumerVars, analysisVars,
                Pending, front, queue, PictureSeen, ShownSeen
  <2>3. UNCHANGED History!historyVars
    BY <2>1, <2>2 DEF History!historyVars, History!streamVars
  <2> QED BY <1>1, <1>2, <2>1, <2>2, <2>3 DEF Trace, RestInHand, EveryByteIsKept
<1>7. CASE Interrupt
  BY <1>7 DEF Interrupt
<1> QED
  BY <1>3, <1>4, <1>5, <1>6, <1>7, WhoseStep DEF HistoryNext

(* What was delivered is the stream FrameHistory looks at, and more. *)
LEMMA DeliveredIsMore ==
  ASSUME ChannelIInv, Trace, ~ quit
  PROVE  /\ History!stream \in Seq(Byte) /\ delivered \in Seq(Byte)
         /\ Len(History!stream) <= Len(delivered)
         /\ \A k \in 1 .. Len(History!stream) : delivered[k] = History!stream[k]
<1>1. /\ consumed \in Seq(Byte) /\ Pending \in Seq(Byte) /\ delivered \in Seq(Byte)
      /\ History!stream = consumed \o Pending
      /\ delivered = (consumed \o Pending) \o Unpushed
  BY PendingFacts, SameStream DEF Trace, EveryByteIsKept
<1>2. History!stream \in Seq(Byte)
  BY <1>1, ConcatProperties
<1>3. Unpushed \in Seq(Byte)
  <2> DEFINE stored == IF producer = "push" /\ "index" \notin todo THEN count ELSE 0
  <2>1. rest \in Seq(Byte) /\ count \in Nat /\ Len(rest) \in Nat
    BY SizeAssumption DEF ChannelIInv, ChannelTypeOK, RingTypeOK
  <2>2. stored \in Nat
    BY <2>1
  <2>3. Unpushed = SubSeq(rest, stored + 1, Len(rest))
    BY DEF Unpushed
  <2> HIDE DEF stored
  <2>4. \A i \in stored + 1 .. Len(rest) : rest[i] \in Byte
    BY <2>1, <2>2
  <2> QED BY <2>1, <2>2, <2>3, <2>4, SubSeqProperties
<1>4. Len(History!stream) \in Nat /\ Len(Unpushed) \in Nat
  BY <1>2, <1>3
<1>5. /\ Len(delivered) = Len(History!stream) + Len(Unpushed)
      /\ \A k \in 1 .. Len(History!stream) + Len(Unpushed) : delivered[k] =
           IF k <= Len(History!stream) THEN History!stream[k]
                                       ELSE Unpushed[k - Len(History!stream)]
  BY <1>1, <1>2, <1>3, ConcatProperties
<1> QED BY <1>1, <1>2, <1>4, <1>5

(* What the trace says of the pictures *)
LEMMA TraceTells ==
  ASSUME ChannelIInv, Trace, ~ quit
  PROVE  NoPictureSkipped /\ PicturesAreGenuine
<1>1. /\ \A i \in 1 .. Len(consumed) :
           History!HeaderIn(delivered, i) /\ History!HeaderIn(delivered, i + History!FrameLength) =>
             \/ i \in frames
             \/ i \in flushed
             \/ \E j \in frames : i \in j + 1 .. j + History!FrameLength - 1
      /\ \A i \in frames :
           History!HeaderIn(delivered, i) /\ History!HeaderIn(delivered, i + History!FrameLength)
      /\ \A i, j \in frames : i < j => i + History!FrameLength <= j
      /\ \A i \in frames : (\A j \in frames : j <= i) =>
           PictureSeen = SubSeq(delivered, i + 4, i + History!FrameLength - 1)
  BY DeliveredIsMore, History!MoreBytes DEF Trace
<1>2. \A i : Genuine(i) <=> /\ History!HeaderIn(delivered, i)
                            /\ History!HeaderIn(delivered, i + History!FrameLength)
  BY SameStream DEF Genuine
<1> QED BY <1>1, <1>2, SameStream DEF NoPictureSkipped, PicturesAreGenuine

LEMMA TraceInvariant == InOrder /\ HistorySpec => [](ChannelIInv /\ TraceUntilQuit)
<1> SUFFICES ASSUME InOrder PROVE HistorySpec => [](ChannelIInv /\ TraceUntilQuit)
  OBVIOUS
<1>1. HistorySpec => Spec
  <2>1. HistoryInit => Init
    BY DEF HistoryInit
  <2>2. [HistoryNext]_<<vars, historyVars>> => [Next]_vars
    BY DEF HistoryNext
  <2> QED BY <2>1, <2>2, PTL DEF HistorySpec, Spec
<1>2. Spec => []FifoIInv
  BY ChannelUsesRing, FifoInvariant, PTL
<1>3. Spec => []ViewInv
  BY ViewInvariant
<1>4. HistoryInit => TraceUntilQuit
  BY InitTrace DEF TraceUntilQuit
<1>5. ChannelIInv /\ FifoIInv /\ ViewInv /\ TraceUntilQuit
        /\ [HistoryNext]_<<vars, historyVars>> => TraceUntilQuit'
  BY NextTrace
<1> QED
  BY <1>1, <1>2, <1>3, <1>4, <1>5, ChannelInvariant, PTL DEF HistorySpec

(* From the device to the analysis, through a ring two threads share without *)
(* a lock, no byte is lost, doubled or reordered until quit.                 *)
THEOREM BytesKept == InOrder /\ HistorySpec => []EveryByteIsKept
<1>1. TraceUntilQuit => EveryByteIsKept
  BY DEF TraceUntilQuit, Trace, EveryByteIsKept
<1> QED BY <1>1, TraceInvariant, PTL

(* Until quit the two threads of a channel pass over no picture of what the  *)
(* device delivered but those isClear drops and those within one that is     *)
(* shown.                                                                    *)
THEOREM NoPictureLost == InOrder /\ HistorySpec => []NoPictureSkipped
<1>1. ChannelIInv /\ TraceUntilQuit => NoPictureSkipped
  BY TraceTells DEF TraceUntilQuit, NoPictureSkipped
<1> QED BY <1>1, TraceInvariant, PTL

(* Until quit what is shown is what stands between two headers of what the   *)
(* device delivered, byte for byte, and no byte is shown twice.              *)
THEOREM PicturesGenuine == InOrder /\ HistorySpec => []PicturesAreGenuine
<1>1. ChannelIInv /\ TraceUntilQuit => PicturesAreGenuine
  BY TraceTells DEF TraceUntilQuit, PicturesAreGenuine
<1> QED BY <1>1, TraceInvariant, PTL

=============================================================================
