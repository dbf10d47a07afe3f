------------------------------- MODULE Channel ------------------------------
(***************************************************************************)
(* One channel of cxdma_receiver: the read thread (OnReadDataCh0/1) moves  *)
(* blocks from the xdma device into the channel's CircleBuffer, the        *)
(* analysis thread (OnAnalysisData, OnAnalysisData_1) looks for pictures   *)
(* in it.  The two functions of each pair differ in the members they name  *)
(* only, so one module stands for both channels.  The threads share the    *)
(* ring (module SpscRing, whose steps these actions take) and the flag     *)
(* quit, which the SIGINT handler sets.  The analysis thread shows its     *)
(* pictures under mtx0, which it shares with the other channel's and with  *)
(* the application (FrameStore has the threads that do).                   *)
(***************************************************************************)
EXTENDS SpscRing

CONSTANTS
  PictureSize,    (* m_Pic_Capicity_ch0: height * width * 2                 *)
  Blocks,         (* what one xdma_read may return, as bytes                *)
  MaxReads,       (* bound: how many times the device has data              *)
  Word,           (* the modulus of lenOfValid's type, 2^64                 *)
  FallsOff        (* isClear has no return statement: whether the compiler  *)
                  (* lets it run into the code behind it (GCC 8 and later)  *)

Header == <<18, 52, 86, 120>>      (* 0x12 0x34 0x56 0x78 *)

ASSUME ChannelAssumption ==
  /\ {18, 52, 86, 120} \subseteq Byte
  /\ PictureSize \in Nat \ {0}
  /\ Blocks \subseteq Seq(Byte) \ {<<>>}
  /\ MaxReads \in Nat
  /\ Word \in Nat /\ Word > Size
  /\ FallsOff \in BOOLEAN

(* The ring's parameters cover this use of it: pushData is called on a block *)
(* and on what is left of one, popData and readData on the three lengths.    *)
ASSUME RingUseAssumption ==
  /\ Blocks \subseteq Chunks
  /\ \A b \in Chunks : \A n \in 0 .. Len(b) : SubSeq(b, n + 1, Len(b)) \in Chunks
  /\ {1, 4, PictureSize} \subseteq Pops

VARIABLES
  quit,           (* set by signal_handle, never reset                      *)
  mtx0,           (* "free", "taken" by another thread, or "lost" to one    *)
                  (* that left it locked                                    *)
  reader,         (* where the read thread is                               *)
  device,         (* whether its _fpga_fd is open                           *)
  rest,           (* the bytes of rd_buf from t_count up to rd_n            *)
  reads,          (* how many blocks the device has delivered               *)
  analysis,       (* where the analysis thread is                           *)
  lenOfValid,     (* its local of that name                                 *)
  picture,        (* ret: the picture last shown; linear is m_pic_buf       *)
  frameCnt        (* how many were shown                                    *)

readerVars == <<reader, device, rest, reads>>
analysisVars == <<analysis, lenOfValid, picture, frameCnt>>
ownVars == <<ringVars, quit, readerVars, analysisVars>>
vars == <<ownVars, mtx0>>

FrameLength == 4 + PictureSize

valid == getLenOfValidData(m_ValidPosition, m_StorablePosition)

Init ==
  /\ RingInit
  /\ quit = FALSE
  /\ mtx0 = "free"
  /\ reader = "open"
  /\ device = "closed"
  /\ rest = <<>>
  /\ reads = 0
  /\ analysis = "poll"
  /\ lenOfValid = 0
  /\ picture = <<>>
  /\ frameCnt = 0

(* SIGINT *)
Interrupt ==
  /\ ~ quit
  /\ quit' = TRUE
  /\ UNCHANGED <<ringVars, mtx0, readerVars, analysisVars>>

-----------------------------------------------------------------------------
(* The read thread *)

(* xdma_open, on entry and after a failed read; it may fail. *)
ReaderOpen ==
  /\ reader = "open"
  /\ device' \in {"open", "closed"}
  /\ reader' = "loop"
  /\ UNCHANGED <<ringVars, quit, mtx0, rest, reads, analysisVars>>

(* while (!quit) *)
ReaderQuit ==
  /\ reader = "loop"
  /\ quit
  /\ reader' = "done"
  /\ UNCHANGED <<ringVars, quit, mtx0, device, rest, reads, analysisVars>>

(* xdma_read returns rd_n > 0 bytes. *)
ReaderRead ==
  /\ reader = "loop"
  /\ ~ quit
  /\ device = "open"
  /\ reads < MaxReads
  /\ rest' \in Blocks
  /\ reads' = reads + 1
  /\ reader' = "push"
  /\ UNCHANGED <<ringVars, quit, mtx0, device, analysisVars>>

(* xdma_read returns 0 or an error: no descriptor, EAGAIN, end of data. *)
ReaderReadFails ==
  /\ reader = "loop"
  /\ ~ quit
  /\ reader' = "close"
  /\ UNCHANGED <<ringVars, quit, mtx0, device, rest, reads, analysisVars>>

(* Mutant of ReaderPush: quit does not end the loop. *)
ReaderPushAnyway ==
  /\ reader = "push"
  /\ rest # <<>>
  /\ BeginPush(rest)
  /\ reader' = "pushing"
  /\ UNCHANGED <<quit, mtx0, device, rest, reads, analysisVars>>

(* while (t_count < rd_n && !quit) pushData(rd_buf + t_count, rd_n - t_count) *)
ReaderPush ==
  /\ reader = "push"
  /\ rest # <<>>
  /\ ~ quit
  /\ BeginPush(rest)
  /\ reader' = "pushing"
  /\ UNCHANGED <<quit, mtx0, device, rest, reads, analysisVars>>

(* ... one of the stores of that call becomes visible ... *)
ReaderStore ==
  /\ CopyFirst \/ CopySecond \/ StoreIndex
  /\ UNCHANGED <<quit, mtx0, readerVars, analysisVars>>

(* Mutant of ReaderPushed: t_count moves on by what was asked for. *)
ReaderPushedWhole ==
  /\ EndPush
  /\ rest' = <<>>
  /\ reader' = "push"
  /\ UNCHANGED <<quit, mtx0, device, reads, analysisVars>>

(* ... and t_count += t_perCount. *)
ReaderPushed ==
  /\ EndPush
  /\ rest' = SubSeq(rest, count + 1, Len(rest))
  /\ reader' = "push"
  /\ UNCHANGED <<quit, mtx0, device, reads, analysisVars>>

(* The block is stored, or given up because of quit. *)
ReaderNextBlock ==
  /\ reader = "push"
  /\ rest = <<>> \/ quit
  /\ rest' = <<>>
  /\ reader' = "loop"
  /\ UNCHANGED <<ringVars, quit, mtx0, device, reads, analysisVars>>

(* xdma_close; sleep(5) *)
ReaderClose ==
  /\ reader = "close"
  /\ device' = "closed"
  /\ reader' = "open"
  /\ UNCHANGED <<ringVars, quit, mtx0, rest, reads, analysisVars>>

ReadThread ==
  \/ ReaderOpen
  \/ ReaderQuit
  \/ ReaderRead
  \/ ReaderReadFails
  \/ ReaderPush
  \/ ReaderStore
  \/ ReaderPushed
  \/ ReaderNextBlock
  \/ ReaderClose

-----------------------------------------------------------------------------
(* The analysis thread *)

(* The four bytes from position p on, taken round the end of t_buffer. *)
HeaderAt(p) == \A k \in 0 .. 3 : m_Buffer[Advance(p, k)] = Header[k + 1]

(* while (!quit) lenOfValid = getLenOfValidData() *)
AnalysisPoll ==
  /\ analysis = "poll"
  /\ IF quit THEN /\ analysis' = "done"
                  /\ UNCHANGED lenOfValid
             ELSE /\ analysis' = "scan"
                  /\ lenOfValid' = valid
  /\ UNCHANGED <<ringVars, quit, mtx0, readerVars, picture, frameCnt>>

(* while (lenOfValid >= 4 && !quit) ends *)
AnalysisEmpty ==
  /\ analysis = "scan"
  /\ lenOfValid < 4 \/ quit
  /\ analysis' = "poll"
  /\ UNCHANGED <<ringVars, quit, mtx0, readerVars, lenOfValid, picture, frameCnt>>

(* The four bytes at the valid position are a header ... *)
AnalysisHeader ==
  /\ analysis = "scan"
  /\ lenOfValid >= 4 /\ ~ quit
  /\ HeaderAt(m_ValidPosition)
  /\ analysis' = "await"
  /\ UNCHANGED <<ringVars, quit, mtx0, readerVars, lenOfValid, picture, frameCnt>>

(* Mutant of AnalysisSkip: four bytes are passed over at once. *)
AnalysisSkipFour ==
  /\ analysis = "scan"
  /\ lenOfValid >= 4 /\ ~ quit
  /\ ~ HeaderAt(m_ValidPosition)
  /\ BeginPop(4)
  /\ analysis' = "skip"
  /\ UNCHANGED <<quit, mtx0, readerVars, lenOfValid, picture, frameCnt>>

(* ... or they are not, and popData(1) begins. *)
AnalysisSkip ==
  /\ analysis = "scan"
  /\ lenOfValid >= 4 /\ ~ quit
  /\ ~ HeaderAt(m_ValidPosition)
  /\ BeginPop(1)
  /\ analysis' = "skip"
  /\ UNCHANGED <<quit, mtx0, readerVars, lenOfValid, picture, frameCnt>>

(* Mutant of Enough: it waits for more than the ring may be able to hold. *)
EnoughAndMore(len) == len > 4 + FrameLength

(* The header, the picture and the next header have been received. *)
Enough(len) == len >= 4 + FrameLength

(* Mutant of AnalysisAwait: the length is not loaded again. *)
AnalysisAwaitStale ==
  /\ analysis = "await"
  /\ analysis' = "verify"
  /\ UNCHANGED <<ringVars, quit, mtx0, readerVars, lenOfValid, picture, frameCnt>>

(* while ((lenOfValid = getLenOfValidData()) < 8+m_Pic_Capicity && !quit): *)
(* the length is loaded first ...                                          *)
AnalysisAwait ==
  /\ analysis = "await"
  /\ lenOfValid' = valid
  /\ analysis' = "verify"
  /\ UNCHANGED <<ringVars, quit, mtx0, readerVars, picture, frameCnt>>

(* Mutant of AnalysisAwaitMore: quit does not end the wait. *)
AnalysisAwaitAnyway ==
  /\ analysis = "verify"
  /\ ~ Enough(lenOfValid)
  /\ analysis' = "await"
  /\ UNCHANGED <<ringVars, quit, mtx0, readerVars, lenOfValid, picture, frameCnt>>

(* ... and then both are tested. *)
AnalysisAwaitMore ==
  /\ analysis = "verify"
  /\ ~ Enough(lenOfValid) /\ ~ quit
  /\ analysis' = "await"
  /\ UNCHANGED <<ringVars, quit, mtx0, readerVars, lenOfValid, picture, frameCnt>>

(* Mutant of AnalysisVerify: the place of the next header leaves out the    *)
(* four bytes of this one.                                                  *)
AnalysisVerifyTooEarly ==
  /\ analysis = "verify"
  /\ Enough(lenOfValid) \/ quit
  /\ analysis' = IF HeaderAt(m_ValidPosition + PictureSize) THEN "header" ELSE "bad"
  /\ BeginPop(4)
  /\ UNCHANGED <<quit, mtx0, readerVars, lenOfValid, picture, frameCnt>>

(* The loop is left, by quit also when the bytes are not there.  A header    *)
(* behind the picture makes this one genuine; bytes the read thread is       *)
(* copying at that moment may be seen either way.  In both cases popData(4). *)
AnalysisVerify ==
  /\ analysis = "verify"
  /\ Enough(lenOfValid) \/ quit
  /\ LET next  == m_ValidPosition + FrameLength
         racing == {Advance(next, k) : k \in 0 .. 3} \cap InFlight # {}
     IN \/ /\ HeaderAt(next) \/ racing
           /\ analysis' = "header"
        \/ /\ ~ HeaderAt(next) \/ racing
           /\ analysis' = "bad"
  /\ BeginPop(4)
  /\ UNCHANGED <<quit, mtx0, readerVars, lenOfValid, picture, frameCnt>>

(* Mutant of AnalysisPopped: lenOfValid is not counted down. *)
AnalysisPoppedUncounted(from, n, to) ==
  /\ analysis = from
  /\ StoreValid
  /\ analysis' = to
  /\ UNCHANGED <<quit, mtx0, readerVars, lenOfValid, picture, frameCnt>>

(* Mutant of AnalysisPopped: lenOfValid is a signed integer. *)
AnalysisPoppedSigned(from, n, to) ==
  /\ analysis = from
  /\ StoreValid
  /\ lenOfValid' = lenOfValid - n
  /\ analysis' = to
  /\ UNCHANGED <<quit, mtx0, readerVars, picture, frameCnt>>

(* popData stores the position, and the caller counts lenOfValid down. *)
AnalysisPopped(from, n, to) ==
  /\ analysis = from
  /\ StoreValid
  /\ lenOfValid' = (lenOfValid - n) % Word
  /\ analysis' = to
  /\ UNCHANGED <<quit, mtx0, readerVars, picture, frameCnt>>

(* readData into m_pic_buf *)
AnalysisCopy ==
  /\ analysis = "copy"
  /\ Read(PictureSize)
  /\ analysis' = "take"
  /\ UNCHANGED <<quit, mtx0, readerVars, lenOfValid, picture, frameCnt>>

AnalysisTake ==
  /\ analysis = "take"
  /\ BeginPop(PictureSize)
  /\ analysis' = "picture"
  /\ UNCHANGED <<quit, mtx0, readerVars, lenOfValid, picture, frameCnt>>

(* mtx0.lock(), with no look at quit; cvtColor writes ret; mtx0.unlock(): for *)
(* whoever else wants mtx0 that is one step.                                  *)
AnalysisShow ==
  /\ analysis = "show"
  /\ mtx0 = "free"
  /\ picture' = linear
  /\ frameCnt' = frameCnt + 1
  /\ analysis' = "scan"
  /\ UNCHANGED <<ringVars, quit, mtx0, readerVars, lenOfValid>>

(* if (getLenOfValidData() > 0.8*m_Size) isClear() *)
AnalysisLevel ==
  /\ analysis = "level"
  /\ IF 10 * valid > 8 * Size
       THEN /\ BeginClear
            /\ analysis' = "clear"
       ELSE /\ analysis' = "scan"
            /\ UNCHANGED ringVars
  /\ UNCHANGED <<quit, mtx0, readerVars, lenOfValid, picture, frameCnt>>

(* isClear stores the position and breaks off the inner loop; without its   *)
(* return statement the thread may be lost in other code.                   *)
AnalysisCleared ==
  /\ analysis = "clear"
  /\ StoreValid
  /\ analysis' \in {"poll"} \cup (IF FallsOff THEN {"lost"} ELSE {})
  /\ UNCHANGED <<quit, mtx0, readerVars, lenOfValid, picture, frameCnt>>

AnalysisThread ==
  \/ AnalysisPoll
  \/ AnalysisEmpty
  \/ AnalysisHeader
  \/ AnalysisSkip
  \/ AnalysisAwait
  \/ AnalysisAwaitMore
  \/ AnalysisVerify
  \/ AnalysisPopped("skip", 1, "level")
  \/ AnalysisPopped("bad", 4, "scan")
  \/ AnalysisPopped("header", 4, "copy")
  \/ AnalysisCopy
  \/ AnalysisTake
  \/ AnalysisPopped("picture", PictureSize, "show")
  \/ AnalysisShow
  \/ AnalysisLevel
  \/ AnalysisCleared

-----------------------------------------------------------------------------
(* The other threads that use mtx0: the other channel's analysis thread, Wait *)
(* and getFrame, any of which may already have it when this one comes for it. *)
(* What they do with it at other times is nothing to this channel.            *)

OthersLock ==
  /\ analysis = "show"
  /\ mtx0 = "free"
  /\ mtx0' = "taken"
  /\ UNCHANGED ownVars

OthersUnlock ==
  /\ mtx0 = "taken"
  /\ mtx0' = "free"
  /\ UNCHANGED ownVars

(* vconcat throws in getFrame(frame), between lock and unlock. *)
OthersThrow ==
  /\ mtx0 = "taken"
  /\ mtx0' = "lost"
  /\ UNCHANGED ownVars

Others == OthersLock \/ OthersUnlock \/ OthersThrow

(* It waits for a mutex nobody will unlock. *)
Stuck == analysis = "show" /\ mtx0 = "lost"

-----------------------------------------------------------------------------
(* Both threads have returned, or one of them never will. *)
Terminated ==
  /\ reader = "done"
  /\ analysis \in {"done", "lost"} \/ Stuck
  /\ UNCHANGED vars

Next == Interrupt \/ ReadThread \/ AnalysisThread \/ Others \/ Terminated

Spec == Init /\ [][Next]_vars

(* Both are threads of their own that the system schedules: neither stops    *)
(* between two steps, and whoever has mtx0 comes to its unlock, or to the    *)
(* exception.  std::mutex promises no order among those who want it, but the *)
(* others sleep outside it (main 10 ms, Wait 30 ms, the other channel until  *)
(* its next picture), so that a thread that waits for it gets it unless it   *)
(* is lost.  Nothing is assumed of the signal, and nothing of the device     *)
(* beyond that xdma_read and xdma_open return.                               *)
Fairness ==
  /\ WF_vars(ReadThread)
  /\ WF_vars(AnalysisThread)
  /\ SF_vars(AnalysisShow)
  /\ WF_vars(OthersUnlock \/ OthersThrow)

FairSpec == Spec /\ Fairness

-----------------------------------------------------------------------------
(* Properties *)

ChannelTypeOK ==
  /\ RingTypeOK
  /\ quit \in BOOLEAN
  /\ mtx0 \in {"free", "taken", "lost"}
  /\ reader \in {"open", "loop", "push", "pushing", "close", "done"}
  /\ device \in {"open", "closed"}
  /\ rest \in Seq(Byte)
  /\ reads \in 0 .. MaxReads
  /\ analysis \in {"poll", "scan", "await", "verify", "header", "bad", "copy",
                   "take", "picture", "show", "skip", "level", "clear",
                   "done", "lost"}
  /\ lenOfValid \in 0 .. Word - 1
  /\ picture \in Seq(Byte)
  /\ frameCnt \in Nat

(* The analysis thread looks at header bytes on the strength of a length it  *)
(* loaded once and counts down itself while the read thread goes on filling  *)
(* the ring: until quit that length never promises bytes the ring lacks.     *)
(* Between popData and "lenOfValid -= n" the ring is ahead of the local by n.*)
LengthIsSound ==
  ~ quit /\ analysis \in {"scan", "verify", "copy", "level"} => lenOfValid <= valid

(* A block read from the device is pushed in full: the loop that retries on  *)
(* a full ring ends, because the analysis thread makes room or is told to    *)
(* stop.  Neither thread waits for the other for ever, but when the analysis *)
(* thread is stuck at a mutex that was lost: then the ring fills and the     *)
(* read thread retries until quit.                                           *)
BlockIsStored == reader \in {"push", "pushing"} ~> reader = "loop" \/ Stuck

(* How many of its steps the analysis thread is away from taking bytes out   *)
(* of a full ring, at the most *)
RoomFrom(place, len) ==
  [skip |-> 1, bad |-> 1, header |-> 1, picture |-> 1, clear |-> 1, take |-> 2,
   copy |-> 3, verify |-> IF Enough(len) THEN 2 ELSE 4, await |-> 3,
   scan |-> IF len >= 4 THEN 4 ELSE 6, poll |-> 5, level |-> 7, show |-> 7,
   lost |-> 0, done |-> 0][place]

RoomLeft == RoomFrom(analysis, lenOfValid)

(* A full ring never keeps both threads waiting for it.  While the read      *)
(* thread retries in vain, every step of the analysis thread, wherever in    *)
(* its loops the ring ran full on it and whatever length it loaded before,   *)
(* takes bytes out or brings it nearer to that, and nothing the read thread  *)
(* does puts it off, in a ring with room for a picture between two headers.  *)
(* (In "show" the next step has to wait for mtx0.)                           *)
RoomIsMade ==
  [][Size > 4 + FrameLength /\ valid = Size - 1 /\ ~ quit' =>
       /\ AnalysisThread => \/ valid' < valid
                            \/ valid' = valid /\ RoomLeft' < RoomLeft
       /\ ReadThread => valid' = valid /\ RoomLeft' = RoomLeft]_vars

(* isClear empties the ring, as its comment says, and returns to the thread  *)
(* that called it, which then goes on looking for headers.                   *)
ClearReturns == analysis = "clear" ~> analysis = "poll"

(* SIGINT ends both threads, wherever in their loops it finds them, but an   *)
(* analysis thread that waits for a mutex that was lost: it never looks at   *)
(* quit again.  The read thread ends all the same.                           *)
QuitEnds == quit ~> reader = "done" /\ (analysis = "done" \/ Stuck)

(* How many steps each place of a thread is away from its end, at the most,  *)
(* once quit is set *)
ReaderLeft ==
  [done |-> 0, loop |-> 1, open |-> 2, push |-> 2, close |-> 3, pushing |-> 3]
AnalysisLeft ==
  [done |-> 0, lost |-> 0, poll |-> 1, scan |-> 2, clear |-> 2, show |-> 3, bad |-> 3,
   level |-> 3, picture |-> 4, skip |-> 4, take |-> 5, copy |-> 6, header |-> 7,
   verify |-> 8, await |-> 9]

StoreLeft(store) == IF store \in todo THEN 1 ELSE 0
StepsLeft == ReaderLeft[reader] + AnalysisLeft[analysis]
               + StoreLeft("first") + StoreLeft("second") + StoreLeft("index")

(* From SIGINT on no loop is gone through once more: every step of either    *)
(* thread, wherever the signal found them, a push half way included, is one  *)
(* of the fifteen or fewer that are left.  What QuitEnds adds to it is that  *)
(* neither stops on the way.                                                 *)
QuitIsPrompt == [][quit => StepsLeft' < StepsLeft]_ownVars

-----------------------------------------------------------------------------
(* Refinement *)

(* The bytes in the ring, as the analysis thread sees them *)
queue == Contents(m_Buffer, m_ValidPosition, m_StorablePosition)

(* The header of a picture it is still taking, which it has popped already, *)
(* is still pending for the stream; the picture is taken when it is popped, *)
(* before the thread has mtx0.                                              *)
front == IF analysis \in {"copy", "take", "picture"} THEN Header ELSE <<>>
Pending == front \o queue
PictureSeen == IF analysis = "show" THEN linear ELSE picture
ShownSeen == IF analysis = "show" THEN frameCnt + 1 ELSE frameCnt

Stream == INSTANCE FrameStream WITH
            Capacity <- Size + 3,
            Level    <- (8 * Size) \div 10,
            Offers   <- Chunks,
            pending  <- Pending,
            picture  <- PictureSeen,
            shown    <- ShownSeen,
            stopping <- quit

(* For every interleaving of its two threads and of SIGINT a channel cuts    *)
(* the byte stream into pictures as FrameStream does.                        *)
ChannelIsStream == Stream!StreamSpec

=============================================================================
