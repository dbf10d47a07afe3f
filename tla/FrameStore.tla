----------------------------- MODULE FrameStore -----------------------------
(***************************************************************************)
(* The newest picture of each channel (ret for channel 0, ret_1 for        *)
(* channel 1), the mutex mtx0 around them, and the threads that use them:  *)
(* each channel's analysis thread, which converts a picture into its Mat;  *)
(* the application (main), which starts the receiver, asks for frames and  *)
(* returns when it has been interrupted, as cxdma_demo does; and whoever   *)
(* of the application calls Wait.                                          *)
(*                                                                         *)
(* A picture is its number; a Mat has a size and two halves, so that one   *)
(* that is being written can be told from a whole one, and may have some   *)
(* of Wait's NO INPUT drawn over it.  The channels come in as what         *)
(* OnAnalysisData does with a complete picture (Channel.tla).              *)
(***************************************************************************)
EXTENDS Integers

CONSTANT
  MaxPictures    (* pictures a channel shows in a behaviour               *)

ASSUME StoreAssumption == MaxPictures \in Nat

Channels == {0, 1}

VARIABLES
  enabled,      (* m_enabled_ch0 and m_enabled_ch1                         *)
  resolution,   (* of each channel, as configured                          *)
  quit,
  mats,         (* ret and ret_1                                           *)
  holder,       (* of mtx0: "nobody", a thread, or "lost" to an exception  *)
  analysis,     (* where each analysis thread is: "off" before its start,  *)
                (* "away" from the Mats with its ring, or ended            *)
  shown,        (* how many pictures each has finished with                *)
  own,          (* whether the pixels it writes still belong to the Mat    *)
  main,         (* where the application is                                *)
  clone,        (* frame0 inside getFrame(frame0, frame1)                  *)
  got,          (* the frames main got last                                *)
  waiter,       (* where the thread in Wait is                             *)
  blanked       (* ghost: pictures begun when the Mat was last replaced    *)

config == <<enabled, resolution>>
channelVars == <<analysis, shown>>
mainVars == <<main, clone, got>>
storeVars == <<config, quit, mats, holder, channelVars, own, mainVars, waiter, blanked>>

Sizes == {"none", "1080", "720", "540"}
Mats == [size : Sizes, upper : 0 .. MaxPictures, lower : 0 .. MaxPictures,
         text : {"none", "some"}]

(* Mutant of Blank: rows and columns the wrong way round. *)
BlankTurned == [size |-> "1920", upper |-> 0, lower |-> 0, text |-> "none"]

(* cv::Mat(1080, 1920, CV_8UC3), and a default Mat; both without a picture *)
Blank == [size |-> "1080", upper |-> 0, lower |-> 0, text |-> "none"]
Empty == [size |-> "none", upper |-> 0, lower |-> 0, text |-> "none"]

(* What a caller of getFrame has; its size does not matter. *)
Frames == [upper : 0 .. MaxPictures, lower : 0 .. MaxPictures, text : {"none", "some"}]
Frame(mat) == [upper |-> mat.upper, lower |-> mat.lower, text |-> mat.text]

Whole(mat) == mat.upper = mat.lower

StoreInit ==
  /\ enabled \in SUBSET Channels
  /\ resolution \in [Channels -> {"1080", "720"}]
  /\ quit = FALSE
  /\ mats = [c \in Channels |-> Empty]
  /\ holder = "nobody"
  /\ analysis = [c \in Channels |-> "off"]
  /\ shown = [c \in Channels |-> 0]
  /\ own = [c \in Channels |-> FALSE]
  /\ main = "start0"
  /\ clone = Empty
  /\ got = [c \in Channels |-> Frame(Empty)]
  /\ waiter = "out"
  /\ blanked = [c \in Channels |-> 0]

(* The process has not come to its end. *)
Up == main # "exited"

signal_handle ==
  /\ Up
  /\ quit' = TRUE
  /\ UNCHANGED <<config, mats, holder, channelVars, own, mainVars, waiter, blanked>>

-----------------------------------------------------------------------------
(* The analysis threads: mtx0.lock(); cvtColor(t_yuvimg, ret); unlock() *)

Busy(c) == analysis[c] \in {"locked", "writing"}

(* Mutant of Lock: the analysis threads do not lock what main locks, as if *)
(* each channel had a mutex of its own (there is an mtx1, unused).         *)
LockOwn(c) ==
  /\ Up
  /\ analysis[c] = "away"
  /\ shown[c] < MaxPictures
  /\ analysis' = [analysis EXCEPT ![c] = "locked"]
  /\ UNCHANGED <<config, quit, mats, holder, shown, own, mainVars, waiter, blanked>>

Lock(c) ==
  /\ Up
  /\ analysis[c] = "away"
  /\ shown[c] < MaxPictures
  /\ holder = "nobody"
  /\ holder' = "analysis"
  /\ analysis' = [analysis EXCEPT ![c] = "locked"]
  /\ UNCHANGED <<config, quit, mats, shown, own, mainVars, waiter, blanked>>

(* Mutant of Convert: the picture is written to a copy of the Mat. *)
ConvertCopy(c) ==
  /\ Up
  /\ analysis[c] = "locked"
  /\ analysis' = [analysis EXCEPT ![c] = "writing"]
  /\ own' = [own EXCEPT ![c] = FALSE]
  /\ UNCHANGED <<config, quit, mats, holder, shown, mainVars, waiter, blanked>>

(* cvtColor gives the Mat the size of the picture and writes to its pixels, *)
(* over whatever was drawn there; it holds on to them when another thread   *)
(* replaces the Mat meanwhile.                                              *)
(* (Two threads at a Mat's header may also end the process, then nothing    *)
(* more happens.)                                                           *)
Convert(c) ==
  /\ Up
  /\ analysis[c] = "locked"
  /\ analysis' = [analysis EXCEPT ![c] = "writing"]
  /\ mats' = [mats EXCEPT ![c].size = resolution[c], ![c].upper = shown[c] + 1,
                          ![c].text = "none"]
  /\ own' = [own EXCEPT ![c] = TRUE]
  /\ UNCHANGED <<config, quit, holder, shown, mainVars, waiter, blanked>>

Unlock(c) ==
  /\ Up
  /\ analysis[c] = "writing"
  /\ analysis' = [analysis EXCEPT ![c] = "away"]
  /\ shown' = [shown EXCEPT ![c] = @ + 1]
  /\ mats' = IF own[c] THEN [mats EXCEPT ![c].lower = shown[c] + 1] ELSE mats
  /\ holder' = "nobody"
  /\ UNCHANGED <<config, quit, own, mainVars, waiter, blanked>>

-----------------------------------------------------------------------------
(* Sdireader_Init and Start *)

StartChannel(c, here, next) ==
  /\ main = here
  /\ analysis' = IF c \in enabled THEN [analysis EXCEPT ![c] = "away"] ELSE analysis
  /\ main' = next
  /\ UNCHANGED <<config, quit, mats, holder, shown, own, clone, got, waiter, blanked>>

(* "ret = cv::Mat(1080, 1920, CV_8UC3)" without mtx0: the pixels an analysis *)
(* thread is writing to are no longer those of the Mat.                      *)
Replace(c) ==
  /\ mats' = [mats EXCEPT ![c] = Blank]
  /\ own' = [own EXCEPT ![c] = FALSE]
  /\ blanked' = [blanked EXCEPT ![c] = shown[c] + (IF Busy(c) THEN 1 ELSE 0)]

(* Mutant of StartReplaces: only the Mats of enabled channels are made. *)
StartReplacesEnabled(c, here, next) ==
  /\ main = here
  /\ main' = next
  /\ IF c \in enabled THEN Replace(c) ELSE UNCHANGED <<mats, own, blanked>>
  /\ UNCHANGED <<config, quit, holder, channelVars, clone, got, waiter>>

StartReplaces(c, here, next) ==
  /\ main = here
  /\ main' = next
  /\ Replace(c)
  /\ UNCHANGED <<config, quit, holder, channelVars, clone, got, waiter>>

Start ==
  \/ StartChannel(0, "start0", "start1")
  \/ StartChannel(1, "start1", "blank1")
  \/ StartReplaces(1, "blank1", "blank0")
  \/ StartReplaces(0, "blank0", "idle")

-----------------------------------------------------------------------------
(* getFrame(frame0, frame1): both Mats are cloned under mtx0. *)

(* Mutant of getFramesLock: the first clone is made before mtx0 is locked, *)
(* and mtx0 only guards the second.                                        *)
getFramesLate ==
  /\ main = "idle"
  /\ ~quit
  /\ clone' = mats[0]
  /\ main' = "cloning"
  /\ UNCHANGED <<config, quit, mats, holder, channelVars, own, got, waiter, blanked>>

getFramesLock ==
  /\ main = "idle"
  /\ ~quit
  /\ holder = "nobody"
  /\ holder' = "main"
  /\ clone' = mats[0]
  /\ main' = "cloning"
  /\ UNCHANGED <<config, quit, mats, channelVars, own, got, waiter, blanked>>

(* Mutant of getFramesDone: a frame1 with a picture is not cloned again. *)
getFramesOnce ==
  /\ main = "cloning"
  /\ got' = [c \in Channels |-> IF c = 0 THEN Frame(clone)
               ELSE IF got[c].upper = 0 THEN Frame(mats[c]) ELSE got[c]]
  /\ clone' = Empty
  /\ holder' = "nobody"
  /\ main' = "idle"
  /\ UNCHANGED <<config, quit, mats, channelVars, own, waiter, blanked>>

(* Mutant of getFramesDone: the frames come out the wrong way round. *)
getFramesSwapped ==
  /\ main = "cloning"
  /\ got' = [c \in Channels |-> Frame(IF c = 0 THEN mats[1] ELSE clone)]
  /\ clone' = Empty
  /\ holder' = "nobody"
  /\ main' = "idle"
  /\ UNCHANGED <<config, quit, mats, channelVars, own, waiter, blanked>>

getFramesDone ==
  /\ main = "cloning"
  /\ got' = [c \in Channels |-> Frame(IF c = 0 THEN clone ELSE mats[c])]
  /\ clone' = Empty
  /\ holder' = "nobody"
  /\ main' = "idle"
  /\ UNCHANGED <<config, quit, mats, channelVars, own, waiter, blanked>>

(* getFrame(frame): vconcat throws when the widths differ, past the unlock; *)
(* main is taken to catch the exception.                                    *)
getFrameLock ==
  /\ main = "idle"
  /\ ~quit
  /\ holder = "nobody"
  /\ holder' = "main"
  /\ main' = "stacking"
  /\ UNCHANGED <<config, quit, mats, channelVars, own, clone, got, waiter, blanked>>

(* Mutant of getFrameStack: while a channel has no picture it returns early, *)
(* past the unlock.                                                          *)
getFrameStackBlank ==
  /\ main = "stacking"
  /\ main' = "idle"
  /\ IF mats[0].size = mats[1].size /\ \A c \in Channels : mats[c].upper # 0
       THEN got' = [c \in Channels |-> Frame(mats[c])] /\ holder' = "nobody"
       ELSE holder' = "lost" /\ UNCHANGED got
  /\ UNCHANGED <<config, quit, mats, channelVars, own, clone, waiter, blanked>>

getFrameStack ==
  /\ main = "stacking"
  /\ main' = "idle"
  /\ IF mats[0].size = mats[1].size
       THEN got' = [c \in Channels |-> Frame(mats[c])] /\ holder' = "nobody"
       ELSE holder' = "lost" /\ UNCHANGED got
  /\ UNCHANGED <<config, quit, mats, channelVars, own, clone, waiter, blanked>>

(* main's loop ends on quit; the process ends with it, detached threads and *)
(* all, wherever they are.                                                  *)
MainReturns ==
  /\ main = "idle"
  /\ quit
  /\ main' = "exited"
  /\ UNCHANGED <<config, quit, mats, holder, channelVars, own, clone, got, waiter, blanked>>

-----------------------------------------------------------------------------
(* Wait, in a second thread of the application, once Start has returned; it *)
(* does not come back.                                                      *)

StartHasReturned == main \in {"idle", "cloning", "stacking"}

WaitReplaces(c, here, next) ==
  /\ StartHasReturned
  /\ waiter = here
  /\ waiter' = next
  /\ Replace(c)
  /\ UNCHANGED <<config, quit, holder, channelVars, mainVars>>

(* putText(ret_1, "NO INPUT", ...) without mtx0, in any number of strokes: into *)
(* the Mat as it is by then, with a picture in it or not, or into pixels that   *)
(* a conversion has meanwhile given up or written over.                         *)
WaitDraws(c, here, next) ==
  /\ Up
  /\ waiter = here
  /\ waiter' \in {here, next}
  /\ \/ mats' = [mats EXCEPT ![c].text = "some"]
     \/ mats[c].upper # 0 /\ UNCHANGED mats
  /\ UNCHANGED <<config, quit, holder, channelVars, own, mainVars, blanked>>

(* Mutant of WaitLocks: mtx0 is locked around vconcat only. *)
WaitLocksLate ==
  /\ Up
  /\ waiter = "looping"
  /\ \A c \in Channels : mats[c].size # "none"
  /\ waiter' = "resize0"
  /\ UNCHANGED <<config, quit, mats, holder, channelVars, own, mainVars, blanked>>

(* The Mats are not empty once Start has returned. *)
WaitLocks ==
  /\ Up
  /\ waiter = "looping"
  /\ \A c \in Channels : mats[c].size # "none"
  /\ holder = "nobody"
  /\ holder' = "waiter"
  /\ waiter' = "resize0"
  /\ UNCHANGED <<config, quit, mats, channelVars, own, mainVars, blanked>>

WaitResizes(c, here, next) ==
  /\ Up
  /\ waiter = here
  /\ mats' = [mats EXCEPT ![c].size = "540"]
  /\ waiter' = next
  /\ UNCHANGED <<config, quit, holder, channelVars, own, mainVars, blanked>>

(* vconcat into a local Mat *)
WaitUnlocks ==
  /\ Up
  /\ waiter = "stack"
  /\ holder' = "nobody"
  /\ waiter' = "looping"
  /\ UNCHANGED <<config, quit, mats, channelVars, own, mainVars, blanked>>

Wait ==
  \/ WaitReplaces(1, "out", "blank0")
  \/ WaitReplaces(0, "blank0", "text1")
  \/ WaitDraws(1, "text1", "text0")
  \/ WaitDraws(0, "text0", "looping")
  \/ WaitLocks
  \/ WaitResizes(0, "resize0", "resize1")
  \/ WaitResizes(1, "resize1", "stack")
  \/ WaitUnlocks

-----------------------------------------------------------------------------
AnalysisStep(c) == Lock(c) \/ Convert(c) \/ Unlock(c)

MainStep == getFramesLock \/ getFramesDone \/ getFrameLock \/ getFrameStack

StoreNext ==
  \/ signal_handle
  \/ \E c \in Channels : AnalysisStep(c)
  \/ Start
  \/ MainStep
  \/ MainReturns
  \/ Wait

(* Every thread goes on.  std::mutex promises no order among those who want *)
(* it, but all of them sleep outside it: main 10 ms in waitKey, Wait 30 ms, *)
(* an analysis thread until its next picture is complete, so that whoever   *)
(* tries again and again gets it.  Nobody has to send the signal or to call *)
(* Wait.                                                                    *)
StoreSpec ==
  /\ StoreInit
  /\ [][StoreNext]_storeVars
  /\ WF_storeVars(Start)
  /\ \A c \in Channels : WF_storeVars(Convert(c) \/ Unlock(c))
  /\ SF_storeVars(getFramesLock \/ getFrameLock)
  /\ WF_storeVars(getFramesDone \/ getFrameStack \/ MainReturns)
  /\ WF_storeVars(Wait /\ waiter # "out")

-----------------------------------------------------------------------------
(* Properties *)

StoreTypeOK ==
  /\ enabled \in SUBSET Channels
  /\ resolution \in [Channels -> {"1080", "720"}]
  /\ quit \in BOOLEAN
  /\ mats \in [Channels -> Mats]
  /\ holder \in {"nobody", "main", "analysis", "waiter", "lost"}
  /\ analysis \in [Channels -> {"off", "away", "locked", "writing"}]
  /\ shown \in [Channels -> 0 .. MaxPictures]
  /\ own \in [Channels -> BOOLEAN]
  /\ main \in {"start0", "start1", "blank1", "blank0", "idle", "cloning",
               "stacking", "exited"}
  /\ clone \in Mats
  /\ got \in [Channels -> Frames]
  /\ waiter \in {"out", "blank0", "text1", "text0", "looping", "resize0", "resize1",
                 "stack"}
  /\ blanked \in [Channels -> 0 .. MaxPictures]

(* No frame the application gets is half of one picture and half of the     *)
(* next, wherever the analysis threads, Start and Wait are with the Mats.   *)
(* Until Wait is called nothing is drawn over a frame, either; with Wait    *)
(* about, its NO INPUT, or a part of it, may be over any frame, that of a   *)
(* picture shown after Wait replaced the Mats included, for it draws        *)
(* without mtx0.                                                            *)
FramesAreWhole ==
  \A c \in Channels : Whole(got[c]) /\ (waiter = "out" => got[c].text = "none")

(* The two frames of one call were the newest of their channels at one and *)
(* the same moment, until Wait, which replaces the Mats without mtx0, is   *)
(* called.                                                                 *)
PairIsSnapshot == waiter = "out" /\ main = "cloning" => clone = mats[0]

(* The application gets the pictures of a channel in order: a later call    *)
(* never returns an older picture, although Start throws the first ones     *)
(* away without mtx0, until Wait is called, which throws more away.         *)
PicturesDoNotGoBack ==
  [][waiter' = "out" => \A c \in Channels : got[c].upper <= got'[c].upper]_storeVars

(* mtx0 stays locked behind an exception only when an enabled channel is    *)
(* configured for other pictures than Start's blank ones.  It takes no more *)
(* than that: of two channels of 720 lines one shows its first picture      *)
(* while the other still has the blank one of 1080.  (Wait resizes the      *)
(* pictures one of which may then be replaced by a new one.)                *)
LockLostByWidthsOnly ==
  waiter = "out" /\ holder = "lost" => \E c \in enabled : resolution[c] # Blank.size

(* A frame is never empty, whichever channels are enabled and however early *)
(* the first call: cv::resize in cxdma_demo throws on an empty one.         *)
FramesAreNotEmpty == main = "cloning" => clone.size # "none" /\ mats[1].size # "none"

(* No picture is lost between the conversion and the application but one *)
(* that was begun before Start or Wait replaced the Mat.                 *)
NewestIsKept ==
  \A c \in Channels : ~Busy(c) /\ mats[c].upper # shown[c] => blanked[c] = shown[c]

(* The vconcat in Wait always finds two pictures of the same size, whatever *)
(* the resolutions: the analysis threads cannot get between the resizes.    *)
WaitStacksAlike == waiter = "stack" => mats[0].size = mats[1].size

(* Every picture that is in the store is served to an application that keeps *)
(* asking, itself or a later one, unless the Mat is replaced: again and      *)
(* again the application has a picture of each channel that is as new as     *)
(* the one in the store, until the program is interrupted or getFrame has    *)
(* left mtx0 locked behind it.  (Wait may have drawn over it: see            *)
(* FramesAreWhole.)                                                          *)
PicturesAreServed ==
  []<>(quit \/ holder = "lost" \/ \A c \in Channels : got[c].upper >= mats[c].upper)

-----------------------------------------------------------------------------
(* Refinement *)

(* A picture is on the board when its conversion has begun: mtx0 keeps every *)
(* reader away until it is complete.                                         *)
Posted == [c \in Channels |-> IF analysis[c] = "writing" THEN shown[c] + 1 ELSE shown[c]]
Newest == [c \in Channels |-> mats[c].upper]
Taken  == [c \in Channels |->
             IF Whole(got[c]) /\ got[c].text = "none" THEN got[c].upper ELSE -1]
Phase  == IF waiter # "out" THEN "disturbed"
          ELSE IF main \in {"start0", "start1", "blank1", "blank0"} THEN "starting"
          ELSE "ready"

Board == INSTANCE PictureBoard WITH
           posted <- Posted, newest <- Newest, taken <- Taken, phase <- Phase

(* To the application the store is a board: for every interleaving of the    *)
(* analysis threads' and its own critical sections, and with the Mats that   *)
(* Start replaces outside them, a call takes the newest picture of both      *)
(* channels, whole and at one moment, until it also uses Wait.               *)
StoreIsBoard == Board!BoardSpec

=============================================================================
