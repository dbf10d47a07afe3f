-------------------------- MODULE FrameStore_proofs --------------------------
(***************************************************************************)
(* Proofs about the frame store, for any number of pictures and any        *)
(* configuration of the channels.                                          *)
(*                                                                         *)
(* Two inductive invariants are enough.  LockInv says who holds mtx0, and  *)
(* MatInv what the Mats hold between the critical sections; both are true  *)
(* with Wait, too.  QuietInv adds what is true until Wait is called, which *)
(* replaces the Mats without mtx0.                                         *)
(***************************************************************************)
EXTENDS FrameStore, TLAPS

InStart == main \in {"start0", "start1", "blank1", "blank0"}

(* Who is between lock and unlock holds mtx0, and is alone there; a thread *)
(* exists from its start on; Wait is only called when Start has returned.  *)
LockInv ==
  /\ \A c \in Channels : Busy(c) => holder = "analysis" /\ shown[c] < MaxPictures
  /\ ~(Busy(0) /\ Busy(1))
  /\ main = "start0" => analysis[0] = "off"
  /\ main \in {"start0", "start1"} => analysis[1] = "off"
  /\ main \in {"cloning", "stacking"} => holder = "main"
  /\ waiter \in {"resize0", "resize1", "stack"} => holder = "waiter"
  /\ waiter # "out" => ~InStart

(* A Mat is half written only by the thread that still owns its pixels; a  *)
(* frame is whole; the picture in a Mat is the last one shown or the one   *)
(* being written, or Start or Wait came in between.                        *)
MatInv ==
  /\ \A c \in Channels :
       /\ analysis[c] = "writing" /\ own[c] => mats[c].upper = shown[c] + 1
       /\ ~(analysis[c] = "writing" /\ own[c]) => Whole(mats[c])
       /\ Whole(got[c])
       /\ ~Busy(c) => mats[c].upper = shown[c] \/ blanked[c] = shown[c]
       /\ analysis[c] = "writing" =>
            mats[c].upper = shown[c] + 1 \/ blanked[c] = shown[c] + 1
  /\ Whole(clone)
  /\ ~InStart => mats[0].size # "none" /\ mats[1].size # "none"
  /\ main = "blank0" => mats[1].size # "none"
  /\ main = "cloning" => clone.size # "none"
  /\ waiter \in {"resize1", "stack"} => mats[0].size = "540"
  /\ waiter = "stack" => mats[1].size = "540"

StoreInv == StoreTypeOK /\ LockInv /\ MatInv

(* Whose size it takes to leave mtx0 locked *)
LostInv == holder = "lost" => \E c \in enabled : resolution[c] # Blank.size

(* Only an enabled channel has another size than the blank picture; what   *)
(* the application has is not newer than what the Mats have; nothing is    *)
(* drawn over a picture.                                                   *)
QuietInv ==
  /\ \A c \in Channels :
       /\ analysis[c] # "off" => c \in enabled
       /\ mats[c].size \in {"none", "1080", resolution[c]}
       /\ mats[c].size \notin {"none", "1080"} => c \in enabled
       /\ mats[c].upper <= shown[c] + (IF analysis[c] = "writing" THEN 1 ELSE 0)
       /\ IF InStart THEN got[c] = Frame(Empty) ELSE got[c].upper <= mats[c].upper
       /\ mats[c].text = "none" /\ got[c].text = "none"
  /\ main = "cloning" => clone = mats[0]
  /\ LostInv

-----------------------------------------------------------------------------
(* The analysis threads *)

LEMMA Blanks == Blank \in Mats /\ Empty \in Mats /\ Whole(Blank) /\ Whole(Empty)
  BY StoreAssumption DEF Blank, Empty, Mats, Sizes, Whole

LEMMA FrameOf ==
  ASSUME NEW mat \in Mats
  PROVE  /\ Frame(mat) \in Frames /\ (Whole(Frame(mat)) <=> Whole(mat))
         /\ Frame(mat).upper = mat.upper /\ Frame(mat).text = mat.text
         /\ mat.upper \in Nat /\ mat.upper \in 0 .. MaxPictures
  BY StoreAssumption DEF Frame, Frames, Mats, Whole

(* A Mat of which fields are assigned *)
LEMMA MatFields ==
  ASSUME NEW mat \in Mats, NEW s, NEW n
  PROVE  /\ mat.size \in Sizes /\ mat.text \in {"none", "some"}
         /\ mat.upper \in 0 .. MaxPictures /\ mat.lower \in 0 .. MaxPictures
         /\ [mat EXCEPT !.lower = n] =
              [size |-> mat.size, upper |-> mat.upper, lower |-> n, text |-> mat.text]
         /\ [mat EXCEPT !.text = "some"] =
              [size |-> mat.size, upper |-> mat.upper, lower |-> mat.lower, text |-> "some"]
         /\ [mat EXCEPT !.size = s] =
              [size |-> s, upper |-> mat.upper, lower |-> mat.lower, text |-> mat.text]
         /\ [mat EXCEPT !.size = s, !.upper = n, !.text = "none"] =
              [size |-> s, upper |-> n, lower |-> mat.lower, text |-> "none"]
<1>1. /\ mat.size \in Sizes /\ mat.text \in {"none", "some"}
      /\ mat.upper \in 0 .. MaxPictures /\ mat.lower \in 0 .. MaxPictures
      /\ mat = [size |-> mat.size, upper |-> mat.upper, lower |-> mat.lower,
                text |-> mat.text]
  BY DEF Mats
<1>2. [mat EXCEPT !.lower = n] =
        [size |-> mat.size, upper |-> mat.upper, lower |-> n, text |-> mat.text]
  BY <1>1
<1>3. [mat EXCEPT !.size = s] =
        [size |-> s, upper |-> mat.upper, lower |-> mat.lower, text |-> mat.text]
  BY <1>1
<1>4. [mat EXCEPT !.text = "some"] =
        [size |-> mat.size, upper |-> mat.upper, lower |-> mat.lower, text |-> "some"]
  BY <1>1
<1>5. [[size |-> s, upper |-> mat.upper, lower |-> mat.lower, text |-> mat.text]
         EXCEPT !.upper = n] =
        [size |-> s, upper |-> n, lower |-> mat.lower, text |-> mat.text]
  OBVIOUS
<1>6. [[size |-> s, upper |-> n, lower |-> mat.lower, text |-> mat.text]
         EXCEPT !.text = "none"] =
        [size |-> s, upper |-> n, lower |-> mat.lower, text |-> "none"]
  OBVIOUS
<1>7. [mat EXCEPT !.size = s, !.upper = n, !.text = "none"] =
        [[[mat EXCEPT !.size = s] EXCEPT !.upper = n] EXCEPT !.text = "none"]
  OBVIOUS
<1> QED BY <1>1, <1>2, <1>3, <1>4, <1>5, <1>6, <1>7

LEMMA ConvertedMat ==
  ASSUME NEW mat \in Mats, NEW s, NEW n, NEW new,
         new = [mat EXCEPT !.size = s, !.upper = n, !.text = "none"]
  PROVE  new = [size |-> s, upper |-> n, lower |-> mat.lower, text |-> "none"]
  BY MatFields

(* What is drawn over a Mat changes neither its size nor its halves. *)
LEMMA DrawnOver ==
  ASSUME NEW old \in [Channels -> Mats], NEW new, NEW c \in Channels,
         new = old \/ new = [old EXCEPT ![c].text = "some"]
  PROVE  /\ new \in [Channels -> Mats]
         /\ \A d \in Channels : /\ new[d].size = old[d].size
                               /\ new[d].upper = old[d].upper
                               /\ new[d].lower = old[d].lower
<1>1. CASE new = [old EXCEPT ![c].text = "some"]
  <2>1. new = [old EXCEPT ![c] = [old[c] EXCEPT !.text = "some"]] /\ old[c] \in Mats
    BY <1>1
  <2>2. new[c] = [size |-> old[c].size, upper |-> old[c].upper, lower |-> old[c].lower,
                  text |-> "some"]
    <3>1. new[c] = [old[c] EXCEPT !.text = "some"]
      BY <2>1
    <3> QED BY <2>1, <3>1, MatFields
  <2>3. new[c] \in Mats
    BY <2>1, <2>2, MatFields DEF Mats
  <2>4. /\ new[c].size = old[c].size /\ new[c].upper = old[c].upper
        /\ new[c].lower = old[c].lower
    BY <2>2
  <2>5. \A d \in Channels \ {c} : new[d] = old[d]
    BY <2>1
  <2>6. new = [d \in Channels |-> IF d = c THEN new[c] ELSE old[d]]
    BY <2>1
  <2> QED BY <2>3, <2>4, <2>5, <2>6
<1> QED BY <1>1

LEMMA LockStep ==
  ASSUME StoreInv, NEW c \in Channels, Lock(c)
  PROVE  StoreInv'
<1> USE DEF StoreInv, Lock, Busy
<1>1. StoreTypeOK'
  BY DEF StoreTypeOK, config, mainVars
<1>2. LockInv'
  BY DEF StoreTypeOK, LockInv, InStart, config, mainVars, Channels
<1>3. MatInv'
  BY DEF StoreTypeOK, LockInv, MatInv, InStart, Whole, config, mainVars, Channels
<1> QED BY <1>1, <1>2, <1>3

LEMMA ConvertStep ==
  ASSUME StoreInv, NEW c \in Channels, Convert(c)
  PROVE  StoreInv'
<1> USE DEF StoreInv, Convert
<1>1. /\ holder = "analysis" /\ shown[c] < MaxPictures
      /\ main \notin {"cloning", "stacking"}
      /\ waiter \notin {"resize0", "resize1", "stack"}
  BY DEF LockInv, Busy
<1>2. /\ mats' = [mats EXCEPT ![c] = mats'[c]]
      /\ mats'[c] = [size |-> resolution[c], upper |-> shown[c] + 1,
                     lower |-> mats[c].lower, text |-> "none"]
      /\ mats'[c] \in Mats
  <2>1. /\ mats \in [Channels -> Mats] /\ mats[c] \in Mats
        /\ resolution[c] \in Sizes /\ shown[c] + 1 \in 0 .. MaxPictures
    BY <1>1, StoreAssumption DEF StoreTypeOK, Sizes
  <2>2. mats' = [mats EXCEPT ![c] = [mats[c] EXCEPT !.size = resolution[c],
                                                    !.upper = shown[c] + 1,
                                                    !.text = "none"]]
    BY <2>1
  <2>3. mats'[c] = [size |-> resolution[c], upper |-> shown[c] + 1,
                    lower |-> mats[c].lower, text |-> "none"]
    <3>1. mats'[c] = [mats[c] EXCEPT !.size = resolution[c], !.upper = shown[c] + 1,
                                      !.text = "none"]
      BY <2>1, <2>2
    <3>2. mats[c] \in Mats
      BY <2>1
    <3> HIDE DEF Convert
    <3> QED BY <3>1, <3>2, ConvertedMat
  <2>4. mats' = [mats EXCEPT ![c] = mats'[c]]
    BY <2>1, <2>2
  <2>5. mats'[c] \in Mats
    BY <2>1, <2>3, MatFields DEF Mats
  <2> QED BY <2>3, <2>4, <2>5
<1>3. StoreTypeOK'
  BY <1>2 DEF StoreTypeOK, config, mainVars
<1>4. LockInv'
  BY <1>1 DEF StoreTypeOK, LockInv, InStart, Busy, config, mainVars, Channels
<1>5. MatInv'
  BY <1>1, <1>2 DEF StoreTypeOK, LockInv, MatInv, InStart, Busy, Whole, config, mainVars, Channels
<1> QED BY <1>3, <1>4, <1>5

LEMMA UnlockStep ==
  ASSUME StoreInv, NEW c \in Channels, Unlock(c)
  PROVE  StoreInv'
<1> USE DEF StoreInv, Unlock
<1>1. /\ holder = "analysis" /\ shown[c] < MaxPictures
      /\ main \notin {"cloning", "stacking"}
      /\ waiter \notin {"resize0", "resize1", "stack"}
  BY DEF LockInv, Busy
<1>2. /\ mats' = [mats EXCEPT ![c] = mats'[c]]
      /\ mats'[c] \in Mats
      /\ mats'[c].size = mats[c].size /\ mats'[c].upper = mats[c].upper
      /\ Whole(mats'[c])
  <2>1. mats \in [Channels -> Mats] /\ mats[c] \in Mats /\ shown[c] + 1 \in 0 .. MaxPictures
    BY <1>1, StoreAssumption DEF StoreTypeOK
  <2>2. CASE own[c]
    <3>1. mats' = [mats EXCEPT ![c] = [mats[c] EXCEPT !.lower = shown[c] + 1]]
      BY <2>1, <2>2
    <3>2. mats'[c] = [size |-> mats[c].size, upper |-> mats[c].upper,
                   lower |-> shown[c] + 1, text |-> mats[c].text]
      <4>1. mats'[c] = [mats[c] EXCEPT !.lower = shown[c] + 1]
        BY <2>1, <3>1
      <4> QED BY <2>1, <4>1, MatFields
    <3>3. mats' = [mats EXCEPT ![c] = mats'[c]]
      BY <2>1, <3>1
    <3>4. mats'[c] \in Mats
      BY <2>1, <3>2, MatFields DEF Mats
    <3>5. mats[c].upper = shown[c] + 1
      BY <2>2 DEF MatInv
    <3> QED BY <3>2, <3>3, <3>4, <3>5 DEF Whole
  <2>3. CASE ~own[c]
    BY <2>1, <2>3 DEF MatInv
  <2> QED BY <2>2, <2>3
<1>3. StoreTypeOK'
  BY <1>1, <1>2, StoreAssumption DEF StoreTypeOK, config, mainVars
<1>4. LockInv'
  BY <1>1 DEF StoreTypeOK, LockInv, InStart, Busy, config, mainVars, Channels
<1>5. MatInv'
  BY <1>1, <1>2 DEF StoreTypeOK, LockInv, MatInv, InStart, Busy, Whole, config, mainVars, Channels
<1> QED BY <1>3, <1>4, <1>5

-----------------------------------------------------------------------------
(* Start, the application, and Wait *)

LEMMA StartChannelStep ==
  ASSUME StoreInv,
         \/ StartChannel(0, "start0", "start1")
         \/ StartChannel(1, "start1", "blank1")
  PROVE  StoreInv'
<1> USE DEF StoreInv, StartChannel, Busy
<1>1. StoreTypeOK'
  BY DEF StoreTypeOK, config, Channels
<1>2. LockInv'
  BY DEF StoreTypeOK, LockInv, InStart, config, Channels
<1>3. MatInv'
  <2>1. \A c \in Channels :
          /\ analysis'[c] = "writing" <=> analysis[c] = "writing"
          /\ Busy(c)' <=> Busy(c)
    BY DEF StoreTypeOK, LockInv, config, Channels
  <2>2. InStart' /\ main' \notin {"blank0", "cloning"} /\ waiter' = waiter
    BY DEF InStart
  <2> QED BY <2>1, <2>2 DEF MatInv, Whole
<1> QED BY <1>1, <1>2, <1>3

LEMMA ReplaceMat ==
  ASSUME StoreInv, NEW c \in Channels, Replace(c)
  PROVE  /\ mats' \in [Channels -> Mats] /\ own' \in [Channels -> BOOLEAN]
         /\ blanked' \in [Channels -> 0 .. MaxPictures]
         /\ mats'[c] = Blank /\ ~own'[c]
         /\ blanked'[c] = shown[c] + (IF Busy(c) THEN 1 ELSE 0)
         /\ \A d \in Channels \ {c} :
              mats'[d] = mats[d] /\ own'[d] = own[d] /\ blanked'[d] = blanked[d]
<1>1. shown[c] + (IF Busy(c) THEN 1 ELSE 0) \in 0 .. MaxPictures
  BY StoreAssumption DEF StoreInv, StoreTypeOK, LockInv
<1> QED BY <1>1, Blanks DEF StoreInv, StoreTypeOK, Replace

LEMMA StartReplacesStep ==
  ASSUME StoreInv,
         \/ StartReplaces(1, "blank1", "blank0")
         \/ StartReplaces(0, "blank0", "idle")
  PROVE  StoreInv'
<1> USE DEF StoreInv
<1>1. PICK c \in Channels : /\ Replace(c)
                            /\ \/ c = 1 /\ main = "blank1" /\ main' = "blank0"
                               \/ c = 0 /\ main = "blank0" /\ main' = "idle"
  BY DEF StartReplaces, Channels
<1>2. UNCHANGED <<config, quit, holder, channelVars, clone, got, waiter>>
  BY DEF StartReplaces
<1>3. StoreTypeOK'
  BY <1>1, <1>2, ReplaceMat DEF StoreTypeOK, config, channelVars
<1>4. LockInv'
  BY <1>1, <1>2 DEF LockInv, InStart, Busy, channelVars
<1>5. MatInv'
  <2>1. Blank.size # "none" /\ Blank.upper = 0 /\ Whole(Blank)
    BY DEF Blank, Whole
  <2>2. \A d \in Channels :
          /\ analysis'[d] = analysis[d] /\ shown'[d] = shown[d] /\ got'[d] = got[d]
          /\ Busy(d)' <=> Busy(d)
    BY <1>2 DEF Busy, channelVars
  <2>3. waiter' = waiter /\ clone' = clone /\ waiter = "out"
    BY <1>1, <1>2 DEF LockInv, InStart
  <2> QED BY <1>1, <2>1, <2>2, <2>3, ReplaceMat
          DEF StoreTypeOK, MatInv, InStart, Whole, Channels, Busy
<1> QED BY <1>3, <1>4, <1>5

LEMMA MainStepInv ==
  ASSUME StoreInv, MainStep \/ MainReturns
  PROVE  StoreInv'
<1> USE DEF StoreInv
<1>1. CASE getFramesLock
  BY <1>1 DEF getFramesLock, StoreTypeOK, LockInv, MatInv, InStart, Busy, Whole,
              config, channelVars, Channels
<1>2. CASE getFramesDone
  <2>1. holder = "main" /\ \A c \in Channels : ~Busy(c)
    BY <1>2 DEF getFramesDone, LockInv
  <2>2. StoreTypeOK' /\ LockInv'
    BY <1>2, <2>1, Blanks, FrameOf DEF getFramesDone, StoreTypeOK, LockInv, InStart,
                                       Busy, config, channelVars, Channels
  <2>3. MatInv'
    BY <1>2, <2>1, Blanks DEF getFramesDone, LockInv, MatInv, InStart, Busy, Whole,
                              Frame, config, channelVars, Channels
  <2> QED BY <2>2, <2>3
<1>3. CASE getFrameLock
  BY <1>3 DEF getFrameLock, StoreTypeOK, LockInv, MatInv, InStart, Busy, Whole,
              config, channelVars, Channels
<1>4. CASE getFrameStack
  <2>1. holder = "main" /\ \A c \in Channels : ~Busy(c)
    BY <1>4 DEF getFrameStack, LockInv
  <2>2. StoreTypeOK' /\ LockInv'
    BY <1>4, <2>1, FrameOf DEF getFrameStack, StoreTypeOK, LockInv, InStart, Busy,
                               config, channelVars, Channels
  <2>3. MatInv'
    BY <1>4, <2>1 DEF getFrameStack, LockInv, MatInv, InStart, Busy, Whole, Frame,
                      config, channelVars, Channels
  <2> QED BY <2>2, <2>3
<1>5. CASE MainReturns
  BY <1>5 DEF MainReturns, StoreTypeOK, LockInv, MatInv, InStart, Busy, Whole,
              config, channelVars, Channels
<1> QED BY <1>1, <1>2, <1>3, <1>4, <1>5 DEF MainStep

LEMMA WaitReplacesStep ==
  ASSUME StoreInv,
         \/ WaitReplaces(1, "out", "blank0")
         \/ WaitReplaces(0, "blank0", "text1")
  PROVE  StoreInv'
<1> USE DEF StoreInv
<1>1. PICK c \in Channels : /\ Replace(c)
                            /\ waiter \in {"out", "blank0"}
                            /\ waiter' \in {"blank0", "text1"}
  BY DEF WaitReplaces, Channels
<1>2. UNCHANGED <<config, quit, holder, channelVars, mainVars>> /\ ~InStart
  BY DEF WaitReplaces, StartHasReturned, InStart
<1>3. StoreTypeOK'
  BY <1>1, <1>2, ReplaceMat DEF StoreTypeOK, config, channelVars, mainVars
<1>4. LockInv'
  BY <1>1, <1>2 DEF LockInv, InStart, Busy, channelVars, mainVars
<1>5. MatInv'
  <2>1. Blank.size # "none" /\ Blank.upper = 0 /\ Whole(Blank)
    BY DEF Blank, Whole
  <2>2. \A d \in Channels :
          /\ analysis'[d] = analysis[d] /\ shown'[d] = shown[d] /\ got'[d] = got[d]
          /\ Busy(d)' <=> Busy(d)
    BY <1>2 DEF Busy, channelVars, mainVars
  <2>3. main' = main /\ clone' = clone
    BY <1>2 DEF mainVars
  <2> QED BY <1>1, <1>2, <2>1, <2>2, <2>3, ReplaceMat
          DEF StoreTypeOK, MatInv, InStart, Whole, Channels, Busy
<1> QED BY <1>3, <1>4, <1>5

LEMMA WaitResizesStep ==
  ASSUME StoreInv,
         \/ WaitResizes(0, "resize0", "resize1")
         \/ WaitResizes(1, "resize1", "stack")
  PROVE  StoreInv'
<1> USE DEF StoreInv
<1>1. PICK c \in Channels : /\ mats' = [mats EXCEPT ![c].size = "540"]
                            /\ \/ c = 0 /\ waiter = "resize0" /\ waiter' = "resize1"
                               \/ c = 1 /\ waiter = "resize1" /\ waiter' = "stack"
  BY DEF WaitResizes, Channels
<1>2. UNCHANGED <<config, quit, holder, channelVars, own, mainVars, blanked>>
  BY DEF WaitResizes
<1>3. /\ mats' \in [Channels -> Mats]
      /\ mats'[c].size = "540" /\ mats'[c].upper = mats[c].upper
      /\ mats'[c].lower = mats[c].lower
      /\ \A d \in Channels \ {c} : mats'[d] = mats[d]
  <2>1. mats \in [Channels -> Mats] /\ mats[c] \in Mats /\ "540" \in Sizes
    BY DEF StoreTypeOK, Sizes
  <2>2. mats' = [mats EXCEPT ![c] = [mats[c] EXCEPT !.size = "540"]]
    BY <1>1, <2>1
  <2>3. mats'[c] = [size |-> "540", upper |-> mats[c].upper,
                   lower |-> mats[c].lower, text |-> mats[c].text]
    BY <2>1, <2>2 DEF Mats
  <2>4. mats'[c] \in Mats
    BY <2>1, <2>3 DEF Mats
  <2> QED BY <2>1, <2>2, <2>3, <2>4
<1>4. StoreTypeOK'
  BY <1>1, <1>2, <1>3 DEF StoreTypeOK, config, channelVars, mainVars
<1>5. LockInv'
  BY <1>1, <1>2 DEF LockInv, InStart, Busy, channelVars, mainVars
<1>6. MatInv'
  <2>1. \A d \in Channels :
          /\ analysis'[d] = analysis[d] /\ shown'[d] = shown[d] /\ got'[d] = got[d]
          /\ own'[d] = own[d] /\ blanked'[d] = blanked[d]
          /\ Busy(d)' <=> Busy(d)
          /\ mats'[d].upper = mats[d].upper /\ mats'[d].lower = mats[d].lower
    BY <1>2, <1>3 DEF Busy, channelVars, mainVars
  <2>2. main' = main /\ clone' = clone
    BY <1>2 DEF mainVars
  <2> QED BY <1>1, <1>3, <2>1, <2>2 DEF MatInv, InStart, Whole, Channels
<1> QED BY <1>4, <1>5, <1>6

LEMMA WaitDrawsStep ==
  ASSUME StoreInv,
         \/ WaitDraws(1, "text1", "text0")
         \/ WaitDraws(0, "text0", "looping")
  PROVE  StoreInv'
<1> USE DEF StoreInv
<1>1. PICK c \in Channels : /\ mats' = mats \/ mats' = [mats EXCEPT ![c].text = "some"]
                            /\ waiter \in {"text1", "text0"}
                            /\ waiter' \in {"text1", "text0", "looping"}
  BY DEF WaitDraws, Channels
<1>2. UNCHANGED <<config, quit, holder, channelVars, own, mainVars, blanked>>
  BY DEF WaitDraws
<1>3. /\ mats' \in [Channels -> Mats]
      /\ \A d \in Channels : /\ mats'[d].size = mats[d].size
                            /\ mats'[d].upper = mats[d].upper
                            /\ mats'[d].lower = mats[d].lower
  <2>1. mats \in [Channels -> Mats]
    BY DEF StoreTypeOK
  <2> QED BY <1>1, <2>1, DrawnOver
<1>4. StoreTypeOK'
  BY <1>1, <1>2, <1>3 DEF StoreTypeOK, config, channelVars, mainVars
<1>5. LockInv'
  BY <1>1, <1>2 DEF LockInv, InStart, Busy, channelVars, mainVars
<1>6. MatInv'
  <2>1. \A d \in Channels :
          /\ analysis'[d] = analysis[d] /\ shown'[d] = shown[d] /\ got'[d] = got[d]
          /\ own'[d] = own[d] /\ blanked'[d] = blanked[d]
          /\ Busy(d)' <=> Busy(d)
    BY <1>2 DEF Busy, channelVars, mainVars
  <2>2. main' = main /\ clone' = clone
    BY <1>2 DEF mainVars
  <2> QED BY <1>1, <1>3, <2>1, <2>2 DEF MatInv, InStart, Whole, Channels
<1> QED BY <1>4, <1>5, <1>6

LEMMA WaitStep ==
  ASSUME StoreInv, Wait
  PROVE  StoreInv'
<1> USE DEF StoreInv
<1>1. CASE WaitLocks
  BY <1>1 DEF WaitLocks, StoreTypeOK, LockInv, MatInv, InStart, Busy, Whole,
              config, channelVars, mainVars, Channels
<1>2. CASE WaitUnlocks
  BY <1>2 DEF WaitUnlocks, StoreTypeOK, LockInv, MatInv, InStart, Busy, Whole,
              config, channelVars, mainVars, Channels
<1> QED BY <1>1, <1>2, WaitReplacesStep, WaitDrawsStep, WaitResizesStep DEF Wait

LEMMA StoreInvInductive ==
  ASSUME StoreInv, [StoreNext]_storeVars
  PROVE  StoreInv'
<1> USE DEF StoreInv
<1>1. CASE signal_handle
  BY <1>1 DEF signal_handle, StoreTypeOK, LockInv, MatInv, InStart, Busy, Whole,
              config, channelVars, mainVars
<1>2. ASSUME NEW c \in Channels, AnalysisStep(c) PROVE StoreInv'
  BY <1>2, LockStep, ConvertStep, UnlockStep DEF AnalysisStep
<1>3. CASE Start
  BY <1>3, StartChannelStep, StartReplacesStep DEF Start
<1>4. CASE MainStep \/ MainReturns
  BY <1>4, MainStepInv
<1>5. CASE Wait
  BY <1>5, WaitStep
<1>6. CASE UNCHANGED storeVars
  BY <1>6 DEF storeVars, StoreTypeOK, LockInv, MatInv, InStart, Busy, Whole,
              config, channelVars, mainVars
<1> QED BY <1>1, <1>2, <1>3, <1>4, <1>5, <1>6 DEF StoreNext

LEMMA StoreInvAlways == StoreSpec => []StoreInv
<1>1. StoreInit => StoreInv
  <2> SUFFICES ASSUME StoreInit PROVE StoreInv
    OBVIOUS
  <2> USE DEF StoreInit
  <2>1. StoreTypeOK
    <3>1. 0 \in 0 .. MaxPictures
      BY StoreAssumption
    <3>2. mats \in [Channels -> Mats] /\ clone \in Mats /\ got \in [Channels -> Frames]
      BY Blanks, FrameOf
    <3>3. shown \in [Channels -> 0 .. MaxPictures] /\ blanked \in [Channels -> 0 .. MaxPictures]
      BY <3>1
    <3> QED BY <3>2, <3>3 DEF StoreTypeOK
  <2>2. LockInv
    BY DEF LockInv, InStart, Busy, Channels
  <2>3. MatInv
    BY Blanks DEF MatInv, InStart, Busy, Channels, Empty, Frame, Whole
  <2> QED BY <2>1, <2>2, <2>3 DEF StoreInv
<1> QED BY <1>1, StoreInvInductive, PTL DEF StoreSpec

-----------------------------------------------------------------------------
(* The type invariant, for any number of pictures. *)
THEOREM StoreType == StoreSpec => []StoreTypeOK
<1>1. StoreInv => StoreTypeOK
  BY DEF StoreInv
<1> QED BY <1>1, StoreInvAlways, PTL

(* No frame is empty, however early the application asks for it. *)
THEOREM FramesThere == StoreSpec => []FramesAreNotEmpty
<1>1. StoreInv => FramesAreNotEmpty
  BY DEF StoreInv, MatInv, InStart, FramesAreNotEmpty
<1> QED BY <1>1, StoreInvAlways, PTL

(* The newest picture of a channel is in its Mat, unless it was begun before *)
(* the Mat was replaced.                                                     *)
THEOREM NewestKept == StoreSpec => []NewestIsKept
<1>1. StoreInv => NewestIsKept
  BY DEF StoreInv, MatInv, NewestIsKept
<1> QED BY <1>1, StoreInvAlways, PTL

(* Wait stacks two pictures of one size. *)
THEOREM WaitStacks == StoreSpec => []WaitStacksAlike
<1>1. StoreInv => WaitStacksAlike
  BY DEF StoreInv, MatInv, WaitStacksAlike
<1> QED BY <1>1, StoreInvAlways, PTL

-----------------------------------------------------------------------------
(* Until Wait is called *)

(* A frame that is handed out leaves the application with one at least as new. *)
Forward == \A c \in Channels : got[c].upper <= got'[c].upper

LEMMA QuietAnalysis ==
  ASSUME StoreInv, QuietInv, NEW c \in Channels, AnalysisStep(c)
  PROVE  QuietInv' /\ Forward
<1> USE DEF StoreInv, Busy, config, mainVars
<1>1. UNCHANGED <<enabled, resolution, main, clone, got, waiter>>
  BY DEF AnalysisStep, Lock, Convert, Unlock
<1>2. /\ \A d \in Channels : mats[d] \in Mats /\ shown[d] \in Nat /\ got[d].upper \in Nat
      /\ \A mat \in Mats : mat.upper \in Nat
  BY StoreAssumption DEF StoreTypeOK, Mats, Frames
<1>3. Forward
  BY <1>1, <1>2 DEF Forward
<1>4. CASE Lock(c)
  <2>1. /\ UNCHANGED <<mats, shown>> /\ analysis[c] = "away"
        /\ analysis' = [analysis EXCEPT ![c] = analysis'[c]] /\ analysis'[c] # "writing"
        /\ holder' # "lost" \/ holder' = holder
    BY <1>4 DEF Lock, StoreTypeOK
  <2> QED BY <1>1, <1>3, <2>1
          DEF StoreTypeOK, QuietInv, InStart, LostInv
<1>5. CASE Convert(c)
  <2>1. holder = "analysis" /\ main # "cloning"
    BY <1>5 DEF Convert, LockInv
  <2>2. /\ mats' = [mats EXCEPT ![c].size = resolution[c], ![c].upper = shown[c] + 1,
                             ![c].text = "none"]
        /\ mats \in [Channels -> Mats] /\ mats[c] \in Mats
    BY <1>5 DEF Convert, StoreTypeOK
  <2>3. /\ mats'[c] = [size |-> resolution[c], upper |-> shown[c] + 1,
                   lower |-> mats[c].lower, text |-> "none"]
        /\ \A d \in Channels \ {c} : mats'[d] = mats[d]
    <3>1. mats'[c] = [mats[c] EXCEPT !.size = resolution[c], !.upper = shown[c] + 1,
                                      !.text = "none"]
      BY <2>2
    <3>2. mats'[c] = [size |-> resolution[c], upper |-> shown[c] + 1,
                   lower |-> mats[c].lower, text |-> "none"]
      <4>1. mats[c] \in Mats
        BY <2>2
      <4> QED BY <3>1, <4>1, ConvertedMat
    <3>3. \A d \in Channels \ {c} : mats'[d] = mats[d]
      BY <2>2
    <3> QED BY <3>2, <3>3
  <2>4. /\ analysis[c] = "locked" /\ shown' = shown /\ holder' = holder
        /\ analysis' = [analysis EXCEPT ![c] = "writing"]
    BY <1>5 DEF Convert
  <2>5. mats[c].upper <= shown[c]
    BY <1>2, <2>4 DEF QuietInv
  <2> QED BY <1>1, <1>2, <1>3, <2>1, <2>3, <2>4, <2>5
          DEF StoreTypeOK, QuietInv, InStart, LostInv
<1>6. CASE Unlock(c)
  <2>1. holder = "analysis" /\ main # "cloning"
    BY <1>6 DEF Unlock, LockInv
  <2>2. \A d \in Channels :
          /\ mats'[d].size = mats[d].size /\ mats'[d].upper = mats[d].upper
          /\ mats'[d].text = mats[d].text
    <3>1. mats \in [Channels -> Mats] /\ mats[c] \in Mats
      BY DEF StoreTypeOK
    <3>2. CASE own[c]
      <4>1. mats' = [mats EXCEPT ![c].lower = shown[c] + 1]
        BY <1>6, <3>2 DEF Unlock
      <4>2. mats'[c] = [mats[c] EXCEPT !.lower = shown[c] + 1]
        BY <3>1, <4>1
      <4>3. mats'[c] = [size |-> mats[c].size, upper |-> mats[c].upper,
                        lower |-> shown[c] + 1, text |-> mats[c].text]
        BY <3>1, <4>2, MatFields
      <4>4. /\ mats'[c].size = mats[c].size /\ mats'[c].upper = mats[c].upper
            /\ mats'[c].text = mats[c].text
        BY <4>3
      <4> QED BY <3>1, <4>1, <4>4
    <3> QED BY <1>6, <3>2 DEF Unlock
  <2>3. /\ analysis[c] = "writing" /\ holder' = "nobody"
        /\ analysis' = [analysis EXCEPT ![c] = "away"]
        /\ shown' = [shown EXCEPT ![c] = @ + 1]
    BY <1>6 DEF Unlock
  <2> QED BY <1>1, <1>2, <1>3, <2>1, <2>2, <2>3
          DEF StoreTypeOK, QuietInv, InStart, LostInv
<1> QED BY <1>4, <1>5, <1>6 DEF AnalysisStep

LEMMA QuietStart ==
  ASSUME StoreInv, QuietInv, Start
  PROVE  QuietInv' /\ Forward
<1> USE DEF StoreInv, config, channelVars, mainVars
<1>1. \A d \in Channels : mats[d].upper \in Nat /\ shown[d] \in Nat /\ got[d].upper \in Nat
  BY StoreAssumption DEF StoreTypeOK, Mats, Frames
<1>2. UNCHANGED <<enabled, resolution, holder, shown, clone, got>> /\ InStart
      /\ main # "cloning" /\ main' # "cloning"
  BY DEF Start, StartChannel, StartReplaces, InStart
<1>3. Forward
  BY <1>1, <1>2 DEF Forward
<1>4. ASSUME NEW c \in Channels, UNCHANGED <<mats>>, InStart',
             \/ UNCHANGED analysis
             \/ /\ c \in enabled /\ analysis[c] = "off"
                /\ analysis' = [analysis EXCEPT ![c] = "away"]
      PROVE QuietInv'
  BY <1>2, <1>4 DEF StoreTypeOK, QuietInv, LostInv
<1>5. CASE StartChannel(0, "start0", "start1") \/ StartChannel(1, "start1", "blank1")
  <2>1. UNCHANGED mats /\ InStart'
    BY <1>5 DEF StartChannel, InStart
  <2>2. PICK c \in Channels : /\ analysis[c] = "off"
                              /\ analysis' = IF c \in enabled
                                   THEN [analysis EXCEPT ![c] = "away"] ELSE analysis
    BY <1>5 DEF StartChannel, LockInv, Channels
  <2> QED BY <1>3, <1>4, <2>1, <2>2
<1>6. CASE StartReplaces(1, "blank1", "blank0") \/ StartReplaces(0, "blank0", "idle")
  <2>1. PICK c \in Channels : Replace(c) /\ analysis' = analysis
    BY <1>6 DEF StartReplaces, Channels
  <2>2. /\ mats'[c] = Blank /\ \A d \in Channels \ {c} : mats'[d] = mats[d]
    BY <2>1, ReplaceMat
  <2>3. \A d \in Channels : got'[d] = Frame(Empty) /\ mats'[d].upper \in Nat
    BY <1>1, <1>2, <2>2 DEF QuietInv, Blank
  <2>4. /\ Blank.size = "1080" /\ Blank.upper = 0 /\ Blank.text = "none"
        /\ Frame(Empty).upper = 0 /\ Frame(Empty).text = "none"
    BY DEF Blank, Empty, Frame
  <2>5. \A d \in Channels :
          /\ mats'[d].size \in {"none", "1080", resolution[d]}
          /\ mats'[d].size \notin {"none", "1080"} => d \in enabled
          /\ mats'[d].upper <= shown[d] + (IF analysis[d] = "writing" THEN 1 ELSE 0)
          /\ mats'[d].text = "none" /\ got'[d].text = "none"
    BY <1>1, <1>2, <2>2, <2>4 DEF QuietInv
  <2>6. \A d \in Channels :
          IF InStart' THEN got'[d] = Frame(Empty) ELSE got'[d].upper <= mats'[d].upper
    BY <2>3, <2>4
  <2>7. LostInv'
    BY <1>2 DEF QuietInv, LostInv
  <2> QED BY <1>2, <1>3, <2>1, <2>5, <2>6, <2>7 DEF QuietInv
<1> QED BY <1>3, <1>5, <1>6 DEF Start

LEMMA QuietMain ==
  ASSUME StoreInv, QuietInv, MainStep \/ MainReturns
  PROVE  QuietInv' /\ Forward
<1> USE DEF StoreInv, config, channelVars, mainVars
<1>1. \A d \in Channels : mats[d].upper \in Nat /\ got[d].upper \in Nat
  BY StoreAssumption DEF StoreTypeOK, Mats, Frames
<1>2. UNCHANGED <<enabled, resolution, mats, analysis, shown>> /\ ~InStart /\ ~InStart'
  BY DEF MainStep, MainReturns, getFramesLock, getFramesDone, getFrameLock,
         getFrameStack, InStart
<1>3. ASSUME \A c \in Channels : got'[c] \in {got[c], Frame(mats[c])},
             main' = "cloning" => clone' = mats[0], LostInv'
      PROVE  QuietInv' /\ Forward
  <2>1. \A c \in Channels :
          /\ got[c].upper <= mats[c].upper /\ got[c].text = "none"
          /\ Frame(mats[c]).upper = mats[c].upper /\ Frame(mats[c]).text = "none"
    BY <1>2 DEF QuietInv, Frame
  <2>2. \A c \in Channels :
          /\ got'[c].upper <= mats[c].upper /\ got[c].upper <= got'[c].upper
          /\ got'[c].text = "none"
    BY <1>1, <1>3, <2>1
  <2> QED BY <1>2, <1>3, <2>2 DEF QuietInv, Forward
<1>4. LostInv
  BY DEF QuietInv
<1>5. CASE getFramesLock
  BY <1>3, <1>5 DEF getFramesLock, LostInv
<1>6. CASE getFramesDone
  <2>1. clone = mats[0]
    BY <1>6 DEF getFramesDone, QuietInv
  <2> QED BY <1>3, <1>6, <2>1 DEF getFramesDone, LostInv, Channels
<1>7. CASE getFrameLock
  BY <1>3, <1>7 DEF getFrameLock, LostInv
<1>8. CASE getFrameStack
  <2>1. mats[0].size # "none" /\ mats[1].size # "none"
    BY <1>2 DEF MatInv
  <2>2. CASE mats[0].size = mats[1].size
    BY <1>3, <1>8, <2>2 DEF getFrameStack, LostInv
  <2>3. CASE mats[0].size # mats[1].size
    <3>1. PICK c \in Channels : mats[c].size # "1080"
      BY <2>3 DEF Channels
    <3>2. mats[c].size = resolution[c] /\ c \in enabled
      BY <2>1, <3>1 DEF QuietInv, Channels
    <3>3. LostInv'
      BY <1>2, <3>1, <3>2 DEF LostInv, Blank
    <3> QED BY <1>3, <1>8, <3>3 DEF getFrameStack
  <2> QED BY <2>2, <2>3
<1>9. CASE MainReturns
  BY <1>3, <1>4, <1>9 DEF MainReturns, LostInv
<1> QED BY <1>5, <1>6, <1>7, <1>8, <1>9 DEF MainStep

LEMMA QuietStep ==
  ASSUME waiter = "out" => QuietInv, StoreInv, [StoreNext]_storeVars, waiter' = "out"
  PROVE  QuietInv' /\ Forward
<1>1. waiter = "out" /\ ~Wait
  <2>1. ~Wait
    <3>1. ASSUME Wait PROVE waiter' # "out"
      BY <3>1 DEF Wait, WaitReplaces, WaitDraws, WaitLocks, WaitResizes, WaitUnlocks
    <3> QED BY <3>1
  <2>2. UNCHANGED waiter
    BY <2>1 DEF StoreNext, storeVars, signal_handle, AnalysisStep, Lock, Convert, Unlock,
                Start, StartChannel, StartReplaces, MainStep, getFramesLock,
                getFramesDone, getFrameLock, getFrameStack, MainReturns
  <2> QED BY <2>1, <2>2
<1>2. ASSUME UNCHANGED <<config, mats, holder, channelVars, mainVars>>
      PROVE  QuietInv' /\ Forward
  <2>1. \A d \in Channels : got[d].upper \in Nat
    BY StoreAssumption DEF StoreInv, StoreTypeOK, Mats, Frames
  <2>2. Forward
    BY <1>2, <2>1 DEF mainVars, Forward
  <2> QED BY <1>1, <1>2, <2>2 DEF QuietInv, InStart, LostInv, config, channelVars,
                                  mainVars
<1>3. CASE signal_handle \/ UNCHANGED storeVars
  BY <1>2, <1>3 DEF signal_handle, storeVars
<1> QED BY <1>1, <1>3, QuietAnalysis, QuietStart, QuietMain DEF StoreNext

LEMMA QuietInvAlways == StoreSpec => [](waiter = "out" => QuietInv)
<1>1. StoreInit => QuietInv
  BY StoreAssumption DEF StoreInit, QuietInv, InStart, LostInv, Empty, Frame
<1>2. StoreInv /\ (waiter = "out" => QuietInv) /\ [StoreNext]_storeVars
        => (waiter = "out" => QuietInv)'
  BY QuietStep
<1> QED BY <1>1, <1>2, StoreInvAlways, PTL DEF StoreSpec

(* No frame is half of one picture and half of another, whether Start or    *)
(* Wait replaces the Mats under an analysis thread or not; and until Wait   *)
(* is called, which draws without mtx0, nothing is drawn over a frame.      *)
THEOREM WholeFrames == StoreSpec => []FramesAreWhole
<1>1. StoreInv /\ (waiter = "out" => QuietInv) => FramesAreWhole
  BY DEF StoreInv, MatInv, QuietInv, FramesAreWhole
<1> QED BY <1>1, StoreInvAlways, QuietInvAlways, PTL

(* Until Wait is called, the two frames of one call are a snapshot. *)
THEOREM SnapshotPairs == StoreSpec => []PairIsSnapshot
<1>1. (waiter = "out" => QuietInv) => PairIsSnapshot
  BY DEF QuietInv, PairIsSnapshot
<1> QED BY <1>1, QuietInvAlways, PTL

(* Until Wait is called, only a channel of other than 1080 lines can make *)
(* getFrame leave mtx0 locked.                                            *)
THEOREM LostByWidths == StoreSpec => []LockLostByWidthsOnly
<1>1. (waiter = "out" => QuietInv) => LockLostByWidthsOnly
  BY DEF QuietInv, LostInv, LockLostByWidthsOnly
<1> QED BY <1>1, QuietInvAlways, PTL

(* Until Wait is called, the pictures the application gets do not go back. *)
THEOREM NoGoingBack == StoreSpec => PicturesDoNotGoBack
<1>1. StoreInv /\ (waiter = "out" => QuietInv) /\ [StoreNext]_storeVars
        => [waiter' = "out" =>
              \A c \in Channels : got[c].upper <= got'[c].upper]_storeVars
  BY QuietStep DEF Forward
<1> QED BY <1>1, StoreInvAlways, QuietInvAlways, PTL DEF StoreSpec, PicturesDoNotGoBack

-----------------------------------------------------------------------------
(* The board *)

(* No Mat and no clone has a picture its channel has not posted. *)
PostedInv ==
  /\ \A c \in Channels : mats[c].upper <= Posted[c]
  /\ clone.upper <= Posted[0]

LEMMA StoreNumbers ==
  ASSUME StoreInv
  PROVE  /\ \A c \in Channels :
              /\ mats[c] \in Mats /\ got[c] \in Frames
              /\ mats[c].upper \in Nat /\ got[c].upper \in Nat
              /\ shown[c] \in Nat /\ Posted[c] \in Nat
         /\ clone \in Mats /\ clone.upper \in Nat
<1>1. /\ \A mat \in Mats : mat.upper \in Nat
      /\ \A frame \in Frames : frame.upper \in Nat
  BY StoreAssumption DEF Mats, Frames
<1>2. \A c \in Channels : mats[c] \in Mats /\ got[c] \in Frames /\ shown[c] \in Nat
  BY StoreAssumption DEF StoreInv, StoreTypeOK
<1>3. clone \in Mats
  BY DEF StoreInv, StoreTypeOK
<1> QED BY <1>1, <1>2, <1>3 DEF Posted

(* The views of the board change where what they are made of changes. *)
LEMMA SameViews ==
  /\ UNCHANGED <<analysis, shown>> => Posted' = Posted
  /\ UNCHANGED mats => Newest' = Newest
  /\ UNCHANGED got => Taken' = Taken
  /\ UNCHANGED <<main, waiter>> => Phase' = Phase
  BY DEF Posted, Newest, Taken, Phase, Whole

LEMMA StutterOnBoard ==
  ASSUME PostedInv, Posted' = Posted, Newest' = Newest, Taken' = Taken, Phase' = Phase,
         clone' = clone
  PROVE  UNCHANGED Board!boardVars /\ PostedInv'
<1>1. \A c \in Channels : mats'[c].upper = mats[c].upper
  <2>1. \A c \in Channels : Newest[c] = mats[c].upper /\ Newest'[c] = mats'[c].upper
    BY DEF Newest
  <2> QED BY <2>1
<1> QED BY <1>1 DEF Board!boardVars, PostedInv

LEMMA ReplaceOnBoard ==
  ASSUME StoreInv, PostedInv, NEW c \in Channels, Replace(c), UNCHANGED <<analysis, shown>>,
         clone' = clone
  PROVE  (\E gone \in SUBSET Board!Channels : Board!Remove(gone)) /\ PostedInv'
<1>1. Blank.upper = 0
  BY DEF Blank
<1>2. \A d \in Channels : mats'[d].upper = IF d \in {c} THEN 0 ELSE mats[d].upper
  BY <1>1, ReplaceMat
<1>3. Board!Remove({c})
  BY <1>2 DEF Board!Remove, Board!Channels, Channels, Newest
<1>4. PostedInv'
  BY <1>2, SameViews, StoreNumbers DEF PostedInv
<1> QED BY <1>3, <1>4 DEF Board!Channels, Channels

(* A picture is posted when its conversion begins. *)
LEMMA ConvertPosts ==
  ASSUME StoreInv, PostedInv, NEW c \in Channels, Convert(c)
  PROVE  Board!Post(c) /\ PostedInv'
<1>1. /\ mats' = [mats EXCEPT ![c].size = resolution[c], ![c].upper = shown[c] + 1,
                             ![c].text = "none"]
      /\ analysis' = [analysis EXCEPT ![c] = "writing"] /\ analysis[c] = "locked"
      /\ UNCHANGED <<shown, got, clone, main, waiter>>
  BY DEF Convert, config, mainVars
<1>2. mats \in [Channels -> Mats] /\ analysis \in [Channels -> {"off", "away", "locked", "writing"}]
  BY DEF StoreInv, StoreTypeOK
<1>3. \A d \in Channels : mats'[d].upper = IF d = c THEN shown[c] + 1 ELSE mats[d].upper
  <2>1. mats'[c] = [mats[c] EXCEPT !.size = resolution[c], !.upper = shown[c] + 1,
                                   !.text = "none"]
    BY <1>1, <1>2
  <2>2. mats'[c] = [size |-> resolution[c], upper |-> shown[c] + 1,
                   lower |-> mats[c].lower, text |-> "none"]
    <3>1. mats[c] \in Mats
      BY <1>2
    <3> QED BY <2>1, <3>1, ConvertedMat
  <2>3. mats'[c].upper = shown[c] + 1
    BY <2>2
  <2> QED BY <1>1, <1>2, <2>3
<1>4. Posted' = [Posted EXCEPT ![c] = @ + 1] /\ Posted[c] = shown[c]
  BY <1>1, <1>2 DEF Posted
<1>5. Newest' = [Newest EXCEPT ![c] = Posted[c] + 1]
  BY <1>3, <1>4 DEF Newest
<1>6. Board!Post(c)
  BY <1>1, <1>4, <1>5, SameViews DEF Board!Post
<1>7. PostedInv'
  <2>1. \A d \in Channels : Posted'[d] = IF d = c THEN shown[c] + 1 ELSE Posted[d]
    BY <1>4 DEF Posted
  <2>2. \A d \in Channels : mats'[d].upper <= Posted'[d]
    BY <1>3, <2>1, StoreNumbers DEF PostedInv
  <2>3. clone.upper <= Posted'[0]
    BY <1>4, <2>1, StoreNumbers DEF PostedInv, Channels
  <2> QED BY <1>1, <2>2, <2>3 DEF PostedInv
<1> QED BY <1>6, <1>7

LEMMA UnlockStutters ==
  ASSUME StoreInv, PostedInv, NEW c \in Channels, Unlock(c)
  PROVE  UNCHANGED Board!boardVars /\ PostedInv'
<1>1. /\ analysis[c] = "writing" /\ analysis' = [analysis EXCEPT ![c] = "away"]
      /\ shown' = [shown EXCEPT ![c] = @ + 1]
      /\ mats' = IF own[c] THEN [mats EXCEPT ![c].lower = shown[c] + 1] ELSE mats
      /\ UNCHANGED <<got, clone, main, waiter>>
  BY DEF Unlock, config, mainVars
<1>2. /\ mats \in [Channels -> Mats] /\ mats[c] \in Mats
      /\ shown \in [Channels -> 0 .. MaxPictures]
      /\ analysis \in [Channels -> {"off", "away", "locked", "writing"}]
  BY DEF StoreInv, StoreTypeOK
<1>3. \A d \in Channels : mats'[d].upper = mats[d].upper
  <2>1. CASE own[c]
    <3>1. mats'[c] = [mats[c] EXCEPT !.lower = shown[c] + 1]
      BY <1>1, <1>2, <2>1
    <3>2. mats'[c] = [size |-> mats[c].size, upper |-> mats[c].upper,
                   lower |-> shown[c] + 1, text |-> mats[c].text]
      BY <1>2, <3>1, MatFields
    <3>3. mats'[c].upper = mats[c].upper
      BY <3>2
    <3> QED BY <1>1, <1>2, <2>1, <3>3
  <2> QED BY <1>1, <2>1
<1>4. Newest' = Newest
  BY <1>3 DEF Newest
<1>5. Posted' = Posted
  BY <1>1, <1>2 DEF Posted
<1> QED BY <1>1, <1>4, <1>5, SameViews, StutterOnBoard

LEMMA AnalysisOnBoard ==
  ASSUME StoreInv, PostedInv, NEW c \in Channels, AnalysisStep(c)
  PROVE  [Board!BoardNext]_(Board!boardVars) /\ PostedInv'
<1>1. CASE Lock(c)
  <2>1. /\ UNCHANGED <<mats, shown, got, clone, main, waiter>> /\ analysis[c] = "away"
        /\ analysis' = [analysis EXCEPT ![c] = analysis'[c]] /\ analysis'[c] # "writing"
    BY <1>1 DEF Lock, StoreInv, StoreTypeOK, config, mainVars
  <2>2. Posted' = Posted
    BY <2>1 DEF Posted, StoreInv, StoreTypeOK
  <2> QED BY <2>1, <2>2, SameViews, StutterOnBoard
<1>2. CASE Convert(c)
  BY <1>2, ConvertPosts DEF Board!BoardNext, Board!Channels, Channels
<1>3. CASE Unlock(c)
  BY <1>3, UnlockStutters
<1> QED BY <1>1, <1>2, <1>3 DEF AnalysisStep

LEMMA StartOnBoard ==
  ASSUME StoreInv, PostedInv, Start
  PROVE  [Board!BoardNext]_(Board!boardVars) /\ PostedInv'
<1>1. waiter = "out" /\ waiter' = waiter /\ InStart /\ UNCHANGED <<clone, got, shown>>
  BY DEF Start, StartChannel, StartReplaces, InStart, StoreInv, LockInv, channelVars
<1>2. CASE StartChannel(0, "start0", "start1") \/ StartChannel(1, "start1", "blank1")
  <2>1. UNCHANGED mats /\ InStart'
    BY <1>2 DEF StartChannel, InStart
  <2>2. PICK c \in Channels : /\ analysis[c] = "off"
                              /\ analysis' = IF c \in enabled
                                   THEN [analysis EXCEPT ![c] = "away"] ELSE analysis
    BY <1>2 DEF StartChannel, StoreInv, LockInv, Channels
  <2>3. Posted' = Posted
    BY <1>1, <2>2 DEF Posted, StoreInv, StoreTypeOK
  <2>4. Phase' = Phase
    BY <1>1, <2>1 DEF Phase, InStart
  <2> QED BY <1>1, <2>1, <2>3, <2>4, SameViews, StutterOnBoard
<1>3. CASE StartReplaces(1, "blank1", "blank0") \/ StartReplaces(0, "blank0", "idle")
  <2>1. PICK c \in Channels : Replace(c)
    BY <1>3 DEF StartReplaces, Channels
  <2>2. UNCHANGED analysis /\ main' \in {"blank0", "idle"}
    BY <1>3 DEF StartReplaces, channelVars
  <2>3. (\E gone \in SUBSET Board!Channels : Board!Remove(gone)) /\ PostedInv'
    BY <1>1, <2>1, <2>2, ReplaceOnBoard
  <2>4. Phase = "starting" /\ Phase' \in {"starting", "ready"}
    BY <1>1, <2>2 DEF Phase, InStart
  <2>5. Board!Prepare
    BY <1>1, <2>2, <2>3, <2>4, SameViews DEF Board!Prepare
  <2> QED BY <2>3, <2>5 DEF Board!BoardNext
<1> QED BY <1>2, <1>3 DEF Start

(* A call that returns takes what hangs on the board; with Wait about, the  *)
(* first picture may be an older one, and either may be drawn over.         *)
LEMMA TakesFromBoard ==
  ASSUME StoreInv, waiter = "out" => QuietInv, PostedInv,
         UNCHANGED <<analysis, shown, mats, waiter>>, Phase' = Phase,
         ~InStart, main # "exited",
         NEW mat \in Mats, Whole(mat), mat.upper <= Posted[0],
         waiter = "out" => mat = mats[0],
         \A c \in Channels : ~Busy(c),
         got' = [c \in Channels |-> Frame(IF c = 0 THEN mat ELSE mats[c])]
  PROVE  Board!BoardNext
<1> DEFINE taking(c) == IF c = 0 THEN mat ELSE mats[c]
<1>1. \A c \in Channels : Whole(taking(c))
  BY DEF StoreInv, MatInv, Busy
<1>2. \A c \in Channels :
        Taken'[c] = IF taking(c).text = "none" THEN taking(c).upper ELSE -1
  BY <1>1 DEF Taken, Frame, Whole
<1>3. mat.upper \in 0 .. Posted[0]
  BY StoreNumbers, StoreAssumption DEF Mats, Channels
<1>4. CASE waiter = "out"
  <2>1. \A c \in Channels : taking(c) = mats[c] /\ mats[c].text = "none"
    BY <1>4 DEF QuietInv
  <2>2. \A c \in Channels : Taken'[c] = Newest[c]
    BY <1>2, <2>1 DEF Newest
  <2>3. Taken' = Newest /\ Phase = "ready"
    BY <1>4, <2>2 DEF Taken, Newest, Phase, InStart
  <2> QED BY <2>3, SameViews DEF Board!BoardNext, Board!Take
<1>5. CASE waiter # "out"
  <2> DEFINE spoilt == {c \in Channels : taking(c).text # "none"}
  <2>1. Phase = "disturbed"
    BY <1>5 DEF Phase
  <2>2. Taken' = [c \in Board!Channels |-> IF c \in spoilt THEN -1
                                         ELSE IF c = 0 THEN mat.upper ELSE Newest[c]]
    BY <1>2 DEF Taken, Newest, Board!Channels, Channels
  <2>3. spoilt \in SUBSET Board!Channels
    BY DEF Board!Channels, Channels
  <2> HIDE DEF spoilt
  <2> QED BY <1>3, <2>1, <2>2, <2>3, SameViews DEF Board!BoardNext, Board!TakeApart
<1> QED BY <1>4, <1>5

LEMMA MainOnBoard ==
  ASSUME StoreInv, waiter = "out" => QuietInv, PostedInv, MainStep \/ MainReturns
  PROVE  [Board!BoardNext]_(Board!boardVars) /\ PostedInv'
<1>1. UNCHANGED <<mats, analysis, shown, waiter>> /\ ~InStart /\ ~InStart' /\ main # "exited"
  BY DEF MainStep, MainReturns, getFramesLock, getFramesDone, getFrameLock,
         getFrameStack, InStart, channelVars
<1>2. Phase' = Phase
  BY <1>1 DEF Phase, InStart
<1>3. Posted' = Posted /\ \A c \in Channels : mats'[c].upper <= Posted'[c]
  BY <1>1, SameViews DEF PostedInv
<1>4. CASE getFramesLock
  <2>1. got' = got /\ clone' = mats[0]
    BY <1>4 DEF getFramesLock
  <2>2. UNCHANGED Board!boardVars
    BY <1>1, <1>2, <2>1, SameViews DEF Board!boardVars
  <2>3. PostedInv'
    BY <1>3, <2>1 DEF PostedInv, Channels
  <2> QED BY <2>2, <2>3
<1>5. CASE getFramesDone
  <2>1. /\ main = "cloning" /\ clone' = Empty
        /\ got' = [c \in Channels |-> Frame(IF c = 0 THEN clone ELSE mats[c])]
    BY <1>5 DEF getFramesDone
  <2>2. \A c \in Channels : ~Busy(c)
    BY <2>1 DEF StoreInv, LockInv
  <2>3. clone \in Mats /\ Whole(clone) /\ clone.upper <= Posted[0]
    BY DEF StoreInv, StoreTypeOK, MatInv, PostedInv
  <2>4. waiter = "out" => clone = mats[0]
    BY <2>1 DEF QuietInv
  <2>5. Board!BoardNext
    BY <1>1, <1>2, <2>1, <2>2, <2>3, <2>4, TakesFromBoard
  <2>6. PostedInv'
    <3>1. Empty.upper <= Posted'[0]
      BY <1>3, StoreNumbers DEF Empty, Channels
    <3> QED BY <1>3, <2>1, <3>1 DEF PostedInv
  <2> QED BY <2>5, <2>6
<1>6. CASE getFrameStack
  <2>1. main = "stacking" /\ clone' = clone
    BY <1>6 DEF getFrameStack
  <2>2. \A c \in Channels : ~Busy(c)
    BY <2>1 DEF StoreInv, LockInv
  <2>3. PostedInv'
    BY <1>3, <2>1 DEF PostedInv
  <2>4. CASE got' = [c \in Channels |-> Frame(mats[c])]
    <3>1. got' = [c \in Channels |-> Frame(IF c = 0 THEN mats[0] ELSE mats[c])]
      BY <2>4
    <3>2. mats[0] \in Mats /\ Whole(mats[0]) /\ mats[0].upper <= Posted[0]
      BY <2>2, StoreNumbers DEF StoreInv, MatInv, Busy, PostedInv, Channels
    <3>3. Board!BoardNext
      BY <1>1, <1>2, <2>2, <3>1, <3>2, TakesFromBoard
    <3> QED BY <2>3, <3>3
  <2>5. CASE got' = got
    BY <1>1, <1>2, <1>3, <2>3, <2>5, SameViews DEF Board!boardVars
  <2> QED BY <1>6, <2>4, <2>5 DEF getFrameStack
<1>7. CASE getFrameLock \/ MainReturns
  <2>1. got' = got /\ clone' = clone
    BY <1>7 DEF getFrameLock, MainReturns
  <2> QED BY <1>1, <1>2, <2>1, SameViews, StutterOnBoard
<1> QED BY <1>4, <1>5, <1>6, <1>7 DEF MainStep

LEMMA WaitOnBoard ==
  ASSUME StoreInv, PostedInv, Wait
  PROVE  [Board!BoardNext]_(Board!boardVars) /\ PostedInv'
<1>1. UNCHANGED <<analysis, shown, got, clone, main>> /\ waiter' # "out"
  BY DEF Wait, WaitReplaces, WaitDraws, WaitLocks, WaitResizes, WaitUnlocks, channelVars, mainVars
<1>2. Phase' = "disturbed"
  BY <1>1 DEF Phase
<1>3. CASE WaitReplaces(1, "out", "blank0") \/ WaitReplaces(0, "blank0", "text1")
  <2>1. PICK c \in Channels : Replace(c)
    BY <1>3 DEF WaitReplaces, Channels
  <2>2. (\E gone \in SUBSET Board!Channels : Board!Remove(gone)) /\ PostedInv'
    BY <1>1, <2>1, ReplaceOnBoard
  <2>3. Phase # "starting"
    BY <1>3 DEF WaitReplaces, StartHasReturned, Phase
  <2>4. Board!Disturb
    BY <1>1, <1>2, <2>2, <2>3, SameViews DEF Board!Disturb
  <2> QED BY <2>2, <2>4 DEF Board!BoardNext
<1>4. CASE \/ WaitLocks \/ WaitUnlocks
           \/ WaitDraws(1, "text1", "text0") \/ WaitDraws(0, "text0", "looping")
           \/ WaitResizes(0, "resize0", "resize1") \/ WaitResizes(1, "resize1", "stack")
  <2>1. waiter # "out"
    BY <1>4 DEF WaitLocks, WaitUnlocks, WaitDraws, WaitResizes
  <2>2. Phase' = Phase
    BY <1>2, <2>1 DEF Phase
  <2>3. CASE WaitLocks \/ WaitUnlocks
    <3>1. UNCHANGED mats
      BY <2>3 DEF WaitLocks, WaitUnlocks
    <3> QED BY <1>1, <2>2, <3>1, SameViews, StutterOnBoard
  <2>4. CASE WaitResizes(0, "resize0", "resize1") \/ WaitResizes(1, "resize1", "stack")
    <3>1. PICK c \in Channels : mats' = [mats EXCEPT ![c].size = "540"]
      BY <2>4 DEF WaitResizes, Channels
    <3>2. \A d \in Channels : mats'[d].upper = mats[d].upper
      <4>1. mats \in [Channels -> Mats] /\ mats[c] \in Mats
        BY DEF StoreInv, StoreTypeOK
      <4>2. mats' = [mats EXCEPT ![c] = [mats[c] EXCEPT !.size = "540"]]
        BY <3>1, <4>1
      <4>3. mats'[c] = [size |-> "540", upper |-> mats[c].upper,
                   lower |-> mats[c].lower, text |-> mats[c].text]
        BY <4>1, <4>2 DEF Mats
      <4> QED BY <4>1, <4>2, <4>3
    <3>3. Newest' = Newest
      BY <3>2 DEF Newest
    <3> QED BY <1>1, <2>2, <3>3, SameViews, StutterOnBoard
  <2>5. CASE WaitDraws(1, "text1", "text0") \/ WaitDraws(0, "text0", "looping")
    <3>1. PICK c \in Channels : mats' = mats \/ mats' = [mats EXCEPT ![c].text = "some"]
      BY <2>5 DEF WaitDraws, Channels
    <3>2. mats \in [Channels -> Mats]
      BY DEF StoreInv, StoreTypeOK
    <3>3. \A d \in Channels : mats'[d].upper = mats[d].upper
      BY <3>1, <3>2, DrawnOver
    <3>4. Newest' = Newest
      BY <3>3 DEF Newest
    <3> QED BY <1>1, <2>2, <3>4, SameViews, StutterOnBoard
  <2> QED BY <1>4, <2>3, <2>4, <2>5
<1> QED BY <1>3, <1>4 DEF Wait

LEMMA StoreStepOnBoard ==
  ASSUME StoreInv, waiter = "out" => QuietInv, PostedInv, [StoreNext]_storeVars
  PROVE  [Board!BoardNext]_(Board!boardVars) /\ PostedInv'
<1>1. CASE signal_handle \/ UNCHANGED storeVars
  <2>1. UNCHANGED <<analysis, shown, mats, got, clone, main, waiter>>
    BY <1>1 DEF signal_handle, storeVars, channelVars, mainVars
  <2> QED BY <2>1, SameViews, StutterOnBoard
<1> QED BY <1>1, AnalysisOnBoard, StartOnBoard, MainOnBoard, WaitOnBoard DEF StoreNext

(* The store implements the board, for any number of pictures and every      *)
(* configuration: each step of a thread is a step of the board, or none.     *)
THEOREM StoreImplementsBoard == StoreSpec => StoreIsBoard
<1>1. StoreInit => Board!BoardInit /\ PostedInv
  BY DEF StoreInit, Board!BoardInit, Board!Channels, PostedInv, Posted, Newest, Taken,
         Phase, Empty, Frame, Whole, Channels
<1>2. StoreInv /\ (waiter = "out" => QuietInv) /\ PostedInv /\ [StoreNext]_storeVars
        => [Board!BoardNext]_(Board!boardVars) /\ PostedInv'
  BY StoreStepOnBoard
<1> QED BY <1>1, <1>2, StoreInvAlways, QuietInvAlways, PTL
        DEF StoreSpec, StoreIsBoard, Board!BoardSpec

=============================================================================
